---------------------------- MODULE ProxyProofs ----------------------------
(***************************************************************************)
(* Proofs about Proxy.tla, for any number of processes, requests, values   *)
(* and surrogates.                                                         *)
(***************************************************************************)
EXTENDS Proxy, SequenceTheorems, TLAPS

----------------------------------------------------------------------------
(* The type invariant. *)

\* The leaf a walk has come to carries a value.
LEMMA LeafIsReal ==
    ASSUME NEW q \in Requests, NEW x \in ReqType, Len(x.out) < Len(Carries[q])
    PROVE  /\ Leaf(q, x) \in Reals
           /\ Candidates[Leaf(q, x)] \in Seq(Surrs \cup Reals)
<1>1. Carries[q] \in Seq(Reals)
  BY ProxyAssumption
<1>2. x.out \in Seq(Outputs)
  BY DEF ReqType
<1>3. Len(x.out) + 1 \in 1..Len(Carries[q])
  BY <1>1, <1>2
<1>4. Leaf(q, x) \in Reals
  BY <1>1, <1>3 DEF Leaf
<1> QED
  BY <1>4, ProxyAssumption

\* What an action does to the handler of one request.
LEMMA OneRequest ==
    ASSUME TypeOK, NEW q \in Requests, NEW y,
           req' = [req EXCEPT ![q] = y], RequestOK(q, y)
    PROVE  /\ req' \in [Requests -> ReqType]
           /\ \A q2 \in Requests : RequestOK(q2, req[q2])'
<1>1. req \in [Requests -> ReqType] /\ y \in ReqType
  BY DEF TypeOK, RequestOK
<1>2. \A q2 \in Requests : req'[q2] = IF q2 = q THEN y ELSE req[q2]
  BY <1>1
<1>3. \A q2 \in Requests : RequestOK(q2, req'[q2])
  BY <1>2 DEF TypeOK
<1> QED
  BY <1>1, <1>2, <1>3 DEF RequestOK, Leaf

\* A move of the handler that touches nothing it remembers of the walk.
LEMMA Move ==
    ASSUME NEW q \in Requests, NEW x, RequestOK(q, x), NEW at,
           \/ at \in {"refused", "done", "dead", "send", "await", "version", "view",
                      "restore", "walk"}
           \/ x.at \in Walking \ {"walk"} /\ at \in {"decide", "name"}
           \/ x.at \in {"ask", "wait"} /\ at \in {"wait", "store"}
           \/ x.at = "walk" /\ Len(x.out) < Len(Carries[q]) /\ at = "decide"
    PROVE  RequestOK(q, [x EXCEPT !.at = at])
  BY DEF RequestOK, ReqType, Walking, Ended, Leaf

\* A move with the name the leaf will go out under.
LEMMA MoveWith ==
    ASSUME NEW q \in Requests, NEW x, RequestOK(q, x), x.at \in Walking \ {"walk"},
           NEW at \in {"ask", "store"}, NEW o \in Outputs
    PROVE  RequestOK(q, [x EXCEPT !.at = at, !.named = o])
<1>1. o # NONE
  BY ProxyAssumption DEF Outputs
<1> QED
  BY <1>1 DEF RequestOK, ReqType, Walking, Ended, Leaf

\* The handler with another candidate to try.
LEMMA NextAttempt ==
    ASSUME NEW x \in ReqType, NEW y, y = [x EXCEPT !.attempt = x.attempt + 1]
    PROVE  /\ y \in ReqType /\ y.attempt = x.attempt + 1
           /\ y.at = x.at /\ y.out = x.out /\ y.named = x.named
<1> DEFINE n == x.attempt + 1
<1>1. n \in Nat
  BY DEF ReqType
<1>2. y = [x EXCEPT !.attempt = n]
  OBVIOUS
<1> HIDE DEF n
<1>3. y \in ReqType /\ y.attempt = n
  BY <1>1, <1>2 DEF ReqType
<1>4. y.at = x.at /\ y.out = x.out /\ y.named = x.named
  BY <1>2 DEF ReqType
<1> QED
  BY <1>3, <1>4 DEF n

\* A leaf that goes out.
LEMMA Emit ==
    ASSUME NEW q \in Requests, NEW x, RequestOK(q, x), Len(x.out) < Len(Carries[q]),
           NEW o \in Outputs
    PROVE  /\ RequestOK(q, [x EXCEPT !.at = "walk", !.named = NONE, !.out = Append(@, o)])
           /\ x.at = "walk" => RequestOK(q, [x EXCEPT !.out = Append(@, o)])
<1>1. x.out \in Seq(Outputs) /\ Append(x.out, o) \in Seq(Outputs)
      /\ Len(Append(x.out, o)) = Len(x.out) + 1
  BY DEF RequestOK, ReqType
<1>2. Len(x.out) + 1 <= Len(Carries[q])
  BY <1>1, ProxyAssumption DEF RequestOK
<1>3. RequestOK(q, [x EXCEPT !.at = "walk", !.named = NONE, !.out = Append(@, o)])
  BY <1>1, <1>2 DEF RequestOK, ReqType, Walking
<1>4. x.at = "walk" => RequestOK(q, [x EXCEPT !.out = Append(@, o)])
  BY <1>1, <1>2 DEF RequestOK, ReqType, Walking
<1> QED
  BY <1>3, <1>4

\* The vault keeps its type when a value is named.
LEMMA NamedMappingOK ==
    ASSUME MappingOK, NEW r \in Reals, NEW s \in Surrs, Name(r, s) \/ Rename(r, s)
    PROVE  MappingOK'
  BY DEF MappingOK, Views, Name, Rename

\* A cache that loses entries keeps the others as they were.
LEMMA EvictedEntries ==
    ASSUME NEW d, NEW r, NEW c \in Evicted(d, r)
    PROVE  c = [y \in Reals |-> c[y]] /\ \A y \in Reals : c[y] \in {d[y], NONE}
<1>1. PICK K : c = [y \in Reals |-> IF y \in K THEN d[y] ELSE NONE]
  BY DEF Evicted
<1> QED
  BY <1>1

LEMMA EvictedType ==
    ASSUME NEW d \in [Reals -> Outputs \cup {NONE}], NEW r, NEW c \in Evicted(d, r)
    PROVE  c \in [Reals -> Outputs \cup {NONE}]
<1>1. c = [y \in Reals |-> c[y]] /\ \A y \in Reals : c[y] \in {d[y], NONE}
  BY EvictedEntries
<1> QED
  BY <1>1

\* The handler's own steps.
LEMMA ServeKeepsTypes ==
    ASSUME TypeOK, NEW q \in Requests, Open(q) \/ Serve(q) \/ Fail(q)
    PROVE  TypeOK'
<1> DEFINE x == req[q]
<1>1. RequestOK(q, x) /\ x \in ReqType /\ req \in [Requests -> ReqType]
      /\ MappingOK /\ ServerOK /\ FilesOK
  BY DEF TypeOK
<1>2. Served[q] \in Procs /\ Carries[q] \in Seq(Reals)
  BY ProxyAssumption
<1>3. MoreLeaves(q) => /\ Value(q) \in Reals
                       /\ Candidates[Value(q)] \in Seq(Surrs \cup Reals)
  BY <1>1, LeafIsReal DEF MoreLeaves, Value
<1>4. x.at \in Walking \ {"walk"} => MoreLeaves(q)
  BY <1>1 DEF RequestOK, MoreLeaves
<1>5. CASE Open(q)
  <2>1. req' = [req EXCEPT ![q] = [x EXCEPT !.at = "walk"]]
    BY <1>1, <1>5 DEF Open, Goto
  <2>2. RequestOK(q, [x EXCEPT !.at = "walk"])
    BY <1>1, Move
  <2>3. MappingOK' /\ ServerOK' /\ FilesOK'
    BY <1>1, <1>5 DEF Open, MappingOK, ServerOK, FilesOK, mapVars
  <2> QED
    BY <2>1, <2>2, <2>3, OneRequest DEF TypeOK
<1>6. CASE CacheHit(q)
  <2> DEFINE o == cache[Served[q]][Value(q)]
  <2>1. o \in Outputs /\ x.at = "walk" /\ Len(x.out) < Len(Carries[q])
    BY <1>1, <1>2, <1>3, <1>6 DEF CacheHit, At, MoreLeaves, ServerOK
  <2>2. req' = [req EXCEPT ![q] = [x EXCEPT !.out = Append(@, o)]]
    BY <1>1, <1>6 DEF CacheHit
  <2>3. RequestOK(q, [x EXCEPT !.out = Append(@, o)])
    BY <1>1, <2>1, Emit
  <2>4. MappingOK' /\ ServerOK' /\ FilesOK'
    BY <1>1, <1>6 DEF CacheHit, MappingOK, ServerOK, FilesOK, mapVars, files
  <2> QED
    BY <2>2, <2>3, <2>4, OneRequest DEF TypeOK
<1>7. CASE Detect(q) \/ DetectFails(q)
  <2>1. PICK at \in {"decide", "refused"} : req' = [req EXCEPT ![q] = [x EXCEPT !.at = at]]
    BY <1>1, <1>7 DEF Detect, DetectFails, Goto
  <2>2. RequestOK(q, [x EXCEPT !.at = at])
    BY <1>1, <1>7, Move DEF Detect, DetectFails, At, MoreLeaves
  <2>3. MappingOK' /\ ServerOK' /\ FilesOK'
    BY <1>1, <1>7 DEF Detect, DetectFails, MappingOK, ServerOK, FilesOK, mapVars, files
  <2> QED
    BY <2>1, <2>2, <2>3, OneRequest DEF TypeOK
<1>8. CASE Decide(q)
  <2>1. x.at = "decide" /\ Value(q) \in Reals
    BY <1>3, <1>4, <1>8 DEF Decide, At, Walking
  <2>2. MappingOK' /\ ServerOK' /\ FilesOK'
    BY <1>1, <1>8 DEF Decide, MappingOK, ServerOK, FilesOK, mapVars, files
  <2>3. CASE Decided(Value(q)) = REVEAL
    <3>1. req' = [req EXCEPT ![q] = [x EXCEPT !.at = "store", !.named = Value(q)]]
      BY <1>1, <1>8, <2>3 DEF Decide, GotoWith
    <3>2. RequestOK(q, [x EXCEPT !.at = "store", !.named = Value(q)])
      BY <1>1, <2>1, MoveWith DEF Walking, Outputs
    <3> QED
      BY <3>1, <3>2, <2>2, OneRequest DEF TypeOK
  <2>4. CASE Decided(Value(q)) # REVEAL
    <3> DEFINE y == [x EXCEPT !.at = "name", !.ruled = Decided(Value(q)) # NONE]
    <3>1. req' = [req EXCEPT ![q] = y]
      BY <1>1, <1>8, <2>4 DEF Decide
    <3>2. (Decided(Value(q)) # NONE) \in BOOLEAN
      OBVIOUS
    <3>3. RequestOK(q, y)
      BY <1>1, <2>1, <3>2 DEF RequestOK, ReqType, Walking, Ended
    <3> QED
      BY <3>1, <3>3, <2>2, OneRequest DEF TypeOK
  <2> QED
    BY <2>3, <2>4
<1>9. CASE Known(q)
  <2> DEFINE o == current[Value(q)]
  <2>1. x.at = "name" /\ Value(q) \in Reals
    BY <1>3, <1>4, <1>9 DEF Known, At, Walking
  <2>2. o \in Outputs
    BY <1>1, <1>9, <2>1 DEF Known, MappingOK, Outputs
  <2>3. req' = [req EXCEPT ![q] = [x EXCEPT !.at = "store", !.named = o]]
    BY <1>1, <1>9 DEF Known, GotoWith
  <2>4. RequestOK(q, [x EXCEPT !.at = "store", !.named = o])
    BY <1>1, <2>1, <2>2, MoveWith DEF Walking
  <2>5. MappingOK' /\ ServerOK' /\ FilesOK'
    BY <1>1, <1>9 DEF Known, MappingOK, ServerOK, FilesOK, mapVars, files
  <2> QED
    BY <2>3, <2>4, <2>5, OneRequest DEF TypeOK
<1>10. CASE Unknown(q)
  <2> DEFINE y == [x EXCEPT !.at = "bind", !.attempt = 1]
  <2>1. x.at = "name" /\ Len(Candidates[Value(q)]) \in Nat
    BY <1>3, <1>4, <1>10 DEF Unknown, At, Walking
  <2>2. req' = [req EXCEPT ![q] = y]
    BY <1>1, <1>10 DEF Unknown
  <2>3. y \in ReqType /\ y.at = "bind" /\ y.attempt = 1 /\ y.out = x.out
    BY <1>1 DEF ReqType, Walking
  <2>4. 1 \in 1..(Len(Candidates[Leaf(q, y)]) + 1)
    <3>1. Leaf(q, y) = Value(q)
      BY <2>3 DEF Value, Leaf
    <3> QED
      BY <2>1, <3>1
  <2>5. RequestOK(q, y)
    BY <1>1, <2>1, <2>3, <2>4 DEF RequestOK, Walking
  <2>6. MappingOK' /\ ServerOK' /\ FilesOK'
    BY <1>1, <1>10 DEF Unknown, MappingOK, ServerOK, FilesOK, mapVars, files
  <2> QED
    BY <2>2, <2>5, <2>6, OneRequest DEF TypeOK
<1>11. CASE BindNew(q)
  <2> DEFINE o == Candidates[Value(q)][x.attempt]
  <2>0. x.at = "bind" /\ x.attempt <= Len(Candidates[Value(q)])
    BY <1>11 DEF BindNew, At
  <2>a. Value(q) \in Reals
    BY <1>3, <1>4, <2>0 DEF Walking
  <2>b. Value(q) = Leaf(q, x)
    BY DEF Value, Leaf
  <2>c. x.attempt \in 1..Len(Candidates[Leaf(q, x)]) + 1
    BY <1>1, <2>0 DEF RequestOK
  <2>d. Len(Candidates[Value(q)]) \in Nat
    BY <1>3, <1>4, <2>0 DEF Walking
  <2>1. x.at = "bind" /\ Value(q) \in Reals /\ x.attempt \in 1..Len(Candidates[Value(q)])
    BY <2>0, <2>a, <2>b, <2>c, <2>d
  <2>2. o \in Surrs
    BY <1>11, <2>1, ProxyAssumption DEF BindNew
  <2>3. req' = [req EXCEPT ![q] = [x EXCEPT !.at = "ask", !.named = o]]
    BY <1>1, <1>11 DEF BindNew, GotoWith
  <2>4. RequestOK(q, [x EXCEPT !.at = "ask", !.named = o])
    BY <1>1, <2>1, <2>2, MoveWith DEF Walking, Outputs
  <2>5. MappingOK'
    BY <1>1, <1>11, <2>1, <2>2, NamedMappingOK DEF BindNew
  <2>6. ServerOK' /\ FilesOK'
    BY <1>1, <1>2, <1>11 DEF BindNew, ServerOK, FilesOK, files
  <2> QED
    BY <2>3, <2>4, <2>5, <2>6, OneRequest DEF TypeOK
<1>12. CASE BindExisting(q)
  <2> DEFINE o == current[Value(q)]
  <2>1. x.at = "bind" /\ Value(q) \in Reals
    BY <1>3, <1>4, <1>12 DEF BindExisting, At, Walking
  <2>2. o \in Outputs
    BY <1>1, <1>12, <2>1 DEF BindExisting, MappingOK, Outputs
  <2>3. req' = [req EXCEPT ![q] = [x EXCEPT !.at = "ask", !.named = o]]
    BY <1>1, <1>12 DEF BindExisting, GotoWith
  <2>4. RequestOK(q, [x EXCEPT !.at = "ask", !.named = o])
    BY <1>1, <2>1, <2>2, MoveWith DEF Walking
  <2>5. MappingOK' /\ ServerOK' /\ FilesOK'
    BY <1>1, <1>12 DEF BindExisting, MappingOK, ServerOK, FilesOK, mapVars, files
  <2> QED
    BY <2>3, <2>4, <2>5, OneRequest DEF TypeOK
<1>13. CASE NextCandidate(q)
  <2> DEFINE y == [x EXCEPT !.attempt = x.attempt + 1]
  <2>1. /\ x.at = "bind" /\ x.attempt <= Len(Candidates[Value(q)])
        /\ Len(Candidates[Value(q)]) \in Nat
    BY <1>3, <1>4, <1>13 DEF NextCandidate, At, Walking
  <2>2. req' = [req EXCEPT ![q] = y]
    BY <1>1, <1>13 DEF NextCandidate
  <2>3. /\ y \in ReqType /\ y.attempt = x.attempt + 1
        /\ y.at = x.at /\ y.out = x.out /\ y.named = x.named
    BY <1>1, NextAttempt
  <2>4. y.attempt \in 1..(Len(Candidates[Leaf(q, y)]) + 1)
    <3> DEFINE k == Len(Candidates[Value(q)])
    <3>1. Leaf(q, y) = Value(q)
      <4> HIDE DEF y
      <4> QED
        BY <1>1, <2>3 DEF Value, Leaf
    <3>2. x.attempt \in Nat
      BY <1>1 DEF ReqType
    <3>3. y.attempt = x.attempt + 1 /\ x.attempt <= k /\ k \in Nat
      BY <2>1, <2>3
    <3> HIDE DEF k, y
    <3>4. y.attempt \in 1..(k + 1)
      BY <3>2, <3>3
    <3> QED
      BY <3>1, <3>4 DEF k
  <2>5. RequestOK(q, y)
    <3> HIDE DEF y
    <3> QED
      BY <1>1, <2>1, <2>3, <2>4 DEF RequestOK, Walking
  <2>6. MappingOK' /\ ServerOK' /\ FilesOK'
    BY <1>1, <1>13 DEF NextCandidate, MappingOK, ServerOK, FilesOK, mapVars, files
  <2> QED
    BY <2>2, <2>5, <2>6, OneRequest DEF TypeOK
<1>14. CASE NoCandidateLeft(q)
  <2>1. x.at = "bind" /\ Value(q) \in Outputs
    BY <1>3, <1>4, <1>14 DEF NoCandidateLeft, At, Walking, Outputs
  <2>2. PICK y \in {[x EXCEPT !.at = "refused"],
                    [x EXCEPT !.at = "store", !.named = Value(q)]} :
              req' = [req EXCEPT ![q] = y]
    BY <1>1, <1>14 DEF NoCandidateLeft, Goto, GotoWith
  <2>3. RequestOK(q, [x EXCEPT !.at = "refused"])
    BY <1>1, Move
  <2>4. RequestOK(q, [x EXCEPT !.at = "store", !.named = Value(q)])
    BY <1>1, <2>1, MoveWith DEF Walking
  <2>5. MappingOK' /\ ServerOK' /\ FilesOK'
    BY <1>1, <1>14 DEF NoCandidateLeft, MappingOK, ServerOK, FilesOK, mapVars, files
  <2> QED
    BY <2>2, <2>3, <2>4, <2>5, OneRequest DEF TypeOK
<1>15. CASE VaultFails(q)
  <2>1. req' = [req EXCEPT ![q] = [x EXCEPT !.at = "refused"]]
    BY <1>1, <1>15 DEF VaultFails, Goto
  <2>2. RequestOK(q, [x EXCEPT !.at = "refused"])
    BY <1>1, Move
  <2>3. MappingOK' /\ ServerOK' /\ FilesOK'
    BY <1>1, <1>15 DEF VaultFails, MappingOK, ServerOK, FilesOK, mapVars, files
  <2> QED
    BY <2>1, <2>2, <2>3, OneRequest DEF TypeOK
<1>16. CASE Ask(q)
  <2>1. x.at = "ask" /\ Value(q) \in Reals
    BY <1>3, <1>4, <1>16 DEF Ask, At, Walking
  <2>2. PICK at \in {"wait", "store"} : req' = [req EXCEPT ![q] = [x EXCEPT !.at = at]]
    BY <1>1, <1>16 DEF Ask, Goto
  <2>3. RequestOK(q, [x EXCEPT !.at = at])
    BY <1>1, <2>1, Move
  <2>4. asked' \subseteq Reals
    BY <1>1, <1>16, <2>1 DEF Ask, FilesOK
  <2>5. vu' \in [Procs -> SUBSET Reals]
    BY <1>1, <1>2, <1>16, <2>1 DEF Ask, ServerOK
  <2>6. MappingOK' /\ ServerOK' /\ FilesOK'
    BY <1>1, <1>16, <2>4, <2>5 DEF Ask, MappingOK, ServerOK, FilesOK, mapVars
  <2> QED
    BY <2>2, <2>3, <2>6, OneRequest DEF TypeOK
<1>17. CASE WaitDecided(q)
  <2> DEFINE o == IF Decided(Value(q)) = REVEAL THEN Value(q) ELSE x.named
  <2>1. x.at = "wait" /\ Value(q) \in Reals
    BY <1>3, <1>4, <1>17 DEF WaitDecided, At, Walking
  <2>2. o \in Outputs
    BY <1>1, <2>1 DEF Outputs, RequestOK, ReqType
  <2>3. req' = [req EXCEPT ![q] = [x EXCEPT !.at = "store", !.named = o]]
    BY <1>1, <1>17 DEF WaitDecided, GotoWith
  <2>4. RequestOK(q, [x EXCEPT !.at = "store", !.named = o])
    BY <1>1, <2>1, <2>2, MoveWith DEF Walking
  <2>5. MappingOK' /\ ServerOK' /\ FilesOK'
    BY <1>1, <1>17 DEF WaitDecided, MappingOK, ServerOK, FilesOK, mapVars, files
  <2> QED
    BY <2>3, <2>4, <2>5, OneRequest DEF TypeOK
<1>18. CASE WaitExpires(q)
  <2>1. x.at = "wait" /\ req' = [req EXCEPT ![q] = [x EXCEPT !.at = "store"]]
    BY <1>1, <1>18 DEF WaitExpires, Goto, At
  <2>2. RequestOK(q, [x EXCEPT !.at = "store"])
    BY <1>1, <2>1, Move
  <2>3. MappingOK' /\ ServerOK' /\ FilesOK'
    BY <1>1, <1>18 DEF WaitExpires, MappingOK, ServerOK, FilesOK, mapVars, files
  <2> QED
    BY <2>1, <2>2, <2>3, OneRequest DEF TypeOK
<1>19. CASE Store(q)
  <2> DEFINE y == [x EXCEPT !.at = "walk", !.named = NONE, !.out = Append(@, x.named)]
  <2>1. /\ x.at = "store" /\ Value(q) \in Reals /\ x.named \in Outputs
        /\ Len(x.out) < Len(Carries[q])
    BY <1>1, <1>3, <1>4, <1>19 DEF Store, At, Walking, MoreLeaves, RequestOK, ReqType
  <2>2. req' = [req EXCEPT ![q] = y]
    BY <1>1, <1>19 DEF Store
  <2>3. RequestOK(q, y)
    BY <1>1, <2>1, Emit
  <2> DEFINE d == [cache[Served[q]] EXCEPT ![Value(q)] = x.named]
  <2>4. d \in [Reals -> Outputs \cup {NONE}]
    BY <1>1, <1>2, <2>1 DEF ServerOK
  <2>5. PICK c \in Evicted(d, Value(q)) : cache' = [cache EXCEPT ![Served[q]] = c]
    BY <1>19 DEF Store
  <2>6. c \in [Reals -> Outputs \cup {NONE}]
    BY <2>4, EvictedType
  <2>7. cache' \in [Procs -> [Reals -> Outputs \cup {NONE}]]
    BY <1>1, <1>2, <2>5, <2>6 DEF ServerOK
  <2>8. MappingOK' /\ ServerOK' /\ FilesOK'
    BY <1>1, <1>19, <2>7 DEF Store, MappingOK, ServerOK, FilesOK, mapVars, files
  <2> QED
    BY <2>2, <2>3, <2>8, OneRequest DEF TypeOK
<1>20. CASE Walked(q) \/ Send(q) \/ Await(q) \/ Restore(q)
  <2>1. PICK at \in {"version", "send", "restore", "await", "done"} :
              req' = [req EXCEPT ![q] = [x EXCEPT !.at = at]]
    BY <1>1, <1>20 DEF Walked, Send, Await, Restore, Goto
  <2>2. RequestOK(q, [x EXCEPT !.at = at])
    BY <1>1, Move
  <2>3. MappingOK' /\ ServerOK' /\ FilesOK'
    BY <1>1, <1>20 DEF Walked, Send, Await, Restore, MappingOK, ServerOK, FilesOK, mapVars, files
  <2> QED
    BY <2>1, <2>2, <2>3, OneRequest DEF TypeOK
<1>21. CASE ReadVersion(q)
  <2>1. memo[Served[q]].view \in Views /\ version[Served[q]] \in Nat
    BY <1>1, <1>2 DEF ServerOK
  <2>2. PICK y \in {[x EXCEPT !.at = AfterView(q), !.view = memo[Served[q]].view],
                    [x EXCEPT !.at = "view", !.version = version[Served[q]]]} :
              req' = [req EXCEPT ![q] = y]
    BY <1>1, <1>21 DEF ReadVersion
  <2>3. RequestOK(q, [x EXCEPT !.at = AfterView(q), !.view = memo[Served[q]].view])
    BY <1>1, <2>1 DEF RequestOK, ReqType, AfterView, Walking, Ended
  <2>4. RequestOK(q, [x EXCEPT !.at = "view", !.version = version[Served[q]]])
    BY <1>1, <2>1 DEF RequestOK, ReqType, Walking, Ended
  <2>5. MappingOK' /\ ServerOK' /\ FilesOK'
    BY <1>1, <1>21 DEF ReadVersion, MappingOK, ServerOK, FilesOK, mapVars, files
  <2> QED
    BY <2>2, <2>3, <2>4, <2>5, OneRequest DEF TypeOK
<1>22. CASE ReadView(q)
  <2> DEFINE y == [x EXCEPT !.at = AfterView(q), !.view = meaning]
  <2>1. meaning \in Views /\ x.version \in Nat
    BY <1>1 DEF MappingOK, RequestOK, ReqType
  <2>2. req' = [req EXCEPT ![q] = y]
    BY <1>1, <1>22 DEF ReadView
  <2>3. RequestOK(q, y)
    BY <1>1, <2>1 DEF RequestOK, ReqType, AfterView, Walking, Ended
  <2>4. memo' \in [Procs -> [version : Nat \cup {NONE}, view : Views]]
    BY <1>1, <1>2, <1>22, <2>1 DEF ReadView, ServerOK
  <2>5. MappingOK' /\ ServerOK' /\ FilesOK'
    BY <1>1, <1>22, <2>4 DEF ReadView, MappingOK, ServerOK, FilesOK, mapVars, files
  <2> QED
    BY <2>2, <2>3, <2>5, OneRequest DEF TypeOK
<1> QED
  BY <1>5, <1>6, <1>7, <1>8, <1>9, <1>10, <1>11, <1>12, <1>13, <1>14, <1>15, <1>16,
     <1>17, <1>18, <1>19, <1>20, <1>21, <1>22 DEF Serve, Fail

\* The operator's steps and the crashes.
LEMMA OperateKeepsTypes ==
    ASSUME TypeOK, Operate
    PROVE  TypeOK'
<1>1. req \in [Requests -> ReqType] /\ MappingOK /\ ServerOK /\ FilesOK
  BY DEF TypeOK
<1>2. ASSUME NEW r \in Reals, NEW d \in Decisions \cup {NONE},
             Rule(r, d) \/ (d \in Decisions /\ AnswerMessage(r, d))
      PROVE  TypeOK'
  <2>1. FilesOK' /\ MappingOK' /\ ServerOK' /\ req' = req
    BY <1>1, <1>2 DEF Rule, AnswerMessage, MappingOK, ServerOK, FilesOK, mapVars, files, server
  <2> QED
    BY <2>1 DEF TypeOK, RequestOK, Leaf
<1>3. ASSUME NEW r \in Reals, NEW s \in Chosen, Substitute(r, s)
      PROVE  TypeOK'
  <2>1. MappingOK'
    BY <1>1, <1>3, ProxyAssumption, NamedMappingOK DEF Substitute
  <2>2. FilesOK' /\ ServerOK' /\ req' = req
    BY <1>1, <1>3 DEF Substitute, ServerOK, FilesOK, files, server
  <2> QED
    BY <2>1, <2>2 DEF TypeOK, RequestOK, Leaf
<1>4. ASSUME NEW p \in Procs, Restart(p)
      PROVE  TypeOK'
  <2>1. \A q \in Requests :
          /\ req'[q] = IF Served[q] = p /\ req[q].at # "new"
                       THEN [req[q] EXCEPT !.at = "dead"] ELSE req[q]
          /\ RequestOK(q, [req[q] EXCEPT !.at = "dead"])
    BY <1>4, Move DEF Restart, TypeOK
  <2>2. \A q \in Requests : RequestOK(q, req'[q])
    BY <2>1 DEF TypeOK
  <2>3. req' \in [Requests -> ReqType]
    BY <1>4, <2>2 DEF Restart, RequestOK
  <2>4. NoView \in Views
    BY DEF NoView, Views
  <2>5. MappingOK' /\ ServerOK' /\ FilesOK'
    BY <1>1, <1>4, <2>4 DEF Restart, MappingOK, ServerOK, FilesOK, mapVars, files
  <2> QED
    BY <2>2, <2>3, <2>5 DEF TypeOK, RequestOK, Leaf
<1> QED
  BY <1>2, <1>3, <1>4 DEF Operate

LEMMA StepKeepsTypes == TypeOK /\ [ProxyNext]_vars => TypeOK'
<1> SUFFICES ASSUME TypeOK, [ProxyNext]_vars PROVE TypeOK'
  OBVIOUS
<1>1. CASE UNCHANGED vars
  BY <1>1 DEF TypeOK, MappingOK, ServerOK, FilesOK, RequestOK, Leaf, vars, mapVars, server,
              files
<1> QED
  BY <1>1, ServeKeepsTypes, OperateKeepsTypes DEF ProxyNext, Quiet

LEMMA InitTypes == ProxyInit => TypeOK
<1> SUFFICES ASSUME ProxyInit PROVE TypeOK
  OBVIOUS
<1>1. NoView \in Views
  BY DEF NoView, Views
<1>2. ReqInit \in ReqType
  BY <1>1 DEF ReqInit, ReqType
<1>3. \A q \in Requests : RequestOK(q, ReqInit)
  BY <1>2, ProxyAssumption DEF RequestOK, ReqInit, Walking
<1> QED
  BY <1>1, <1>2, <1>3 DEF ProxyInit, Init, TypeOK, MappingOK, ServerOK, FilesOK, Views

\* Every variable keeps its type, and the walk stays within its request.
THEOREM TypeCorrect == ProxySpec => []TypeOK
  BY InitTypes, StepKeepsTypes, PTL DEF ProxySpec

----------------------------------------------------------------------------
(* What leaves a walk stands for the value it was found in, and a value    *)
(* leaves in clear only if the policy allowed it.  Neither is inductive    *)
(* alone: an output may come from the cache, from the vault, or from what  *)
(* the handler holds while it waits for a decision.                        *)

\* o is r itself, or a surrogate the vault M gives the meaning r.
Fits(M, r, o) == o = r \/ (o \in Surrs /\ M[o] = r)

\* r may go out as o, when g is what has been revealable.
Allowed(g, r, o) == o = r => NothingToHide(r) \/ r \in g

OutSound(M, g, q, x) ==
    \A i \in 1..Len(x.out) :
        /\ Fits(M, Carries[q][i], x.out[i])
        /\ x.at # "dead" => Allowed(g, Carries[q][i], x.out[i])

NamedSound(M, g, q, x) ==
    /\ x.at \in {"ask", "wait", "store"} => Fits(M, Leaf(q, x), x.named)
    /\ x.at \in {"ask", "wait"} => x.named # Leaf(q, x)
    /\ x.at = "store" => Allowed(g, Leaf(q, x), x.named)

RequestSound(M, g, q, x) == OutSound(M, g, q, x) /\ NamedSound(M, g, q, x)

CurrentSound(M, c) == \A r \in Reals : c[r] # NONE => c[r] # r /\ M[c[r]] = r

CacheSound(M, g, c) ==
    \A r \in Reals : c[r] # NONE => Fits(M, r, c[r]) /\ Allowed(g, r, c[r])

IInv ==
    /\ TypeOK
    /\ granted \in [Procs \cup Requests -> SUBSET Reals]
    /\ CurrentSound(meaning, current)
    /\ \A p \in Procs : CacheSound(meaning, granted[p], cache[p])
    /\ \A p \in Procs : Revealable(answer, rule) \subseteq granted[p]
    /\ \A q \in Requests : RequestSound(meaning, granted[Served[q]], q, req[q])

\* A meaning once given stays.
Grows(M, N) == \A s \in Surrs : M[s] # NONE => N[s] = M[s]

LEMMA NamingGrows ==
    ASSUME MappingOK, CurrentSound(meaning, current), NEW r \in Reals, NEW s \in Surrs,
           s # r, Name(r, s) \/ Rename(r, s)
    PROVE  /\ Grows(meaning, meaning')
           /\ CurrentSound(meaning', current')
           /\ meaning'[s] = r
<1>1. meaning' = [meaning EXCEPT ![s] = r] /\ current' = [current EXCEPT ![r] = s]
      /\ meaning[s] = NONE
  BY DEF Name, Rename, Free
<1>2. Grows(meaning, meaning') /\ meaning'[s] = r
  BY <1>1 DEF Grows, MappingOK, Views
<1>3. ASSUME NEW r2 \in Reals, current'[r2] # NONE
      PROVE  current'[r2] # r2 /\ meaning'[current'[r2]] = r2
  <2>1. CASE r2 = r
    BY <1>1, <1>2, <2>1 DEF MappingOK
  <2>2. CASE r2 # r
    <3>1. current'[r2] = current[r2] /\ current[r2] \in Surrs
      BY <1>1, <1>3, <2>2 DEF MappingOK
    <3>2. meaning[current[r2]] = r2 /\ current[r2] # r2 /\ r2 # NONE
      BY <1>3, <3>1, ProxyAssumption DEF CurrentSound
    <3> QED
      BY <1>2, <3>1, <3>2 DEF Grows
  <2> QED
    BY <2>1, <2>2
<1> QED
  BY <1>2, <1>3 DEF CurrentSound

\* What fits goes on fitting, and what was allowed goes on being allowed.
LEMMA RequestGrows ==
    ASSUME NEW q \in Requests, NEW x, RequestOK(q, x), NEW M, NEW N, NEW g, NEW h,
           RequestSound(M, g, q, x), Grows(M, N), g \subseteq h
    PROVE  RequestSound(N, h, q, x)
<1>1. ASSUME NEW r \in Reals, NEW o, Fits(M, r, o)
      PROVE  Fits(N, r, o)
  BY <1>1, ProxyAssumption DEF Fits, Grows
<1>2. ASSUME NEW r, NEW o, Allowed(g, r, o)
      PROVE  Allowed(h, r, o)
  BY <1>2 DEF Allowed
<1>3. x.out \in Seq(Outputs) /\ Carries[q] \in Seq(Reals) /\ Len(x.out) <= Len(Carries[q])
  BY ProxyAssumption DEF RequestOK, ReqType
<1>4. \A i \in 1..Len(x.out) : Carries[q][i] \in Reals
  BY <1>3
<1>5. OutSound(N, h, q, x)
  BY <1>1, <1>2, <1>4 DEF RequestSound, OutSound
<1>6. x.at \in {"ask", "wait", "store"} => Leaf(q, x) \in Reals
  BY LeafIsReal DEF RequestOK, Walking
<1> QED
  BY <1>1, <1>2, <1>5, <1>6 DEF RequestSound, NamedSound

LEMMA CacheGrows ==
    ASSUME NEW M, NEW N, NEW g, NEW h, NEW c, CacheSound(M, g, c), Grows(M, N), g \subseteq h
    PROVE  CacheSound(N, h, c)
  BY ProxyAssumption DEF CacheSound, Fits, Allowed, Grows

\* The step of one handler that keeps its leaves as they are.
LEMMA SameLeaves ==
    ASSUME NEW q \in Requests, NEW x, NEW y, NEW M, NEW g, RequestSound(M, g, q, x),
           y.out = x.out, x.at # "dead", NamedSound(M, g, q, y)
    PROVE  RequestSound(M, g, q, y)
  BY DEF RequestSound, OutSound

\* A step that neither names nor waits.
LEMMA PlainMove ==
    ASSUME NEW q \in Requests, NEW x, NEW y, NEW M, NEW g, RequestSound(M, g, q, x),
           y.out = x.out, x.at # "dead", y.at \notin {"ask", "wait", "store"}
    PROVE  RequestSound(M, g, q, y)
  BY SameLeaves DEF NamedSound

\* A leaf that goes out.
LEMMA EmitSound ==
    ASSUME NEW q \in Requests, NEW x, RequestOK(q, x), NEW y, NEW M, NEW g, NEW o \in Outputs,
           RequestSound(M, g, q, x), x.at # "dead", y.at = "walk",
           y.out = Append(x.out, o), Fits(M, Leaf(q, x), o), Allowed(g, Leaf(q, x), o)
    PROVE  RequestSound(M, g, q, y)
<1>1. x.out \in Seq(Outputs)
  BY DEF RequestOK, ReqType
<1>2. ASSUME NEW i \in 1..Len(y.out)
      PROVE  Fits(M, Carries[q][i], y.out[i]) /\ Allowed(g, Carries[q][i], y.out[i])
  <2>1. CASE i = Len(x.out) + 1
    BY <1>1, <2>1 DEF Leaf
  <2>2. CASE i # Len(x.out) + 1
    BY <1>1, <1>2, <2>2 DEF RequestSound, OutSound
  <2> QED
    BY <2>1, <2>2
<1> QED
  BY <1>2 DEF RequestSound, OutSound, NamedSound

\* When one handler moves and nothing it shares does, the invariant rests on
\* its own state alone.
LEMMA OneSound ==
    ASSUME IInv, TypeOK', NEW q \in Requests, NEW y, req' = [req EXCEPT ![q] = y],
           UNCHANGED <<meaning, current, cache, rule, answer, granted>>,
           RequestSound(meaning, granted[Served[q]], q, y)
    PROVE  IInv'
<1>1. \A q2 \in Requests : req'[q2] = IF q2 = q THEN y ELSE req[q2]
  BY DEF IInv, TypeOK
<1>2. \A q2 \in Requests : RequestSound(meaning, granted[Served[q2]], q2, req'[q2])
  BY <1>1 DEF IInv
<1>3. /\ CurrentSound(meaning', current')
      /\ \A p \in Procs : CacheSound(meaning', granted'[p], cache'[p])
      /\ granted' \in [Procs \cup Requests -> SUBSET Reals]
  BY DEF IInv
<1>4. \A q2 \in Requests : RequestSound(meaning', granted'[Served[q2]], q2, req'[q2])
  BY <1>2
<1>5. \A p \in Procs : Revealable(answer', rule') \subseteq granted'[p]
  BY DEF IInv, Revealable
<1> QED
  BY <1>3, <1>4, <1>5 DEF IInv

\* The handler's own steps, but for the two that change what others rely on.
LEMMA ServeKeepsSound ==
    ASSUME IInv, TypeOK', NEW q \in Requests, Serve(q) \/ Fail(q)
    PROVE  IInv'
<1> DEFINE x == req[q]
           p == Served[q]
           r == Value(q)
           Kept(y) == req' = [req EXCEPT ![q] = y]
           Sound(y) == RequestSound(meaning, granted[p], q, y)
<1>1. /\ RequestOK(q, x) /\ x \in ReqType /\ req \in [Requests -> ReqType] /\ Sound(x)
      /\ MappingOK /\ ServerOK /\ FilesOK
  BY DEF IInv, TypeOK
<1>2. p \in Procs /\ Carries[q] \in Seq(Reals)
  BY ProxyAssumption
<1>3. r = Leaf(q, x) /\ (MoreLeaves(q) => r \in Reals)
  BY <1>1, LeafIsReal DEF MoreLeaves, Value
<1>4. x.at \in Walking \ {"walk"} => MoreLeaves(q)
  BY <1>1 DEF RequestOK, MoreLeaves
<1>5. \A k \in Reals : Decided(k) = REVEAL => k \in granted[p]
  BY <1>2 DEF IInv, Decided, Revealable
<1>6. CASE CacheHit(q)
  <2> DEFINE o == cache[p][r]
             y == [x EXCEPT !.out = Append(@, o)]
  <2>1. x.at = "walk" /\ r \in Reals /\ o # NONE /\ o \in Outputs
    BY <1>1, <1>2, <1>3, <1>6 DEF CacheHit, At, ServerOK
  <2>2. Fits(meaning, r, o) /\ Allowed(granted[p], r, o)
    BY <1>2, <2>1 DEF IInv, CacheSound
  <2>3. x.out \in Seq(Outputs) /\ y.at = "walk" /\ y.out = Append(x.out, o)
    BY <1>1, <2>1 DEF ReqType
  <2>4. Sound(y)
    <3>1. Fits(meaning, Leaf(q, x), o) /\ Allowed(granted[p], Leaf(q, x), o) /\ x.at # "dead"
      BY <1>3, <2>1, <2>2
    <3> HIDE DEF y, o, x
    <3> QED
      BY <1>1, <2>1, <2>3, <3>1, EmitSound
  <2>5. Kept(y) /\ UNCHANGED <<meaning, current, cache, rule, answer, granted>>
    BY <1>1, <1>6 DEF CacheHit, mapVars, files, history
  <2> QED
    BY <2>4, <2>5, OneSound
<1>7. CASE Detect(q) \/ DetectFails(q) \/ VaultFails(q)
  <2>1. PICK at \in {"decide", "refused"} : Kept([x EXCEPT !.at = at])
    BY <1>1, <1>7 DEF Detect, DetectFails, VaultFails, Goto
  <2>2. x.at # "dead"
    BY <1>7 DEF Detect, DetectFails, VaultFails, At
  <2>3. Sound([x EXCEPT !.at = at])
    BY <1>1, <2>2, PlainMove DEF ReqType
  <2>4. UNCHANGED <<meaning, current, cache, rule, answer, granted>>
    BY <1>7 DEF Detect, DetectFails, VaultFails, mapVars, files, history
  <2> QED
    BY <2>1, <2>3, <2>4, OneSound
<1>8. CASE Decide(q)
  <2>1. x.at = "decide" /\ r \in Reals
    BY <1>3, <1>4, <1>8 DEF Decide, At, Walking
  <2>2. UNCHANGED <<meaning, current, cache, rule, answer, granted>>
    BY <1>8 DEF Decide, mapVars, files, history
  <2>3. CASE Decided(r) = REVEAL
    <3> DEFINE y == [x EXCEPT !.at = "store", !.named = r]
    <3>1. Kept(y)
      BY <1>1, <1>8, <2>3 DEF Decide, GotoWith
    <3>2. y.out = x.out /\ y.at = "store" /\ y.named = r
      BY <1>1 DEF ReqType
    <3>3. NamedSound(meaning, granted[p], q, y)
      BY <1>3, <1>5, <2>1, <2>3, <3>2 DEF NamedSound, Leaf, Fits, Allowed
    <3> QED
      BY <1>1, <2>1, <2>2, <3>1, <3>2, <3>3, SameLeaves, OneSound
  <2>4. CASE Decided(r) # REVEAL
    <3> DEFINE y == [x EXCEPT !.at = "name", !.ruled = Decided(r) # NONE]
    <3>1. Kept(y)
      BY <1>1, <1>8, <2>4 DEF Decide
    <3>2. y.out = x.out /\ y.at = "name"
      BY <1>1 DEF ReqType
    <3> QED
      BY <1>1, <2>1, <2>2, <3>1, <3>2, PlainMove, OneSound
  <2> QED
    BY <2>3, <2>4
<1>9. CASE Known(q)
  <2> DEFINE o == current[r]
             y == [x EXCEPT !.at = "store", !.named = o]
  <2>1. x.at = "name" /\ r \in Reals /\ o # NONE
    BY <1>3, <1>4, <1>9 DEF Known, At, Walking
  <2>2. o \in Surrs /\ o # r /\ meaning[o] = r
    BY <1>1, <2>1 DEF IInv, CurrentSound, MappingOK
  <2>3. y.out = x.out /\ y.at = "store" /\ y.named = o
    BY <1>1 DEF ReqType
  <2>4. NamedSound(meaning, granted[p], q, y)
    BY <1>3, <2>2, <2>3 DEF NamedSound, Leaf, Fits, Allowed
  <2>5. Kept(y) /\ UNCHANGED <<meaning, current, cache, rule, answer, granted>>
    BY <1>1, <1>9 DEF Known, GotoWith, mapVars, files, history
  <2> QED
    BY <1>1, <2>1, <2>3, <2>4, <2>5, SameLeaves, OneSound
<1>10. CASE Unknown(q) \/ NextCandidate(q)
  <2>1. PICK k : Kept([x EXCEPT !.at = "bind", !.attempt = k])
    <3>1. CASE Unknown(q)
      BY <1>1, <3>1 DEF Unknown
    <3>2. CASE NextCandidate(q)
      <4>1. req' = [req EXCEPT ![q] = [x EXCEPT !.attempt = x.attempt + 1]]
        BY <1>1, <3>2 DEF NextCandidate
      <4>2. x.at = "bind" /\ x = [x EXCEPT !.at = "bind"]
        BY <1>1, <3>2 DEF NextCandidate, At, ReqType
      <4> QED
        BY <4>1, <4>2
    <3> QED
      BY <1>10, <3>1, <3>2
  <2>2. x.at # "dead"
    BY <1>10 DEF Unknown, NextCandidate, At
  <2> DEFINE y == [x EXCEPT !.at = "bind", !.attempt = k]
  <2>3. y.out = x.out /\ y.at = "bind"
    BY <1>1 DEF ReqType
  <2>4. UNCHANGED <<meaning, current, cache, rule, answer, granted>>
    BY <1>10 DEF Unknown, NextCandidate, mapVars, files, history
  <2> QED
    BY <1>1, <2>1, <2>2, <2>3, <2>4, PlainMove, OneSound
<1>11. CASE BindNew(q)
  <2> DEFINE o == Candidates[r][x.attempt]
             y == [x EXCEPT !.at = "ask", !.named = o]
  <2>1. x.at = "bind" /\ r \in Reals /\ o # r /\ x.attempt \in 1..Len(Candidates[r])
    BY <1>1, <1>3, <1>4, <1>11 DEF BindNew, At, Walking, RequestOK
  <2>2. o \in Surrs /\ Name(r, o)
    BY <1>11, <2>1, ProxyAssumption DEF BindNew
  <2>3. Grows(meaning, meaning') /\ CurrentSound(meaning', current') /\ meaning'[o] = r
    BY <1>1, <2>1, <2>2, NamingGrows DEF IInv
  <2>4. y.out = x.out /\ y.at = "ask" /\ y.named = o
    BY <1>1 DEF ReqType
  <2>5. Kept(y) /\ UNCHANGED <<cache, rule, answer, granted>>
    BY <1>1, <1>11 DEF BindNew, GotoWith, files, history
  <2>6. RequestSound(meaning', granted[p], q, x)
    BY <1>1, <2>3, RequestGrows
  <2>7. RequestSound(meaning', granted[p], q, y)
    <3>1. NamedSound(meaning', granted[p], q, y)
      BY <1>3, <2>1, <2>2, <2>3, <2>4 DEF NamedSound, Leaf, Fits
    <3>2. x.at # "dead"
      BY <2>1
    <3> HIDE DEF y, x, o
    <3> QED
      BY <2>4, <2>6, <3>1, <3>2, SameLeaves
  <2>8. \A q2 \in Requests : RequestSound(meaning', granted[Served[q2]], q2, req'[q2])
    <3> SUFFICES ASSUME NEW q2 \in Requests
                 PROVE  RequestSound(meaning', granted[Served[q2]], q2, req'[q2])
      OBVIOUS
    <3>1. CASE q2 = q
      BY <1>1, <2>5, <2>7, <3>1
    <3>2. CASE q2 # q
      <4>1. req'[q2] = req[q2]
        BY <1>1, <2>5, <3>2
      <4>2. RequestOK(q2, req[q2]) /\ RequestSound(meaning, granted[Served[q2]], q2, req[q2])
        BY DEF IInv, TypeOK
      <4> QED
        BY <2>3, <4>1, <4>2, RequestGrows
    <3> QED
      BY <3>1, <3>2
  <2>9. \A p2 \in Procs : CacheSound(meaning', granted[p2], cache[p2])
    BY <2>3, CacheGrows DEF IInv
  <2> QED
    BY <2>3, <2>5, <2>8, <2>9 DEF IInv, Revealable, Decision
<1>12. CASE BindExisting(q)
  <2> DEFINE o == current[r]
             y == [x EXCEPT !.at = "ask", !.named = o]
  <2>1. x.at = "bind" /\ r \in Reals /\ o # NONE
    BY <1>3, <1>4, <1>12 DEF BindExisting, At, Walking
  <2>2. o \in Surrs /\ o # r /\ meaning[o] = r
    BY <1>1, <2>1 DEF IInv, CurrentSound, MappingOK
  <2>3. y.out = x.out /\ y.at = "ask" /\ y.named = o
    BY <1>1 DEF ReqType
  <2>4. NamedSound(meaning, granted[p], q, y)
    BY <1>3, <2>2, <2>3 DEF NamedSound, Leaf, Fits
  <2>5. Kept(y) /\ UNCHANGED <<meaning, current, cache, rule, answer, granted>>
    BY <1>1, <1>12 DEF BindExisting, GotoWith, mapVars, files, history
  <2> QED
    BY <1>1, <2>1, <2>3, <2>4, <2>5, SameLeaves, OneSound
<1>13. CASE NoCandidateLeft(q)
  <2>1. x.at = "bind" /\ r \in Reals
    BY <1>3, <1>4, <1>13 DEF NoCandidateLeft, At, Walking
  <2>2. UNCHANGED <<meaning, current, cache, rule, answer, granted>>
    BY <1>13 DEF NoCandidateLeft, mapVars, files, history
  <2>3. CASE NothingToHide(r)
    <3> DEFINE y == [x EXCEPT !.at = "store", !.named = r]
    <3>1. Kept(y)
      BY <1>1, <1>13, <2>3 DEF NoCandidateLeft, GotoWith
    <3>2. y.out = x.out /\ y.at = "store" /\ y.named = r
      BY <1>1 DEF ReqType
    <3>3. NamedSound(meaning, granted[p], q, y)
      BY <1>3, <2>3, <3>2 DEF NamedSound, Leaf, Fits, Allowed
    <3> QED
      BY <1>1, <2>1, <2>2, <3>1, <3>2, <3>3, SameLeaves, OneSound
  <2>4. CASE ~NothingToHide(r)
    <3> DEFINE y == [x EXCEPT !.at = "refused"]
    <3>1. Kept(y)
      BY <1>1, <1>13, <2>4 DEF NoCandidateLeft, Goto
    <3>2. y.out = x.out /\ y.at = "refused"
      BY <1>1 DEF ReqType
    <3> QED
      BY <1>1, <2>1, <2>2, <3>1, <3>2, PlainMove, OneSound
  <2> QED
    BY <2>3, <2>4
<1>14. CASE Ask(q) \/ WaitExpires(q)
  <2>1. PICK at \in {"wait", "store"} : Kept([x EXCEPT !.at = at])
    BY <1>1, <1>14 DEF Ask, WaitExpires, Goto
  <2>2. x.at \in {"ask", "wait"}
    BY <1>14 DEF Ask, WaitExpires, At
  <2> DEFINE y == [x EXCEPT !.at = at]
  <2>3. y.out = x.out /\ y.at = at /\ y.named = x.named
    BY <1>1 DEF ReqType
  <2>4. NamedSound(meaning, granted[p], q, y)
    BY <1>1, <2>2, <2>3 DEF RequestSound, NamedSound, Leaf, Allowed
  <2>5. UNCHANGED <<meaning, current, cache, rule, answer, granted>>
    BY <1>14 DEF Ask, WaitExpires, mapVars, files, history
  <2> QED
    BY <1>1, <2>1, <2>2, <2>3, <2>4, <2>5, SameLeaves, OneSound
<1>15. CASE WaitDecided(q)
  <2> DEFINE o == IF Decided(r) = REVEAL THEN r ELSE x.named
             y == [x EXCEPT !.at = "store", !.named = o]
  <2>1. x.at = "wait" /\ r \in Reals
    BY <1>3, <1>4, <1>15 DEF WaitDecided, At, Walking
  <2>2. y.out = x.out /\ y.at = "store" /\ y.named = o
    BY <1>1 DEF ReqType
  <2>3. NamedSound(meaning, granted[p], q, y)
    <3>1. Leaf(q, y) = r
      BY <1>3, <2>2 DEF Leaf
    <3>2. CASE Decided(r) = REVEAL
      BY <1>5, <2>1, <2>2, <3>1, <3>2 DEF NamedSound, Fits, Allowed
    <3>3. CASE Decided(r) # REVEAL
      BY <1>1, <1>3, <2>1, <2>2, <3>1, <3>3 DEF RequestSound, NamedSound, Allowed
    <3> QED
      BY <3>2, <3>3
  <2>4. Kept(y) /\ UNCHANGED <<meaning, current, cache, rule, answer, granted>>
    BY <1>1, <1>15 DEF WaitDecided, GotoWith, mapVars, files, history
  <2> QED
    BY <1>1, <2>1, <2>2, <2>3, <2>4, SameLeaves, OneSound
<1>16. CASE Store(q)
  <2> DEFINE o == x.named
             y == [x EXCEPT !.at = "walk", !.named = NONE, !.out = Append(@, x.named)]
             d == [cache[p] EXCEPT ![r] = o]
  <2>1. x.at = "store" /\ r \in Reals /\ o \in Outputs
    BY <1>1, <1>3, <1>4, <1>16 DEF Store, At, Walking, RequestOK, ReqType
  <2>2. Fits(meaning, Leaf(q, x), o) /\ Allowed(granted[p], Leaf(q, x), o)
    BY <1>1, <2>1 DEF RequestSound, NamedSound
  <2>3. y.at = "walk" /\ y.out = Append(x.out, o)
    BY <1>1 DEF ReqType
  <2>4. Sound(y)
    <3>1. x.at # "dead"
      BY <2>1
    <3> HIDE DEF y, o, x
    <3> QED
      BY <1>1, <2>1, <2>2, <2>3, <3>1, EmitSound
  <2>5. Kept(y) /\ UNCHANGED <<meaning, current, rule, answer, granted>>
    BY <1>1, <1>16 DEF Store, mapVars, files, history
  <2>6. PICK c \in Evicted(d, r) : cache' = [cache EXCEPT ![p] = c]
    BY <1>16 DEF Store
  <2>7. cache[p] \in [Reals -> Outputs \cup {NONE}] /\ CacheSound(meaning, granted[p], cache[p])
    BY <1>1, <1>2 DEF IInv, ServerOK
  <2>8. CacheSound(meaning, granted[p], d)
    BY <1>3, <2>1, <2>2, <2>7 DEF CacheSound
  <2>9. CacheSound(meaning, granted[p], c)
    <3>1. \A k \in Reals : c[k] \in {d[k], NONE}
      BY <2>6, EvictedEntries
    <3> HIDE DEF d
    <3> QED
      BY <2>8, <3>1 DEF CacheSound
  <2>10. \A p2 \in Procs : CacheSound(meaning, granted[p2], cache'[p2])
    BY <1>1, <1>2, <2>6, <2>9 DEF IInv, ServerOK
  <2>11. \A q2 \in Requests : RequestSound(meaning, granted[Served[q2]], q2, req'[q2])
    <3> SUFFICES ASSUME NEW q2 \in Requests
                 PROVE  RequestSound(meaning, granted[Served[q2]], q2, req'[q2])
      OBVIOUS
    <3>1. req'[q2] = IF q2 = q THEN y ELSE req[q2]
      BY <1>1, <2>5
    <3> HIDE DEF y
    <3> QED
      BY <2>4, <3>1 DEF IInv
  <2> QED
    BY <2>5, <2>10, <2>11 DEF IInv, Revealable, Decision
<1>17. CASE Walked(q) \/ Send(q) \/ Await(q) \/ Restore(q)
  <2>1. PICK at \in {"version", "send", "restore", "await", "done"} :
              Kept([x EXCEPT !.at = at])
    BY <1>1, <1>17 DEF Walked, Send, Await, Restore, Goto
  <2>2. x.at # "dead"
    BY <1>17 DEF Walked, Send, Await, Restore, At
  <2>3. Sound([x EXCEPT !.at = at])
    BY <1>1, <2>2, PlainMove DEF ReqType
  <2>4. UNCHANGED <<meaning, current, cache, rule, answer, granted>>
    BY <1>17 DEF Walked, Send, Await, Restore, mapVars, files, history
  <2> QED
    BY <2>1, <2>3, <2>4, OneSound
<1>18. CASE ReadVersion(q) \/ ReadView(q)
  <2> DEFINE read == [x EXCEPT !.at = AfterView(q), !.view = memo[p].view]
             look == [x EXCEPT !.at = "view", !.version = version[p]]
             view == [x EXCEPT !.at = AfterView(q), !.view = meaning]
  <2>1. PICK y \in {read, look, view} : Kept(y)
    BY <1>1, <1>18 DEF ReadVersion, ReadView
  <2>2. x.at # "dead"
    BY <1>18 DEF ReadVersion, ReadView, At
  <2>3. y.out = x.out /\ y.at \notin {"ask", "wait", "store"}
    BY <1>1, <2>1 DEF ReqType, AfterView
  <2>4. UNCHANGED <<meaning, current, cache, rule, answer, granted>>
    BY <1>18 DEF ReadVersion, ReadView, mapVars, files, history
  <2> QED
    BY <1>1, <2>1, <2>2, <2>3, <2>4, PlainMove, OneSound
<1> QED
  BY <1>6, <1>7, <1>8, <1>9, <1>10, <1>11, <1>12, <1>13, <1>14, <1>15, <1>16, <1>17, <1>18
     DEF Serve, Fail

\* The steps that move the files, and with them what has been revealable.
LEMMA FilesKeepSound ==
    ASSUME IInv, TypeOK',
           meaning' = meaning, current' = current, cache' = cache,
           granted' \in [Procs \cup Requests -> SUBSET Reals],
           \A p \in Procs : granted'[p] = granted[p] \cup Revealable(answer', rule'),
           \A q \in Requests :
              req'[q] = req[q] \/ (req'[q].at = "walk" /\ req'[q].out = <<>>)
    PROVE  IInv'
<1>1. Grows(meaning, meaning)
  BY DEF Grows
<1>2. \A p \in Procs : CacheSound(meaning, granted'[p], cache[p])
  BY <1>1, CacheGrows DEF IInv
<1>3. \A p \in Procs : Revealable(answer, rule)' \subseteq granted'[p]
  BY DEF Revealable, Decision
<1>4. ASSUME NEW q \in Requests
      PROVE  RequestSound(meaning, granted'[Served[q]], q, req'[q])
  <2>1. Served[q] \in Procs /\ RequestOK(q, req[q])
    BY ProxyAssumption DEF IInv, TypeOK
  <2>2. CASE req'[q] = req[q]
    <3>1. RequestSound(meaning, granted[Served[q]], q, req[q])
      BY DEF IInv
    <3>2. granted[Served[q]] \subseteq granted'[Served[q]]
      BY <2>1
    <3> QED
      BY <1>1, <2>1, <2>2, <3>1, <3>2, RequestGrows
  <2>3. CASE req'[q].at = "walk" /\ req'[q].out = <<>>
    BY <2>3 DEF RequestSound, OutSound, NamedSound
  <2> QED
    BY <2>2, <2>3
<1> QED
  BY <1>2, <1>3, <1>4 DEF IInv

LEMMA PermitGrants ==
    ASSUME NEW a, NEW ru, NEW opening, Permit(a, ru, opening),
           granted \in [Procs \cup Requests -> SUBSET Reals]
    PROVE  /\ granted' \in [Procs \cup Requests -> SUBSET Reals]
           /\ \A p \in Procs : granted'[p] = granted[p] \cup Revealable(a, ru)
<1>1. Revealable(a, ru) \subseteq Reals
  BY DEF Revealable
<1> QED
  BY <1>1 DEF Permit

LEMMA OpenKeepsSound ==
    ASSUME IInv, TypeOK', NEW q \in Requests, Open(q)
    PROVE  IInv'
<1>1. /\ granted' \in [Procs \cup Requests -> SUBSET Reals]
      /\ \A p \in Procs : granted'[p] = granted[p] \cup Revealable(answer', rule)
  BY PermitGrants DEF IInv, Open
<1>2. meaning' = meaning /\ current' = current /\ cache' = cache /\ rule' = rule
  BY DEF Open, mapVars
<1>3. ASSUME NEW q2 \in Requests
      PROVE  req'[q2] = req[q2] \/ (req'[q2].at = "walk" /\ req'[q2].out = <<>>)
  <2>1. req \in [Requests -> ReqType] /\ req[q] \in ReqType
    BY DEF IInv, TypeOK
  <2>2. req[q].out = <<>> /\ req' = [req EXCEPT ![q].at = "walk"]
    BY DEF Open, At, Goto, IInv, TypeOK, RequestOK
  <2> QED
    BY <2>1, <2>2 DEF ReqType
<1>4. \A p \in Procs : granted'[p] = granted[p] \cup Revealable(answer', rule')
  BY <1>1, <1>2
<1> QED
  BY <1>1, <1>2, <1>3, <1>4, FilesKeepSound

LEMMA OperateKeepsSound ==
    ASSUME IInv, TypeOK', Operate
    PROVE  IInv'
<1>1. ASSUME NEW r \in Reals, NEW d, Rule(r, d) \/ AnswerMessage(r, d)
      PROVE  IInv'
  <2>1. /\ meaning' = meaning /\ current' = current /\ cache' = cache /\ req' = req
        /\ Permit(answer', rule', {})
    BY <1>1 DEF Rule, AnswerMessage, mapVars, server
  <2>2. /\ granted' \in [Procs \cup Requests -> SUBSET Reals]
        /\ \A p \in Procs : granted'[p] = granted[p] \cup Revealable(answer', rule')
    BY <2>1, PermitGrants DEF IInv
  <2> QED
    BY <2>1, <2>2, FilesKeepSound
<1>2. ASSUME NEW r \in Reals, NEW s \in Chosen, Substitute(r, s)
      PROVE  IInv'
  <2>1. s \in Surrs /\ s # r
    BY ProxyAssumption, ChoiceAssumption
  <2>2. MappingOK /\ CurrentSound(meaning, current)
    BY DEF IInv, TypeOK
  <2>3. Grows(meaning, meaning') /\ CurrentSound(meaning', current')
    BY <1>2, <2>1, <2>2, NamingGrows DEF Substitute
  <2>4. UNCHANGED <<req, cache, rule, answer, granted>>
    BY <1>2 DEF Substitute, server, files
  <2>5. \A p \in Procs : CacheSound(meaning', granted[p], cache[p])
    BY <2>3, CacheGrows DEF IInv
  <2>6. \A q \in Requests : RequestSound(meaning', granted[Served[q]], q, req[q])
    BY <2>3, RequestGrows DEF IInv, TypeOK
  <2> QED
    BY <2>3, <2>4, <2>5, <2>6 DEF IInv, Revealable, Decision
<1>3. ASSUME NEW p \in Procs, Restart(p)
      PROVE  IInv'
  <2>1. /\ UNCHANGED <<meaning, current, rule, answer>>
        /\ cache' = [cache EXCEPT ![p] = [r \in Reals |-> NONE]]
        /\ granted' = [granted EXCEPT ![p] = Revealable(answer, rule)]
    BY <1>3 DEF Restart, mapVars, files
  <2>2. /\ granted \in [Procs \cup Requests -> SUBSET Reals]
        /\ cache \in [Procs -> [Reals -> Outputs \cup {NONE}]]
        /\ Revealable(answer, rule) \subseteq Reals
    BY DEF IInv, TypeOK, ServerOK, Revealable
  <2>3. granted' \in [Procs \cup Requests -> SUBSET Reals]
    BY <2>1, <2>2
  <2>4. \A p2 \in Procs : CacheSound(meaning, granted'[p2], cache'[p2])
    BY <2>1, <2>2 DEF IInv, CacheSound
  <2>5. \A p2 \in Procs : Revealable(answer, rule) \subseteq granted'[p2]
    BY <2>1, <2>2 DEF IInv
  <2>6. ASSUME NEW q \in Requests
        PROVE  RequestSound(meaning, granted'[Served[q]], q, req'[q])
    <3>1. /\ req[q] \in ReqType /\ RequestOK(q, req[q]) /\ Served[q] \in Procs
          /\ RequestSound(meaning, granted[Served[q]], q, req[q])
      BY ProxyAssumption DEF IInv, TypeOK
    <3>2. CASE Served[q] # p
      <4>1. req'[q] = req[q] /\ granted'[Served[q]] = granted[Served[q]]
        BY <1>3, <2>1, <2>2, <3>1, <3>2 DEF Restart
      <4> QED
        BY <3>1, <4>1
    <3>3. CASE Served[q] = p /\ req[q].at = "new"
      <4>1. req'[q] = req[q] /\ req[q].out = <<>>
        BY <1>3, <3>1, <3>3 DEF Restart, RequestOK
      <4> QED
        BY <3>3, <4>1 DEF RequestSound, OutSound, NamedSound
    <3>4. CASE Served[q] = p /\ req[q].at # "new"
      <4>1. req'[q] = [req[q] EXCEPT !.at = "dead"]
        BY <1>3, <3>4 DEF Restart
      <4>2. req'[q].at = "dead" /\ req'[q].out = req[q].out
        BY <3>1, <4>1 DEF ReqType
      <4> QED
        BY <3>1, <4>2 DEF RequestSound, OutSound, NamedSound
    <3> QED
      BY <3>2, <3>3, <3>4
  <2> QED
    BY <2>1, <2>3, <2>4, <2>5, <2>6 DEF IInv, Revealable, Decision
<1> QED
  BY <1>1, <1>2, <1>3 DEF Operate

LEMMA StepKeepsSound == IInv /\ [ProxyNext]_vars => IInv'
<1> SUFFICES ASSUME IInv, [ProxyNext]_vars PROVE IInv'
  OBVIOUS
<1>1. TypeOK'
  BY StepKeepsTypes DEF IInv
<1>2. CASE UNCHANGED vars
  BY <1>1, <1>2 DEF IInv, vars, mapVars, server, files, history, Revealable, Decision
<1> QED
  BY <1>1, <1>2, ServeKeepsSound, OpenKeepsSound, OperateKeepsSound DEF ProxyNext, Quiet

LEMMA InitSound == ProxyInit => IInv
<1> SUFFICES ASSUME ProxyInit PROVE IInv
  OBVIOUS
<1>1. TypeOK
  BY InitTypes
<1>2. Revealable(answer, rule) = {}
  BY ProxyAssumption DEF ProxyInit, Revealable, Decision
<1>3. \A q \in Requests : RequestSound(meaning, granted[Served[q]], q, req[q])
  BY DEF ProxyInit, ReqInit, RequestSound, OutSound, NamedSound
<1>4. CurrentSound(meaning, current) /\ \A p \in Procs : CacheSound(meaning, granted[p], cache[p])
  BY DEF ProxyInit, Init, CurrentSound, CacheSound
<1> QED
  BY <1>1, <1>2, <1>3, <1>4 DEF IInv, ProxyInit

LEMMA Invariance == ProxySpec => []IInv
  BY InitSound, StepKeepsSound, PTL DEF ProxySpec

\* What leaves under another name is restored by the vault to the value it was
\* found in.
THEOREM RestorableByTheVault == ProxySpec => []SentHasItsMeaning
<1>1. IInv => SentHasItsMeaning
  BY DEF IInv, SentHasItsMeaning, Pairs, RequestSound, OutSound, Fits
<1> QED
  BY <1>1, Invariance, PTL

\* No value leaves in clear that the policy did not allow since the process
\* started.
THEOREM ClearOnlyIfPermitted == ProxySpec => []NoClearWithoutPermission
<1>1. IInv => NoClearWithoutPermission
  BY DEF IInv, NoClearWithoutPermission, Pairs, RequestSound, OutSound, Allowed
<1> QED
  BY <1>1, Invariance, PTL

----------------------------------------------------------------------------
(* A process alone on its vault, whose operator chooses no substitute: the *)
(* view it restores with is as recent as what it sent.                     *)

Alone == Chosen = {} /\ NONE \notin Nat /\ \A p, p2 \in Procs : p = p2

\* What is memoized under the version of today is the vault of today.
MemoTrue ==
    \A p \in Procs :
        memo[p].version # NONE =>
            /\ memo[p].version <= version[p]
            /\ memo[p].version = version[p] => memo[p].view = meaning

\* What a handler that has its view restores with it, when x is its state.
Restores(q, x) ==
    \A i \in 1..Len(x.out) : x.out[i] # Carries[q][i] => x.view[x.out[i]] = Carries[q][i]
Viewed(q, x) == x.at = "restore" \/ (x.at = "send" /\ q \in Streamed)

\* x is the state of the handler of q, when its process is at version v.
ViewTrue(q, x, v) ==
    /\ x.at = "view" => x.version <= v
    /\ Viewed(q, x) => Restores(q, x)

ViewsTrue == MemoTrue /\ \A q \in Requests : ViewTrue(q, req[q], version[Served[q]])

\* A step that has nothing to do with views.
LEMMA AsideView ==
    ASSUME TypeOK, ViewsTrue, UNCHANGED <<meaning, version, memo>>,
           \A q \in Requests :
              \/ req'[q] = req[q]
              \/ /\ req'[q].at \notin {"view", "restore"}
                 /\ req'[q].at = "send" => q \notin Streamed
    PROVE  ViewsTrue'
<1>1. MemoTrue'
  BY DEF ViewsTrue, MemoTrue
<1>2. ASSUME NEW q \in Requests PROVE ViewTrue(q, req'[q], version'[Served[q]])
  <2>1. CASE req'[q] = req[q]
    BY <2>1 DEF ViewsTrue
  <2>2. CASE /\ req'[q].at \notin {"view", "restore"}
             /\ req'[q].at = "send" => q \notin Streamed
    BY <2>2 DEF ViewTrue, Viewed
  <2> QED
    BY <2>1, <2>2
<1> QED
  BY <1>1, <1>2 DEF ViewsTrue

\* A step of one handler that changes neither the vault nor the memo.
LEMMA OneView ==
    ASSUME TypeOK, ViewsTrue, UNCHANGED <<meaning, version, memo>>,
           NEW q \in Requests, NEW y, req' = [req EXCEPT ![q] = y],
           ViewTrue(q, y, version[Served[q]])
    PROVE  ViewsTrue'
<1>1. MemoTrue' /\ version' = version
  BY DEF ViewsTrue, MemoTrue
<1>2. \A q2 \in Requests : req'[q2] = IF q2 = q THEN y ELSE req[q2]
  BY DEF TypeOK
<1> QED
  BY <1>1, <1>2 DEF ViewsTrue

LEMMA ServeKeepsViews ==
    ASSUME Alone, IInv, ViewsTrue, NEW q \in Requests, Open(q) \/ Serve(q) \/ Fail(q)
    PROVE  ViewsTrue'
<1> DEFINE x == req[q]
           p == Served[q]
<1>1. /\ req \in [Requests -> ReqType] /\ x \in ReqType /\ p \in Procs
      /\ version \in [Procs -> Nat] /\ TypeOK
      /\ memo \in [Procs -> [version : Nat \cup {NONE}, view : Views]]
  BY ProxyAssumption DEF IInv, TypeOK, ServerOK
<1>2. CASE \/ Open(q) \/ Fail(q)
           \/ CacheHit(q) \/ Detect(q) \/ Decide(q) \/ Known(q) \/ Unknown(q)
           \/ BindExisting(q) \/ NextCandidate(q) \/ NoCandidateLeft(q)
           \/ Ask(q) \/ WaitDecided(q) \/ WaitExpires(q) \/ Store(q)
           \/ Walked(q) \/ Await(q) \/ Restore(q)
  <2>1. UNCHANGED <<meaning, version, memo>>
    BY <1>2 DEF Open, Fail, DetectFails, VaultFails, CacheHit, Detect, Decide, Known, Unknown,
                BindExisting, NextCandidate, NoCandidateLeft, Ask, WaitDecided, WaitExpires,
                Store, Walked, Await, Restore, mapVars
  <2>2. \A q2 \in Requests : q2 # q => req'[q2] = req[q2]
    BY <1>1, <1>2
       DEF Open, Fail, DetectFails, VaultFails, CacheHit, Detect, Decide, Known, Unknown,
           BindExisting, NextCandidate, NoCandidateLeft, Ask, WaitDecided, WaitExpires,
           Store, Walked, Await, Restore, Goto, GotoWith
  <2>3. /\ req'[q].at \notin {"view", "restore"}
        /\ req'[q].at = "send" => q \notin Streamed
    <3>1. CASE Open(q) \/ Fail(q) \/ Detect(q) \/ Walked(q) \/ Await(q) \/ Restore(q)
      BY <1>1, <3>1 DEF Open, Fail, DetectFails, VaultFails, Detect, Walked, Await, Restore,
                        Goto, ReqType
    <3>2. CASE CacheHit(q)
      BY <1>1, <3>2 DEF CacheHit, At, ReqType
    <3>3. CASE Decide(q)
      <4>1. CASE Decided(Value(q)) = REVEAL
        BY <1>1, <3>3, <4>1 DEF Decide, GotoWith, ReqType
      <4>2. CASE Decided(Value(q)) # REVEAL
        BY <1>1, <3>3, <4>2 DEF Decide, ReqType
      <4> QED
        BY <4>1, <4>2
    <3>4. CASE Known(q) \/ Unknown(q)
      BY <1>1, <3>4 DEF Known, Unknown, GotoWith, ReqType
    <3>5. CASE Store(q)
      <4>1. req' = [req EXCEPT ![q].at = "walk", ![q].named = NONE,
                               ![q].out = Append(req[q].out, req[q].named)]
        BY <3>5 DEF Store
      <4> QED
        BY <1>1, <4>1 DEF ReqType
    <3>6. CASE BindExisting(q)
      BY <1>1, <3>6 DEF BindExisting, GotoWith, ReqType
    <3>7. CASE NextCandidate(q)
      BY <1>1, <3>7 DEF NextCandidate, At, ReqType
    <3>8. CASE NoCandidateLeft(q)
      <4>1. req' = [req EXCEPT ![q].at = "store", ![q].named = Value(q)]
            \/ req' = [req EXCEPT ![q].at = "refused"]
        BY <3>8 DEF NoCandidateLeft, Goto, GotoWith
      <4> QED
        BY <1>1, <4>1 DEF ReqType
    <3>9. CASE Ask(q) \/ WaitDecided(q) \/ WaitExpires(q)
      BY <1>1, <3>9 DEF Ask, WaitDecided, WaitExpires, Goto, GotoWith, ReqType
    <3> QED
      BY <1>2, <3>1, <3>2, <3>3, <3>4, <3>5, <3>6, <3>7, <3>8, <3>9
  <2> QED
    BY <1>1, <2>1, <2>2, <2>3, AsideView
<1>3. CASE BindNew(q)
  <2>1. memo' = memo /\ version' = [version EXCEPT ![p] = version[p] + 1]
    BY <1>3 DEF BindNew
  <2>2. ASSUME NEW p2 \in Procs PROVE version'[p2] = version[p2] + 1 /\ version[p2] \in Nat
    BY <1>1, <2>1 DEF Alone
  <2>3. MemoTrue'
    <3> SUFFICES ASSUME NEW p2 \in Procs, memo[p2].version # NONE
                 PROVE  memo[p2].version < version'[p2]
      BY <2>1, <2>2, <1>1 DEF MemoTrue
    <3>1. memo[p2].version \in Nat /\ memo[p2].version <= version[p2]
      BY <1>1 DEF ViewsTrue, MemoTrue
    <3> QED
      BY <2>2, <3>1
  <2>4. req' = [req EXCEPT ![q].at = "ask", ![q].named = Candidates[Value(q)][req[q].attempt]]
    BY <1>3 DEF BindNew, GotoWith
  <2>5. req'[q].at = "ask" /\ \A q2 \in Requests : q2 # q => req'[q2] = req[q2]
    BY <1>1, <2>4 DEF ReqType
  <2>6. ASSUME NEW q2 \in Requests PROVE ViewTrue(q2, req'[q2], version'[Served[q2]])
    <3>1. CASE q2 = q
      BY <2>5, <3>1 DEF ViewTrue, Viewed
    <3>2. CASE q2 # q
      <4>1. /\ ViewTrue(q2, req[q2], version[Served[q2]]) /\ req'[q2] = req[q2]
            /\ Served[q2] \in Procs /\ req[q2].version \in Nat
        BY <1>1, <2>5, <3>2, ProxyAssumption DEF ViewsTrue, ReqType
      <4>2. /\ version'[Served[q2]] = version[Served[q2]] + 1
            /\ version[Served[q2]] \in Nat
        BY <2>2, <4>1
      <4> QED
        BY <4>1, <4>2 DEF ViewTrue
    <3> QED
      BY <3>1, <3>2
  <2> QED
    BY <2>3, <2>6 DEF ViewsTrue
<1>4. CASE Send(q)
  <2> DEFINE y == [x EXCEPT !.at = IF q \in Streamed THEN "restore" ELSE "await"]
  <2>1. UNCHANGED <<meaning, version, memo>> /\ req' = [req EXCEPT ![q] = y] /\ x.at = "send"
    BY <1>1, <1>4 DEF Send, Goto, At, mapVars
  <2>2. y.out = x.out /\ y.view = x.view /\ y.at = IF q \in Streamed THEN "restore" ELSE "await"
    BY <1>1 DEF ReqType
  <2> HIDE DEF y
  <2>3. ViewTrue(q, y, version[p])
    BY <2>1, <2>2 DEF ViewsTrue, ViewTrue, Viewed, Restores
  <2> QED
    BY <1>1, <2>1, <2>3, OneView
<1>5. Restores(q, [x EXCEPT !.at = AfterView(q), !.view = meaning])
  <2> DEFINE y == [x EXCEPT !.at = AfterView(q), !.view = meaning]
  <2>1. y.out = x.out /\ y.view = meaning
    BY <1>1 DEF ReqType
  <2>2. RequestSound(meaning, granted[p], q, x)
    BY DEF IInv
  <2> HIDE DEF y
  <2>3. Restores(q, y)
    BY <2>1, <2>2 DEF Restores, RequestSound, OutSound, Fits
  <2> QED
    BY <2>3 DEF y
<1>6. AfterView(q) \in {"send", "restore"}
  BY DEF AfterView
<1>7. CASE ReadVersion(q)
  <2>1. UNCHANGED <<meaning, version, memo>>
    BY <1>7 DEF ReadVersion, mapVars
  <2>2. CASE memo[p].version = version[p]
    <3> DEFINE y == [x EXCEPT !.at = AfterView(q), !.view = meaning]
    <3>1. memo[p].view = meaning
      BY <1>1, <2>2 DEF ViewsTrue, MemoTrue, Alone
    <3>2. req' = [req EXCEPT ![q] = y]
      BY <1>1, <1>7, <2>2, <3>1 DEF ReadVersion
    <3>3. y.at = AfterView(q)
      BY <1>1 DEF ReqType
    <3>4. Restores(q, y)
      BY <1>5
    <3> HIDE DEF y
    <3>5. ViewTrue(q, y, version[p])
      BY <1>6, <3>3, <3>4 DEF ViewTrue
    <3> QED
      BY <1>1, <2>1, <3>2, <3>5, OneView
  <2>3. CASE memo[p].version # version[p]
    <3> DEFINE y == [x EXCEPT !.at = "view", !.version = version[p]]
    <3>1. req' = [req EXCEPT ![q] = y]
      BY <1>1, <1>7, <2>3 DEF ReadVersion
    <3>2. y.at = "view" /\ y.version = version[p] /\ version[p] \in Nat
      BY <1>1 DEF ReqType
    <3> HIDE DEF y
    <3>3. ViewTrue(q, y, version[p])
      BY <3>2 DEF ViewTrue, Viewed
    <3> QED
      BY <1>1, <2>1, <3>1, <3>3, OneView
  <2> QED
    BY <2>2, <2>3
<1>8. CASE ReadView(q)
  <2> DEFINE y == [x EXCEPT !.at = AfterView(q), !.view = meaning]
             m == [version |-> x.version, view |-> meaning]
  <2>1. /\ meaning' = meaning /\ version' = version /\ memo' = [memo EXCEPT ![p] = m]
        /\ x.at = "view"
    BY <1>8 DEF ReadView, At, mapVars
  <2>2. req' = [req EXCEPT ![q] = y]
    BY <1>1, <1>8 DEF ReadView
  <2>3. y.at = AfterView(q)
    BY <1>1 DEF ReqType
  <2>4. Restores(q, y)
    BY <1>5
  <2>5. m.view = meaning /\ m.version <= version[p]
    BY <2>1 DEF ViewsTrue, ViewTrue
  <2> HIDE DEF y, m
  <2>6. MemoTrue'
    BY <1>1, <2>1, <2>5 DEF ViewsTrue, MemoTrue
  <2>7. ViewTrue(q, y, version[p])
    BY <1>6, <2>3, <2>4 DEF ViewTrue
  <2>8. \A q2 \in Requests : req'[q2] = IF q2 = q THEN y ELSE req[q2]
    BY <1>1, <2>2
  <2> QED
    BY <2>1, <2>6, <2>7, <2>8 DEF ViewsTrue
<1> QED
  BY <1>2, <1>3, <1>4, <1>7, <1>8 DEF Serve

LEMMA OperateKeepsViews ==
    ASSUME Alone, IInv, ViewsTrue, Operate
    PROVE  ViewsTrue'
<1>1. /\ req \in [Requests -> ReqType] /\ TypeOK
      /\ memo \in [Procs -> [version : Nat \cup {NONE}, view : Views]]
  BY DEF IInv, TypeOK, ServerOK
<1>2. ASSUME NEW r \in Reals, NEW d, Rule(r, d) \/ AnswerMessage(r, d)
      PROVE  ViewsTrue'
  BY <1>1, <1>2, AsideView DEF Rule, AnswerMessage, mapVars, server
<1>3. ASSUME NEW p \in Procs, Restart(p) PROVE ViewsTrue'
  <2>1. memo' = [memo EXCEPT ![p] = [version |-> NONE, view |-> NoView]]
    BY <1>3 DEF Restart
  <2>2. \A p2 \in Procs : memo'[p2].version = NONE
    BY <1>1, <2>1 DEF Alone
  <2>3. ASSUME NEW q \in Requests PROVE req'[q].at \in {"new", "dead"}
    <3>1. req'[q] = IF Served[q] = p /\ req[q].at # "new"
                    THEN [req[q] EXCEPT !.at = "dead"] ELSE req[q]
      BY <1>3 DEF Restart
    <3>2. Served[q] = p /\ req[q] \in ReqType
      BY <1>1, ProxyAssumption DEF Alone
    <3> QED
      BY <3>1, <3>2 DEF ReqType
  <2>4. MemoTrue'
    BY <2>2 DEF MemoTrue
  <2> QED
    BY <2>3, <2>4 DEF ViewsTrue, ViewTrue, Viewed
<1> QED
  BY <1>2, <1>3 DEF Operate, Alone

\* A process alone on its vault restores whatever it sent: the memo is not read
\* under a version it does not have (incoming, ProxyState).
THEOREM AloneRestores == Alone => (ProxySpec => []OwnRestorable)
<1> SUFFICES ASSUME Alone PROVE ProxySpec => []OwnRestorable
  OBVIOUS
<1>1. ProxyInit => ViewsTrue
  BY DEF ProxyInit, ReqInit, ViewsTrue, MemoTrue, ViewTrue, Viewed
<1>2. IInv /\ ViewsTrue /\ [ProxyNext]_vars => ViewsTrue'
  <2> SUFFICES ASSUME IInv, ViewsTrue, [ProxyNext]_vars PROVE ViewsTrue'
    OBVIOUS
  <2>1. CASE UNCHANGED vars
    BY <2>1 DEF vars, mapVars, server, ViewsTrue, MemoTrue
  <2> QED
    BY <2>1, ServeKeepsViews, OperateKeepsViews DEF ProxyNext, Quiet
<1>3. IInv /\ ViewsTrue => OwnRestorable
  <2> SUFFICES ASSUME IInv, ViewsTrue, NEW q \in sent, req[q].at = "restore",
                      NEW x \in Pairs(q), x[2] # x[1]
               PROVE  req[q].view[x[2]] = x[1]
    BY DEF OwnRestorable
  <2>1. q \in Requests
    BY DEF IInv, TypeOK, ServerOK
  <2>2. Restores(q, req[q])
    BY <2>1 DEF ViewsTrue, ViewTrue, Viewed
  <2> QED
    BY <2>2 DEF Pairs, Restores
<1> QED
  BY <1>1, <1>2, <1>3, Invariance, PTL DEF ProxySpec
=============================================================================
