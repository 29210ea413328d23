---------------------------- MODULE PolicyProofs ----------------------------
(***************************************************************************)
(* Proofs about Policy.tla, for any number of layers, granularities,       *)
(* values, threads and writers.                                            *)
(***************************************************************************)
EXTENDS Policy, Integers, WellFoundedInduction, TLAPS

----------------------------------------------------------------------------
(* What decide makes of what it read. *)

\* A set of positions in a sequence has a last one.
LEMMA LastOne ==
    ASSUME NEW n \in Nat, NEW S \in SUBSET (1..n), S # {}
    PROVE  \E m \in S : \A k \in S : m >= k
<1> DEFINE R == {ss \in Nat \X Nat : ss[1] < ss[2]}
           T == {n - k : k \in S}
<1>1. IsWellFoundedOn(R, Nat)
  BY NatLessThanWellFounded DEF OpToRel
<1>2. T \subseteq Nat /\ T # {}
  <2>1. PICK k \in S : TRUE
    OBVIOUS
  <2>2. n - k \in T
    BY <2>1
  <2> QED
    BY <2>2
<1> HIDE DEF R
<1>3. PICK x \in T : \A y \in T : ~(<<y, x>> \in R)
  BY <1>1, <1>2, WFMin
<1>4. \A y \in T : ~(y < x)
  BY <1>2, <1>3 DEF R
<1>5. PICK m \in S : x = n - m
  BY <1>3
<1>6. ASSUME NEW k \in S PROVE m >= k
  <2>1. n - k \in T
    OBVIOUS
  <2>2. ~(n - k < n - m)
    BY <1>4, <1>5, <2>1
  <2> QED
    BY <2>2
<1> QED
  BY <1>6

LEMMA PositionsOfGranularites == Len(Granularites) \in Nat
                                 /\ DOMAIN Granularites = 1..Len(Granularites)
  BY PolicyAssumption

LEMMA KeyOfValue ==
    ASSUME NEW v \in Values, NEW g \in DOMAIN Granularites
    PROVE  Cle[v][g] \in Keys
  BY DEF Keys

\* A value that is covered has a winning rule.
LEMMA WinnerCovers ==
    ASSUME NEW L, NEW v \in Values, Covering(L, v) # {}
    PROVE  Winner(L, v) \in Covering(L, v)
<1> DEFINE C == Covering(L, v)
           G == {x[1] : x \in C}
<1>1. C \subseteq (DOMAIN Granularites) \X Layers
  BY DEF Covering
<1>2. G # {} /\ G \in SUBSET (1..Len(Granularites))
  BY <1>1, PositionsOfGranularites
<1>3. PICK g \in G : \A h \in G : g >= h
  BY <1>2, PositionsOfGranularites, LastOne
<1> DEFINE M == {y \in Layers : <<g, y>> \in C}
<1>4. M # {} /\ M \in SUBSET (1..Len(Portees)) /\ Len(Portees) \in Nat
  <2>1. PICK x \in C : x[1] = g
    BY <1>3
  <2>2. x = <<g, x[2]>> /\ x[2] \in Layers
    BY <1>1, <2>1
  <2>3. x[2] \in M
    BY <2>1, <2>2
  <2>4. Len(Portees) \in Nat
    BY PolicyAssumption
  <2>5. M \in SUBSET (1..Len(Portees))
    BY DEF Layers
  <2> QED
    BY <2>3, <2>4, <2>5
<1>5. PICK m \in M : \A k \in M : m >= k
  BY <1>4, LastOne
<1>6. <<g, m>> \in C
  BY <1>5
<1>7. ASSUME NEW y \in C
      PROVE  Beats(<<g, m>>, y)
  <2>1. y = <<y[1], y[2]>> /\ y[1] \in G /\ y[2] \in Layers
    BY <1>1
  <2> HIDE DEF G
  <2>2. g >= y[1] /\ g \in Nat /\ y[1] \in Nat
    BY <1>2, <1>3, <2>1
  <2>3. CASE g = y[1]
    <3>1. y[2] \in M
      BY <2>1, <2>3
    <3>2. m >= y[2]
      BY <1>5, <3>1
    <3> QED
      BY <2>3, <3>2 DEF Beats
  <2>4. CASE g # y[1]
    BY <2>2, <2>4 DEF Beats
  <2> QED
    BY <2>3, <2>4
<1> HIDE DEF C
<1>8. \E x \in C : \A y \in C : Beats(x, y)
  BY <1>6, <1>7
<1> QED
  BY <1>8 DEF Winner, C

\* What the layers say is a decision, and a reveal comes from one of them.
LEMMA RuledHasASource ==
    ASSUME NEW L \in [Layers -> Contents], NEW v \in Values
    PROVE  /\ Ruled(L, v) \in Decisions
           /\ Ruled(L, v) = REVELER =>
                 \E g \in DOMAIN Granularites, l \in Layers : L[l][Cle[v][g]] = REVELER
<1>1. CASE Covering(L, v) # {}
  <2> DEFINE w == Winner(L, v)
  <2>1. w \in (DOMAIN Granularites) \X Layers /\ L[w[2]][Cle[v][w[1]]] # NONE
    BY <1>1, WinnerCovers DEF Covering
  <2>2. Ruled(L, v) = L[w[2]][Cle[v][w[1]]]
    BY <1>1 DEF Ruled
  <2>3. w[1] \in DOMAIN Granularites /\ w[2] \in Layers /\ Cle[v][w[1]] \in Keys
    BY <2>1, KeyOfValue
  <2> HIDE DEF w
  <2> QED
    BY <2>1, <2>2, <2>3 DEF Contents
<1>2. CASE Covering(L, v) = {}
  BY <1>2, PolicyAssumption DEF Ruled, Decisions
<1> QED
  BY <1>1, <1>2

----------------------------------------------------------------------------
(* The inductive invariant.  A cached layer is only as good as its stamp:  *)
(* the file may have changed between the stat and the read, and then the   *)
(* stamp kept is one no file will ever show again.                         *)

\* The cached content is that of the file, if the stamp still is.
CacheTrue(l) ==
    cache[l].stamp # NONE =>
        /\ cache[l].stamp <= stamp[l]
        /\ cache[l].stamp = stamp[l] => cache[l].content = Readable(l)

\* What the call c holds or may still read reveals nothing outside rev, with
\* answers A, accepted rules acc and stamps st.
CallSound(rev, A, acc, st, c) ==
    /\ c.at # "idle" =>
         /\ RevealedBy(A, acc) \subseteq rev
         /\ \A i \in 1..Len(c.layers) : Revealing(c.layers[i]) \subseteq rev
    /\ c.at = "relit" => c.stamp <= st[Len(c.layers) + 1]
    /\ c.at \in {"reponses", "charge", "relit"} => ~ShutByClass(c.value)
    /\ c.at = "done" /\ c.decision = REVELER =>
         /\ ~ShutByClass(c.value)
         /\ \E g \in DOMAIN Granularites : Cle[c.value][g] \in rev

IInv ==
    /\ TypeOK
    /\ accepted \in [Layers -> Contents]
    /\ revealed \in [Threads -> SUBSET Keys]
    /\ \A l \in Layers : file[l] # TORN => file[l] = accepted[l]
    /\ \A l \in Layers : CacheTrue(l)
    /\ \A w \in Writers : writer[w].at # "idle" => writer[w].layer \in Layers
    /\ \A t \in Threads : CallSound(revealed[t], answers, accepted, stamp, call[t])

CallType ==
    [at : {"idle", "reponses", "charge", "relit", "done"}, value : Values \cup {NONE},
     gran : Nat, layers : Seq(Contents), stamp : Nat,
     decision : Decisions \cup {NONE}]

\* What a call may hold, whatever it is doing.
CallShape(c) ==
    /\ c \in CallType
    /\ c.at # "idle" => c.value \in Values
    /\ c.at = "reponses" => c.gran \in DOMAIN Granularites
    /\ Len(c.layers) <= Len(Portees)
    /\ c.at = "relit" => Len(c.layers) < Len(Portees)
    /\ c.at = "done" => c.decision \in Decisions

LEMMA ReadableLayer ==
    ASSUME IInv, NEW l \in Layers
    PROVE  Readable(l) \in Contents /\ Revealing(Readable(l)) \subseteq Revealing(accepted[l])
<1>1. CASE file[l] = TORN
  <2>1. Readable(l) = Empty /\ Empty \in Contents
    BY <1>1 DEF Readable, Empty, Contents
  <2>2. Revealing(Empty) = {}
    BY PolicyAssumption DEF Revealing, Empty, Decisions
  <2> QED
    BY <2>1, <2>2
<1>2. CASE file[l] # TORN
  BY <1>2 DEF IInv, TypeOK, Readable
<1> QED
  BY <1>1, <1>2

LEMMA IdleIsSound ==
    /\ CallShape(IdleCall)
    /\ \A rev, A, acc, st : CallSound(rev, A, acc, st, IdleCall)
<1>1. Empty \in Contents /\ <<>> \in Seq(Contents) /\ Len(<<>>) = 0 /\ Len(Portees) \in Nat
  BY PolicyAssumption DEF Empty, Contents
<1>2. IdleCall \in CallType
  BY <1>1 DEF IdleCall, CallType
<1> QED
  BY <1>1, <1>2 DEF CallShape, CallSound, IdleCall

\* A step of one call, the files as they were.
LEMMA CallStep ==
    ASSUME IInv, NEW t \in Threads, NEW c, CallShape(c),
           call' = [call EXCEPT ![t] = c],
           UNCHANGED <<file, stamp, answers, writer, accepted>>,
           cache' \in [Layers -> [stamp : Nat \cup {NONE}, content : Contents]],
           \A l \in Layers : CacheTrue(l)',
           NEW rev \in SUBSET Keys, revealed' = [revealed EXCEPT ![t] = rev],
           CallSound(rev, answers, accepted, stamp, c)
    PROVE  IInv'
<1>1. \A u \in Threads : /\ call'[u] = (IF u = t THEN c ELSE call[u])
                        /\ revealed'[u] = (IF u = t THEN rev ELSE revealed[u])
  BY DEF IInv, TypeOK
<1>2. \A u \in Threads : CallShape(call'[u])
  BY <1>1 DEF IInv, TypeOK, CallShape, CallType
<1>3. call' \in [Threads -> CallType]
  BY <1>2 DEF IInv, TypeOK, CallShape
<1>4. TypeOK'
  BY <1>2, <1>3 DEF IInv, TypeOK, CallShape, CallType
<1>5. \A u \in Threads : CallSound(revealed'[u], answers, accepted, stamp, call'[u])
  BY <1>1 DEF IInv
<1> QED
  BY <1>4, <1>5 DEF IInv, CallSound

\* The call c with one more layer loaded.
Loaded(c, r) == [c EXCEPT !.at = "charge", !.layers = Append(@, r)]

LEMMA OneMoreLayer ==
    ASSUME NEW c, CallShape(c), c.at \in {"charge", "relit"}, Len(c.layers) < Len(Portees),
           NEW rev, NEW A, NEW acc, NEW st, CallSound(rev, A, acc, st, c),
           NEW r \in Contents, Revealing(r) \subseteq rev, NEW d, d = Loaded(c, r)
    PROVE  CallShape(d) /\ CallSound(rev, A, acc, st, d)
<1>1. c \in CallType /\ c.layers \in Seq(Contents) /\ Len(Portees) \in Nat
  BY PolicyAssumption DEF CallShape, CallType
<1>2. Append(c.layers, r) \in Seq(Contents) /\ Len(Append(c.layers, r)) = Len(c.layers) + 1
  BY <1>1
<1>3. /\ d \in CallType /\ d.at = "charge" /\ d.layers = Append(c.layers, r)
      /\ d.value = c.value
  BY <1>1, <1>2 DEF Loaded, CallType
<1>4. CallShape(d)
  BY <1>1, <1>2, <1>3 DEF CallShape
<1>5. \A i \in 1..Len(d.layers) : Revealing(d.layers[i]) \subseteq rev
  <2> SUFFICES ASSUME NEW i \in 1..Len(d.layers)
               PROVE  Revealing(d.layers[i]) \subseteq rev
    OBVIOUS
  <2>1. CASE i = Len(c.layers) + 1
    BY <1>1, <1>3, <2>1
  <2>2. CASE i # Len(c.layers) + 1
    BY <1>1, <1>2, <1>3, <2>2 DEF CallSound
  <2> QED
    BY <2>1, <2>2
<1> QED
  BY <1>3, <1>4, <1>5 DEF CallSound

\* The steps of a decide.
LEMMA DecideKeeps ==
    ASSUME IInv, NEW t \in Threads,
           \/ \E v \in Values : Begin(t, v)
           \/ ReponseDuMessage(t) \/ Stat(t) \/ Relit(t) \/ Resolve(t) \/ Return(t)
    PROVE  IInv'
<1> DEFINE c == call[t]
           n == Len(c.layers)
<1>1. /\ c \in CallType /\ CallShape(c) /\ CallSound(revealed[t], answers, accepted, stamp, c)
      /\ call \in [Threads -> CallType] /\ revealed \in [Threads -> SUBSET Keys]
      /\ cache \in [Layers -> [stamp : Nat \cup {NONE}, content : Contents]]
      /\ stamp \in [Layers -> Nat] /\ answers \in Contents
      /\ accepted \in [Layers -> Contents]
  BY DEF IInv, TypeOK, CallType, CallShape
<1>2. c.layers \in Seq(Contents) /\ n \in Nat /\ Len(Portees) \in Nat
  BY <1>1, PolicyAssumption DEF CallType
<1>3. revealed[t] \in SUBSET Keys /\ revealed = [revealed EXCEPT ![t] = revealed[t]]
  BY <1>1
<1>4. UNCHANGED <<cache, stamp, file>> => \A l \in Layers : CacheTrue(l)'
  BY DEF IInv, CacheTrue, Readable
<1>5. ASSUME NEW v \in Values, Begin(t, v)
      PROVE  IInv'
  <2> DEFINE rev == RevealedBy(answers, accepted)
             shut == [IdleCall EXCEPT !.at = "done", !.value = v, !.decision = ANONYMISER]
             begun == [IdleCall EXCEPT !.at = "reponses", !.value = v, !.gran = Len(Granularites)]
             d == IF ShutByClass(v) THEN shut ELSE begun
  <2>1. rev \in SUBSET Keys
    BY DEF Revealing, RevealedBy
  <2>2. Len(Granularites) \in Nat /\ Len(Granularites) \in DOMAIN Granularites
    BY PolicyAssumption
  <2>3. IdleCall \in CallType /\ IdleCall.layers = <<>>
    BY IdleIsSound DEF CallShape, IdleCall
  <2>4. CallShape(shut) /\ CallShape(begun)
    <3>1. /\ shut \in CallType /\ shut.at = "done" /\ shut.value = v
          /\ shut.layers = <<>> /\ shut.decision = ANONYMISER
      BY <2>3 DEF CallType, Decisions
    <3>2. /\ begun \in CallType /\ begun.at = "reponses" /\ begun.value = v
          /\ begun.gran = Len(Granularites) /\ begun.layers = <<>>
      BY <1>1, <2>2, <2>3 DEF CallType
    <3> HIDE DEF shut, begun
    <3> QED
      BY <1>2, <2>2, <3>1, <3>2 DEF CallShape, Decisions
  <2> HIDE DEF rev
  <2>5. RevealedBy(answers, accepted) \subseteq rev
    BY DEF rev
  <2>6. CallSound(rev, answers, accepted, stamp, shut)
    BY <2>3, <2>5, PolicyAssumption DEF CallSound, CallType
  <2>7. ~ShutByClass(v) => CallSound(rev, answers, accepted, stamp, begun)
    BY <2>2, <2>3, <2>5 DEF CallSound, CallType
  <2>8. CallShape(d) /\ CallSound(rev, answers, accepted, stamp, d)
    BY <2>4, <2>6, <2>7
  <2>9. /\ call' = [call EXCEPT ![t] = d] /\ revealed' = [revealed EXCEPT ![t] = rev]
        /\ UNCHANGED <<file, stamp, answers, cache, writer, accepted>>
    BY <1>5 DEF Begin, rev
  <2> HIDE DEF d
  <2> QED
    BY <1>1, <1>4, <2>1, <2>8, <2>9, CallStep
<1>6. CASE ReponseDuMessage(t)
  <2> DEFINE k == Cle[c.value][c.gran]
             answered == [c EXCEPT !.at = "done", !.decision = answers[k]]
             at == IF c.gran = 1 THEN "charge" ELSE "reponses"
             next == [c EXCEPT !.at = at, !.gran = c.gran - 1]
  <2>1. /\ c.at = "reponses" /\ c.value \in Values /\ c.gran \in DOMAIN Granularites
        /\ ~ShutByClass(c.value)
    BY <1>1, <1>6 DEF ReponseDuMessage, CallShape, CallSound
  <2>2. k \in Keys /\ answers[k] \in Decisions \cup {NONE}
    BY <1>1, <2>1, KeyOfValue DEF Contents
  <2>3. call' = [call EXCEPT ![t] = IF answers[k] # NONE THEN answered ELSE next]
    BY <1>1, <1>6 DEF ReponseDuMessage
  <2>4. UNCHANGED <<file, stamp, answers, cache, writer, accepted, revealed>>
    BY <1>6 DEF ReponseDuMessage, history
  <2>5. CASE answers[k] # NONE
    <3>1. /\ answered \in CallType /\ answered.at = "done" /\ answered.value = c.value
          /\ answered.decision = answers[k] /\ answered.layers = c.layers
      BY <1>1, <2>2, <2>5 DEF CallType
    <3> HIDE DEF answered
    <3>2. CallShape(answered)
      BY <1>1, <2>1, <2>2, <2>5, <3>1 DEF CallShape
    <3>3. answers[k] = REVELER => k \in revealed[t]
      BY <1>1, <2>1, <2>2 DEF CallSound, RevealedBy, Revealing
    <3>4. CallSound(revealed[t], answers, accepted, stamp, answered)
      BY <1>1, <2>1, <3>1, <3>3 DEF CallSound
    <3> QED
      BY <1>1, <1>3, <1>4, <2>3, <2>4, <2>5, <3>2, <3>4, CallStep
  <2>6. CASE answers[k] = NONE
    <3>1. c.gran \in 1..Len(Granularites) /\ Len(Granularites) \in Nat
      BY <2>1, PositionsOfGranularites
    <3>2. at \in {"charge", "reponses"} /\ c.gran - 1 \in Nat
      BY <3>1
    <3>3. at = "reponses" => c.gran - 1 \in DOMAIN Granularites
      BY <3>1, PositionsOfGranularites
    <3> HIDE DEF at
    <3>4. /\ next \in CallType /\ next.at = at /\ next.gran = c.gran - 1
          /\ next.value = c.value /\ next.layers = c.layers
      BY <1>1, <3>2 DEF CallType
    <3> HIDE DEF next
    <3>5. CallShape(next)
      BY <1>1, <2>1, <3>2, <3>3, <3>4 DEF CallShape
    <3>6. CallSound(revealed[t], answers, accepted, stamp, next)
      BY <1>1, <2>1, <3>2, <3>4 DEF CallSound
    <3> QED
      BY <1>1, <1>3, <1>4, <2>3, <2>4, <2>6, <3>5, <3>6, CallStep
  <2> QED
    BY <2>5, <2>6
<1>7. CASE Stat(t)
  <2> DEFINE l == n + 1
             hit == Loaded(c, cache[l].content)
             miss == [c EXCEPT !.at = "relit", !.stamp = stamp[l]]
  <2>1. c.at = "charge" /\ l \in Layers
    BY <1>7 DEF Stat
  <2>2. n < Len(Portees)
    BY <1>2, <2>1 DEF Layers
  <2>3. call' = [call EXCEPT ![t] = IF Fresh(l) THEN hit ELSE miss]
    <3>1. c.at = "charge" => [c EXCEPT !.layers = Append(@, cache[l].content)] = hit
      BY <1>1 DEF Loaded, CallType
    <3> QED
      BY <1>1, <1>7, <2>1, <3>1 DEF Stat
  <2>4. UNCHANGED <<file, stamp, answers, cache, writer, accepted, revealed>>
    BY <1>7 DEF Stat, history
  <2>5. CallShape(miss) /\ CallSound(revealed[t], answers, accepted, stamp, miss)
    <3>1. stamp[l] \in Nat
      BY <1>1, <2>1
    <3>2. /\ miss \in CallType /\ miss.at = "relit" /\ miss.stamp = stamp[l]
          /\ miss.value = c.value /\ miss.layers = c.layers
      BY <1>1, <3>1 DEF CallType
    <3> HIDE DEF miss
    <3>3. CallShape(miss)
      BY <1>1, <2>1, <2>2, <3>2 DEF CallShape
    <3>4. CallSound(revealed[t], answers, accepted, stamp, miss)
      <4>1. /\ RevealedBy(answers, accepted) \subseteq revealed[t]
            /\ \A i \in 1..Len(c.layers) : Revealing(c.layers[i]) \subseteq revealed[t]
            /\ ~ShutByClass(c.value)
        BY <1>1, <2>1 DEF CallSound
      <4>2. miss.stamp <= stamp[Len(miss.layers) + 1]
        BY <3>1, <3>2
      <4> QED
        BY <3>2, <4>1, <4>2 DEF CallSound
    <3> QED
      BY <3>3, <3>4
  <2>6. CASE Fresh(l)
    <3>1. Revealing(cache[l].content) \subseteq Revealing(accepted[l])
      <4>1. cache[l].stamp = stamp[l] /\ cache[l].stamp # NONE
        BY <1>1, <2>1, <2>6, PolicyAssumption DEF Fresh
      <4>2. CacheTrue(l)
        BY <2>1 DEF IInv
      <4> QED
        BY <2>1, <4>1, <4>2, ReadableLayer DEF CacheTrue
    <3>2. Revealing(cache[l].content) \subseteq revealed[t]
      BY <1>1, <2>1, <3>1 DEF CallSound, RevealedBy
    <3>3. cache[l].content \in Contents
      BY <1>1, <2>1
    <3>4. CallShape(hit) /\ CallSound(revealed[t], answers, accepted, stamp, hit)
      BY <1>1, <2>1, <2>2, <3>2, <3>3, OneMoreLayer
    <3> QED
      BY <1>1, <1>3, <1>4, <2>3, <2>4, <2>6, <3>4, CallStep
  <2>7. CASE ~Fresh(l)
    BY <1>1, <1>3, <1>4, <2>3, <2>4, <2>5, <2>7, CallStep
  <2> QED
    BY <2>6, <2>7
<1>8. CASE Relit(t)
  <2> DEFINE l == n + 1
             r == Readable(l)
             d == Loaded(c, r)
  <2>1. c.at = "relit" /\ n < Len(Portees)
    BY <1>1, <1>8 DEF Relit, CallShape
  <2>2. l \in Layers
    BY <1>2, <2>1 DEF Layers
  <2>3. r \in Contents /\ Revealing(r) \subseteq revealed[t]
    BY <1>1, <2>1, <2>2, ReadableLayer DEF CallSound, RevealedBy
  <2>4. CallShape(d) /\ CallSound(revealed[t], answers, accepted, stamp, d)
    BY <1>1, <2>1, <2>3, OneMoreLayer
  <2>5. /\ call' = [call EXCEPT ![t] = d]
        /\ cache' = [cache EXCEPT ![l] = [stamp |-> c.stamp, content |-> r]]
        /\ UNCHANGED <<file, stamp, answers, writer, accepted, revealed>>
    BY <1>1, <1>8 DEF Relit, history, Loaded
  <2>6. c.stamp \in Nat /\ c.stamp <= stamp[l]
    BY <1>1, <2>1 DEF CallType, CallSound
  <2>7. cache' \in [Layers -> [stamp : Nat \cup {NONE}, content : Contents]]
    BY <1>1, <2>3, <2>5, <2>6
  <2>8. ASSUME NEW k \in Layers
        PROVE  CacheTrue(k)'
    <3>1. Readable(k)' = Readable(k) /\ stamp' = stamp
      BY <2>5 DEF Readable
    <3>2. CASE k = l
      <4>1. cache'[k] = [stamp |-> c.stamp, content |-> r]
        BY <1>1, <2>2, <2>5, <3>2
      <4> QED
        BY <2>6, <3>1, <3>2, <4>1 DEF CacheTrue
    <3>3. CASE k # l
      <4>1. cache'[k] = cache[k]
        BY <1>1, <2>5, <3>3
      <4> QED
        BY <3>1, <4>1 DEF IInv, CacheTrue
    <3> QED
      BY <3>2, <3>3
  <2> HIDE DEF d
  <2> QED
    BY <1>3, <2>4, <2>5, <2>7, <2>8, CallStep
<1>9. CASE Resolve(t)
  <2> DEFINE o == Ruled(c.layers, c.value)
             d == [c EXCEPT !.at = "done", !.decision = o]
  <2>1. c.at = "charge" /\ n = Len(Portees)
    BY <1>9 DEF Resolve
  <2>2. c.value \in Values /\ c.layers \in [Layers -> Contents]
    BY <1>1, <1>2, <2>1 DEF CallType, CallShape, Layers
  <2>3. /\ o \in Decisions
        /\ o = REVELER => \E g \in DOMAIN Granularites, l \in Layers :
                            c.layers[l][Cle[c.value][g]] = REVELER
    BY <2>2, RuledHasASource
  <2>4. o = REVELER => \E g \in DOMAIN Granularites : Cle[c.value][g] \in revealed[t]
    <3> SUFFICES ASSUME o = REVELER
                 PROVE  \E g \in DOMAIN Granularites : Cle[c.value][g] \in revealed[t]
      OBVIOUS
    <3>1. PICK g \in DOMAIN Granularites, l \in Layers :
                 c.layers[l][Cle[c.value][g]] = REVELER
      BY <2>3
    <3>2. Revealing(c.layers[l]) \subseteq revealed[t]
      BY <1>1, <2>1 DEF CallSound, Layers
    <3>3. Cle[c.value][g] \in Keys
      BY <2>2, KeyOfValue
    <3> QED
      BY <3>1, <3>2, <3>3 DEF Revealing
  <2> HIDE DEF o
  <2>5. /\ d \in CallType /\ d.at = "done" /\ d.decision = o /\ d.value = c.value
        /\ d.layers = c.layers
    BY <1>1, <2>3 DEF CallType
  <2> HIDE DEF d
  <2>6. CallShape(d)
    BY <1>1, <2>2, <2>3, <2>5 DEF CallShape
  <2>7. CallSound(revealed[t], answers, accepted, stamp, d)
    BY <1>1, <2>1, <2>4, <2>5 DEF CallSound
  <2>8. /\ call' = [call EXCEPT ![t] = d]
        /\ UNCHANGED <<file, stamp, answers, cache, writer, accepted, revealed>>
    BY <1>1, <1>9 DEF Resolve, history, d, o
  <2> QED
    BY <1>1, <1>3, <1>4, <2>6, <2>7, <2>8, CallStep
<1>10. CASE Return(t)
  <2>1. /\ call' = [call EXCEPT ![t] = IdleCall]
        /\ revealed' = [revealed EXCEPT ![t] = {}]
        /\ UNCHANGED <<file, stamp, answers, cache, writer, accepted>>
    BY <1>10 DEF Return
  <2>2. {} \in SUBSET Keys
    OBVIOUS
  <2> QED
    BY <1>1, <1>4, <2>1, <2>2, IdleIsSound, CallStep
<1> QED
  BY <1>5, <1>6, <1>7, <1>8, <1>9, <1>10

\* A call goes on being sound when what is revealable to it grows, the accepted
\* rules reveal nothing outside it, and stamps only rise.
LEMMA CallGrows ==
    ASSUME NEW c, CallShape(c), NEW rev, NEW rev2, rev \subseteq rev2, NEW acc, NEW acc2,
           NEW A, NEW A2, (A2 = A /\ acc2 = acc) \/ RevealedBy(A2, acc2) \subseteq rev2,
           NEW st \in [Layers -> Nat], NEW st2 \in [Layers -> Nat],
           \A l \in Layers : st[l] <= st2[l],
           CallSound(rev, A, acc, st, c)
    PROVE  CallSound(rev2, A2, acc2, st2, c)
<1>1. c.at = "relit" => Len(c.layers) + 1 \in Layers /\ c.stamp \in Nat
  BY PolicyAssumption DEF CallShape, CallType, Layers
<1> QED
  BY <1>1 DEF CallSound

\* A file that changes takes a new stamp, and what is cached of it goes stale.
LEMMA FileChanges ==
    ASSUME IInv, NEW k \in Layers, NEW x,
           file' = [file EXCEPT ![k] = x], stamp' = [stamp EXCEPT ![k] = @ + 1],
           cache' = cache
    PROVE  /\ stamp' \in [Layers -> Nat]
           /\ \A l \in Layers : stamp[l] <= stamp'[l]
           /\ \A l \in Layers : CacheTrue(l)'
<1>1. stamp \in [Layers -> Nat] /\ file \in [Layers -> Contents \cup {TORN}]
      /\ cache \in [Layers -> [stamp : Nat \cup {NONE}, content : Contents]]
  BY DEF IInv, TypeOK
<1>2. ASSUME NEW l \in Layers
      PROVE  stamp[l] <= stamp'[l] /\ CacheTrue(l)'
  <2>1. CacheTrue(l) /\ stamp[l] \in Nat /\ cache[l].stamp \in Nat \cup {NONE}
    BY <1>1 DEF IInv
  <2>2. CASE l = k
    BY <1>1, <2>1, <2>2 DEF CacheTrue
  <2>3. CASE l # k
    BY <1>1, <2>1, <2>3 DEF CacheTrue, Readable
  <2> QED
    BY <2>2, <2>3
<1> QED
  BY <1>1, <1>2

\* Watch makes revealable, for every call, what the files now reveal.
LEMMA WatchReveals ==
    ASSUME NEW A, NEW acc, Watch(A, acc), revealed \in [Threads -> SUBSET Keys]
    PROVE  /\ revealed' \in [Threads -> SUBSET Keys]
           /\ \A t \in Threads : /\ revealed[t] \subseteq revealed'[t]
                                 /\ RevealedBy(A, acc) \subseteq revealed'[t]
<1>1. RevealedBy(A, acc) \subseteq Keys
  BY DEF RevealedBy, Revealing
<1>2. \A t \in Threads : revealed'[t] = revealed[t] \cup RevealedBy(A, acc)
  BY DEF Watch
<1>3. revealed' = [t \in Threads |-> revealed'[t]]
  BY DEF Watch
<1> QED
  BY <1>1, <1>2, <1>3

LEMMA CallsKeepType ==
    ASSUME IInv
    PROVE  \A t \in Threads : CallShape(call[t])
  BY DEF IInv, TypeOK, CallShape, CallType

\* The steps of a writer.
LEMMA WriterKeeps ==
    ASSUME IInv, NEW w \in Writers,
           \/ \E l \in Layers, k \in Keys, d \in Decisions \cup {NONE} : Load(w, l, k, d)
           \/ Truncate(w) \/ Write(w) \/ Dies(w)
    PROVE  IInv'
<1> DEFINE WriterType == [at : {"idle", "loaded", "truncated"},
                          layer : Layers \cup {0}, content : Contents]
           k == writer[w].layer
<1>1. /\ writer \in [Writers -> WriterType] /\ IdleWriter \in WriterType
      /\ writer[w] \in WriterType
  BY DEF IInv, TypeOK, IdleWriter, Empty, Contents
<1>2. ASSUME NEW l \in Layers, NEW key \in Keys, NEW d \in Decisions \cup {NONE},
             Load(w, l, key, d)
      PROVE  IInv'
  <2>1. [Readable(l) EXCEPT ![key] = d] \in Contents
    BY ReadableLayer DEF Contents
  <2>2. /\ writer' \in [Writers -> WriterType]
        /\ \A w2 \in Writers : writer'[w2].at # "idle" => writer'[w2].layer \in Layers
    BY <1>1, <1>2, <2>1 DEF Load, IInv
  <2>3. UNCHANGED <<file, stamp, answers, cache, call, accepted, revealed>>
    BY <1>2 DEF Load, history
  <2> QED
    BY <2>2, <2>3 DEF IInv, TypeOK, CacheTrue, Readable
<1>3. CASE Dies(w)
  <2>1. /\ writer' \in [Writers -> WriterType]
        /\ \A w2 \in Writers : writer'[w2].at # "idle" => writer'[w2].layer \in Layers
        /\ UNCHANGED <<file, stamp, answers, cache, call, accepted, revealed>>
    BY <1>1, <1>3 DEF Dies, history, IInv, IdleWriter
  <2> QED
    BY <2>1 DEF IInv, TypeOK, CacheTrue, Readable
<1>4. CASE Truncate(w)
  <2>1. /\ k \in Layers
        /\ writer' = [writer EXCEPT ![w].at = "truncated"]
        /\ file' = [file EXCEPT ![k] = TORN] /\ stamp' = [stamp EXCEPT ![k] = @ + 1]
        /\ UNCHANGED <<answers, cache, call, accepted, revealed>>
    BY <1>4 DEF Truncate, history, IInv
  <2>2. /\ writer' \in [Writers -> WriterType]
        /\ \A w2 \in Writers : writer'[w2].at # "idle" => writer'[w2].layer \in Layers
    BY <1>1, <1>4, <2>1 DEF Truncate, IInv
  <2>3. /\ stamp' \in [Layers -> Nat] /\ (\A l \in Layers : stamp[l] <= stamp'[l])
        /\ \A l \in Layers : CacheTrue(l)'
    BY <2>1, FileChanges
  <2>4. /\ file' \in [Layers -> Contents \cup {TORN}]
        /\ \A l \in Layers : file'[l] # TORN => file'[l] = accepted[l]
    BY <2>1 DEF IInv, TypeOK
  <2>5. \A t \in Threads : CallSound(revealed[t], answers, accepted, stamp', call[t])
    BY <2>3, CallsKeepType, CallGrows DEF IInv, TypeOK
  <2> QED
    BY <2>1, <2>2, <2>3, <2>4, <2>5 DEF IInv, TypeOK
<1>5. CASE Write(w)
  <2>1. PICK x \in {writer[w].content, TORN} :
           /\ k \in Layers
           /\ writer' = [writer EXCEPT ![w] = IdleWriter]
           /\ file' = [file EXCEPT ![k] = x] /\ stamp' = [stamp EXCEPT ![k] = @ + 1]
           /\ accepted' = [accepted EXCEPT ![k] = writer[w].content]
           /\ Watch(answers, accepted')
           /\ UNCHANGED <<answers, cache, call>>
    BY <1>5 DEF Write, IInv
  <2>2. /\ writer' \in [Writers -> WriterType]
        /\ \A w2 \in Writers : writer'[w2].at # "idle" => writer'[w2].layer \in Layers
    BY <1>1, <2>1 DEF IInv, IdleWriter
  <2>3. /\ stamp' \in [Layers -> Nat] /\ (\A l \in Layers : stamp[l] <= stamp'[l])
        /\ \A l \in Layers : CacheTrue(l)'
    BY <2>1, FileChanges
  <2>4. writer[w].content \in Contents
    BY <1>1
  <2>5. /\ file' \in [Layers -> Contents \cup {TORN}] /\ accepted' \in [Layers -> Contents]
        /\ \A l \in Layers : file'[l] # TORN => file'[l] = accepted'[l]
    BY <2>1, <2>4 DEF IInv, TypeOK
  <2>6. /\ revealed' \in [Threads -> SUBSET Keys]
        /\ \A t \in Threads : /\ revealed[t] \subseteq revealed'[t]
                              /\ RevealedBy(answers, accepted') \subseteq revealed'[t]
    BY <2>1, WatchReveals DEF IInv
  <2>7. ASSUME NEW t \in Threads
        PROVE  CallSound(revealed'[t], answers, accepted', stamp', call[t])
    <3>1. CallShape(call[t]) /\ CallSound(revealed[t], answers, accepted, stamp, call[t])
      BY CallsKeepType DEF IInv
    <3>2. stamp \in [Layers -> Nat]
      BY DEF IInv, TypeOK
    <3>3. /\ revealed[t] \subseteq revealed'[t]
          /\ RevealedBy(answers, accepted') \subseteq revealed'[t]
      BY <2>6
    <3> QED
      BY <2>3, <3>1, <3>2, <3>3, CallGrows
  <2> QED
    BY <2>1, <2>2, <2>3, <2>5, <2>6, <2>7 DEF IInv, TypeOK
<1> QED
  BY <1>2, <1>3, <1>4, <1>5

\* The answers to the message, and the server that dies.
LEMMA AnswersKeep ==
    ASSUME IInv,
           \/ \E k \in Keys, d \in Decisions : Repondre(k, d)
           \/ DebutMessage
    PROVE  IInv'
<1>1. /\ answers' \in Contents /\ Watch(answers', accepted)
      /\ UNCHANGED <<file, stamp, cache, call, writer, accepted>>
  BY DEF IInv, TypeOK, Repondre, DebutMessage, Contents, Empty
<1>2. /\ revealed' \in [Threads -> SUBSET Keys]
      /\ \A t \in Threads : /\ revealed[t] \subseteq revealed'[t]
                            /\ RevealedBy(answers', accepted) \subseteq revealed'[t]
  BY <1>1, WatchReveals DEF IInv
<1>3. stamp \in [Layers -> Nat] /\ \A l \in Layers : stamp[l] <= stamp[l]
  BY DEF IInv, TypeOK
<1>4. \A t \in Threads : CallSound(revealed'[t], answers', accepted, stamp, call[t])
  BY <1>2, <1>3, CallsKeepType, CallGrows DEF IInv
<1> QED
  BY <1>1, <1>2, <1>4 DEF IInv, TypeOK, CacheTrue, Readable

LEMMA RestartKeeps ==
    ASSUME IInv, Restart
    PROVE  IInv'
<1>1. /\ cache' = [l \in Layers |-> [stamp |-> NONE, content |-> Empty]]
      /\ call' = [t \in Threads |-> IdleCall] /\ revealed' = [t \in Threads |-> {}]
      /\ UNCHANGED <<file, stamp, answers, writer, accepted>>
  BY DEF Restart
<1>2. Empty \in Contents
  BY DEF Empty, Contents
<1>3. TypeOK'
  BY <1>1, <1>2, IdleIsSound DEF IInv, TypeOK, CallShape, CallType
<1>4. \A l \in Layers : CacheTrue(l)'
  BY <1>1 DEF CacheTrue
<1>5. \A t \in Threads : CallSound(revealed'[t], answers, accepted, stamp, call'[t])
  BY <1>1, IdleIsSound
<1> QED
  BY <1>1, <1>3, <1>4, <1>5 DEF IInv, CallSound

LEMMA StepIInv == IInv /\ [Next]_vars => IInv'
<1> SUFFICES ASSUME IInv, [Next]_vars PROVE IInv'
  OBVIOUS
<1>1. CASE UNCHANGED vars
  BY <1>1 DEF vars, IInv, TypeOK, CacheTrue, Readable
<1> QED
  BY <1>1, DecideKeeps, WriterKeeps, AnswersKeep, RestartKeeps DEF Next

LEMMA InitIInv == Init => IInv
<1> SUFFICES ASSUME Init PROVE IInv
  OBVIOUS
<1>1. Empty \in Contents /\ IdleWriter \in
        [at : {"idle", "loaded", "truncated"}, layer : Layers \cup {0}, content : Contents]
  BY DEF Empty, Contents, IdleWriter
<1>2. TypeOK
  BY <1>1, IdleIsSound, PolicyAssumption DEF Init, TypeOK, CallShape, CallType
<1>3. \A t \in Threads : CallSound(revealed[t], answers, accepted, stamp, call[t])
  BY IdleIsSound DEF Init
<1> QED
  BY <1>2, <1>3, PolicyAssumption DEF Init, IInv, CacheTrue, IdleWriter

LEMMA Invariance == Spec => []IInv
  BY InitIInv, StepIInv, PTL DEF Spec

\* Every variable keeps its type.
THEOREM TypeCorrect == Spec => []TypeOK
  BY Invariance, PTL DEF IInv

\* D4: a secret is never revealed, whatever the files hold.
THEOREM SecretsStayShut == Spec => []SecretNeverRevealed
<1>1. IInv => SecretNeverRevealed
  BY DEF IInv, TypeOK, CallSound, SecretNeverRevealed, ShutByClass, Decisions
<1> QED
  BY <1>1, Invariance, PTL

\* A reveal comes from a rule or an answer in force during the call.
THEOREM RevealsHaveASource == Spec => []RevealHasASource
<1>1. IInv => RevealHasASource
  BY DEF IInv, CallSound, RevealHasASource
<1> QED
  BY <1>1, Invariance, PTL
=============================================================================
