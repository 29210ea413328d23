--------------------------- MODULE ForwardProofs ---------------------------
(***************************************************************************)
(* No answer is stolen: what the client hears as an answer is a head the   *)
(* upstream of its own request sent as a head, however the upstream frames *)
(* and misframes what it sends.  Every exchange of a client that stays has *)
(* one last word, and a tunnel delivers what it was given.                 *)
(***************************************************************************)
EXTENDS Forward, TLAPS

\* What the loop of the interim answers passes on and reads past.
Transparent(h) == h.parses = "yes" /\ h.status = "interim" /\ Bodiless(h)

Stopped(w) == \E j \in 1..Len(w) : ~Transparent(w[j].shape)

\* Before a unit that was not sent as a head there is one the loop stops at.
Guarded(w) == \A i \in 1..Len(w) :
    w[i].framed = "head" \/ \E j \in 1..(i - 1) : ~Transparent(w[j].shape)

BeforeTheFinal == {"request", "wait_body", "body", "send", "drain", "answer", "wait_answer"}

\* The exchange has its last word, and the client has not taken it.
Ending == {"wait_idle", "wait_closed"}
Active == BeforeTheFinal \cup {"open", "content", "restore"}

LEMMA BusyIs == Busy = Active \cup Ending
BY DEF Busy, Waits, Active, BeforeTheFinal, Ending

Locations == Busy \cup {"connect", "tunnel", "idle", "closed", "stopped"}
Exchanging == [k : Nat, req : Requested, answer : Units \cup {NONE}, got : Nat,
               said : 0..MaxInterim]
Clients == [honest : BOOLEAN, deaf : BOOLEAN, gone : BOOLEAN,
            phase : {"rest", "hold", "body"}, sent : Nat, left : Nat, pieces : BOOLEAN]
Written == [k : Nat, framed : {"head", "piece", "end", "torn"}, shape : Requested]
Upstreams == [open : BOOLEAN, honest : BOOLEAN, deaf : BOOLEAN, asked : Nat \cup {NONE},
              mode : {"heads", "sized", "pieces", "done"}, left : Nat, interims : Nat,
              ended : BOOLEAN]
Words == [k : Nat, kind : Last \cup {"established", "continue", "interim"},
          unit : Units \cup {NONE}, units : Nat, due : Nat]
Pipes == [Directions -> [sent : Nat, passed : Nat, ended : BOOLEAN,
                         reset : BOOLEAN, shut : BOOLEAN]]

\* TypeOK, with its sets named.
Typed ==
    /\ dest \in Destinations
    /\ at \in Locations
    /\ ex \in Exchanging
    /\ at \in {"content", "restore"} => ex.answer \in Units
    /\ client \in Clients
    /\ inbox \in Seq(Written)
    /\ up \in Upstreams
    /\ wire \in Seq(Units)
    /\ heard \in Seq(Words)
    /\ pipe \in Pipes
    /\ fault \in BOOLEAN

LEMMA TypedIsTypeOK == Typed <=> TypeOK
BY DEF Typed, TypeOK, Locations, Exchanging, Clients, Written, Upstreams, Words, Pipes

Framing ==
    /\ up.open => at \in Busy \ {"open"}
    /\ at \in Active \ {"open"} => up.open
    /\ ~up.open => wire = <<>>
    /\ \A i \in 1..Len(wire) : wire[i].k = ex.k
    /\ at \in BeforeTheFinal => Guarded(wire) /\ (up.mode # "heads" => Stopped(wire))
    /\ at \in {"content", "restore"} => ex.answer.framed = "head" /\ ex.answer.k = ex.k


Own == Typed /\ Framing /\ AnswersAreOwn

----------------------------------------------------------------------------
(* Sequences of units.                                                     *)

LEMMA TailOf ==
    ASSUME NEW S, NEW w \in Seq(S), w # <<>>
    PROVE  /\ Head(w) \in S /\ Head(w) = w[1] /\ Tail(w) \in Seq(S)
           /\ Len(w) \in Nat \ {0} /\ Len(Tail(w)) = Len(w) - 1
           /\ \A i \in 1..(Len(w) - 1) : Tail(w)[i] = w[i + 1]
OBVIOUS

LEMMA AppendOf ==
    ASSUME NEW S, NEW w \in Seq(S), NEW u \in S
    PROVE  /\ Append(w, u) \in Seq(S)
           /\ Len(w) \in Nat /\ Len(Append(w, u)) = Len(w) + 1
           /\ \A i \in 1..Len(w) : Append(w, u)[i] = w[i]
           /\ Append(w, u)[Len(w) + 1] = u
OBVIOUS

\* The first unit to be read was sent as a head.
LEMMA FirstIsHead ==
    ASSUME NEW w \in Seq(Units), w # <<>>, Guarded(w)
    PROVE  Head(w).framed = "head"
<1>1. 1 \in 1..Len(w) /\ Head(w) = w[1]
  BY TailOf
<1>2. ~ \E j \in 1..(1 - 1) : ~Transparent(w[j].shape)
  OBVIOUS
<1> QED
  BY <1>1, <1>2 DEF Guarded

LEMMA NothingSent ==
    ASSUME NEW w, w = <<>>
    PROVE  Guarded(w) /\ Len(w) = 0 /\ \A i \in 1..Len(w) : FALSE
<1>1. Len(w) = 0 /\ \A i \in 1..Len(w) : FALSE
  OBVIOUS
<1> QED
  BY <1>1 DEF Guarded

\* Reading past an interim answer keeps the rest guarded.
LEMMA ReadPast ==
    ASSUME NEW w \in Seq(Units), w # <<>>, Guarded(w), Transparent(Head(w).shape)
    PROVE  Guarded(Tail(w)) /\ (Stopped(w) => Stopped(Tail(w)))
<1> DEFINE t == Tail(w)
<1>1. /\ Head(w) = w[1] /\ Len(w) \in Nat \ {0} /\ Len(t) = Len(w) - 1
      /\ \A i \in 1..(Len(w) - 1) : t[i] = w[i + 1]
  BY TailOf
<1> HIDE DEF t
<1>2. \A j \in 1..Len(w) : ~Transparent(w[j].shape) =>
          j - 1 \in 1..Len(t) /\ t[j - 1] = w[j]
  BY <1>1
<1>3. ASSUME NEW i \in 1..Len(t)
      PROVE  t[i].framed = "head" \/ \E j \in 1..(i - 1) : ~Transparent(t[j].shape)
  <2>1. i + 1 \in 1..Len(w) /\ t[i] = w[i + 1]
    BY <1>1
  <2>2. CASE w[i + 1].framed = "head"
    BY <2>1, <2>2
  <2>3. CASE \E j \in 1..((i + 1) - 1) : ~Transparent(w[j].shape)
    <3>1. PICK j \in 1..((i + 1) - 1) : ~Transparent(w[j].shape)
      BY <2>3
    <3>2. j \in 1..Len(w) /\ j # 1
      BY <1>1, <2>1, <3>1
    <3>3. j - 1 \in 1..(i - 1) /\ t[j - 1] = w[j]
      BY <1>2, <3>1, <3>2
    <3> QED
      BY <3>1, <3>3
  <2> QED
    BY <2>1, <2>2, <2>3 DEF Guarded
<1>4. Stopped(w) => Stopped(t)
  BY <1>2 DEF Stopped
<1> QED
  BY <1>3, <1>4 DEF Guarded, t

\* A unit that is no head is safe behind one the loop stops at.
LEMMA SendBehind ==
    ASSUME NEW w \in Seq(Units), NEW u \in Units, Guarded(w),
           u.framed = "head" \/ Stopped(w)
    PROVE  /\ Guarded(Append(w, u))
           /\ Stopped(w) \/ ~Transparent(u.shape) => Stopped(Append(w, u))
<1> DEFINE v == Append(w, u)
<1>1. /\ Len(w) \in Nat /\ Len(v) = Len(w) + 1 /\ v[Len(w) + 1] = u
      /\ \A i \in 1..Len(w) : v[i] = w[i]
  BY AppendOf
<1> HIDE DEF v
<1>2. Stopped(w) => \E j \in 1..Len(w) : ~Transparent(v[j].shape)
  BY <1>1 DEF Stopped
<1>3. ASSUME NEW i \in 1..Len(v)
      PROVE  v[i].framed = "head" \/ \E j \in 1..(i - 1) : ~Transparent(v[j].shape)
  <2>1. CASE i = Len(w) + 1
    <3>1. v[i] = u /\ 1..(i - 1) = 1..Len(w)
      BY <1>1, <2>1
    <3> QED
      BY <1>2, <3>1
  <2>2. CASE i \in 1..Len(w)
    <3>1. v[i] = w[i] /\ \A j \in 1..(i - 1) : j \in 1..Len(w) /\ v[j] = w[j]
      BY <1>1, <2>2
    <3> QED
      BY <2>2, <3>1 DEF Guarded
  <2> QED
    BY <1>1, <2>1, <2>2
<1>4. Stopped(w) \/ ~Transparent(u.shape) => Stopped(v)
  BY <1>1, <1>2 DEF Stopped
<1> QED
  BY <1>3, <1>4 DEF Guarded, v

----------------------------------------------------------------------------
(* Steps that many actions share.                                          *)

\* A word to the client.
LEMMA TellOwn ==
    ASSUME Own, NEW kind \in Last \cup {"established", "continue", "interim"},
           NEW unit \in Units \cup {NONE}, NEW n \in Nat, NEW due \in Nat,
           Tell(kind, unit, n, due),
           kind \in {"interim", "answer"} => unit.framed = "head" /\ unit.k = ex.k
    PROVE  heard' \in Seq(Words) /\ AnswersAreOwn'
<1> DEFINE w == [k |-> ex.k, kind |-> kind, unit |-> unit, units |-> n, due |-> due]
<1>1. heard \in Seq(Words) /\ ex.k \in Nat
  BY DEF Own, Typed, Exchanging
<1>2. w \in Words /\ w.kind = kind /\ w.unit = unit /\ w.k = ex.k
  BY <1>1 DEF Words
<1>3. heard' = heard \/ heard' = Append(heard, w)
  BY DEF Tell
<1> HIDE DEF w
<1>4. CASE heard' = heard
  BY <1>1, <1>4 DEF Own, AnswersAreOwn
<1>5. CASE heard' = Append(heard, w)
  <2>1. /\ heard' \in Seq(Words) /\ Len(heard) \in Nat /\ Len(heard') = Len(heard) + 1
        /\ \A i \in 1..Len(heard) : heard'[i] = heard[i]
        /\ heard'[Len(heard) + 1] = w
    BY <1>1, <1>2, <1>5, AppendOf
  <2>2. ASSUME NEW i \in 1..Len(heard'), heard'[i].kind \in {"interim", "answer"}
        PROVE  heard'[i].unit.framed = "head" /\ heard'[i].unit.k = heard'[i].k
    <3>1. CASE i \in 1..Len(heard)
      BY <2>1, <2>2, <3>1 DEF Own, AnswersAreOwn
    <3>2. CASE i = Len(heard) + 1
      BY <1>2, <2>1, <2>2, <3>2
    <3> QED
      BY <2>1, <3>1, <3>2
  <2> QED
    BY <2>1, <2>2 DEF AnswersAreOwn
<1> QED
  BY <1>3, <1>4, <1>5

\* The end of an exchange.
LEMMA OverOwn ==
    ASSUME Own, NEW next \in {"idle", "closed", "stopped"}, Over(next),
           UNCHANGED <<dest, client, inbox, pipe>>, fault' \in BOOLEAN,
           heard' \in Seq(Words), AnswersAreOwn'
    PROVE  Own'
<1>1. Fresh(ex.k) \in Exchanging
  BY ForwardAssumption DEF Own, Typed, Exchanging, Fresh, Requested
<1>2. Closed \in Upstreams /\ Closed.open = FALSE
  BY DEF Closed, Upstreams
<1>3. Typed'
  BY <1>1, <1>2 DEF Own, Typed, Over, Locations
<1>4. Framing'
  BY <1>2 DEF Framing, Over, Active, BeforeTheFinal
<1> QED
  BY <1>3, <1>4 DEF Own

\* The last word of an exchange, taken or not.
LEMMA EndsOwn ==
    ASSUME Own, at \in Busy, NEW next \in {"idle", "closed"}, Ends(next),
           UNCHANGED <<dest, client, inbox, pipe>>, fault' \in BOOLEAN,
           heard' \in Seq(Words), AnswersAreOwn'
    PROVE  Own'
<1>1. CASE Over(next)
  BY <1>1, OverOwn
<1>2. CASE at' \in Ending /\ UNCHANGED <<ex, up, wire>>
  <2>1. Typed'
    BY <1>2, BusyIs DEF Own, Typed, Locations, Ending
  <2>2. up.open => at' \in Busy \ {"open"}
    BY <1>2, BusyIs DEF Ending
  <2>3. at' \notin Active
    BY <1>2 DEF Ending, Active, BeforeTheFinal
  <2>4. Framing /\ UNCHANGED ex /\ UNCHANGED up /\ UNCHANGED wire
    BY <1>2 DEF Own
  <2>5. at' \notin BeforeTheFinal \cup {"content", "restore"}
    BY <2>3 DEF Active
  <2>6. Framing'
    BY <2>2, <2>3, <2>4, <2>5 DEF Framing
  <2> QED
    BY <2>1, <2>6 DEF Own
<1> QED
  BY <1>1, <1>2 DEF Ends, Ending

LEMMA FailOwn ==
    ASSUME Own, at \in Busy, Fail, fault' \in BOOLEAN
    PROVE  Own'
<1>1. heard' \in Seq(Words) /\ AnswersAreOwn'
  BY TellOwn DEF Fail, Say, Last
<1> QED
  BY <1>1, EndsOwn DEF Fail

\* A step that changes neither the upstream, nor what it sent, nor what was
\* told, and neither begins nor ends the part of an exchange that reads it.
LEMMA AsideOwn ==
    ASSUME Own, Typed', UNCHANGED <<up, wire, heard>>, ex'.k = ex.k,
           \/ UNCHANGED <<at, ex>>
           \/ /\ up.open => at' \in Busy \ {"open"}
              /\ at' \in Active \ {"open"} => up.open
              /\ at' \in BeforeTheFinal => at \in BeforeTheFinal
              /\ at' \notin {"content", "restore"}
    PROVE  Own'
<1>1. AnswersAreOwn'
  BY DEF Own, AnswersAreOwn
<1>2. Framing'
  BY DEF Own, Framing
<1> QED
  BY <1>1, <1>2 DEF Own

----------------------------------------------------------------------------
(* The steps of the proxy.                                                 *)

LEMMA ConnectOwn ==
    ASSUME Own, Connect
    PROVE  Own'
<1>1. at = "connect" /\ ~up.open /\ wire = <<>>
  BY DEF Own, Framing, Connect, Refuse, Inspect, Tunnel, Busy, Waits
<1>2. /\ at' \in {"closed", "idle", "tunnel"} /\ fault' \in BOOLEAN
      /\ UNCHANGED <<dest, ex, client, inbox, up, wire, pipe>>
  BY DEF Connect, Refuse, Inspect, Tunnel, Own, Typed
<1>3. heard' \in Seq(Words) /\ AnswersAreOwn'
  BY TellOwn DEF Connect, Refuse, Inspect, Tunnel, Say, Last
<1>4. Typed'
  BY <1>2, <1>3 DEF Own, Typed, Locations
<1>5. Framing'
  BY <1>1, <1>2 DEF Framing, Active, BeforeTheFinal
<1> QED
  BY <1>3, <1>4, <1>5 DEF Own

\* The request, up to its last byte written upstream.
LEMMA RequestOwn ==
    ASSUME Own,
           \/ ReadRequest \/ ClientIsGone \/ OpenUpstream \/ Accept
           \/ ReadBody \/ Send \/ Drained
    PROVE  Own'
<1>0. Typed /\ Framing /\ AnswersAreOwn /\ ex \in Exchanging /\ ex.k \in Nat
  BY DEF Own, Typed, Exchanging
<1>1. CASE ReadRequest
  <2>1. /\ at = "idle" /\ ~up.open /\ wire = <<>>
    BY <1>0, <1>1 DEF ReadRequest, Framing, Busy, Waits
  <2>2. Head(inbox) \in Written /\ inbox' \in Seq(Written)
    BY <1>0, <1>1, TailOf DEF ReadRequest, Typed
  <2>3. /\ at' \in {"closed", "open"}
        /\ UNCHANGED <<dest, client, up, wire, heard, pipe, fault>>
        /\ ex' = ex \/ ex' = [Fresh(ex.k + 1) EXCEPT !.req = Head(inbox).shape]
    BY <1>1 DEF ReadRequest
  <2>4. ex' \in Exchanging
    <3>1. Head(inbox).shape \in Requested
      BY <2>2 DEF Written
    <3>2. [Fresh(ex.k + 1) EXCEPT !.req = Head(inbox).shape] \in Exchanging
      BY <1>0, <3>1, ForwardAssumption DEF Fresh, Exchanging
    <3> QED
      BY <1>0, <2>3, <3>2
  <2>5. Typed'
    BY <1>0, <2>2, <2>3, <2>4 DEF Typed, Locations, Busy
  <2>6. Framing' /\ AnswersAreOwn'
    BY <1>0, <2>1, <2>3 DEF Framing, AnswersAreOwn, Active, BeforeTheFinal
  <2> QED
    BY <2>5, <2>6 DEF Own
<1>2. CASE ClientIsGone
  <2>1. Typed'
    BY <1>0, <1>2 DEF ClientIsGone, Typed, Locations
  <2>2. ~up.open /\ at' \notin Active
    BY <1>0, <1>2 DEF ClientIsGone, Framing, Busy, Waits, Active, BeforeTheFinal
  <2> QED
    BY <1>2, <2>1, <2>2, AsideOwn DEF ClientIsGone, BeforeTheFinal
<1>3. CASE OpenUpstream
  <2>1. wire = <<>> /\ at' = "request"
    BY <1>0, <1>3 DEF OpenUpstream, Framing
  <2>2. PICK honest \in BOOLEAN, deaf \in BOOLEAN :
          /\ up' = [Closed EXCEPT !.open = TRUE, !.honest = honest, !.deaf = deaf,
                                  !.mode = "heads"]
          /\ fault' = (fault \/ ~honest)
    BY <1>3 DEF OpenUpstream
  <2>3. up' \in Upstreams /\ up'.open = TRUE /\ up'.mode = "heads"
    BY <2>2 DEF Closed, Upstreams
  <2>4. Typed'
    BY <1>0, <1>3, <2>1, <2>2, <2>3 DEF OpenUpstream, Typed, Locations, Busy
  <2>5. wire' = <<>> /\ Len(wire') = 0 /\ Guarded(wire')
    <3>1. wire' = <<>>
      BY <1>3, <2>1 DEF OpenUpstream
    <3> QED
      BY <3>1, NothingSent
  <2>6. Framing'
    BY <2>1, <2>3, <2>5, BusyIs DEF Framing, Active, BeforeTheFinal
  <2>7. AnswersAreOwn'
    BY <1>0, <1>3 DEF OpenUpstream, AnswersAreOwn
  <2> QED
    BY <2>4, <2>6, <2>7 DEF Own
<1>4. CASE Accept
  <2>1. heard' \in Seq(Words) /\ AnswersAreOwn'
    BY <1>0, <1>4, TellOwn DEF Accept, Say, Typed, AnswersAreOwn
  <2>2. Typed'
    BY <1>0, <1>4, <2>1 DEF Accept, Typed, Locations, Busy, Waits
  <2>3. Framing'
    BY <1>0, <1>4, BusyIs DEF Accept, Framing, Active, BeforeTheFinal
  <2> QED
    BY <2>1, <2>2, <2>3 DEF Own
<1>5. CASE ReadBody
  <2>1. inbox' \in Seq(Written)
    BY <1>0, <1>5, TailOf DEF ReadBody, Piece, LastPiece, Typed
  <2>2. ex' = ex \/ ex' = [ex EXCEPT !.got = ex.got + 1]
    BY <1>5 DEF ReadBody
  <2>3. ex' \in Exchanging /\ ex'.k = ex.k
    BY <1>0, <2>2 DEF Exchanging
  <2>4. at = "body" /\ at' \in {"body", "send"}
        /\ UNCHANGED <<dest, client, up, wire, heard, pipe, fault>>
    BY <1>5 DEF ReadBody
  <2>5. Typed'
    BY <1>0, <2>1, <2>3, <2>4 DEF Typed, Locations, Busy
  <2>6. up.open /\ at' \in Busy \ {"open"}
    BY <1>0, <2>4 DEF Framing, Busy, Active, BeforeTheFinal
  <2> QED
    BY <2>3, <2>4, <2>5, <2>6, AsideOwn DEF BeforeTheFinal
<1>6. CASE Send
  <2>1. up' \in Upstreams /\ up'.open = up.open /\ up'.mode = up.mode
    BY <1>0, <1>6 DEF Send, Typed, Exchanging, Upstreams
  <2>2. Typed'
    BY <1>0, <1>6, <2>1 DEF Send, Typed, Locations, Busy
  <2>3. Framing' /\ AnswersAreOwn'
    BY <1>0, <1>6, <2>1, BusyIs DEF Send, Framing, AnswersAreOwn, Active, BeforeTheFinal
  <2> QED
    BY <2>2, <2>3 DEF Own
<1>7. CASE Drained
  <2>1. ex' \in Exchanging /\ ex'.k = ex.k
    BY <1>0, <1>7 DEF Drained, Exchanging
  <2>2. Typed'
    BY <1>0, <1>7, <2>1 DEF Drained, Typed, Locations, Busy
  <2>3. up.open /\ at' \in Busy \ {"open"}
    BY <1>0, <1>7 DEF Drained, Framing, Busy, Active, BeforeTheFinal
  <2> QED
    BY <1>7, <2>1, <2>2, <2>3, AsideOwn DEF Drained, BeforeTheFinal
<1> QED
  BY <1>1, <1>2, <1>3, <1>4, <1>5, <1>6, <1>7

\* The client takes what it was told, or cannot be told any more.
LEMMA TakenOwn ==
    ASSUME Own, Taken \/ WriteFails
    PROVE  Own'
<1>1. CASE Over("idle") \/ Over("closed")
  <2>1. /\ UNCHANGED <<dest, client, inbox, heard, pipe, fault>>
        /\ heard \in Seq(Words) /\ fault \in BOOLEAN /\ AnswersAreOwn
    BY DEF Taken, WriteFails, Own, Typed
  <2>2. AnswersAreOwn'
    BY <2>1 DEF AnswersAreOwn
  <2> QED
    BY <1>1, <2>1, <2>2, OverOwn
<1>2. CASE \/ at = "wait_body" /\ at' = "body" /\ Taken /\ UNCHANGED <<ex, up, wire>>
           \/ at = "wait_answer" /\ at' = "answer" /\ Taken /\ UNCHANGED <<ex, up, wire>>
  <2>1. UNCHANGED <<dest, client, inbox, heard, pipe, fault>>
    BY <1>2 DEF Taken
  <2>2. Typed'
    BY <1>2, <2>1 DEF Own, Typed, Locations, Busy
  <2>3. up.open /\ at' \in Busy \ {"open"}
    BY <1>2 DEF Own, Framing, Busy, Active, BeforeTheFinal
  <2> QED
    BY <1>2, <2>1, <2>2, <2>3, AsideOwn DEF BeforeTheFinal
<1> QED
  BY <1>1, <1>2 DEF Taken, WriteFails, Waits, Onward

\* The answer: the loop of the interim answers stops at the first unit that
\* is not one, and until then reads heads only.
LEMMA AnswerOwn ==
    ASSUME Own,
           \/ \E h \in Shapes : RelayInterim(h) \/ RelayBare(h) \/ ReadFinal(h)
           \/ ReadContent \/ Relay
    PROVE  Own'
<1>0. Typed /\ Framing /\ AnswersAreOwn /\ ex \in Exchanging /\ ex.k \in Nat
  BY DEF Own, Typed, Exchanging
<1>1. ASSUME NEW h \in Shapes, Answered(h)
      PROVE  /\ at = "answer" /\ wire # <<>> /\ Head(wire) \in Units
             /\ Head(wire).shape = h /\ Head(wire).framed = "head"
             /\ Head(wire).k = ex.k
  <2>1. at = "answer" /\ wire \in Seq(Units) /\ wire # <<>> /\ Head(wire).shape = h
    BY <1>0, <1>1 DEF Answered, Typed
  <2>2. Head(wire).framed = "head"
    BY <1>0, <2>1, FirstIsHead DEF Framing, BeforeTheFinal
  <2>3. Head(wire) = wire[1] /\ 1 \in 1..Len(wire) /\ Head(wire) \in Units
        /\ Tail(wire) \in Seq(Units)
    BY <2>1, TailOf
  <2> QED
    BY <1>0, <2>1, <2>2, <2>3 DEF Framing
<1>2. wire # <<>> => \A i \in 1..Len(Tail(wire)) : Tail(wire)[i].k = ex.k
  BY <1>0, TailOf DEF Typed, Framing
<1>3. ASSUME NEW h \in Shapes, RelayInterim(h)
      PROVE  Own'
  <2>1. Answered(h) /\ Transparent(h) /\ wire' = Tail(wire)
        /\ at' \in {"answer", "wait_answer"} /\ at = "answer"
        /\ UNCHANGED <<dest, client, inbox, up, pipe, fault>>
    BY <1>3 DEF RelayInterim, Answered, Transparent
  <2>2. heard' \in Seq(Words) /\ AnswersAreOwn'
    <3>1. Head(wire) \in Units \cup {NONE} /\ Tell("interim", Head(wire), 0, 0)
          /\ Head(wire).framed = "head" /\ Head(wire).k = ex.k
      BY <1>1, <1>3, <2>1 DEF RelayInterim
    <3> QED
      BY <3>1, TellOwn
  <2>3. ex' \in Exchanging /\ ex'.k = ex.k /\ ex'.answer = ex.answer
    <3>1. ex' = [ex EXCEPT !.said = ex.said + 1] /\ ex.said < MaxInterim
      BY <1>3 DEF RelayInterim
    <3> QED
      BY <1>0, <3>1, ForwardAssumption DEF Exchanging
  <2>4. Typed'
    BY <1>0, <1>1, <2>1, <2>2, <2>3, TailOf DEF Typed, Answered, Locations, Busy, Waits
  <2>5. Guarded(wire') /\ (Stopped(wire) => Stopped(wire'))
    BY <1>0, <1>1, <2>1, ReadPast DEF Framing, Typed, BeforeTheFinal
  <2>6. Framing'
    BY <1>0, <1>1, <1>2, <2>1, <2>3, <2>5, BusyIs DEF Framing, Active, BeforeTheFinal
  <2> QED
    BY <2>2, <2>4, <2>6 DEF Own
<1>4. ASSUME NEW h \in Shapes, RelayBare(h)
      PROVE  Own'
  <2>1. Answered(h)
    BY <1>4 DEF RelayBare
  <2>2. heard' \in Seq(Words) /\ AnswersAreOwn'
    <3>1. Head(wire) \in Units \cup {NONE} /\ Tell("answer", Head(wire), 0, 0)
          /\ Head(wire).framed = "head" /\ Head(wire).k = ex.k
      BY <1>1, <1>4, <2>1 DEF RelayBare
    <3> QED
      BY <3>1, TellOwn DEF Last
  <2>3. at \in Busy
    BY <1>1, <2>1 DEF Busy
  <2> QED
    BY <1>0, <1>4, <2>2, <2>3, EndsOwn DEF RelayBare, Typed
<1>5. ASSUME NEW h \in Shapes, ReadFinal(h)
      PROVE  Own'
  <2>1. /\ Answered(h) /\ at' = "content" /\ wire' = Tail(wire)
        /\ ex' = [ex EXCEPT !.answer = Head(wire), !.got = 0]
        /\ UNCHANGED <<dest, client, inbox, up, heard, pipe, fault>>
    BY <1>5 DEF ReadFinal
  <2>2. /\ ex' \in Exchanging /\ ex'.k = ex.k /\ ex'.answer \in Units
        /\ ex'.answer.framed = "head" /\ ex'.answer.k = ex.k
    BY <1>0, <1>1, <2>1 DEF Exchanging
  <2>3. Typed'
    BY <1>0, <1>1, <2>1, <2>2, TailOf DEF Typed, Locations, Busy, Answered
  <2>4. Framing' /\ AnswersAreOwn'
    BY <1>0, <1>1, <1>2, <2>1, <2>2, BusyIs
       DEF Framing, AnswersAreOwn, Active, BeforeTheFinal
  <2> QED
    BY <2>3, <2>4 DEF Own
<1>6. CASE ReadContent
  <2>1. /\ at = "content" /\ at' \in {"content", "restore"}
        /\ wire' = wire \/ (wire # <<>> /\ wire' = Tail(wire))
        /\ ex' = ex \/ ex' = [ex EXCEPT !.got = ex.got + 1]
        /\ UNCHANGED <<dest, client, inbox, up, heard, pipe, fault>>
    BY <1>6 DEF ReadContent, Piece, LastPiece
  <2>2. ex' \in Exchanging /\ ex'.k = ex.k /\ ex'.answer = ex.answer
    BY <1>0, <2>1 DEF Exchanging
  <2>3. wire' \in Seq(Units)
    <3>1. wire \in Seq(Units)
      BY <1>0 DEF Typed
    <3>2. wire # <<>> => Tail(wire) \in Seq(Units)
      BY <3>1, TailOf
    <3> QED
      BY <2>1, <3>1, <3>2
  <2>4. Typed'
    BY <1>0, <2>1, <2>2, <2>3 DEF Typed, Locations, Busy
  <2>5. \A i \in 1..Len(wire') : wire'[i].k = ex.k
    BY <1>0, <1>2, <2>1 DEF Framing
  <2>6. Framing' /\ AnswersAreOwn'
    BY <1>0, <2>1, <2>2, <2>5, BusyIs DEF Framing, AnswersAreOwn, Active, BeforeTheFinal
  <2> QED
    BY <2>4, <2>6 DEF Own
<1>7. CASE Relay
  <2>1. ex.answer \in Units /\ ex.answer.framed = "head" /\ ex.answer.k = ex.k
    BY <1>0, <1>7 DEF Relay, Typed, Framing
  <2> DEFINE due == IF ex.answer.shape.frame = "none" THEN 0 ELSE ex.answer.shape.n
  <2>2. due \in Nat /\ ex.got \in Nat
    BY <1>0, <2>1, ForwardAssumption DEF Units, Shapes, Exchanging
  <2>3. Tell("answer", ex.answer, ex.got, due)
    BY <1>7 DEF Relay
  <2> HIDE DEF due
  <2>4. heard' \in Seq(Words) /\ AnswersAreOwn'
    BY <2>1, <2>2, <2>3, TellOwn DEF Last
  <2>5. (Ends("closed") \/ Ends("idle")) /\ at \in Busy
    BY <1>7 DEF Relay, Busy
  <2> QED
    BY <1>0, <1>7, <2>4, <2>5, EndsOwn DEF Relay, Typed
<1> QED
  BY <1>3, <1>4, <1>5, <1>6, <1>7

----------------------------------------------------------------------------
(* The steps of the client, of the upstream and of a tunnel.               *)

LEMMA ClientOwn ==
    ASSUME Own, ClientSends \/ Leave \/ \E r \in Requests : Ask(r)
    PROVE  Own'
<1>0. /\ Typed /\ client \in Clients /\ client.sent \in Nat /\ client.left \in Nat
      /\ inbox \in Seq(Written)
  BY DEF Own, Typed, Clients
<1>1. /\ UNCHANGED <<dest, at, ex, up, wire, heard, pipe, fault>>
  BY DEF ClientSends, GoAhead, SendBody, Leave, Ask
<1>2. client' \in Clients /\ inbox' \in Seq(Written)
  <2>1. CASE GoAhead
    BY <1>0, <2>1 DEF GoAhead, Clients
  <2>2. CASE SendBody
    <3>1. \E framed \in {"piece", "end", "torn"} :
             inbox' = Append(inbox, Unit(client.sent, framed, NONE))
      BY <2>2 DEF SendBody, Write
    <3>2. \A framed \in {"piece", "end", "torn"} :
             Unit(client.sent, framed, NONE) \in Written
      BY <1>0 DEF Unit, Written, Requested
    <3>3. inbox' \in Seq(Written)
      BY <1>0, <3>1, <3>2, AppendOf
    <3>4. \E left \in Nat, phase \in {"rest", "hold", "body"} :
             client' = [client EXCEPT !.left = left, !.phase = phase]
      <4>1. client.left > 0 => client.left - 1 \in Nat
        BY <1>0
      <4>2. client.phase \in {"rest", "hold", "body"}
        BY <1>0 DEF Clients
      <4>3. client = [client EXCEPT !.left = client.left]
        BY <1>0 DEF Clients
      <4> QED
        BY <1>0, <2>2, <4>1, <4>2, <4>3 DEF SendBody, Clients
    <3> QED
      BY <1>0, <3>3, <3>4 DEF Clients
  <2>3. CASE Leave
    BY <1>0, <2>3 DEF Leave, Clients
  <2>4. ASSUME NEW r \in Requests, Ask(r)
        PROVE  client' \in Clients /\ inbox' \in Seq(Written)
    <3>1. inbox' = Append(inbox, Unit(client.sent + 1, "head", r))
      BY <2>4 DEF Ask, Write
    <3>2. Unit(client.sent + 1, "head", r) \in Written
      BY <1>0 DEF Unit, Written, Requested
    <3>3. inbox' \in Seq(Written)
      BY <1>0, <3>1, <3>2, AppendOf
    <3>4. r.n \in Nat
      BY ForwardAssumption
    <3>5. \E phase \in {"rest", "hold", "body"}, pieces \in BOOLEAN :
             client' = [client EXCEPT !.sent = client.sent + 1, !.left = r.n,
                                      !.pieces = pieces, !.phase = phase]
      <4>1. (r.frame = "chunked") \in BOOLEAN
        OBVIOUS
      <4>2. (IF ~HasBody(r) THEN "rest"
             ELSE IF r.expect = "none" THEN "body" ELSE "hold") \in {"rest", "hold", "body"}
        OBVIOUS
      <4> QED
        BY <2>4, <4>1, <4>2 DEF Ask
    <3>6. client' \in Clients
      <4>1. PICK phase \in {"rest", "hold", "body"}, pieces \in BOOLEAN :
               client' = [client EXCEPT !.sent = client.sent + 1, !.left = r.n,
                                        !.pieces = pieces, !.phase = phase]
        BY <3>5
      <4> DEFINE n == client.sent + 1
      <4>2. n \in Nat
        BY <1>0
      <4>3. client' = [client EXCEPT !.sent = n, !.left = r.n, !.pieces = pieces,
                                     !.phase = phase]
        BY <4>1
      <4> HIDE DEF n
      <4> QED
        BY <1>0, <3>4, <4>2, <4>3 DEF Clients
    <3> QED
      BY <3>3, <3>6
  <2> QED
    BY <2>1, <2>2, <2>3, <2>4 DEF ClientSends
<1>3. Typed'
  BY <1>0, <1>1, <1>2 DEF Typed
<1> QED
  BY <1>1, <1>3, AsideOwn

\* A unit the upstream sends, as a head or behind one the loop stops at.
LEMMA EmitOwn ==
    ASSUME Own, NEW framed \in {"head", "piece", "end", "torn", "more"},
           NEW shape \in Shapes, Emit(framed, shape), up' \in Upstreams,
           up'.open = up.open,
           framed # "head" => up.mode # "heads",
           up'.mode = "heads" \/ up.mode # "heads" \/ ~Transparent(shape)
    PROVE  Own'
<1>0. /\ Typed /\ Framing /\ AnswersAreOwn /\ ex.k \in Nat /\ wire \in Seq(Units)
  BY DEF Own, Typed, Exchanging
<1> DEFINE u == Unit(ex.k, framed, shape)
<1>1. u \in Units /\ u.framed = framed /\ u.shape = shape /\ u.k = ex.k
  BY <1>0 DEF Unit, Units
<1>2. /\ wire' = Append(wire, u) /\ up.open
      /\ UNCHANGED <<dest, at, ex, client, inbox, heard, pipe, fault>>
  BY DEF Emit
<1> HIDE DEF u
<1>3. /\ wire' \in Seq(Units) /\ Len(wire) \in Nat /\ Len(wire') = Len(wire) + 1
      /\ \A i \in 1..Len(wire) : wire'[i] = wire[i]
      /\ wire'[Len(wire) + 1] = u
  BY <1>0, <1>1, <1>2, AppendOf
<1>4. \A i \in 1..Len(wire') : wire'[i].k = ex.k
  <2>1. \A i \in 1..Len(wire') : i \in 1..Len(wire) \/ i = Len(wire) + 1
    BY <1>3
  <2> QED
    BY <1>0, <1>1, <1>3, <2>1 DEF Framing
<1>5. at \in BeforeTheFinal =>
          Guarded(wire') /\ (up'.mode # "heads" => Stopped(wire'))
  <2> SUFFICES ASSUME at \in BeforeTheFinal
               PROVE  Guarded(wire') /\ (up'.mode # "heads" => Stopped(wire'))
    OBVIOUS
  <2>1. Guarded(wire) /\ (up.mode # "heads" => Stopped(wire))
    BY <1>0 DEF Framing
  <2>2. u.framed = "head" \/ Stopped(wire)
    BY <1>1, <2>1
  <2>3. Guarded(wire') /\ (Stopped(wire) \/ ~Transparent(shape) => Stopped(wire'))
    BY <1>0, <1>1, <1>2, <2>1, <2>2, SendBehind
  <2> QED
    BY <2>1, <2>3
<1>6. Framing'
  BY <1>0, <1>2, <1>4, <1>5 DEF Framing
<1>7. Typed' /\ AnswersAreOwn'
  BY <1>0, <1>2, <1>3 DEF Typed, AnswersAreOwn
<1> QED
  BY <1>6, <1>7 DEF Own

LEMMA UpstreamOwn ==
    ASSUME Own, UpstreamSends \/ EmitMore \/ HangUp
    PROVE  Own'
<1>0. /\ Typed /\ Framing /\ AnswersAreOwn /\ up \in Upstreams
      /\ up.left \in Nat /\ up.interims \in Nat
  BY DEF Own, Typed, Upstreams
<1>1. ASSUME NEW h \in Heads, EmitHead(h)
      PROVE  Own'
  <2>1. h \in Shapes /\ h.n \in Nat
    BY ForwardAssumption DEF Shapes
  <2>2. up' \in Upstreams /\ up'.open = up.open
    <3>1. PICK interims \in Nat, mode \in {"heads", "sized", "pieces", "done"} :
             up' = [up EXCEPT !.left = h.n, !.interims = interims, !.mode = mode]
      <4> DEFINE bare == h.status = "empty" \/ ex.req.head
                 next == IF h.status = "interim" THEN "heads" ELSE "done"
                 mode == IF bare \/ Bodiless(h) \/ h.parses # "yes" THEN next
                         ELSE IF h.frame = "length" THEN "sized"
                         ELSE IF h.frame = "chunked" THEN "pieces" ELSE "done"
                 interims == IF h.status = "interim" THEN up.interims + 1 ELSE up.interims
      <4>1. interims \in Nat /\ mode \in {"heads", "sized", "pieces", "done"}
        BY <1>0
      <4>2. up' = [up EXCEPT !.left = h.n, !.interims = interims, !.mode = mode]
        BY <1>1 DEF EmitHead
      <4> HIDE DEF interims, mode
      <4> QED
        BY <4>1, <4>2
    <3> QED
      BY <1>0, <2>1, <3>1 DEF Upstreams
  <2>3. up.mode = "heads" /\ Emit("head", h)
    BY <1>1 DEF EmitHead
  <2>4. up'.mode = "heads" \/ ~Transparent(h)
    BY <1>0, <1>1 DEF EmitHead, Transparent, Upstreams
  <2> QED
    BY <2>1, <2>2, <2>3, <2>4, EmitOwn
<1>2. CASE EmitBody
  <2>1. up.mode # "heads"
    BY <1>2 DEF EmitBody
  <2>2. PICK framed \in {"piece", "end", "torn"}, look \in Looks : Emit(framed, look)
    BY <1>2 DEF EmitBody
  <2>3. up' \in Upstreams /\ up'.open = up.open
    <3>1. up.left > 0 => up.left - 1 \in Nat
      BY <1>0
    <3> QED
      BY <1>0, <1>2, <3>1 DEF EmitBody, Upstreams
  <2> QED
    BY <2>1, <2>2, <2>3, EmitOwn DEF Shapes
<1>3. CASE EmitMore
  <2>1. up.mode # "heads" /\ up' = up
    BY <1>3 DEF EmitMore
  <2>2. PICK look \in Looks : Emit("more", look)
    BY <1>3 DEF EmitMore
  <2> QED
    BY <1>0, <2>1, <2>2, EmitOwn DEF Shapes
<1>4. CASE HangUp
  <2>1. up' \in Upstreams /\ up'.open = up.open /\ up'.mode = up.mode
    BY <1>0, <1>4 DEF HangUp, Upstreams
  <2>2. Typed'
    BY <1>0, <1>4, <2>1 DEF HangUp, Typed
  <2>3. Framing' /\ AnswersAreOwn'
    BY <1>0, <1>4, <2>1 DEF HangUp, Framing, AnswersAreOwn
  <2> QED
    BY <2>2, <2>3 DEF Own
<1> QED
  BY <1>1, <1>2, <1>3, <1>4 DEF UpstreamSends

LEMMA TunnelOwn ==
    ASSUME Own, Relayed \/ InTunnel
    PROVE  Own'
<1>0. Typed /\ Framing /\ AnswersAreOwn /\ pipe \in Pipes
  BY DEF Own, Typed
<1>1. CASE TunnelCloses
  <2>1. Typed'
    BY <1>0, <1>1 DEF TunnelCloses, Typed, Locations
  <2>2. ~up.open /\ at' \notin Active
    BY <1>0, <1>1 DEF TunnelCloses, Framing, Busy, Waits, Active, BeforeTheFinal
  <2> QED
    BY <1>1, <2>1, <2>2, AsideOwn DEF TunnelCloses, BeforeTheFinal
<1>2. ASSUME NEW d \in Directions,
             \/ Pump(d) \/ Shut(d)
             \/ SendInTunnel(d) \/ EndInTunnel(d) \/ Reset(d)
      PROVE  Own'
  <2>1. UNCHANGED <<dest, at, ex, client, inbox, up, wire, heard, fault>>
    BY <1>2 DEF Pump, Shut, SendInTunnel, EndInTunnel, Reset, Pipe
  <2>2. pipe[d] \in [sent : Nat, passed : Nat, ended : BOOLEAN, reset : BOOLEAN,
                     shut : BOOLEAN]
    BY <1>0, <1>2 DEF Pipes
  <2>3. pipe' \in Pipes
    <3> DEFINE P == [sent : Nat, passed : Nat, ended : BOOLEAN, reset : BOOLEAN,
                     shut : BOOLEAN]
    <3>1. /\ [pipe[d] EXCEPT !.sent = pipe[d].sent + 1] \in P
          /\ [pipe[d] EXCEPT !.passed = pipe[d].passed + 1] \in P
      <4>1. pipe[d].sent + 1 \in Nat /\ pipe[d].passed + 1 \in Nat
        BY <2>2
      <4>2. \A n \in Nat : /\ [pipe[d] EXCEPT !.sent = n] \in P
                           /\ [pipe[d] EXCEPT !.passed = n] \in P
        BY <2>2
      <4> QED
        BY <4>1, <4>2
    <3>2. /\ [pipe[d] EXCEPT !.ended = TRUE] \in P
          /\ [pipe[d] EXCEPT !.reset = TRUE] \in P
          /\ [pipe[d] EXCEPT !.shut = TRUE] \in P
      BY <2>2
    <3> HIDE DEF P
    <3>3. \E new \in P : pipe' = [pipe EXCEPT ![d] = new]
      BY <1>2, <3>1, <3>2 DEF Pump, Shut, SendInTunnel, EndInTunnel, Reset, Pipe
    <3>4. pipe \in [Directions -> P]
      BY <1>0 DEF Pipes, P
    <3> QED
      BY <3>3, <3>4 DEF Pipes, P
  <2>4. Typed'
    BY <1>0, <2>1, <2>3 DEF Typed
  <2> QED
    BY <2>1, <2>4, AsideOwn
<1> QED
  BY <1>1, <1>2 DEF Relayed, InTunnel

----------------------------------------------------------------------------

LEMMA InitOwn == Init => Own
<1> SUFFICES ASSUME Init PROVE Own
  OBVIOUS
<1>1. Fresh(0) \in Exchanging /\ Closed \in Upstreams /\ Closed.open = FALSE
  BY ForwardAssumption DEF Fresh, Exchanging, Requested, Closed, Upstreams
<1>2. client \in Clients /\ pipe \in Pipes
  <2>1. [sent |-> 0, passed |-> 0, ended |-> FALSE, reset |-> FALSE, shut |-> FALSE]
          \in [sent : Nat, passed : Nat, ended : BOOLEAN, reset : BOOLEAN, shut : BOOLEAN]
    OBVIOUS
  <2>2. pipe \in Pipes
    BY <2>1 DEF Init, Pipes
  <2>3. client \in Clients
    <3>1. /\ client = [honest |-> client.honest, deaf |-> client.deaf, gone |-> FALSE,
                       phase |-> "rest", sent |-> 0, left |-> 0, pieces |-> FALSE]
          /\ client.honest \in BOOLEAN /\ client.deaf \in BOOLEAN
      BY DEF Init
    <3>2. \A b, c \in BOOLEAN :
             [honest |-> b, deaf |-> c, gone |-> FALSE, phase |-> "rest", sent |-> 0,
              left |-> 0, pieces |-> FALSE] \in Clients
      BY DEF Clients
    <3> QED
      BY <3>1, <3>2
  <2> QED
    BY <2>2, <2>3
<1>3. Typed
  <2>1. inbox \in Seq(Written) /\ wire \in Seq(Units) /\ heard \in Seq(Words)
    BY DEF Init
  <2> QED
    BY <1>1, <1>2, <2>1 DEF Init, Typed, Locations
<1>4. Framing /\ AnswersAreOwn
  BY <1>1 DEF Init, Framing, AnswersAreOwn, Active, BeforeTheFinal
<1> QED
  BY <1>3, <1>4 DEF Own

LEMMA StepOwn == Own /\ [Next]_vars => Own'
<1> SUFFICES ASSUME Own, [Next]_vars PROVE Own'
  OBVIOUS
<1>1. CASE Connect
  BY <1>1, ConnectOwn
<1>2. CASE Exchange
  <2>1. CASE \/ UpstreamRefuses \/ IllFormed \/ BodyUnreadable \/ TransformFails
             \/ DrainFails \/ AnswerRefused \/ ContentUnreadable \/ Residue
    <3>1. Fail /\ fault' \in BOOLEAN /\ at \in Busy
      BY <2>1 DEF UpstreamRefuses, IllFormed, BodyUnreadable, TransformFails, DrainFails,
                  AnswerRefused, ContentUnreadable, Residue, Own, Typed, Busy
    <3> QED
      BY <3>1, FailOwn
  <2>2. CASE UnmetExpectation
    <3>1. heard' \in Seq(Words) /\ AnswersAreOwn'
      BY <2>2, TellOwn DEF UnmetExpectation, Say, Last
    <3> QED
      BY <2>2, <3>1, EndsOwn DEF UnmetExpectation, Own, Typed, Busy
  <2> QED
    BY <1>2, <2>1, <2>2, RequestOwn, AnswerOwn, TakenOwn DEF Exchange
<1>3. CASE Silence
  <2>1. Fail /\ fault' \in BOOLEAN /\ at \in Busy
    BY <1>3 DEF Silence, ClientSilent, UpstreamSilent, Own, Typed, Busy
  <2> QED
    BY <2>1, FailOwn
<1>4. CASE Relayed \/ InTunnel
  BY <1>4, TunnelOwn
<1>5. CASE Stop
  <2>1. heard' \in Seq(Words) /\ AnswersAreOwn'
    BY <1>5 DEF Stop, Own, Typed, AnswersAreOwn
  <2> QED
    BY <1>5, <2>1, OverOwn DEF Stop
<1>6. CASE ClientSends \/ Leave \/ \E r \in Requests : Ask(r)
  BY <1>6, ClientOwn
<1>7. CASE UpstreamSends \/ EmitMore \/ HangUp
  BY <1>7, UpstreamOwn
<1>8. CASE UNCHANGED vars
  <2>1. Typed'
    BY <1>8 DEF vars, Own, Typed
  <2> QED
    BY <1>8, <2>1, AsideOwn DEF vars
<1> QED
  BY <1>1, <1>2, <1>3, <1>4, <1>5, <1>6, <1>7, <1>8 DEF Next

LEMMA AlwaysOwn == Spec => []Own
BY InitOwn, StepOwn, PTL DEF Spec

\* Every variable of a connection keeps its type, whatever its two parties send.
THEOREM TypeCorrect == Spec => []TypeOK
<1>1. Own => TypeOK
  BY TypedIsTypeOK DEF Own
<1> QED
  BY <1>1, AlwaysOwn, PTL

\* _echange, for any number of exchanges and any upstream: what the client
\* hears as an answer is a head that the upstream of its own request sent as a
\* head, never a piece of a body nor the rest of another exchange.
THEOREM NoStolenAnswer == Spec => []AnswersAreOwn
<1>1. Own => AnswersAreOwn
  BY DEF Own
<1> QED
  BY <1>1, AlwaysOwn, PTL

----------------------------------------------------------------------------
(* The words of a connection: what the client has been told, and a tunnel. *)

Told(h, n, kinds) == \E i \in 1..Len(h) : h[i].k = n /\ h[i].kind \in kinds
Ordered(h) == \A i, j \in 1..Len(h) :
    i < j => h[i].k <= h[j].k /\ (h[i].kind \in Last => h[i].k < h[j].k)
UpTo(h, n) == \A i \in 1..Len(h) : h[i].k <= n

\* What has been told is in order and of the exchanges up to this one, and an
\* exchange that goes on has not had its last word.
InOrder ==
    /\ Ordered(heard) /\ UpTo(heard, ex.k)
    /\ at \in Active => ~Told(heard, ex.k, Last)
    /\ at = "connect" => heard = <<>>
    /\ at \in {"connect", "tunnel"} => ex.k = 0

\* A client that is there has been told how its CONNECT went, and how each
\* exchange that is over went.
Named ==
    /\ at \notin {"connect", "stopped"} /\ ~client.gone => heard # <<>>
    /\ at \in {"idle", "closed"} \cup Ending /\ ~client.gone /\ ex.k > 0 =>
           Told(heard, ex.k, Last)

\* What a direction of a tunnel owes its reader is delivered, or one of the two is lost.
Settled(d) == \/ pipe[d].ended /\ pipe[d].passed = pipe[d].sent
              \/ pipe[d].reset \/ ReaderLost(d)

\* A direction of a tunnel that is shut has delivered all it could.
Piped ==
    /\ \A d \in Directions : /\ pipe[d].passed <= pipe[d].sent
                             /\ pipe[d].shut => Settled(d)
    /\ at \notin {"tunnel", "stopped"} =>
           \A d \in Directions : pipe[d].passed = pipe[d].sent \/ Settled(d)

Worded == Own /\ InOrder /\ Named /\ Piped

\* A word of some kind to a client that is there.
Tells(kinds) ==
    \/ client.gone /\ heard' = heard
    \/ \E w \in Words : w.k = ex.k /\ w.kind \in kinds /\ heard' = Append(heard, w)

----------------------------------------------------------------------------
(* What a step does to the words and to the tunnel.                        *)

\* Nothing is said, and the exchange goes on.
GoesOn ==
    /\ heard' = heard /\ pipe' = pipe /\ ex'.k = ex.k /\ (client.gone => client'.gone)
    /\ at' = at \/ (at \in Active /\ at' \in Active)
\* A word that is not the last.
Speaks == /\ at \in Active /\ at' \in Active /\ Tells({"continue", "interim"})
          /\ ex'.k = ex.k /\ UNCHANGED <<client, pipe>>
\* The last word of an exchange.
Finishes == /\ at \in Active /\ at' \in {"idle", "closed"} \cup Ending /\ Tells(Last)
            /\ ex'.k = ex.k /\ UNCHANGED <<client, pipe>>
\* The last word is taken.
Resumes == /\ at \in Ending /\ at' \in {"idle", "closed"}
           /\ ex'.k = ex.k /\ UNCHANGED <<heard, client, pipe>>
\* The answer to the CONNECT.
Opens == /\ at = "connect" /\ at' \in {"idle", "closed", "tunnel"}
         /\ Tells({"established", "refusal"}) /\ UNCHANGED <<ex, client, pipe>>
         /\ ~client.gone => heard' # heard
\* A request is read, or cannot be.
Begins == /\ at = "idle" /\ UNCHANGED <<heard, client, pipe>>
          /\ \/ at' = "open" /\ ex'.k = ex.k + 1
             \/ at' = "closed" /\ ex' = ex
\* The connection is over with nothing to say.
Leaves == \/ at' = "stopped" /\ ex'.k = ex.k /\ UNCHANGED <<heard, client, pipe>>
          \/ /\ at \in Busy \cup {"idle"} /\ at' = "closed" /\ client.gone
             /\ ex'.k = ex.k /\ UNCHANGED <<heard, client, pipe>>
\* The tunnel.
Flows == /\ at = "tunnel" /\ UNCHANGED <<heard, ex, client>> /\ (Relayed \/ InTunnel)

LEMMA TellTells ==
    ASSUME Own, NEW kind \in Last \cup {"established", "continue", "interim"},
           NEW unit \in Units \cup {NONE}, NEW n \in Nat, NEW due \in Nat,
           Tell(kind, unit, n, due)
    PROVE  Tells({kind}) /\ (~client.gone => heard' # heard)
<1> DEFINE w == [k |-> ex.k, kind |-> kind, unit |-> unit, units |-> n, due |-> due]
<1>1. ex.k \in Nat /\ heard \in Seq(Words)
  BY DEF Own, Typed, Exchanging
<1>2. w \in Words /\ w.kind = kind /\ w.k = ex.k
  BY <1>1 DEF Words
<1>3. (client.gone /\ heard' = heard) \/ (~client.gone /\ heard' = Append(heard, w))
  BY DEF Tell
<1> HIDE DEF w
<1>4. Append(heard, w) # heard
  <2>1. Len(Append(heard, w)) = Len(heard) + 1 /\ Len(heard) \in Nat
    BY <1>1, <1>2, AppendOf
  <2> QED
    BY <2>1
<1> QED
  BY <1>2, <1>3, <1>4 DEF Tells

LEMMA TellsMore ==
    ASSUME NEW few, NEW many, few \subseteq many, Tells(few)
    PROVE  Tells(many)
BY DEF Tells

LEMMA SayTells ==
    ASSUME Own, NEW kind \in Last \cup {"established", "continue", "interim"}, Say(kind)
    PROVE  Tells({kind}) /\ (~client.gone => heard' # heard)
BY TellTells DEF Say

LEMMA LastIsLast ==
    ASSUME at \in Active, NEW next \in {"idle", "closed"}, Ends(next), Tells(Last),
           UNCHANGED <<client, pipe>>
    PROVE  Finishes
BY DEF Ends, Over, Fresh, Finishes, Ending

LEMMA FailEnds ==
    ASSUME Own, at \in Active, Fail
    PROVE  Finishes
<1>1. Tells(Last)
  BY SayTells, TellsMore DEF Fail, Last
<1> QED
  BY <1>1, LastIsLast DEF Fail

LEMMA StepKinds ==
    ASSUME Own, [Next]_vars
    PROVE  GoesOn \/ Speaks \/ Finishes \/ Resumes \/ Opens \/ Begins \/ Leaves \/ Flows
<1>0. Typed /\ Framing /\ ex \in Exchanging /\ ex.k \in Nat /\ client \in Clients
  BY DEF Own, Typed, Exchanging
<1>1. CASE Connect
  <2>1. at = "connect" /\ at' \in {"idle", "closed", "tunnel"} /\ UNCHANGED <<ex, client, pipe>>
    BY <1>1 DEF Connect, Refuse, Inspect, Tunnel
  <2>2. Say("established") \/ Say("refusal")
    BY <1>1 DEF Connect, Refuse, Inspect, Tunnel
  <2>3. Tells({"established", "refusal"}) /\ (~client.gone => heard' # heard)
    BY <2>2, SayTells, TellsMore DEF Last
  <2> QED
    BY <2>1, <2>3 DEF Opens
<1>2. CASE \/ UpstreamRefuses \/ IllFormed \/ BodyUnreadable \/ TransformFails
           \/ DrainFails \/ AnswerRefused \/ ContentUnreadable \/ Residue \/ Silence
  <2>1. Fail /\ at \in Active
    BY <1>2 DEF UpstreamRefuses, IllFormed, BodyUnreadable, TransformFails, DrainFails,
                AnswerRefused, ContentUnreadable, Residue, Silence,
                ClientSilent, UpstreamSilent, Active, BeforeTheFinal
  <2> QED
    BY <2>1, FailEnds
<1>3. CASE UnmetExpectation
  <2>1. Tells(Last)
    BY <1>3, SayTells, TellsMore DEF UnmetExpectation, Last
  <2> QED
    BY <1>3, <2>1, LastIsLast DEF UnmetExpectation, Active, BeforeTheFinal
<1>4. CASE ReadRequest
  BY <1>0, <1>4 DEF ReadRequest, Begins, Fresh
<1>5. CASE ClientIsGone
  BY <1>5 DEF ClientIsGone, Leaves
<1>6. CASE OpenUpstream \/ ReadBody \/ Send \/ Drained
  <2>1. ex'.k = ex.k
    BY <1>0, <1>6 DEF OpenUpstream, ReadBody, Send, Drained, Exchanging
  <2> QED
    BY <1>6, <2>1 DEF OpenUpstream, ReadBody, Send, Drained, GoesOn, Active, BeforeTheFinal
<1>7. CASE Accept
  <2>1. CASE Say("continue")
    <3>1. Tells({"continue", "interim"})
      BY <2>1, SayTells, TellsMore
    <3> QED
      BY <1>7, <3>1 DEF Accept, Speaks, Active, BeforeTheFinal
  <2>2. CASE UNCHANGED heard
    BY <1>7, <2>2 DEF Accept, GoesOn, Active, BeforeTheFinal
  <2> QED
    BY <1>7, <2>1, <2>2 DEF Accept
<1>8. ASSUME NEW h \in Shapes, Answered(h)
      PROVE  at = "answer" /\ Head(wire) \in Units \cup {NONE}
  BY <1>0, <1>8, TailOf DEF Answered, Typed
<1>9. ASSUME NEW h \in Shapes, RelayInterim(h) PROVE Speaks
  <2>1. Tells({"continue", "interim"})
    BY <1>8, <1>9, TellTells, TellsMore DEF RelayInterim
  <2>2. ex'.k = ex.k
    BY <1>0, <1>9 DEF RelayInterim, Exchanging
  <2> QED
    BY <1>8, <1>9, <2>1, <2>2 DEF RelayInterim, Speaks, Active, BeforeTheFinal
<1>10. ASSUME NEW h \in Shapes, RelayBare(h) PROVE Finishes
  <2>1. Answered(h) /\ Tell("answer", Head(wire), 0, 0)
    BY <1>10 DEF RelayBare
  <2>2. Tells(Last)
    BY <1>8, <2>1, TellTells, TellsMore DEF Last
  <2> QED
    BY <1>8, <1>10, <2>1, <2>2, LastIsLast DEF RelayBare, Active, BeforeTheFinal
<1>11. ASSUME NEW h \in Shapes, ReadFinal(h) PROVE GoesOn
  <2>1. at = "answer" /\ at' = "content" /\ ex'.k = ex.k
    BY <1>0, <1>8, <1>11 DEF ReadFinal, Exchanging
  <2> QED
    BY <1>11, <2>1 DEF ReadFinal, GoesOn, Active, BeforeTheFinal
<1>12. CASE ReadContent
  <2>1. at = "content" /\ at' \in {"content", "restore"} /\ ex'.k = ex.k
    BY <1>0, <1>12 DEF ReadContent, Exchanging
  <2> QED
    BY <1>12, <2>1 DEF ReadContent, GoesOn, Active, BeforeTheFinal
<1>13. CASE Relay
  <2>1. ex.answer \in Units /\ ex.got \in Nat
    BY <1>0, <1>13 DEF Relay, Typed, Exchanging
  <2> DEFINE due == IF ex.answer.shape.frame = "none" THEN 0 ELSE ex.answer.shape.n
  <2>2. due \in Nat
    BY <2>1, ForwardAssumption DEF Units, Shapes
  <2>3. Tell("answer", ex.answer, ex.got, due)
    BY <1>13 DEF Relay
  <2> HIDE DEF due
  <2>4. Tells(Last)
    BY <2>1, <2>2, <2>3, TellTells, TellsMore DEF Last
  <2>5. (Ends("closed") \/ Ends("idle")) /\ at \in Active
    BY <1>13 DEF Relay, Active, BeforeTheFinal
  <2> QED
    BY <1>13, <2>4, <2>5, LastIsLast DEF Relay
<1>14. CASE Stop
  BY <1>14 DEF Stop, Over, Fresh, Leaves
<1>15. CASE Relayed \/ InTunnel
  BY <1>15 DEF Relayed, InTunnel, TunnelCloses, Pump, Shut, SendInTunnel, EndInTunnel,
               Reset, Pipe, Flows
<1>16. CASE ClientSends \/ Leave \/ \E r \in Requests : Ask(r)
  <2>1. UNCHANGED <<at, ex, heard, pipe>>
    BY <1>16 DEF ClientSends, GoAhead, SendBody, Leave, Ask
  <2>2. client.gone => client'.gone
    BY <1>0, <1>16 DEF ClientSends, GoAhead, SendBody, Leave, Ask, Clients
  <2> QED
    BY <2>1, <2>2 DEF GoesOn
<1>17. CASE UpstreamSends \/ EmitMore \/ HangUp
  BY <1>17 DEF UpstreamSends, EmitMore, HangUp, EmitBody, EmitHead, Emit, GoesOn
<1>18. CASE UNCHANGED vars
  BY <1>18 DEF vars, GoesOn
<1>19. CASE Taken
  <2>1. CASE at \in Ending
    BY <1>19, <2>1 DEF Taken, Onward, Over, Fresh, Ending, Resumes
  <2>2. CASE at \in Waits \ Ending
    BY <1>19, <2>2 DEF Taken, Waits, Onward, Ending, GoesOn, Active, BeforeTheFinal
  <2> QED
    BY <1>19, <2>1, <2>2 DEF Taken
<1>20. CASE WriteFails
  BY <1>20 DEF WriteFails, Over, Fresh, Leaves, Busy
<1> QED
  BY <1>1, <1>2, <1>3, <1>4, <1>5, <1>6, <1>7, <1>9, <1>10, <1>11, <1>12, <1>13, <1>14,
     <1>15, <1>16, <1>17, <1>18, <1>19, <1>20 DEF Next, Exchange

----------------------------------------------------------------------------

\* A word of this exchange, which has not had its last.
LEMMA WordInOrder ==
    ASSUME NEW h \in Seq(Words), NEW w \in Words, Ordered(h), UpTo(h, w.k), ~Told(h, w.k, Last)
    PROVE  LET g == Append(h, w)
           IN  /\ Ordered(g) /\ UpTo(g, w.k) /\ g # <<>>
               /\ w.kind \in Last <=> Told(g, w.k, Last)
<1> DEFINE g == Append(h, w)
<1>1. /\ Len(h) \in Nat /\ Len(g) = Len(h) + 1 /\ g[Len(h) + 1] = w
      /\ \A i \in 1..Len(h) : g[i] = h[i] /\ h[i] \in Words
  BY AppendOf
<1>2. w.k \in Nat /\ \A i \in 1..Len(h) : h[i].k \in Nat
  BY <1>1 DEF Words
<1> HIDE DEF g
<1>3. \A i \in 1..Len(g) : i \in 1..Len(h) \/ i = Len(h) + 1
  BY <1>1
<1>4. \A i \in 1..Len(h) : h[i].k <= w.k /\ (h[i].kind \in Last => h[i].k < w.k)
  BY <1>2 DEF UpTo, Told
<1>5. Ordered(g)
  <2> SUFFICES ASSUME NEW i \in 1..Len(g), NEW j \in 1..Len(g), i < j
               PROVE  g[i].k <= g[j].k /\ (g[i].kind \in Last => g[i].k < g[j].k)
    BY DEF Ordered
  <2>1. i \in 1..Len(h)
    BY <1>1
  <2>2. CASE j \in 1..Len(h)
    BY <1>1, <2>1, <2>2 DEF Ordered
  <2>3. CASE j = Len(h) + 1
    BY <1>1, <1>4, <2>1, <2>3
  <2> QED
    BY <1>3, <2>2, <2>3
<1>6. UpTo(g, w.k)
  BY <1>1, <1>2, <1>3 DEF UpTo
<1>7. g # <<>> /\ Len(h) + 1 \in 1..Len(g)
  BY <1>1
<1>8. w.kind \in Last <=> Told(g, w.k, Last)
  BY <1>1, <1>3, <1>4, <1>7 DEF Told
<1> QED
  BY <1>5, <1>6, <1>7, <1>8 DEF g

\* What was told up to one exchange is told before the next.
LEMMA NothingYet ==
    ASSUME NEW h \in Seq(Words), NEW n \in Nat, UpTo(h, n)
    PROVE  UpTo(h, n + 1) /\ ~Told(h, n + 1, Last)
<1>1. \A i \in 1..Len(h) : h[i] \in Words
  OBVIOUS
<1>2. \A i \in 1..Len(h) : h[i].k \in Nat /\ h[i].k <= n
  BY <1>1 DEF Words, UpTo
<1> QED
  BY <1>2 DEF UpTo, Told

LEMMA WordedStep ==
    ASSUME Worded, Own',
           GoesOn \/ Speaks \/ Finishes \/ Resumes \/ Opens \/ Begins \/ Leaves \/ Flows
    PROVE  Worded'
<1>0. /\ Own /\ InOrder /\ Named /\ Piped /\ heard \in Seq(Words) /\ ex.k \in Nat
      /\ client.gone \in BOOLEAN /\ client'.gone \in BOOLEAN
      /\ at \in Locations /\ at' \in Locations
  BY DEF Worded, Own, Typed, Exchanging, Clients
<1>1. InOrder' /\ Named'
  <2>1. CASE GoesOn
    BY <1>0, <2>1 DEF GoesOn, InOrder, Named, Active, BeforeTheFinal, Ending
  <2>2. CASE Speaks
    BY <1>0, <2>2, WordInOrder
       DEF Speaks, Tells, InOrder, Named, Active, BeforeTheFinal, Ending, Last
  <2>3. CASE Finishes
    BY <1>0, <2>3, WordInOrder
       DEF Finishes, Tells, InOrder, Named, Active, BeforeTheFinal, Ending
  <2>8. CASE Resumes
    BY <1>0, <2>8 DEF Resumes, InOrder, Named, Active, BeforeTheFinal, Ending
  <2>4. CASE Opens
    <3>1. /\ heard = <<>> /\ ex.k = 0 /\ ex' = ex /\ client' = client
          /\ at' \in {"idle", "closed", "tunnel"}
      BY <1>0, <2>4 DEF Opens, InOrder
    <3>2. Ordered(heard) /\ UpTo(heard, ex.k) /\ ~Told(heard, ex.k, Last)
      BY <1>0, <3>1 DEF InOrder, Told
    <3>3. Ordered(heard') /\ UpTo(heard', ex.k)
      BY <1>0, <2>4, <3>2, WordInOrder DEF Opens, Tells
    <3>4. ~client.gone => heard' # <<>>
      BY <2>4, <3>1 DEF Opens
    <3> QED
      BY <3>1, <3>3, <3>4 DEF InOrder, Named, Active, BeforeTheFinal, Ending
  <2>5. CASE Begins
    BY <1>0, <2>5, NothingYet DEF Begins, InOrder, Named, Active, BeforeTheFinal, Ending
  <2>6. CASE Leaves
    BY <1>0, <2>6 DEF Leaves, InOrder, Named, Active, BeforeTheFinal, Ending, Busy, Waits
  <2>7. CASE Flows
    BY <1>0, <2>7 DEF Flows, InOrder, Named, Active, BeforeTheFinal, Ending, Relayed, InTunnel,
                      TunnelCloses, Pump, Shut, SendInTunnel, EndInTunnel, Reset, Pipe
  <2> QED
    BY <2>1, <2>2, <2>3, <2>4, <2>5, <2>6, <2>7, <2>8, <1>0 DEF Worded
<1>2. Piped'
  <2>1. CASE ~Flows
    <3>1. pipe' = pipe
      BY <2>1 DEF GoesOn, Speaks, Finishes, Resumes, Opens, Begins, Leaves
    <3>2. at' \in {"tunnel", "stopped"} \/ at \notin {"tunnel", "stopped"}
      BY <1>0, <2>1 DEF GoesOn, Speaks, Finishes, Resumes, Opens, Begins, Leaves, Busy, Waits,
                        Active, BeforeTheFinal, Ending
    <3> QED
      BY <1>0, <3>1, <3>2 DEF Piped, Settled, ReaderLost
  <2>2. CASE TunnelCloses
    BY <1>0, <2>2 DEF TunnelCloses, Piped, Settled, ReaderLost
  <2>3. ASSUME NEW d \in Directions,
               \/ Pump(d) \/ Shut(d)
               \/ SendInTunnel(d) \/ EndInTunnel(d) \/ Reset(d)
        PROVE  Piped'
    <3>1. at = "tunnel" /\ at' = at /\ pipe \in Pipes
      BY <1>0, <2>3 DEF Pump, Shut, SendInTunnel, EndInTunnel, Reset, Pipe, Own, Typed
    <3>2. ASSUME NEW c \in Directions
          PROVE  /\ pipe'[c].passed <= pipe'[c].sent
                 /\ pipe'[c].shut => Settled(c)'
      <4>1. /\ pipe[c].sent \in Nat /\ pipe[c].passed \in Nat
            /\ pipe[c] \in [sent : Nat, passed : Nat, ended : BOOLEAN, reset : BOOLEAN,
                            shut : BOOLEAN]
        BY <3>1 DEF Pipes
      <4>2. /\ pipe[c].passed <= pipe[c].sent
            /\ pipe[c].shut => Settled(c)
        BY <1>0 DEF Piped
      <4>3. pipe'[c] = pipe[c] \/ c = d
        BY <2>3, <3>1 DEF Pump, Shut, SendInTunnel, EndInTunnel, Reset, Pipe, Pipes
      <4>5. \A b \in Directions : pipe[b].reset => pipe'[b].reset
        <5>1. \A b \in Directions : pipe[b] \in [sent : Nat, passed : Nat, ended : BOOLEAN,
                                                 reset : BOOLEAN, shut : BOOLEAN]
          BY <3>1 DEF Pipes
        <5> QED
          BY <2>3, <3>1, <5>1 DEF Pump, Shut, SendInTunnel, EndInTunnel, Reset, Pipe, Pipes
      <4>6. ReaderLost(c) => ReaderLost(c)'
        BY <4>5 DEF ReaderLost, Directions
      <4>4. CASE c = d
        <5>1. CASE Pump(d)
          BY <3>1, <4>1, <4>2, <4>4, <4>6, <5>1 DEF Pump, Pipe, Pipes, Settled
        <5>2. CASE Shut(d)
          BY <3>1, <4>1, <4>2, <4>4, <4>6, <5>2 DEF Shut, Pipe, Pipes, Settled
        <5>3. CASE SendInTunnel(d)
          BY <3>1, <4>1, <4>2, <4>4, <4>6, <5>3 DEF SendInTunnel, Pipe, Pipes, Settled
        <5>4. CASE EndInTunnel(d) \/ Reset(d)
          BY <3>1, <4>1, <4>2, <4>4, <4>6, <5>4 DEF EndInTunnel, Reset, Pipe, Pipes, Settled
        <5> QED
          BY <2>3, <5>1, <5>2, <5>3, <5>4
      <4> QED
        BY <4>2, <4>3, <4>4, <4>6 DEF Settled
    <3> QED
      BY <3>1, <3>2 DEF Piped
  <2> QED
    BY <2>1, <2>2, <2>3 DEF Flows, Relayed, InTunnel
<1> QED
  BY <1>1, <1>2 DEF Worded

LEMMA WordedInit == Init => Worded
<1> SUFFICES ASSUME Init PROVE Worded
  OBVIOUS
<1>1. Own /\ Len(heard) = 0 /\ ex.k = 0
  BY InitOwn DEF Init, Fresh
<1>2. InOrder /\ Named
  BY <1>1 DEF Init, InOrder, Named, Ordered, UpTo, Told, Active, BeforeTheFinal, Ending
<1>3. Piped
  BY DEF Init, Piped
<1> QED
  BY <1>1, <1>2, <1>3 DEF Worded

LEMMA AlwaysWorded == Spec => []Worded
<1>1. Worded /\ [Next]_vars => Worded'
  BY StepOwn, StepKinds, WordedStep DEF Worded
<1> QED
  BY <1>1, WordedInit, PTL DEF Spec

\* _echange, _echouer: the last word on an exchange comes once, after which only
\* later exchanges are spoken of, whatever either party sends.
THEOREM LastWordIsLast == Spec => []OneLastWord
<1>1. Worded => OneLastWord
  BY DEF Worded, InOrder, Ordered, OneLastWord
<1> QED
  BY <1>1, AlwaysWorded, PTL

\* _echange: the proxy never ends the connection of a client that is there with
\* a request unanswered, by an answer or by an error that says so.
THEOREM NoEndInSilence == Spec => []EndsAreNamed
<1>1. Worded => EndsAreNamed
  BY DEF Worded, Named, EndsAreNamed, Heard, Told
<1> QED
  BY <1>1, AlwaysWorded, PTL

\* _relayer: a tunnel closes when each direction has delivered all it was given, or
\* one of its two parties has reset its connection.
THEOREM TunnelsDeliver == Spec => []TunnelDelivers
<1>1. Worded => TunnelDelivers
  BY DEF Worded, Piped, Settled, TunnelDelivers
<1> QED
  BY <1>1, AlwaysWorded, PTL

-----------------------------------------------------------------------------
(* A body goes on as a whole or not at all, for any client, any upstream   *)
(* and any number of exchanges.                                            *)

\* The units of the body that a head announces.
Owed(h) == IF h.frame \in {"length", "chunked"} THEN h.n ELSE 0

\* What client c has written in box, behind its first units, of the body of r,
\* when some of it has been read.
Coming(c, box, r, read, first) ==
    LET there == Len(box) - first
    IN
    /\ c.phase # "rest" =>
          /\ HasBody(r) /\ (c.pieces <=> r.frame = "chunked")
          /\ read + there + c.left = r.n
          /\ r.frame = "length" => c.left > 0
          /\ \A j \in (first + 1)..Len(box) : box[j].framed = "piece"
    /\ c.phase = "rest" =>
          /\ ~HasBody(r) => there = 0
          /\ r.frame = "length" => read + there = r.n
          /\ r.frame = "chunked" =>
                /\ there > 0 /\ box[Len(box)].framed \in {"end", "torn"}
                /\ box[Len(box)].framed = "end" => read + there = r.n + 1
                /\ \A j \in (first + 1)..(Len(box) - 1) : box[j].framed = "piece"

Reading == {"open", "request", "wait_body", "body"}
Asked == {"send", "drain", "answer", "wait_answer", "content", "restore"}
Between == {"idle", "wait_idle"}
Empty == client.phase = "rest" /\ inbox = <<>>

\* The client has written its request, or a part of it, and nothing behind it.
RequestWhole ==
    /\ at = "connect" => client.sent = 0 /\ Empty
    /\ at \in Between => \/ client.sent = ex.k /\ Empty
                         \/ /\ client.sent = ex.k + 1 /\ inbox # <<>>
                            /\ inbox[1].shape \in Requests
                            /\ Coming(client, inbox, inbox[1].shape, 0, 1)
    /\ at \in Active => client.sent = ex.k /\ ex.k > 0 /\ ex.req \in Requests
    /\ at \in Reading => /\ Coming(client, inbox, ex.req, ex.got, 0)
                         /\ ex.req.frame \notin {"length", "chunked"} => ex.got = 0
    /\ at \in Asked => Empty
    /\ at = "send" => ex.got = Owed(ex.req)
    /\ up.asked # NONE => /\ at \in (Asked \ {"send"}) \cup Ending
                          /\ up.asked = Owed(ex.req)

\* The head of an answer in pieces.
Announces(u) == /\ u.framed = "head" /\ u.shape.parses = "yes"
                /\ u.shape.status = "final" /\ u.shape.frame = "chunked"

\* What upstream u has sent of n pieces in w, behind its first units, when
\* some have been read.
Follows(u, w, n, read, first) ==
    /\ u.mode \in {"pieces", "done"}
    /\ u.mode = "pieces" => read + (Len(w) - first) + u.left = n
    /\ \A j \in (first + 1)..Len(w) : w[j].framed = "end" => read + j = n + first + 1

\* The answer whose head is under way, or read, has the pieces it announced
\* when its end is read.
AnswerWhole ==
    /\ at \in BeforeTheFinal /\ ~ex.req.head =>
          \A i \in 1..Len(wire) :
              Announces(wire[i]) => Follows(up, wire, wire[i].shape.n, 0, i)
    /\ at = "content" /\ ex.answer.shape.frame = "chunked" =>
          Follows(up, wire, ex.answer.shape.n, ex.got, 0)
    /\ at \in {"content", "restore"} /\ ex.answer.shape.frame = "none" => ex.got = 0
    /\ at = "restore" => /\ ex.answer.shape.frame \in {"none", "length", "chunked"}
                         /\ ex.got = Owed(ex.answer.shape)

ToldWhole == \A i \in 1..Len(heard) : heard[i].units = heard[i].due

Whole == Worded /\ RequestWhole /\ AnswerWhole /\ ToldWhole

----------------------------------------------------------------------------
(* The client.                                                             *)

LEMMA RequestTyped ==
    ASSUME NEW r \in Requests
    PROVE  r.frame \in {"none", "length", "chunked", "unclear"} /\ r.n \in Nat
BY ForwardAssumption DEF Frames

LEMMA NothingThere ==
    ASSUME NEW S, NEW w \in Seq(S), Len(w) = 0
    PROVE  w = <<>>
OBVIOUS

\* The proxy reads the head, or a unit that goes on the body.
LEMMA TailComing ==
    ASSUME NEW c \in Clients, NEW box \in Seq(Written), box # <<>>,
           NEW r \in Requests, NEW read \in Nat, NEW first \in {0, 1},
           Coming(c, box, r, read, first),
           first = 0 => r.frame = "length" \/ (r.frame = "chunked" /\ box[1].framed = "piece")
    PROVE  Coming(c, Tail(box), r, read + 1 - first, 0)
<1> DEFINE t == Tail(box)
<1>1. /\ Len(box) \in Nat \ {0} /\ Len(t) = Len(box) - 1
      /\ \A i \in 1..(Len(box) - 1) : t[i] = box[i + 1]
  BY TailOf
<1>2. c.left \in Nat /\ r.n \in Nat
  BY RequestTyped DEF Clients
<1> HIDE DEF t
<1>3. CASE c.phase # "rest"
  <2>1. /\ HasBody(r) /\ (c.pieces <=> r.frame = "chunked")
        /\ read + (Len(box) - first) + c.left = r.n /\ (r.frame = "length" => c.left > 0)
        /\ \A j \in (first + 1)..Len(box) : box[j].framed = "piece"
    BY <1>3 DEF Coming
  <2>2. (read + 1 - first) + (Len(t) - 0) + c.left = r.n
    BY <1>1, <1>2, <2>1
  <2>3. ASSUME NEW j \in (0 + 1)..Len(t) PROVE t[j].framed = "piece"
    <3>1. j + 1 \in (first + 1)..Len(box) /\ t[j] = box[j + 1]
      BY <1>1
    <3> QED
      BY <2>1, <3>1
  <2> QED
    BY <1>3, <2>1, <2>2, <2>3 DEF Coming, t
<1>4. CASE c.phase = "rest"
  <2>1. CASE r.frame = "chunked"
    <3>1. /\ HasBody(r) /\ Len(box) - first > 0 /\ box[Len(box)].framed \in {"end", "torn"}
          /\ box[Len(box)].framed = "end" => read + (Len(box) - first) = r.n + 1
          /\ \A j \in (first + 1)..(Len(box) - 1) : box[j].framed = "piece"
      BY <1>4, <2>1 DEF Coming, HasBody
    <3>2. Len(box) # 1
      BY <1>1, <2>1, <3>1
    <3>3. Len(t) > 0 /\ t[Len(t)] = box[Len(box)]
      BY <1>1, <3>2
    <3>4. ASSUME NEW j \in (0 + 1)..(Len(t) - 1) PROVE t[j].framed = "piece"
      <4>1. j + 1 \in (first + 1)..(Len(box) - 1) /\ t[j] = box[j + 1]
        BY <1>1
      <4> QED
        BY <3>1, <4>1
    <3>5. t[Len(t)].framed = "end" => (read + 1 - first) + (Len(t) - 0) = r.n + 1
      BY <1>1, <1>2, <3>1, <3>3
    <3> QED
      BY <1>1, <1>4, <2>1, <3>1, <3>3, <3>4, <3>5 DEF Coming, t
  <2>2. CASE r.frame # "chunked"
    <3>1. /\ ~HasBody(r) => Len(box) - first = 0
          /\ r.frame = "length" => read + (Len(box) - first) = r.n
      BY <1>4 DEF Coming
    <3>2. r.frame = "length" => (read + 1 - first) + (Len(t) - 0) = r.n
      BY <1>1, <1>2, <3>1
    <3>3. ASSUME ~HasBody(r) PROVE Len(t) - 0 = 0
      <4>1. Len(box) = first
        BY <1>1, <3>1, <3>3
      <4> QED
        BY <1>1, <4>1
    <3> QED
      BY <1>4, <2>2, <3>2, <3>3 DEF Coming, t
  <2> QED
    BY <2>1, <2>2
<1> QED
  BY <1>3, <1>4

\* The proxy reads the end of the body.
LEMMA EndComing ==
    ASSUME NEW c \in Clients, NEW box \in Seq(Written),
           NEW r \in Requests, NEW read \in Nat, Coming(c, box, r, read, 0),
           r.frame \notin {"length", "chunked"} => read = 0
    PROVE  /\ r.frame = "none" \/ (r.frame = "length" /\ read = r.n) =>
                  c.phase = "rest" /\ box = <<>> /\ read = Owed(r)
           /\ r.frame = "chunked" /\ box # <<>> /\ Head(box).framed = "end" =>
                  c.phase = "rest" /\ Tail(box) = <<>> /\ read = Owed(r)
<1>1. Len(box) \in Nat /\ c.left \in Nat /\ r.n \in Nat /\ (Len(box) = 0 => box = <<>>)
  BY RequestTyped DEF Clients
<1>2. ASSUME r.frame = "none" \/ (r.frame = "length" /\ read = r.n)
      PROVE  c.phase = "rest" /\ box = <<>> /\ read = Owed(r)
  <2>1. CASE r.frame = "none"
    <3>1. ~HasBody(r)
      BY <2>1 DEF HasBody
    <3> QED
      BY <1>1, <2>1, <3>1 DEF Coming, Owed
  <2>2. CASE r.frame = "length" /\ read = r.n
    BY <1>1, <2>2 DEF Coming, Owed
  <2> QED
    BY <1>2, <2>1, <2>2
<1>3. ASSUME r.frame = "chunked", box # <<>>, Head(box).framed = "end"
      PROVE  c.phase = "rest" /\ Tail(box) = <<>> /\ read = Owed(r)
  <2>1. /\ Head(box) = box[1] /\ Len(box) # 0
        /\ Tail(box) \in Seq(Written) /\ Len(Tail(box)) = Len(box) - 1
    BY <1>3, TailOf
  <2>2. c.phase = "rest"
    BY <1>1, <1>3, <2>1 DEF Coming
  <2>3. /\ box[Len(box)].framed = "end" => read + (Len(box) - 0) = r.n + 1
        /\ \A j \in (0 + 1)..(Len(box) - 1) : box[j].framed = "piece"
    BY <1>3, <2>2 DEF Coming
  <2>4. Len(box) = 1
    BY <1>1, <1>3, <2>1, <2>3
  <2>5. Tail(box) = <<>>
    <3>1. Len(Tail(box)) = 0
      BY <2>1, <2>4
    <3> QED
      BY <2>1, <3>1, NothingThere
  <2>6. read = r.n
    BY <1>1, <1>3, <2>1, <2>3, <2>4
  <2> QED
    BY <1>3, <2>2, <2>5, <2>6 DEF Owed
<1> QED
  BY <1>2, <1>3

\* The client goes on: it sends its body, or a unit of it, or leaves.
LEMMA SendComing ==
    ASSUME Own, NEW r \in Requests, NEW read \in Nat, NEW first \in {0, 1},
           first <= Len(inbox), Coming(client, inbox, r, read, first),
           \/ SendBody \/ Leave
           \/ GoAhead /\ ~Heard(client.sent, Last)
    PROVE  Coming(client', inbox', r, read, first)
<1>1. /\ client \in Clients /\ inbox \in Seq(Written) /\ Len(inbox) \in Nat
      /\ client.left \in Nat /\ client.sent \in Nat /\ client.pieces \in BOOLEAN
      /\ r.n \in Nat
  BY RequestTyped DEF Own, Typed, Clients
<1>2. CASE Leave
  <2>1. /\ inbox' = inbox /\ client'.phase = client.phase
        /\ client'.left = client.left /\ client'.pieces = client.pieces
    BY <1>1, <1>2 DEF Leave, Clients
  <2> QED
    BY <2>1 DEF Coming
<1>3. CASE GoAhead /\ ~Heard(client.sent, Last)
  <2>1. /\ inbox' = inbox /\ client.phase # "rest" /\ client'.phase = "body"
        /\ client'.left = client.left /\ client'.pieces = client.pieces
    BY <1>1, <1>3 DEF GoAhead, Clients
  <2> QED
    BY <2>1 DEF Coming
<1>4. CASE SendBody
  <2>1. /\ client.phase = "body" /\ HasBody(r) /\ (client.pieces <=> r.frame = "chunked")
        /\ read + (Len(inbox) - first) + client.left = r.n
        /\ r.frame = "length" => client.left > 0
        /\ \A j \in (first + 1)..Len(inbox) : inbox[j].framed = "piece"
        /\ r.frame \in {"length", "chunked"}
    BY <1>4 DEF SendBody, Coming, HasBody
  <2>2. PICK framed \in {"piece", "end", "torn"} :
            /\ inbox' = Append(inbox, Unit(client.sent, framed, NONE))
            /\ client'.pieces = client.pieces
            /\ \/ /\ framed = "piece" /\ client.left > 0 /\ client'.left = client.left - 1
                  /\ client'.phase = IF client.left <= (IF client.pieces THEN 0 ELSE 1)
                                     THEN "rest" ELSE "body"
               \/ framed = "end" /\ client.left = 0 /\ client'.phase = "rest"
               \/ framed = "torn" /\ client.pieces /\ client'.phase = "rest"
    <3> DEFINE last == client.left <= (IF client.pieces THEN 0 ELSE 1)
    <3>1. \/ /\ client.left > 0 /\ inbox' = Append(inbox, Unit(client.sent, "piece", NONE))
             /\ client' = [client EXCEPT !.left = client.left - 1,
                                         !.phase = IF last THEN "rest" ELSE client.phase]
          \/ /\ ~(client.left > 0) /\ inbox' = Append(inbox, Unit(client.sent, "end", NONE))
             /\ client' = [client EXCEPT !.left = 0,
                                         !.phase = IF last THEN "rest" ELSE client.phase]
          \/ /\ client.pieces /\ inbox' = Append(inbox, Unit(client.sent, "torn", NONE))
             /\ client' = [client EXCEPT !.phase = "rest"]
      BY <1>4 DEF SendBody, Write
    <3>2. client.left > 0 \/ (client.left = 0 /\ last)
      BY <1>1
    <3> HIDE DEF last
    <3>3. CASE /\ client.left > 0 /\ inbox' = Append(inbox, Unit(client.sent, "piece", NONE))
               /\ client' = [client EXCEPT !.left = client.left - 1,
                                           !.phase = IF last THEN "rest" ELSE client.phase]
      <4>1. /\ client'.pieces = client.pieces /\ client'.left = client.left - 1
            /\ client'.phase = IF last THEN "rest" ELSE "body"
        BY <1>1, <2>1, <3>3 DEF Clients
      <4> QED
        BY <3>3, <4>1 DEF last
    <3>4. CASE /\ ~(client.left > 0) /\ inbox' = Append(inbox, Unit(client.sent, "end", NONE))
               /\ client' = [client EXCEPT !.left = 0,
                                           !.phase = IF last THEN "rest" ELSE client.phase]
      <4>1. client'.pieces = client.pieces /\ client'.phase = "rest" /\ client.left = 0
        BY <1>1, <3>2, <3>4 DEF Clients
      <4> QED
        BY <3>4, <4>1
    <3>5. CASE /\ client.pieces /\ inbox' = Append(inbox, Unit(client.sent, "torn", NONE))
               /\ client' = [client EXCEPT !.phase = "rest"]
      <4>1. client'.pieces = client.pieces /\ client'.phase = "rest"
        BY <1>1, <3>5 DEF Clients
      <4> QED
        BY <3>5, <4>1
    <3> QED
      BY <3>1, <3>3, <3>4, <3>5
  <2> DEFINE u == Unit(client.sent, framed, NONE)
  <2>3. u \in Written /\ u.framed = framed
    BY <1>1 DEF Unit, Written, Requested
  <2> HIDE DEF u
  <2>4. /\ Len(inbox') = Len(inbox) + 1 /\ inbox'[Len(inbox) + 1].framed = framed
        /\ \A j \in 1..Len(inbox) : inbox'[j] = inbox[j]
    BY <1>1, <2>2, <2>3, AppendOf DEF u
  <2>5. /\ \A j \in (first + 1)..Len(inbox) : inbox'[j].framed = "piece"
        /\ Len(inbox') - 1 = Len(inbox) /\ Len(inbox') - first > 0
    BY <1>1, <2>1, <2>4
  <2>6. CASE framed = "piece"
    <3>1. client.left > 0 /\ client'.left = client.left - 1
      BY <2>2, <2>6
    <3>2. \A j \in (first + 1)..Len(inbox') : inbox'[j].framed = "piece"
      BY <1>1, <2>4, <2>5, <2>6
    <3>3. read + (Len(inbox') - first) + client'.left = r.n
      BY <1>1, <2>1, <2>4, <3>1
    <3>4. CASE r.frame = "chunked"
      <4>1. client'.phase = "body"
        BY <1>1, <2>1, <2>2, <2>6, <3>1, <3>4
      <4> QED
        BY <2>1, <2>2, <3>2, <3>3, <3>4, <4>1 DEF Coming
    <3>5. CASE r.frame = "length" /\ client.left > 1
      <4>1. client'.phase = "body" /\ client'.left > 0
        BY <1>1, <2>1, <2>2, <2>6, <3>1, <3>5
      <4> QED
        BY <2>1, <2>2, <3>2, <3>3, <4>1 DEF Coming
    <3>6. CASE r.frame = "length" /\ client.left <= 1
      <4>1. client'.phase = "rest" /\ client'.left = 0
        BY <1>1, <2>1, <2>2, <2>6, <3>1, <3>6
      <4>2. read + (Len(inbox') - first) = r.n
        BY <1>1, <2>4, <3>3, <4>1
      <4> QED
        BY <2>1, <3>6, <4>1, <4>2 DEF Coming
    <3> QED
      BY <1>1, <2>1, <3>4, <3>5, <3>6
  <2>7. CASE framed \in {"end", "torn"}
    <3>1. /\ client'.phase = "rest" /\ r.frame = "chunked"
          /\ framed = "end" => client.left = 0
      BY <1>1, <2>1, <2>2, <2>7
    <3>2. framed = "end" => read + (Len(inbox') - first) = r.n + 1
      BY <1>1, <2>1, <2>4, <3>1
    <3>3. inbox'[Len(inbox')].framed = framed
      BY <2>4
    <3> QED
      BY <2>1, <2>5, <2>7, <3>1, <3>2, <3>3 DEF Coming
  <2> QED
    BY <2>6, <2>7
<1> QED
  BY <1>2, <1>3, <1>4

----------------------------------------------------------------------------
(* The steps of the request.                                               *)

\* A request that is under way has not been answered.
LEMMA Unanswered ==
    ASSUME Own, InOrder, RequestWhole, at \in Active \/ (at \in Between /\ ~Empty)
    PROVE  client.sent > 0 /\ ~Heard(client.sent, Last)
<1>1. heard \in Seq(Words) /\ ex.k \in Nat
  BY DEF Own, Typed, Exchanging
<1>2. CASE at \in Active
  BY <1>1, <1>2 DEF RequestWhole, InOrder, Heard, Told
<1>3. CASE at \in Between /\ ~Empty
  <2>1. client.sent = ex.k + 1
    BY <1>3 DEF RequestWhole
  <2>2. ~Told(heard, ex.k + 1, Last)
    BY <1>1, NothingYet DEF InOrder
  <2> QED
    BY <1>1, <2>1, <2>2 DEF Heard, Told
<1> QED
  BY <1>2, <1>3

LEMMA ClientWhole ==
    ASSUME Own, InOrder, RequestWhole, ClientSends \/ Leave \/ \E r \in Requests : Ask(r)
    PROVE  RequestWhole'
<1>1. /\ UNCHANGED <<at, ex, up>> /\ client \in Clients /\ inbox \in Seq(Written)
      /\ ex.k \in Nat /\ ex.got \in Nat /\ client.sent \in Nat /\ at \in Locations
  BY DEF ClientSends, GoAhead, SendBody, Leave, Ask, Own, Typed, Exchanging, Clients
<1>2. CASE ClientSends \/ Leave
  <2>1. /\ client'.sent = client.sent /\ Len(inbox) <= Len(inbox')
        /\ \A j \in 1..Len(inbox) : inbox'[j] = inbox[j]
        /\ Empty => client'.phase = "rest" /\ inbox' = <<>>
    <3>1. CASE GoAhead \/ Leave
      BY <1>1, <3>1 DEF GoAhead, Leave, Clients, Empty
    <3>2. CASE SendBody
      <4>1. client'.sent = client.sent /\ client.phase # "rest"
        BY <1>1, <3>2 DEF SendBody, Clients
      <4>2. PICK u \in Written : inbox' = Append(inbox, u)
        BY <1>1, <3>2 DEF SendBody, Write, Unit, Written, Requested
      <4> QED
        BY <1>1, <4>1, <4>2, AppendOf DEF Empty
    <3> QED
      BY <1>2, <3>1, <3>2 DEF ClientSends
  <2>2. ASSUME at \in Between, ~Empty
        PROVE  /\ inbox' # <<>> /\ inbox'[1] = inbox[1]
               /\ Coming(client', inbox', inbox[1].shape, 0, 1)
    <3>1. /\ inbox # <<>> /\ inbox[1].shape \in Requests
          /\ Coming(client, inbox, inbox[1].shape, 0, 1)
      BY <2>2 DEF RequestWhole
    <3>2. Len(inbox) \in Nat /\ 1 <= Len(inbox)
      BY <1>1, <3>1
    <3>3. Coming(client', inbox', inbox[1].shape, 0, 1)
      BY <1>2, <2>2, <3>1, <3>2, SendComing, Unanswered DEF ClientSends
    <3>4. inbox'[1] = inbox[1] /\ inbox' # <<>>
      BY <2>1, <3>2
    <3> QED
      BY <3>3, <3>4
  <2>3. ASSUME at \in Reading PROVE Coming(client', inbox', ex.req, ex.got, 0)
    <3>1. at \in Active /\ ex.req \in Requests /\ Coming(client, inbox, ex.req, ex.got, 0)
      BY <2>3 DEF RequestWhole, Reading, Active, BeforeTheFinal
    <3>2. 0 <= Len(inbox)
      BY <1>1
    <3> QED
      BY <1>1, <1>2, <3>1, <3>2, SendComing, Unanswered DEF ClientSends
  <2>4. (at \in Between => (client.sent = ex.k /\ Empty) \/ (client.sent = ex.k + 1 /\ ~Empty))
    BY DEF RequestWhole, Empty
  <2>5. /\ at' = "connect" => client'.sent = 0 /\ Empty'
        /\ at' \in Asked => Empty'
        /\ at' = "send" => ex'.got = Owed(ex'.req)
        /\ up'.asked # NONE => /\ at' \in (Asked \ {"send"}) \cup Ending
                               /\ up'.asked = Owed(ex'.req)
        /\ at' \in Active => client'.sent = ex'.k /\ ex'.k > 0 /\ ex'.req \in Requests
        /\ at' \in Reading /\ ex'.req.frame \notin {"length", "chunked"} => ex'.got = 0
    BY <1>1, <2>1 DEF RequestWhole, Empty
  <2>6. at' \in Between =>
            \/ client'.sent = ex'.k /\ Empty'
            \/ /\ client'.sent = ex'.k + 1 /\ inbox' # <<>> /\ inbox'[1].shape \in Requests
               /\ Coming(client', inbox', inbox'[1].shape, 0, 1)
    BY <1>1, <2>1, <2>2, <2>4 DEF RequestWhole, Empty
  <2>7. at' \in Reading => Coming(client', inbox', ex'.req, ex'.got, 0)
    BY <1>1, <2>3
  <2> QED
    BY <2>5, <2>6, <2>7 DEF RequestWhole
<1>3. ASSUME NEW r \in Requests, Ask(r) PROVE RequestWhole'
  <2>1. Resting /\ at \in Busy \cup {"idle"} /\ r.n \in Nat
    BY <1>1, <1>3, RequestTyped DEF Ask, Locations
  <2>2. at = "wait_closed" \/ (at \in Between /\ Empty)
    BY <1>1, <2>1, Unanswered, BusyIs DEF Resting, Ending, Between
  <2>3. CASE at = "wait_closed"
    <3>1. up'.asked # NONE => /\ at' \in (Asked \ {"send"}) \cup Ending
                              /\ up'.asked = Owed(ex'.req)
      BY <1>1 DEF RequestWhole
    <3> QED
      BY <1>1, <2>3, <3>1 DEF RequestWhole, Between, Active, BeforeTheFinal, Reading, Asked
  <2> SUFFICES ASSUME at \in Between, Empty PROVE RequestWhole'
    BY <2>2, <2>3
  <2>10. client.sent = ex.k
    BY DEF RequestWhole, Empty
  <2> DEFINE u == Unit(client.sent + 1, "head", r)
  <2>4. u \in Written /\ u.shape = r
    BY <1>1 DEF Unit, Written, Requested
  <2> HIDE DEF u
  <2>5. inbox' = Append(inbox, u) /\ Len(inbox) = 0
    BY <1>3 DEF Ask, Write, u, Empty
  <2>6. Len(inbox') = 1 /\ inbox'[1] = u /\ inbox' # <<>>
    BY <1>1, <2>4, <2>5, AppendOf
  <2>7. /\ client'.sent = client.sent + 1 /\ client'.left = r.n
        /\ client'.pieces <=> r.frame = "chunked"
        /\ HasBody(r) <=> client'.phase # "rest"
    <3>1. client' = [client EXCEPT !.sent = client.sent + 1, !.left = r.n,
                                   !.pieces = (r.frame = "chunked"),
                                   !.phase = IF ~HasBody(r) THEN "rest"
                                             ELSE IF r.expect = "none" THEN "body" ELSE "hold"]
      BY <1>3 DEF Ask
    <3> QED
      BY <1>1, <3>1 DEF Clients
  <2>8. Coming(client', inbox', r, 0, 1)
    BY <2>1, <2>6, <2>7 DEF Coming, HasBody
  <2>9. up'.asked # NONE => /\ at' \in (Asked \ {"send"}) \cup Ending
                            /\ up'.asked = Owed(ex'.req)
    BY <1>1 DEF RequestWhole
  <2> QED
    BY <1>1, <2>4, <2>6, <2>7, <2>8, <2>9, <2>10
       DEF RequestWhole, Between, Active, BeforeTheFinal, Reading, Asked
<1> QED
  BY <1>2, <1>3

\* An exchange that is over leaves nothing of its request.
LEMMA OverWhole ==
    ASSUME Own, RequestWhole, NEW next \in {"idle", "closed", "stopped"}, Over(next),
           UNCHANGED <<client, inbox>>, next = "idle" => at \in Asked \cup {"wait_idle"}
    PROVE  RequestWhole'
<1>1. at' = next /\ ex'.k = ex.k /\ up'.asked = NONE
  BY DEF Over, Fresh, Closed
<1>2. CASE at = "wait_idle"
  BY <1>1, <1>2 DEF RequestWhole, Between, Active, BeforeTheFinal, Reading, Asked, Empty
<1>3. CASE at # "wait_idle"
  BY <1>1, <1>3 DEF RequestWhole, Between, Active, BeforeTheFinal, Reading, Asked, Empty
<1> QED
  BY <1>2, <1>3

LEMMA EndsWhole ==
    ASSUME Own, RequestWhole, NEW next \in {"idle", "closed"}, Ends(next),
           UNCHANGED <<client, inbox>>, next = "idle" => at \in Asked
    PROVE  RequestWhole'
<1>1. CASE Over(next)
  BY <1>1, OverWhole
<1>2. CASE at' = "wait_closed" /\ next = "closed" /\ UNCHANGED <<ex, up, wire>>
  <2>1. up'.asked # NONE => /\ at' \in (Asked \ {"send"}) \cup Ending
                            /\ up'.asked = Owed(ex'.req)
    BY <1>2 DEF RequestWhole, Ending
  <2> QED
    BY <1>2, <2>1 DEF RequestWhole, Between, Active, BeforeTheFinal, Reading, Asked
<1>3. CASE at' = "wait_idle" /\ next = "idle" /\ UNCHANGED <<ex, up, wire>>
  <2>1. at \in Asked /\ client.sent = ex.k /\ Empty
    BY <1>3 DEF RequestWhole, Asked, Active, BeforeTheFinal
  <2>2. up'.asked # NONE => /\ at' \in (Asked \ {"send"}) \cup Ending
                            /\ up'.asked = Owed(ex'.req)
    BY <1>3 DEF RequestWhole, Ending
  <2> QED
    BY <1>3, <2>1, <2>2
       DEF RequestWhole, Between, Active, BeforeTheFinal, Reading, Asked, Empty
<1> QED
  BY <1>1, <1>2, <1>3 DEF Ends

LEMMA ReadWhole ==
    ASSUME Own, RequestWhole, ReadRequest \/ ReadBody
    PROVE  RequestWhole'
<1>1. /\ client \in Clients /\ inbox \in Seq(Written) /\ ex \in Exchanging
      /\ ex.k \in Nat /\ ex.got \in Nat /\ UNCHANGED <<client, up>>
  BY DEF Own, Typed, Exchanging, ReadRequest, ReadBody
<1>2. CASE ReadRequest
  <2>1. /\ at = "idle" /\ inbox # <<>> /\ client.sent = ex.k + 1
        /\ inbox[1].shape \in Requests /\ Coming(client, inbox, inbox[1].shape, 0, 1)
        /\ up.asked = NONE
    BY <1>2 DEF ReadRequest, RequestWhole, Empty, Asked, Ending, Between
  <2>2. CASE at' = "closed"
    BY <1>1, <2>1, <2>2 DEF RequestWhole, Between, Active, BeforeTheFinal, Reading, Asked
  <2>3. CASE at' = "open" /\ ex' = [Fresh(ex.k + 1) EXCEPT !.req = Head(inbox).shape]
    <3>1. ex'.k = ex.k + 1 /\ ex'.req = inbox[1].shape /\ ex'.got = 0
      BY <1>1, <2>1, <2>3, TailOf DEF Fresh
    <3>2. Coming(client, Tail(inbox), inbox[1].shape, 0 + 1 - 1, 0)
      BY <1>1, <2>1, TailComing
    <3>3. Coming(client', inbox', ex'.req, ex'.got, 0)
      BY <1>1, <1>2, <3>1, <3>2 DEF ReadRequest
    <3> QED
      BY <1>1, <2>1, <2>3, <3>1, <3>3
         DEF RequestWhole, Between, Active, BeforeTheFinal, Reading, Asked
  <2> QED
    BY <1>2, <2>2, <2>3 DEF ReadRequest
<1>3. CASE ReadBody
  <2>1. /\ at = "body" /\ Coming(client, inbox, ex.req, ex.got, 0)
        /\ client.sent = ex.k /\ ex.k > 0 /\ ex.req \in Requests
        /\ ex.req.frame \notin {"length", "chunked"} => ex.got = 0
        /\ up.asked = NONE
    BY <1>3 DEF ReadBody, RequestWhole, Reading, Active, BeforeTheFinal, Asked, Ending
  <2>2. CASE Piece(ex.req, inbox) /\ ex' = [ex EXCEPT !.got = ex.got + 1]
             /\ inbox' = Tail(inbox) /\ at' = at
    <3>1. ex'.k = ex.k /\ ex'.req = ex.req /\ ex'.got = ex.got + 1
      BY <1>1, <2>2 DEF Exchanging
    <3>2. /\ inbox # <<>> /\ ex.req.frame \in {"length", "chunked"}
          /\ ex.req.frame = "length" \/ (ex.req.frame = "chunked" /\ inbox[1].framed = "piece")
      BY <1>1, <2>2, TailOf DEF Piece
    <3>3. Coming(client, Tail(inbox), ex.req, ex.got + 1 - 0, 0)
      BY <1>1, <2>1, <3>2, TailComing
    <3>4. Coming(client', inbox', ex'.req, ex'.got, 0)
      BY <1>1, <2>2, <3>1, <3>3
    <3> QED
      BY <1>1, <2>1, <2>2, <3>1, <3>2, <3>4
         DEF RequestWhole, Between, Active, BeforeTheFinal, Reading, Asked
  <2>3. CASE /\ \/ LastPiece(ex.req, inbox) /\ inbox' = Tail(inbox)
                \/ Complete(ex.req) /\ inbox' = inbox
             /\ at' = "send" /\ ex' = ex
    <3>1. Empty' /\ ex.got = Owed(ex.req)
      <4>1. CASE LastPiece(ex.req, inbox) /\ inbox' = Tail(inbox)
        <5>1. ex.req.frame = "chunked" /\ inbox # <<>> /\ Head(inbox).framed = "end"
          BY <4>1 DEF LastPiece
        <5> QED
          BY <1>1, <2>1, <4>1, <5>1, EndComing DEF Empty
      <4>2. CASE Complete(ex.req) /\ inbox' = inbox
        <5>1. ex.req.frame = "none" \/ (ex.req.frame = "length" /\ ex.got = ex.req.n)
          BY <4>2 DEF Complete
        <5> QED
          BY <1>1, <2>1, <4>2, <5>1, EndComing DEF Empty
      <4> QED
        BY <2>3, <4>1, <4>2
    <3> QED
      BY <1>1, <2>1, <2>3, <3>1
         DEF RequestWhole, Between, Active, BeforeTheFinal, Reading, Asked
  <2> QED
    BY <1>3, <2>2, <2>3 DEF ReadBody
<1> QED
  BY <1>2, <1>3

LEMMA RequestStep ==
    ASSUME Own, InOrder, RequestWhole, [Next]_vars
    PROVE  RequestWhole'
<1>1. /\ client \in Clients /\ ex \in Exchanging /\ up \in Upstreams
      /\ ex.k \in Nat /\ at \in Locations
  BY DEF Own, Typed, Exchanging
<1>2. CASE Connect
  <2>1. /\ at = "connect" /\ at' \in {"closed", "idle", "tunnel"}
        /\ UNCHANGED <<client, inbox, ex, up>>
    BY <1>2 DEF Connect, Refuse, Inspect, Tunnel
  <2> QED
    BY <2>1 DEF RequestWhole, InOrder, Between, Active, BeforeTheFinal, Reading, Asked, Empty,
                Ending
<1>3. CASE \/ UpstreamRefuses \/ IllFormed \/ BodyUnreadable \/ TransformFails
           \/ DrainFails \/ AnswerRefused \/ ContentUnreadable \/ Residue
           \/ Silence \/ UnmetExpectation
           \/ \E h \in Shapes : RelayBare(h)
  <2>1. Ends("closed") /\ UNCHANGED <<client, inbox>>
    BY <1>3 DEF UpstreamRefuses, IllFormed, BodyUnreadable, TransformFails, DrainFails,
                AnswerRefused, ContentUnreadable, Residue, Silence, Fail,
                ClientSilent, UpstreamSilent, UnmetExpectation, RelayBare
  <2> QED
    BY <2>1, EndsWhole
<1>15. CASE Stop \/ WriteFails
  <2>1. (Over("closed") \/ Over("stopped")) /\ UNCHANGED <<client, inbox>>
    BY <1>15 DEF Stop, WriteFails
  <2> QED
    BY <2>1, OverWhole
<1>16. CASE Taken
  <2>1. CASE at = "wait_idle"
    <3>1. Over("idle") /\ UNCHANGED <<client, inbox>>
      BY <1>16, <2>1 DEF Taken, Onward
    <3> QED
      BY <2>1, <3>1, OverWhole
  <2>2. CASE at = "wait_closed"
    <3>1. Over("closed") /\ UNCHANGED <<client, inbox>>
      BY <1>16, <2>2 DEF Taken, Onward
    <3> QED
      BY <3>1, OverWhole
  <2>3. CASE at \in {"wait_body", "wait_answer"}
    <3>1. /\ UNCHANGED <<client, inbox, ex, up>>
          /\ (at = "wait_body" /\ at' = "body") \/ (at = "wait_answer" /\ at' = "answer")
      BY <1>16, <2>3 DEF Taken, Onward
    <3> QED
      BY <3>1 DEF RequestWhole, Between, Active, BeforeTheFinal, Reading, Asked, Empty, Ending
  <2> QED
    BY <1>16, <2>1, <2>2, <2>3 DEF Taken, Waits
<1>4. CASE ReadRequest \/ ReadBody
  BY <1>4, ReadWhole
<1>5. CASE ClientIsGone
  BY <1>5 DEF ClientIsGone, RequestWhole, Between, Active, BeforeTheFinal, Reading, Asked,
              Ending
<1>6. CASE OpenUpstream
  <2>1. up'.asked = NONE /\ at = "open" /\ at' = "request" /\ UNCHANGED <<client, inbox, ex>>
    BY <1>6 DEF OpenUpstream, Closed
  <2> QED
    BY <2>1 DEF RequestWhole, Between, Active, BeforeTheFinal, Reading, Asked
<1>7. CASE Accept
  <2>1. /\ at = "request" /\ at' \in {"wait_body", "body"}
        /\ UNCHANGED <<client, inbox, ex, up>>
    BY <1>7 DEF Accept
  <2> QED
    BY <2>1 DEF RequestWhole, Between, Active, BeforeTheFinal, Reading, Asked, Ending
<1>8. CASE Send
  <2>1. /\ up'.asked = ex.got /\ at = "send" /\ at' = "drain"
        /\ UNCHANGED <<client, inbox, ex>>
    BY <1>1, <1>8 DEF Send, Upstreams
  <2> QED
    BY <2>1 DEF RequestWhole, Between, Active, BeforeTheFinal, Reading, Asked, Empty
<1>9. CASE Drained \/ ReadContent \/ \E h \in Shapes : RelayInterim(h) \/ ReadFinal(h)
  <2>1. /\ at \in Asked \ {"send"} /\ at' \in Asked \ {"send"}
        /\ ex'.k = ex.k /\ ex'.req = ex.req /\ UNCHANGED <<client, inbox, up>>
    BY <1>1, <1>9 DEF Drained, ReadContent, RelayInterim, ReadFinal, Answered, Exchanging, Asked
  <2> QED
    BY <2>1 DEF RequestWhole, Between, Active, BeforeTheFinal, Reading, Asked, Empty, Ending
<1>10. CASE Relay
  <2>1. at \in Asked /\ (Ends("closed") \/ Ends("idle")) /\ UNCHANGED <<client, inbox>>
    BY <1>10 DEF Relay, Asked
  <2> QED
    BY <2>1, EndsWhole
<1>11. CASE Relayed \/ InTunnel
  <2>1. /\ at = "tunnel" /\ at' \in {"tunnel", "closed"}
        /\ UNCHANGED <<client, inbox, ex, up>>
    BY <1>11 DEF Relayed, InTunnel, TunnelCloses, Pump, Shut, SendInTunnel, EndInTunnel,
                 Reset, Pipe
  <2> QED
    BY <2>1 DEF RequestWhole, Between, Active, BeforeTheFinal, Reading, Asked, Ending
<1>12. CASE ClientSends \/ Leave \/ \E r \in Requests : Ask(r)
  BY <1>12, ClientWhole
<1>13. CASE UpstreamSends \/ EmitMore \/ HangUp
  <2>1. UNCHANGED <<at, ex, client, inbox>> /\ up'.asked = up.asked
    BY <1>1, <1>13 DEF UpstreamSends, EmitMore, HangUp, EmitBody, EmitHead, Emit, Upstreams
  <2> QED
    BY <2>1 DEF RequestWhole, Empty
<1>14. CASE UNCHANGED vars
  BY <1>14 DEF vars, RequestWhole, Empty
<1> QED
  BY <1>2, <1>3, <1>4, <1>5, <1>6, <1>7, <1>8, <1>9, <1>10, <1>11, <1>12, <1>13, <1>14,
     <1>15, <1>16 DEF Next, Exchange

----------------------------------------------------------------------------
(* The steps of the answer.                                                *)

LEMMA ShapeTyped ==
    ASSUME NEW h \in Shapes
    PROVE  h.frame \in Frames /\ h.n \in Nat
BY ForwardAssumption DEF Shapes

\* The proxy reads the unit before, or a piece.
LEMMA TailFollows ==
    ASSUME NEW u \in Upstreams, NEW w \in Seq(Units), w # <<>>,
           NEW n \in Nat, NEW read \in Nat, NEW first \in Nat, first <= Len(w),
           Follows(u, w, n, read, first)
    PROVE  /\ first > 0 => Follows(u, Tail(w), n, read, first - 1)
           /\ first = 0 => Follows(u, Tail(w), n, read + 1, 0)
<1> DEFINE t == Tail(w)
<1>1. /\ Len(w) \in Nat \ {0} /\ Len(t) = Len(w) - 1 /\ u.left \in Nat
      /\ \A i \in 1..(Len(w) - 1) : t[i] = w[i + 1]
  BY TailOf DEF Upstreams
<1> HIDE DEF t
<1>2. /\ u.mode \in {"pieces", "done"}
      /\ u.mode = "pieces" => read + (Len(w) - first) + u.left = n
      /\ \A j \in (first + 1)..Len(w) : w[j].framed = "end" => read + j = n + first + 1
  BY DEF Follows
<1>3. ASSUME first > 0 PROVE Follows(u, t, n, read, first - 1)
  <2>1. u.mode = "pieces" => read + (Len(t) - (first - 1)) + u.left = n
    BY <1>1, <1>2, <1>3
  <2>2. \A j \in ((first - 1) + 1)..Len(t) :
            t[j].framed = "end" => read + j = n + (first - 1) + 1
    <3> SUFFICES ASSUME NEW j \in ((first - 1) + 1)..Len(t), t[j].framed = "end"
                 PROVE  read + j = n + (first - 1) + 1
      OBVIOUS
    <3>1. j + 1 \in (first + 1)..Len(w) /\ t[j] = w[j + 1]
      BY <1>1, <1>3
    <3>2. read + (j + 1) = n + first + 1
      BY <1>2, <3>1
    <3> QED
      BY <1>1, <3>1, <3>2
  <2> QED
    BY <1>2, <2>1, <2>2 DEF Follows
<1>4. ASSUME first = 0 PROVE Follows(u, t, n, read + 1, 0)
  <2>1. u.mode = "pieces" => (read + 1) + (Len(t) - 0) + u.left = n
    BY <1>1, <1>2, <1>4
  <2>2. \A j \in (0 + 1)..Len(t) : t[j].framed = "end" => (read + 1) + j = n + 0 + 1
    <3> SUFFICES ASSUME NEW j \in (0 + 1)..Len(t), t[j].framed = "end"
                 PROVE  (read + 1) + j = n + 0 + 1
      OBVIOUS
    <3>1. j + 1 \in (first + 1)..Len(w) /\ t[j] = w[j + 1]
      BY <1>1, <1>4
    <3>2. read + (j + 1) = n + first + 1
      BY <1>2, <3>1
    <3> QED
      BY <1>1, <1>4, <3>1, <3>2
  <2> QED
    BY <1>2, <2>1, <2>2 DEF Follows
<1> QED
  BY <1>3, <1>4 DEF t

\* The upstream sends one more unit, and is then upstream v.
LEMMA AppendFollows ==
    ASSUME NEW u \in Upstreams, NEW v \in Upstreams,
           NEW w \in Seq(Units), NEW unit \in Units,
           NEW n \in Nat, NEW read \in Nat, NEW first \in Nat, first <= Len(w),
           Follows(u, w, n, read, first), v.mode \in {"pieces", "done"},
           v.mode = "pieces" => u.mode = "pieces" /\ v.left + 1 = u.left,
           unit.framed = "end" => u.mode = "pieces" /\ u.left = 0
    PROVE  Follows(v, Append(w, unit), n, read, first)
<1> DEFINE t == Append(w, unit)
<1>1. /\ Len(w) \in Nat /\ Len(t) = Len(w) + 1 /\ t[Len(w) + 1] = unit
      /\ \A i \in 1..Len(w) : t[i] = w[i]
      /\ u.left \in Nat /\ v.left \in Nat
  BY AppendOf DEF Upstreams
<1> HIDE DEF t
<1>2. /\ u.mode = "pieces" => read + (Len(w) - first) + u.left = n
      /\ \A j \in (first + 1)..Len(w) : w[j].framed = "end" => read + j = n + first + 1
  BY DEF Follows
<1>3. v.mode = "pieces" => read + (Len(t) - first) + v.left = n
  BY <1>1, <1>2
<1>4. ASSUME NEW j \in (first + 1)..Len(t), t[j].framed = "end"
      PROVE  read + j = n + first + 1
  <2>1. CASE j = Len(w) + 1
    <3>1. u.mode = "pieces" /\ u.left = 0
      BY <1>1, <1>4, <2>1
    <3>2. read + (Len(w) - first) = n
      BY <1>1, <1>2, <3>1
    <3> QED
      BY <1>1, <2>1, <3>2
  <2>2. CASE j # Len(w) + 1
    <3>1. j \in (first + 1)..Len(w) /\ t[j] = w[j]
      BY <1>1, <2>2
    <3> QED
      BY <1>2, <1>4, <3>1
  <2> QED
    BY <2>1, <2>2
<1> QED
  BY <1>3, <1>4 DEF Follows, t

LEMMA EmitWhole ==
    ASSUME Own, AnswerWhole, NEW framed \in {"head", "piece", "end", "torn", "more"},
           NEW shape \in Shapes, Emit(framed, shape), up' \in Upstreams,
           \/ up.mode \notin {"pieces", "done"}
           \/ /\ up'.mode \in {"pieces", "done"}
              /\ up'.mode = "pieces" => up.mode = "pieces" /\ up'.left + 1 = up.left
              /\ framed = "end" => up.mode = "pieces" /\ up.left = 0,
           framed = "head" /\ Announces(Unit(ex.k, framed, shape)) /\ ~ex.req.head =>
               up'.mode = "pieces" /\ up'.left = shape.n
    PROVE  AnswerWhole'
<1> DEFINE unit == Unit(ex.k, framed, shape)
<1>1. /\ wire \in Seq(Units) /\ up \in Upstreams /\ unit \in Units /\ Len(wire) \in Nat
      /\ unit.framed = framed /\ unit.shape = shape /\ ex.got \in Nat
      /\ at = "content" => ex.answer \in Units
  BY DEF Own, Typed, Exchanging, Units, Unit
<1>2. UNCHANGED <<at, ex>> /\ wire' = Append(wire, unit)
  BY DEF Emit
<1>3. framed = "head" /\ Announces(unit) /\ ~ex.req.head =>
          up'.mode = "pieces" /\ up'.left = shape.n
  OBVIOUS
<1> HIDE DEF unit
<1>4. /\ Len(wire') = Len(wire) + 1 /\ wire'[Len(wire) + 1] = unit
      /\ \A i \in 1..Len(wire) : wire'[i] = wire[i]
  BY <1>1, <1>2, AppendOf
<1>5. ASSUME NEW n \in Nat, NEW read \in Nat, NEW first \in Nat, first <= Len(wire),
             Follows(up, wire, n, read, first)
      PROVE  Follows(up', wire', n, read, first)
  <2>1. up.mode \in {"pieces", "done"}
    BY <1>5 DEF Follows
  <2> QED
    BY <1>1, <1>2, <1>5, <2>1, AppendFollows
<1>6. ASSUME at \in BeforeTheFinal, ~ex.req.head, NEW i \in 1..Len(wire'), Announces(wire'[i])
      PROVE  Follows(up', wire', wire'[i].shape.n, 0, i)
  <2>1. CASE i \in 1..Len(wire)
    <3>1. wire[i] \in Units /\ wire'[i] = wire[i]
      BY <1>1, <1>4, <2>1
    <3>2. wire[i].shape.n \in Nat
      BY <3>1, ShapeTyped DEF Units
    <3>3. Follows(up, wire, wire[i].shape.n, 0, i)
      BY <1>6, <2>1, <3>1 DEF AnswerWhole
    <3> QED
      BY <1>1, <1>5, <2>1, <3>1, <3>2, <3>3
  <2>2. CASE i = Len(wire) + 1
    <3>1. wire'[i] = unit /\ up'.mode = "pieces" /\ up'.left = unit.shape.n /\ Len(wire') = i
      BY <1>1, <1>3, <1>4, <1>6, <2>2 DEF Announces
    <3>2. unit.shape.n \in Nat
      BY <1>1, ShapeTyped
    <3> QED
      BY <1>1, <2>2, <3>1, <3>2 DEF Follows
  <2> QED
    BY <1>1, <1>4, <2>1, <2>2
<1>7. ASSUME at = "content", ex.answer.shape.frame = "chunked"
      PROVE  Follows(up', wire', ex.answer.shape.n, ex.got, 0)
  <2>1. ex.answer.shape.n \in Nat /\ Follows(up, wire, ex.answer.shape.n, ex.got, 0)
    BY <1>1, <1>7, ShapeTyped DEF AnswerWhole, Units
  <2> QED
    BY <1>1, <1>5, <2>1
<1> QED
  BY <1>2, <1>6, <1>7 DEF AnswerWhole

LEMMA UpstreamWhole ==
    ASSUME Own, Own', AnswerWhole, UpstreamSends \/ EmitMore \/ HangUp
    PROVE  AnswerWhole'
<1>1. up \in Upstreams /\ up' \in Upstreams /\ up.left \in Nat
  BY DEF Own, Typed, Upstreams
<1>2. ASSUME NEW h \in Heads, EmitHead(h) PROVE AnswerWhole'
  <2>1. up.mode = "heads" /\ Emit("head", h) /\ h \in Shapes
    BY <1>2 DEF EmitHead, Shapes
  <2>2. ASSUME Announces(Unit(ex.k, "head", h)), ~ex.req.head
        PROVE  up'.mode = "pieces" /\ up'.left = h.n
    <3>1. h.parses = "yes" /\ h.status = "final" /\ h.frame = "chunked"
      BY <2>2 DEF Announces, Unit
    <3> QED
      BY <1>1, <1>2, <2>2, <3>1 DEF EmitHead, Bodiless, Upstreams
  <2> QED
    BY <1>1, <2>1, <2>2, EmitWhole
<1>3. CASE EmitBody
  <2>1. PICK framed \in {"piece", "end", "torn"}, look \in Looks :
            /\ Emit(framed, look) /\ up.mode \in {"sized", "pieces"}
            /\ framed = "piece" => /\ up.left > 0 /\ up'.left = up.left - 1
                                   /\ up.mode = "pieces" => up'.mode = "pieces"
            /\ framed = "end" => up.left = 0
            /\ framed # "piece" => up'.mode = "done"
    BY <1>1, <1>3 DEF EmitBody, Upstreams
  <2>2. up.mode = "sized" \/ (up.mode = "pieces" /\ up'.mode \in {"pieces", "done"})
    BY <2>1
  <2>3. up'.mode = "pieces" /\ up.mode = "pieces" => up'.left + 1 = up.left
    BY <1>1, <2>1
  <2>4. look \in Shapes /\ ~Announces(Unit(ex.k, framed, look))
    BY <2>1 DEF Shapes, Announces, Unit
  <2> QED
    BY <1>1, <2>1, <2>2, <2>3, <2>4, EmitWhole
<1>4. CASE EmitMore
  <2>1. PICK look \in Looks : Emit("more", look)
    BY <1>4 DEF EmitMore
  <2>2. look \in Shapes /\ ~Announces(Unit(ex.k, "more", look))
    BY DEF Shapes, Announces, Unit
  <2> QED
    BY <1>1, <1>4, <2>1, <2>2, EmitWhole DEF EmitMore
<1>5. CASE HangUp
  <2>1. up'.mode = up.mode /\ up'.left = up.left /\ UNCHANGED <<at, ex, wire>>
    BY <1>1, <1>5 DEF HangUp, Upstreams
  <2> QED
    BY <2>1 DEF AnswerWhole, Follows
<1> QED
  BY <1>2, <1>3, <1>4, <1>5 DEF UpstreamSends

LEMMA ReadAnswerWhole ==
    ASSUME Own, AnswerWhole, ReadContent \/ \E h \in Shapes : RelayInterim(h) \/ ReadFinal(h)
    PROVE  AnswerWhole'
<1>1. /\ wire \in Seq(Units) /\ up \in Upstreams /\ Len(wire) \in Nat /\ ex \in Exchanging
      /\ ex.got \in Nat /\ UNCHANGED up
      /\ at \in {"content", "restore"} => ex.answer \in Units
  BY DEF Own, Typed, Exchanging, ReadContent, RelayInterim, ReadFinal
<1>2. ASSUME wire # <<>>, NEW n \in Nat, NEW read \in Nat, NEW first \in Nat,
             first <= Len(wire), Follows(up, wire, n, read, first)
      PROVE  /\ first > 0 => Follows(up, Tail(wire), n, read, first - 1)
             /\ first = 0 => Follows(up, Tail(wire), n, read + 1, 0)
  BY <1>1, <1>2, TailFollows
<1>3. ASSUME at = "answer", ~ex.req.head, NEW i \in 1..Len(wire), Announces(wire[i])
      PROVE  Follows(up, wire, wire[i].shape.n, 0, i) /\ wire[i].shape.n \in Nat
  <2>1. wire[i] \in Units
    BY <1>1
  <2>2. wire[i].shape.n \in Nat
    BY <2>1, ShapeTyped DEF Units
  <2> QED
    BY <1>3, <2>2 DEF AnswerWhole, BeforeTheFinal
<1>4. ASSUME NEW h \in Shapes, RelayInterim(h) PROVE AnswerWhole'
  <2>1. /\ at = "answer" /\ at' \in {"answer", "wait_answer"} /\ wire # <<>>
        /\ wire' = Tail(wire) /\ ex'.req = ex.req
    BY <1>1, <1>4 DEF RelayInterim, Answered, Exchanging
  <2>2. ASSUME ~ex.req.head, NEW i \in 1..Len(wire'), Announces(wire'[i])
        PROVE  Follows(up, wire', wire'[i].shape.n, 0, i)
    <3>1. i + 1 \in 1..Len(wire) /\ wire'[i] = wire[i + 1]
      BY <1>1, <2>1, TailOf
    <3>2. Follows(up, wire, wire'[i].shape.n, 0, i + 1) /\ wire'[i].shape.n \in Nat
      BY <1>3, <2>1, <2>2, <3>1
    <3>3. i + 1 \in Nat /\ i + 1 > 0 /\ i + 1 <= Len(wire) /\ (i + 1) - 1 = i
      BY <1>1, <3>1
    <3>4. Follows(up, Tail(wire), wire'[i].shape.n, 0, (i + 1) - 1)
      BY <1>2, <2>1, <3>2, <3>3
    <3> QED
      BY <2>1, <3>3, <3>4
  <2> QED
    BY <1>1, <2>1, <2>2 DEF AnswerWhole
<1>5. ASSUME NEW h \in Shapes, ReadFinal(h) PROVE AnswerWhole'
  <2>1. /\ at = "answer" /\ at' = "content" /\ wire # <<>> /\ wire' = Tail(wire)
        /\ ex'.answer = Head(wire) /\ ex'.got = 0 /\ ~ex.req.head
        /\ Head(wire).shape.parses = "yes" /\ Head(wire).shape.status = "final"
    BY <1>1, <1>5 DEF ReadFinal, Answered, Exchanging
  <2>2. Head(wire).framed = "head"
    BY <1>1, <2>1, FirstIsHead DEF Own, Framing, BeforeTheFinal
  <2>3. 1 \in 1..Len(wire) /\ Head(wire) = wire[1]
    BY <1>1, <2>1, TailOf
  <2>4. ASSUME ex'.answer.shape.frame = "chunked"
        PROVE  Follows(up, wire', ex'.answer.shape.n, 0, 0)
    <3>1. Announces(wire[1])
      BY <2>1, <2>2, <2>3, <2>4 DEF Announces
    <3>2. Follows(up, wire, wire[1].shape.n, 0, 1) /\ wire[1].shape.n \in Nat
      BY <1>3, <2>1, <2>3, <3>1
    <3>3. Follows(up, Tail(wire), wire[1].shape.n, 0, 1 - 1)
      BY <1>2, <2>1, <2>3, <3>2
    <3> QED
      BY <2>1, <2>3, <3>3
  <2> QED
    BY <1>1, <2>1, <2>4 DEF AnswerWhole, BeforeTheFinal
<1>6. CASE ReadContent
  <2>1. /\ at = "content" /\ ex.answer \in Units
        /\ ex.answer.shape.frame = "chunked" => Follows(up, wire, ex.answer.shape.n, ex.got, 0)
        /\ ex.answer.shape.frame = "none" => ex.got = 0
    <3>1. at = "content"
      BY <1>6 DEF ReadContent
    <3> QED
      BY <1>1, <3>1 DEF AnswerWhole
  <2>2. ex.answer.shape.n \in Nat
    BY <2>1, ShapeTyped DEF Units
  <2>3. CASE Piece(ex.answer.shape, wire) /\ ex' = [ex EXCEPT !.got = ex.got + 1]
             /\ wire' = Tail(wire) /\ at' = at
    <3>1. ex'.answer = ex.answer /\ ex'.got = ex.got + 1
      BY <1>1, <2>3 DEF Exchanging
    <3>2. wire # <<>> /\ ex.answer.shape.frame # "none"
      BY <2>3 DEF Piece
    <3>3. ASSUME ex.answer.shape.frame = "chunked"
          PROVE  Follows(up, Tail(wire), ex.answer.shape.n, ex.got + 1, 0)
      <4>1. Follows(up, wire, ex.answer.shape.n, ex.got, 0) /\ 0 <= Len(wire)
        BY <1>1, <2>1, <3>3
      <4> QED
        BY <1>1, <1>2, <2>2, <3>2, <4>1
    <3> QED
      BY <1>1, <2>1, <2>3, <3>1, <3>2, <3>3 DEF AnswerWhole, BeforeTheFinal
  <2>4. CASE LastPiece(ex.answer.shape, wire) /\ at' = "restore" /\ ex' = ex
    <3>1. ex.answer.shape.frame = "chunked" /\ wire # <<>> /\ Head(wire).framed = "end"
      BY <2>4 DEF LastPiece
    <3>2. 1 \in (0 + 1)..Len(wire) /\ wire[1].framed = "end"
      BY <1>1, <3>1, TailOf
    <3>3. ex.got + 1 = ex.answer.shape.n + 0 + 1
      BY <2>1, <3>1, <3>2 DEF Follows
    <3>4. ex.got = ex.answer.shape.n
      BY <1>1, <2>2, <3>3
    <3>5. ex.got = Owed(ex.answer.shape)
      BY <3>1, <3>4 DEF Owed
    <3> QED
      BY <2>4, <3>1, <3>5 DEF AnswerWhole, BeforeTheFinal
  <2>5. CASE Complete(ex.answer.shape) /\ at' = "restore" /\ ex' = ex
    <3>1. ex.answer.shape.frame \in {"none", "length"} /\ ex.got = Owed(ex.answer.shape)
      BY <2>1, <2>5 DEF Complete, Owed
    <3> QED
      BY <2>1, <2>5, <3>1 DEF AnswerWhole, BeforeTheFinal
  <2> QED
    BY <1>6, <2>3, <2>4, <2>5 DEF ReadContent
<1> QED
  BY <1>4, <1>5, <1>6

LEMMA AnswerStep ==
    ASSUME Own, Own', AnswerWhole, [Next]_vars
    PROVE  AnswerWhole'
<1>1. ex \in Exchanging /\ up \in Upstreams
  BY DEF Own, Typed
<1>2. ASSUME at' \notin Active PROVE AnswerWhole'
  BY <1>2 DEF AnswerWhole, Active, BeforeTheFinal
<1>3. CASE Connect \/ ClientIsGone \/ Relayed \/ InTunnel
  <2>1. at' \notin Active
    BY <1>3 DEF Connect, Refuse, Inspect, Tunnel, ClientIsGone, Relayed, InTunnel, TunnelCloses,
                Pump, Shut, SendInTunnel, EndInTunnel, Reset, Pipe, Active, BeforeTheFinal
  <2> QED
    BY <1>2, <2>1
<1>4. CASE \/ UpstreamRefuses \/ IllFormed \/ BodyUnreadable \/ TransformFails
           \/ DrainFails \/ AnswerRefused \/ ContentUnreadable \/ Residue \/ WriteFails
           \/ Silence \/ UnmetExpectation \/ Stop \/ Relay
           \/ \E h \in Shapes : RelayBare(h)
  <2>1. Ends("closed") \/ Ends("idle") \/ Over("closed") \/ Over("stopped")
    BY <1>4 DEF UpstreamRefuses, IllFormed, BodyUnreadable, TransformFails, DrainFails,
                AnswerRefused, ContentUnreadable, Residue, WriteFails, Silence, Fail,
                ClientSilent, UpstreamSilent, UnmetExpectation, Stop, RelayBare, Relay
  <2>2. at' \notin Active
    BY <2>1 DEF Ends, Over, Active, BeforeTheFinal
  <2> QED
    BY <1>2, <2>2
<1>5. CASE ReadRequest
  BY <1>5 DEF ReadRequest, AnswerWhole, BeforeTheFinal
<1>6. CASE OpenUpstream
  <2>1. at' = "request" /\ wire = <<>> /\ wire' = wire
    BY <1>6 DEF OpenUpstream, Own, Framing
  <2>2. \A i \in 1..Len(wire') : FALSE
    BY <2>1
  <2> QED
    BY <2>1, <2>2 DEF AnswerWhole
<1>7. CASE \/ Accept \/ ReadBody \/ Send \/ Drained
           \/ ClientSends \/ Leave \/ \E r \in Requests : Ask(r)
           \/ UNCHANGED vars
  <2>1. CASE Accept \/ ReadBody \/ Send \/ Drained
    <3>1. /\ at \in BeforeTheFinal /\ at' \in BeforeTheFinal /\ wire' = wire
          /\ ex'.req = ex.req /\ up'.mode = up.mode /\ up'.left = up.left
      BY <1>1, <2>1 DEF Accept, ReadBody, Send, Drained, BeforeTheFinal, Exchanging, Upstreams
    <3> QED
      BY <3>1 DEF AnswerWhole, Follows, BeforeTheFinal
  <2>2. CASE ClientSends \/ Leave \/ (\E r \in Requests : Ask(r)) \/ UNCHANGED vars
    <3>1. UNCHANGED <<at, ex, up, wire>>
      BY <2>2 DEF ClientSends, GoAhead, SendBody, Leave, Ask, vars
    <3> QED
      BY <3>1 DEF AnswerWhole
  <2> QED
    BY <1>7, <2>1, <2>2
<1>8. CASE ReadContent \/ \E h \in Shapes : RelayInterim(h) \/ ReadFinal(h)
  BY <1>8, ReadAnswerWhole
<1>9. CASE UpstreamSends \/ EmitMore \/ HangUp
  BY <1>9, UpstreamWhole
<1>10. CASE Taken
  <2>1. CASE at \in {"wait_body", "wait_answer"}
    <3>1. /\ at \in BeforeTheFinal /\ at' \in BeforeTheFinal
          /\ UNCHANGED <<ex, up, wire>>
      BY <1>10, <2>1 DEF Taken, Onward, BeforeTheFinal
    <3> QED
      BY <3>1 DEF AnswerWhole, BeforeTheFinal
  <2>2. CASE at \in Ending
    <3>1. at' \notin Active
      BY <1>10, <2>2 DEF Taken, Onward, Over, Ending, Active, BeforeTheFinal
    <3> QED
      BY <1>2, <3>1
  <2> QED
    BY <1>10, <2>1, <2>2 DEF Taken, Waits, Ending
<1> QED
  BY <1>3, <1>4, <1>5, <1>6, <1>7, <1>8, <1>9, <1>10 DEF Next, Exchange

----------------------------------------------------------------------------
(* What the client is told.                                                *)

LEMMA TellWhole ==
    ASSUME Own, ToldWhole, NEW kind, NEW unit, NEW units, Tell(kind, unit, units, units)
    PROVE  ToldWhole'
<1> DEFINE w == [k |-> ex.k, kind |-> kind, unit |-> unit, units |-> units, due |-> units]
<1>1. heard' = heard \/ heard' = Append(heard, w)
  BY DEF Tell
<1>2. w.units = w.due /\ heard \in Seq(Words)
  BY DEF Own, Typed
<1> HIDE DEF w
<1>3. CASE heard' = heard
  BY <1>3 DEF ToldWhole
<1>4. CASE heard' = Append(heard, w)
  <2>1. /\ Len(heard) \in Nat /\ Len(heard') = Len(heard) + 1 /\ heard'[Len(heard) + 1] = w
        /\ \A i \in 1..Len(heard) : heard'[i] = heard[i]
    BY <1>2, <1>4
  <2> QED
    BY <1>2, <2>1 DEF ToldWhole
<1> QED
  BY <1>1, <1>3, <1>4

LEMMA ToldStep ==
    ASSUME Own, AnswerWhole, ToldWhole, [Next]_vars
    PROVE  ToldWhole'
<1>1. ASSUME NEW kind, Say(kind) PROVE ToldWhole'
  BY <1>1, TellWhole DEF Say
<1>2. CASE Connect
  BY <1>1, <1>2 DEF Connect, Refuse, Inspect, Tunnel
<1>3. CASE \/ UpstreamRefuses \/ IllFormed \/ BodyUnreadable \/ TransformFails
           \/ DrainFails \/ AnswerRefused \/ ContentUnreadable \/ Residue
           \/ Silence \/ UnmetExpectation
  <2>1. Say("error") \/ Say("refusal")
    BY <1>3 DEF UpstreamRefuses, IllFormed, BodyUnreadable, TransformFails, DrainFails,
                AnswerRefused, ContentUnreadable, Residue, Silence, Fail,
                ClientSilent, UpstreamSilent, UnmetExpectation
  <2> QED
    BY <1>1, <2>1
<1>4. CASE Accept
  <2>1. Say("continue") \/ UNCHANGED heard
    BY <1>4 DEF Accept
  <2> QED
    BY <1>1, <2>1 DEF ToldWhole
<1>5. CASE \E h \in Shapes : RelayInterim(h) \/ RelayBare(h)
  BY <1>5, TellWhole DEF RelayInterim, RelayBare
<1>6. CASE Relay
  <2>1. /\ Tell("answer", ex.answer, ex.got,
                 IF ex.answer.shape.frame = "none" THEN 0 ELSE ex.answer.shape.n)
        /\ at = "restore"
    BY <1>6 DEF Relay
  <2>2. (IF ex.answer.shape.frame = "none" THEN 0 ELSE ex.answer.shape.n) = ex.got
    BY <2>1 DEF AnswerWhole, Owed
  <2> QED
    BY <2>1, <2>2, TellWhole
<1>7. CASE \/ ReadRequest \/ ClientIsGone \/ OpenUpstream \/ ReadBody \/ Send \/ Drained
           \/ ReadContent \/ (\E h \in Shapes : ReadFinal(h)) \/ Stop \/ Taken \/ WriteFails
           \/ Relayed \/ InTunnel \/ ClientSends \/ Leave \/ (\E r \in Requests : Ask(r))
           \/ UpstreamSends \/ EmitMore \/ HangUp \/ UNCHANGED vars
  <2>1. CASE \/ ReadRequest \/ ClientIsGone \/ OpenUpstream \/ ReadBody \/ Send \/ Drained
             \/ ReadContent \/ (\E h \in Shapes : ReadFinal(h)) \/ Stop \/ Taken \/ WriteFails
             \/ UNCHANGED vars
    BY <2>1 DEF ReadRequest, ClientIsGone, OpenUpstream, ReadBody, Send, Drained, ReadContent,
                ReadFinal, Stop, Taken, WriteFails, vars, ToldWhole
  <2>2. CASE \/ Relayed \/ InTunnel \/ ClientSends \/ Leave \/ (\E r \in Requests : Ask(r))
             \/ UpstreamSends \/ EmitMore \/ HangUp
    BY <2>2 DEF Relayed, InTunnel, TunnelCloses, Pump, Shut, SendInTunnel, EndInTunnel,
                Reset, Pipe, ClientSends, GoAhead, SendBody, Leave, Ask, UpstreamSends,
                EmitBody, EmitHead, EmitMore, HangUp, Emit, ToldWhole
  <2> QED
    BY <1>7, <2>1, <2>2
<1> QED
  BY <1>2, <1>3, <1>4, <1>5, <1>6, <1>7 DEF Next, Exchange

----------------------------------------------------------------------------

LEMMA WholeInit == Init => Whole
<1> SUFFICES ASSUME Init PROVE Whole
  OBVIOUS
<1>1. Worded /\ ex.k = 0 /\ Len(heard) = 0
  BY WordedInit DEF Init, Fresh
<1>2. RequestWhole
  BY <1>1 DEF Init, RequestWhole, Between, Active, BeforeTheFinal, Reading, Asked, Empty, Closed
<1>3. AnswerWhole /\ ToldWhole
  BY <1>1 DEF Init, AnswerWhole, BeforeTheFinal, ToldWhole
<1> QED
  BY <1>1, <1>2, <1>3 DEF Whole

LEMMA WholeStep == Whole /\ [Next]_vars => Whole'
<1> SUFFICES ASSUME Whole, [Next]_vars PROVE Whole'
  OBVIOUS
<1>1. Own /\ InOrder /\ Worded /\ RequestWhole /\ AnswerWhole /\ ToldWhole
  BY DEF Whole, Worded
<1>2. Own' /\ Worded'
  BY <1>1, StepOwn, StepKinds, WordedStep
<1> QED
  BY <1>1, <1>2, RequestStep, AnswerStep, ToldStep DEF Whole

\* _lire_corps, _lire_morceaux, both ways: whatever the two parties send, and for
\* bodies of any size, what is passed on has the units its sender announced.
THEOREM BodiesAreWhole == Spec => []WholeOrNothing
<1>1. Whole => WholeOrNothing
  BY DEF Whole, RequestWhole, ToldWhole, Owed, WholeOrNothing
<1> QED
  BY <1>1, WholeInit, WholeStep, PTL DEF Spec
=============================================================================
