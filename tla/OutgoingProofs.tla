---------------------------- MODULE OutgoingProofs ----------------------------
(***************************************************************************)
(* One text on its way out, for any text, any assumption on what the       *)
(* recognizers see and any spans they report.  First the arbitration of    *)
(* module Overlap, whose invariant the exchange of module Outgoing keeps;  *)
(* then the rewriting from the end; then what Spans makes of each report,  *)
(* and the pieces in which a long text is sent.                            *)
(***************************************************************************)
EXTENDS Outgoing, WellFoundedInduction, FunctionTheorems, SequenceTheorems, FiniteSetTheorems,
        TLAPS

----------------------------------------------------------------------------
(* Numbers. *)

\* A set of natural numbers that is not empty has a least one.
LEMMA Least ==
    ASSUME NEW T \in SUBSET Nat, T # {}
    PROVE  \E n \in T : \A m \in T : n <= m
<1> DEFINE R == OpToRel(<, Nat)
<1>1. IsWellFoundedOn(R, Nat)
  BY NatLessThanWellFounded
<1>2. \A a, b \in Nat : a < b => <<a, b>> \in R
  BY DEF OpToRel
<1> HIDE DEF R
<1>3. PICK n \in T : \A m \in T : ~(<<m, n>> \in R)
  BY <1>1, WFMin
<1>4. \A m \in T : n <= m
  <2> SUFFICES ASSUME NEW m \in T PROVE n <= m
    OBVIOUS
  <2>1. n \in Nat /\ m \in Nat
    OBVIOUS
  <2>2. m < n => <<m, n>> \in R
    BY <1>2, <2>1
  <2>3. ~(m < n)
    BY <1>3, <2>2
  <2> QED BY <2>1, <2>3
<1> QED BY <1>4

\* What holds of 0 and of the successor of each number it holds of, holds of all.
LEMMA Induction ==
    ASSUME NEW T \in SUBSET Nat, 0 \in T, \A n \in T : n + 1 \in T
    PROVE  T = Nat
<1> SUFFICES ASSUME Nat \ T # {} PROVE FALSE
  OBVIOUS
<1>1. PICK n \in Nat \ T : \A m \in Nat \ T : n <= m
  BY Least
<1>2. n # 0 /\ n - 1 \in Nat
  OBVIOUS
<1>3. n - 1 \in T
  BY <1>1, <1>2
<1> QED BY <1>3

\* A bounded one has a greatest one.
LEMMA Greatest ==
    ASSUME NEW T \in SUBSET Nat, T # {}, NEW b \in Nat, \A m \in T : m <= b
    PROVE  \E n \in T : \A m \in T : m <= n
<1> DEFINE U == {u \in Nat : b - u \in T}
<1>1. U # {}
  <2>1. PICK m \in T : TRUE
    OBVIOUS
  <2>2. b - m \in Nat /\ b - (b - m) = m
    BY <2>1
  <2>3. b - m \in U
    BY <2>1, <2>2
  <2> QED BY <2>3
<1>2. PICK u \in U : \A v \in U : u <= v
  BY <1>1, Least
<1>3. ASSUME NEW m \in T PROVE m <= b - u
  <2>1. b - m \in Nat /\ b - (b - m) = m
    OBVIOUS
  <2>2. b - m \in U
    BY <2>1
  <2>3. u <= b - m
    BY <1>2, <2>2
  <2> QED BY <2>3
<1>4. b - u \in T
  BY <1>2
<1> QED BY <1>3, <1>4

\* The least and the greatest of two.
LEMMA OfTwo ==
    ASSUME NEW a \in Int, NEW b \in Int
    PROVE  /\ Max({a, b}) = IF a >= b THEN a ELSE b
           /\ Min({a, b}) = IF a <= b THEN a ELSE b
<1>1. Max({a, b}) \in {a, b} /\ \A y \in {a, b} : Max({a, b}) >= y
  <2>1. \E x \in {a, b} : \A y \in {a, b} : x >= y
    OBVIOUS
  <2> QED BY <2>1 DEF Max
<1>2. Min({a, b}) \in {a, b} /\ \A y \in {a, b} : Min({a, b}) <= y
  <2>1. \E x \in {a, b} : \A y \in {a, b} : x =< y
    OBVIOUS
  <2> QED BY <2>1 DEF Min
<1> QED BY <1>1, <1>2

\* The least and the greatest of a set.
LEMMA MinOf ==
    ASSUME NEW T \in SUBSET Nat, T # {}
    PROVE  Min(T) \in T /\ \A m \in T : Min(T) <= m
BY Least DEF Min

LEMMA MaxOf ==
    ASSUME NEW T \in SUBSET Nat, T # {}, NEW b \in Nat, \A m \in T : m <= b
    PROVE  Max(T) \in T /\ \A m \in T : m <= Max(T)
<1>1. PICK n \in T : \A m \in T : m <= n
  BY Greatest
<1>2. \A m \in T : n >= m
  BY <1>1
<1> QED BY <1>2 DEF Max

----------------------------------------------------------------------------
(* The arbitration of the spans. *)

Interval_(i) == i.start \in Nat /\ i.end \in Nat /\ i.start < i.end

IsSpan(s) == Interval_(s) /\ s # NoSpan

\* What the variables may hold.
Shapes ==
    /\ \A s \in given : WellFormed(s)
    /\ waiting \subseteq given /\ against \subseteq kept
    /\ hand = NoSpan \/ hand \in given
    /\ \A k \in kept : WellFormed(k)
    /\ \A i \in pieces : i = Interval(i.start, i.end) /\ Interval_(i)
    /\ hand = NoSpan => pieces = {} /\ against = {}

\* The pieces in hand overlap neither each other nor what they were cut against.
PiecesApart ==
    /\ \A i, j \in pieces : i = j \/ Disjoint(i, j)
    /\ \A i \in pieces : \A k \in kept \ against : Disjoint(i, k)

\* No character of the span in hand has been lost.
HandCovered ==
    hand # NoSpan => \A p \in (hand.start + 1)..hand.end :
        \/ \E i \in pieces : Holds(i, p)
        \/ \E k \in kept : Holds(k, p)

\* Classes are taken in their order.
ClassesInOrder ==
    /\ \A k \in kept : \A s \in waiting : Class(k) <= Class(s)
    /\ hand # NoSpan => /\ \A k \in kept : Class(k) <= Class(hand)
                        /\ \A s \in waiting : Class(hand) <= Class(s)

\* A span that was taken is kept wherever a class before its own has not taken it.
TakenAreCovered ==
    \A s \in given : \/ s \in waiting \/ s = hand
                     \/ \A p \in (s.start + 1)..s.end :
                            \E k \in kept : Holds(k, p) /\ Class(k) <= Class(s)

ArbInv == /\ Shapes /\ KeptDisjoint /\ PiecesApart /\ HandCovered /\ ClassesInOrder
        /\ TakenAreCovered

----------------------------------------------------------------------------
(* Lemmas. *)

\* A well-formed span is an interval, and not the mark of an empty hand.
LEMMA SpanShape ==
    ASSUME NEW s, WellFormed(s)
    PROVE  IsSpan(s) /\ s.score \in Nat /\ s.type \in Types
BY DEF WellFormed, Span, IsSpan, Interval_, NoSpan

\* Classes are numbers.
LEMMA ClassType == ASSUME NEW s PROVE Class(s) \in 0..2
BY DEF Class

\* Cutting keeps what is left inside the interval and outside the piece it is cut against.
LEMMA MinusApart ==
    ASSUME NEW i, NEW k, Interval_(i), Interval_(k), i = Interval(i.start, i.end),
           NEW m \in Minus(i, k)
    PROVE  /\ m = Interval(m.start, m.end) /\ Interval_(m)
           /\ i.start <= m.start /\ m.end <= i.end
           /\ Disjoint(m, k)
BY DEF Minus, Interval_, Interval, Disjoint

\* The two sides of a cut are apart.
LEMMA MinusSides ==
    ASSUME NEW i, NEW k, Interval_(i), Interval_(k), NEW m \in Minus(i, k),
           NEW n \in Minus(i, k)
    PROVE  m = n \/ Disjoint(m, n)
BY DEF Minus, Interval_, Interval, Disjoint

\* A character of the interval is left, or held by the piece.
LEMMA MinusKeeps ==
    ASSUME NEW i, NEW k, Interval_(i), Interval_(k), NEW p \in Int, Holds(i, p), ~Holds(k, p)
    PROVE  \E m \in Minus(i, k) : Holds(m, p)
<1>1. CASE Disjoint(i, k)
  BY <1>1 DEF Minus
<1>2. CASE ~Disjoint(i, k) /\ p <= k.start
  <2>1. Interval(i.start, k.start) \in Minus(i, k)
    BY <1>2 DEF Minus, Holds, Interval_
  <2>2. Holds(Interval(i.start, k.start), p)
    BY <1>2 DEF Holds, Interval
  <2> QED BY <2>1, <2>2
<1>3. CASE ~Disjoint(i, k) /\ ~(p <= k.start)
  <2>1. k.end < p
    BY <1>3 DEF Holds, Interval_
  <2>2. Interval(k.end, i.end) \in Minus(i, k)
    BY <1>3, <2>1 DEF Minus, Holds, Interval_
  <2>3. Holds(Interval(k.end, i.end), p)
    BY <2>1 DEF Holds, Interval
  <2> QED BY <2>2, <2>3
<1> QED BY <1>1, <1>2, <1>3

\* Parts of things that are apart are apart.
LEMMA PartsApart ==
    ASSUME NEW i, NEW j, NEW m, NEW n, Interval_(i), Interval_(j), Interval_(m), Interval_(n),
           Disjoint(i, j), i.start <= m.start, m.end <= i.end,
           j.start <= n.start, n.end <= j.end
    PROVE  Disjoint(m, n)
BY DEF Disjoint, Interval_

----------------------------------------------------------------------------

\* It holds before anything is taken.
LEMMA InitArb == Init => ArbInv
BY DEF Init, ArbInv, Shapes, KeptDisjoint, PiecesApart, HandCovered, ClassesInOrder,
       TakenAreCovered

\* Taking a span of the first class that waits keeps the invariant.
LEMMA TakeArb ==
    ASSUME ArbInv, NEW s \in waiting, Take(s)
    PROVE  ArbInv'
<1>1. WellFormed(s) /\ s \in given
  BY DEF ArbInv, Shapes
<1>2. IsSpan(s)
  BY <1>1, SpanShape
<1>3. \A t \in waiting : Class(s) <= Class(t)
  <2> SUFFICES ASSUME NEW t \in waiting PROVE Class(s) <= Class(t)
    OBVIOUS
  <2>1. ~(Class(t) < Class(s))
    BY DEF Take, Before
  <2> QED BY <2>1, ClassType
<1>4. Shapes'
  <2> DEFINE whole == Interval(s.start, s.end)
  <2>1. whole = Interval(whole.start, whole.end) /\ Interval_(whole)
    BY <1>2 DEF IsSpan, Interval_, Interval
  <2>2. pieces' = {whole} /\ hand' = s /\ against' = kept /\ kept' = kept /\ given' = given
    BY DEF Take
  <2>3. waiting' \subseteq given
    BY DEF ArbInv, Shapes, Take
  <2>4. hand' # NoSpan
    BY <1>2, <2>2 DEF IsSpan
  <2> HIDE DEF whole
  <2>5. (\A t \in given : WellFormed(t))' /\ (\A t \in kept : WellFormed(t))'
    BY <2>2 DEF ArbInv, Shapes
  <2>6. (\A i \in pieces : i = Interval(i.start, i.end) /\ Interval_(i))'
    BY <2>1, <2>2
  <2>7. (waiting \subseteq given /\ against \subseteq kept)' /\ hand' \in given'
    BY <1>1, <2>2, <2>3
  <2> QED BY <2>4, <2>5, <2>6, <2>7 DEF Shapes
<1>5. KeptDisjoint'
  BY DEF ArbInv, KeptDisjoint, Take
<1>6. PiecesApart'
  BY DEF PiecesApart, Take
<1>7. HandCovered'
  <2>1. \A p \in (s.start + 1)..s.end : Holds(Interval(s.start, s.end), p)
    BY <1>2 DEF Holds, Interval, IsSpan, Interval_
  <2> QED BY <2>1 DEF HandCovered, Take
<1>8. ClassesInOrder'
  BY <1>3 DEF ArbInv, ClassesInOrder, Take
<1>9. TakenAreCovered'
  <2>1. \A t \in given : t # NoSpan
    BY SpanShape DEF ArbInv, Shapes, IsSpan
  <2>2. hand = NoSpan /\ hand' = s /\ waiting' = waiting \ {s}
    BY DEF Take
  <2>3. given' = given /\ kept' = kept
    BY DEF Take
  <2> QED BY <2>1, <2>2, <2>3 DEF ArbInv, TakenAreCovered
<1> QED BY <1>4, <1>5, <1>6, <1>7, <1>8, <1>9 DEF ArbInv

\* Cutting against a kept piece keeps the invariant.
LEMMA CutArb ==
    ASSUME ArbInv, NEW k \in against, Cut(k)
    PROVE  ArbInv'
<1>1. k \in kept /\ WellFormed(k) /\ Interval_(k)
  BY SpanShape DEF ArbInv, Shapes, IsSpan
<1>2. \A i \in pieces : i = Interval(i.start, i.end) /\ Interval_(i)
  BY DEF ArbInv, Shapes
<1>3. \A m \in pieces' : \E i \in pieces : m \in Minus(i, k)
  BY DEF Cut
<1>4. Shapes'
  <2>1. \A m \in pieces' : m = Interval(m.start, m.end) /\ Interval_(m)
    BY <1>1, <1>2, <1>3, MinusApart
  <2> QED BY <2>1 DEF ArbInv, Shapes, Cut
<1>5. KeptDisjoint'
  BY DEF ArbInv, KeptDisjoint, Cut
<1>6. PiecesApart'
  <2>1. ASSUME NEW m \in pieces', NEW n \in pieces' PROVE m = n \/ Disjoint(m, n)
    <3>1. PICK i \in pieces : m \in Minus(i, k)
      BY <1>3
    <3>2. PICK j \in pieces : n \in Minus(j, k)
      BY <1>3
    <3>3. CASE i = j
      BY <1>1, <1>2, <3>1, <3>2, <3>3, MinusSides
    <3>4. CASE i # j
      <4>1. Disjoint(i, j)
        BY <3>4 DEF ArbInv, PiecesApart
      <4>2. Interval_(m) /\ i.start <= m.start /\ m.end <= i.end
        BY <1>1, <1>2, <3>1, MinusApart
      <4>3. Interval_(n) /\ j.start <= n.start /\ n.end <= j.end
        BY <1>1, <1>2, <3>2, MinusApart
      <4> QED BY <1>2, <4>1, <4>2, <4>3, PartsApart
    <3> QED BY <3>3, <3>4
  <2>2. ASSUME NEW m \in pieces', NEW q \in kept' \ against' PROVE Disjoint(m, q)
    <3>1. PICK i \in pieces : m \in Minus(i, k)
      BY <1>3
    <3>2. Interval_(m) /\ i.start <= m.start /\ m.end <= i.end /\ Disjoint(m, k)
      BY <1>1, <1>2, <3>1, MinusApart
    <3>3. q = k \/ q \in kept \ against
      BY <2>2 DEF Cut
    <3>4. q \in kept /\ Interval_(q)
      BY <2>2, SpanShape DEF Cut, ArbInv, Shapes, IsSpan
    <3>5. CASE q \in kept \ against
      <4>1. Disjoint(i, q)
        BY <3>5 DEF ArbInv, PiecesApart
      <4>2. q.start <= q.start /\ q.end <= q.end
        BY <3>4 DEF Interval_
      <4> QED BY <1>2, <3>2, <3>4, <4>1, <4>2, PartsApart
    <3> QED BY <3>2, <3>3, <3>5
  <2> QED BY <2>1, <2>2 DEF PiecesApart
<1>7. HandCovered'
  <2> SUFFICES ASSUME hand # NoSpan, NEW p \in (hand.start + 1)..hand.end
               PROVE  (\E m \in pieces' : Holds(m, p)) \/ \E q \in kept : Holds(q, p)
    BY DEF HandCovered, Cut
  <2>1. CASE \E q \in kept : Holds(q, p)
    BY <2>1
  <2>2. CASE ~\E q \in kept : Holds(q, p)
    <3>1. PICK i \in pieces : Holds(i, p)
      BY <2>2 DEF ArbInv, HandCovered
    <3>2. p \in Int
      <4>1. WellFormed(hand)
        BY DEF ArbInv, Shapes
      <4> QED BY <4>1, SpanShape DEF IsSpan, Interval_
    <3>3. PICK m \in Minus(i, k) : Holds(m, p)
      BY <1>1, <1>2, <2>2, <3>1, <3>2, MinusKeeps
    <3> QED BY <3>3 DEF Cut
  <2> QED BY <2>1, <2>2
<1>8. ClassesInOrder'
  BY DEF ArbInv, ClassesInOrder, Cut
<1>9. TakenAreCovered'
  BY DEF ArbInv, TakenAreCovered, Cut
<1> QED BY <1>4, <1>5, <1>6, <1>7, <1>8, <1>9 DEF ArbInv

\* Keeping what remains keeps the invariant.
LEMMA KeepArb ==
    ASSUME ArbInv, Keep
    PROVE  ArbInv'
<1> DEFINE As(i) == [hand EXCEPT !.start = i.start, !.end = i.end]
<1>1. hand \in given /\ WellFormed(hand) /\ hand # NoSpan
  BY DEF ArbInv, Shapes, Keep
<1>2. kept' = kept \cup {As(i) : i \in pieces}
  BY DEF Keep
<1>3. \A i \in pieces : i = Interval(i.start, i.end) /\ Interval_(i)
  BY DEF ArbInv, Shapes
<1>4. ASSUME NEW i \in pieces
      PROVE  /\ WellFormed(As(i)) /\ As(i).start = i.start /\ As(i).end = i.end
             /\ Class(As(i)) = Class(hand)
  BY <1>1, <1>3 DEF WellFormed, Span, Interval_, Class, Secret, Public
<1>5. Shapes'
  BY <1>1, <1>2, <1>4 DEF ArbInv, Shapes, Keep
<1>6. KeptDisjoint'
  <2>1. \A i \in pieces : \A q \in kept : Disjoint(i, q)
    BY DEF ArbInv, PiecesApart, Keep
  <2>2. ASSUME NEW i \in pieces, NEW q \in kept PROVE Disjoint(As(i), q) /\ Disjoint(q, As(i))
    <3>1. Disjoint(i, q)
      BY <2>1
    <3> QED BY <1>4, <3>1 DEF Disjoint
  <2>3. ASSUME NEW i \in pieces, NEW j \in pieces
        PROVE  As(i) = As(j) \/ Disjoint(As(i), As(j))
    <3>1. i = j \/ Disjoint(i, j)
      BY DEF ArbInv, PiecesApart
    <3> QED BY <1>4, <3>1 DEF Disjoint
  <2> HIDE DEF As
  <2> QED BY <1>2, <2>2, <2>3 DEF ArbInv, KeptDisjoint
<1>7. PiecesApart' /\ HandCovered'
  BY DEF PiecesApart, HandCovered, Keep
<1>8. ClassesInOrder'
  <2>1. ASSUME NEW q \in kept', NEW s \in waiting PROVE Class(q) <= Class(s)
    <3>1. CASE q \in kept
      BY <3>1 DEF ArbInv, ClassesInOrder
    <3>2. CASE q \notin kept
      <4>1. PICK i \in pieces : q = As(i)
        BY <1>2, <3>2
      <4>2. Class(hand) <= Class(s)
        BY <1>1 DEF ArbInv, ClassesInOrder
      <4> QED BY <1>4, <4>1, <4>2
    <3> QED BY <3>1, <3>2
  <2> QED BY <2>1 DEF ClassesInOrder, Keep
<1>9. TakenAreCovered'
  <2> SUFFICES ASSUME NEW s \in given, s \notin waiting, NEW p \in (s.start + 1)..s.end
               PROVE  \E q \in kept' : Holds(q, p) /\ Class(q) <= Class(s)
    BY DEF TakenAreCovered, Keep
  <2>1. CASE s # hand
    BY <1>2, <2>1 DEF ArbInv, TakenAreCovered
  <2>2. CASE s = hand
    <3>1. CASE \E q \in kept : Holds(q, p)
      BY <1>1, <1>2, <2>2, <3>1 DEF ArbInv, ClassesInOrder
    <3>2. CASE \E i \in pieces : Holds(i, p)
      <4>1. PICK i \in pieces : Holds(i, p)
        BY <3>2
      <4>2. Holds(As(i), p) /\ Class(As(i)) = Class(s)
        BY <1>4, <2>2, <4>1 DEF Holds
      <4>3. As(i) \in kept'
        BY <1>2
      <4> HIDE DEF As
      <4> QED BY <4>2, <4>3, ClassType
    <3> QED BY <1>1, <2>2, <3>1, <3>2 DEF ArbInv, HandCovered
  <2> QED BY <2>1, <2>2
<1> QED BY <1>5, <1>6, <1>7, <1>8, <1>9 DEF ArbInv

\* Every step keeps it.
LEMMA NextArb == ArbInv /\ [Arbitrate]_arbitration => ArbInv'
<1> SUFFICES ASSUME ArbInv, [Arbitrate]_arbitration PROVE ArbInv'
  OBVIOUS
<1>1. CASE UNCHANGED arbitration
  BY <1>1 DEF arbitration, ArbInv, Shapes, KeptDisjoint, PiecesApart, HandCovered,
              ClassesInOrder, TakenAreCovered
<1>2. CASE \E s \in waiting : Take(s)
  BY <1>2, TakeArb
<1>3. CASE \E k \in against : Cut(k)
  BY <1>3, CutArb
<1>4. CASE Keep
  BY <1>4, KeepArb
<1> QED BY <1>1, <1>2, <1>3, <1>4 DEF Arbitrate

\* The invariant gives the coverage of what was claimed.
LEMMA ArbNothingGivenUp == ArbInv => NothingGivenUp
<1> SUFFICES ASSUME ArbInv, NEW s \in given, NEW p \in (s.start + 1)..s.end
             PROVE  \/ \E k \in kept : Holds(k, p)
                    \/ \E t \in waiting : Holds(t, p)
                    \/ hand # NoSpan /\ Holds(hand, p)
  BY DEF NothingGivenUp
<1>1. IsSpan(s)
  BY SpanShape DEF ArbInv, Shapes
<1>2. Holds(s, p)
  BY <1>1 DEF Holds, IsSpan, Interval_
<1> QED BY <1>1, <1>2 DEF ArbInv, TakenAreCovered, IsSpan

\* Two kept pieces that hold one character are one piece, so the first class has it.
LEMMA ArbClasses == ArbInv => ClassesRespected
<1> SUFFICES ASSUME ArbInv, Arbitrated, NEW s \in given, NEW k \in kept,
                    NEW p \in (s.start + 1)..s.end, Holds(k, p)
             PROVE  (Secret(s) => Secret(k)) /\ (~Public(s) => ~Public(k))
  BY DEF ClassesRespected
<1>1. IsSpan(s) /\ IsSpan(k)
  BY SpanShape DEF ArbInv, Shapes
<1>2. s \notin waiting /\ s # hand
  BY <1>1 DEF Arbitrated, IsSpan
<1>3. PICK q \in kept : Holds(q, p) /\ Class(q) <= Class(s)
  BY <1>2 DEF ArbInv, TakenAreCovered
<1>4. q = k
  <2>1. IsSpan(q)
    BY SpanShape DEF ArbInv, Shapes
  <2>2. p \in Int
    BY <1>1 DEF IsSpan, Interval_
  <2>3. ~Disjoint(q, k)
    BY <1>1, <1>3, <2>1, <2>2 DEF Disjoint, Holds, IsSpan, Interval_
  <2> QED BY <2>3 DEF ArbInv, KeptDisjoint
<1>5. Class(k) <= Class(s)
  BY <1>3, <1>4
<1>6. ASSUME Secret(s) PROVE Secret(k)
  <2>1. Class(s) = 0
    BY <1>6 DEF Class
  <2>2. Class(k) = 0
    BY <1>5, <2>1, ClassType
  <2> QED BY <2>2 DEF Class
<1>7. ASSUME ~Public(s) PROVE ~Public(k)
  <2>1. Class(s) <= 1
    BY <1>7 DEF Class
  <2>2. Class(k) # 2
    BY <1>5, <2>1, ClassType
  <2>3. ~(Secret(k) /\ Public(k))
    BY ClassesAssumption DEF Secret, Public
  <2> QED BY <2>2, <2>3 DEF Class
<1> QED BY <1>6, <1>7

----------------------------------------------------------------------------

\* The invariant holds in every state.
LEMMA Inductive == Spec => []ArbInv
BY InitArb, NextArb, PTL DEF Spec

\* resolve_overlaps never keeps two pieces that share a character.
THEOREM PiecesNeverOverlap == Spec => []KeptDisjoint
<1>1. ArbInv => KeptDisjoint
  BY DEF ArbInv
<1> QED BY <1>1, Inductive, PTL

\* What was claimed is kept or still claimed, at every step of the loop.
THEOREM EveryClaimIsKept == Spec => []NothingGivenUp
BY Inductive, ArbNothingGivenUp, PTL

\* A secret claimed anywhere is kept as a secret, and only what nothing else claims is public.
THEOREM FirstClassWins == Spec => []ClassesRespected
BY Inductive, ArbClasses, PTL
----------------------------------------------------------------------------
(* The text that is rewritten. *)

Items == [start : Nat, end : Nat, by : {"text", "substitute", "reference"}]

\* What the variables hold, whatever was reported and wherever the exchange stands.
Held ==
    /\ at \in {"infra", "personal", "check", "arbitrate", "write", "sent", "refused"}
    /\ world \in Worlds /\ out \in Seq(Items) /\ left \subseteq kept
    /\ \A s \in given \cup kept \cup pieces : s.end <= Len(text)

\* What each step finds done by those before it.
Steps ==
    /\ at \in {"infra", "personal", "check"} => Idle /\ given = {}
    /\ at \in {"infra", "personal", "check", "arbitrate"} => left = {} /\ out = <<>>
    /\ at \in {"arbitrate", "write", "sent"} => given = spans
    /\ at \in {"write", "sent"} => Arbitrated
    /\ at = "sent" => left = {}

\* The items follow one another from the first character to the last.
Tiles(o, L, n) ==
    /\ \A i \in 1..L : o[i].start < o[i].end
    /\ \A i, j \in 1..L : i < j => o[i].end <= o[j].start
    /\ \A i \in 1..(L - 1) : o[i].end = o[i + 1].start
    /\ L > 0 => o[1].start = 0 /\ o[L].end = n
    /\ L = 0 => n = 0

\* The text is still as it came up to the end of a span.
Untouched(o, s) ==
    s.end <= Len(o) /\ \A p \in 1..s.end : o[p] = Item(Interval(p - 1, p), "text")

Rewritten ==
    at \in {"write", "sent"} =>
        /\ Tiles(out, Len(out), Len(text))
        /\ \A s \in left : Untouched(out, s)
        /\ \A k \in kept \ left : \E i \in 1..Len(out) : out[i] = Item(k, InPlaceOf(k))

OutInv == ArbInv /\ Held /\ Steps /\ Rewritten

\* The fields of intervals and items.
LEMMA AsItIsFields ==
    /\ \A f, t : Interval(f, t).start = f /\ Interval(f, t).end = t
    /\ \A s, by : /\ Item(s, by).start = s.start /\ Item(s, by).end = s.end
                  /\ Item(s, by).by = by
BY DEF Interval, Item

\* The new text of a Write.
Splice(o, x, a, b) == SubSeq(o, 1, a) \o <<x>> \o SubSeq(o, b + 1, Len(o))

\* In q, x has taken the place of what o holds from a + 1 to b.
Replaces(q, M, o, x, a, b) ==
    /\ \A i \in 1..a : q[i] = o[i]
    /\ q[a + 1] = x
    /\ \A i \in (a + 2)..M : q[i] = o[i + (b - a - 1)]

\* A part of a sequence replaced by one element.
LEMMA Spliced ==
    ASSUME NEW S, NEW o \in Seq(S), NEW x \in S, NEW a \in Nat, NEW b \in Nat,
           a < b, b <= Len(o)
    PROVE  /\ Splice(o, x, a, b) \in Seq(S)
           /\ Len(Splice(o, x, a, b)) = Len(o) - b + a + 1
           /\ Replaces(Splice(o, x, a, b), Len(o) - b + a + 1, o, x, a, b)
<1> DEFINE f == SubSeq(o, 1, a)
           l == SubSeq(o, b + 1, Len(o))
<1>1. f \in Seq(S) /\ Len(f) = a /\ \A i \in 1..a : f[i] = o[i]
  OBVIOUS
<1>2. l \in Seq(S) /\ Len(l) = Len(o) - b /\ \A i \in 1..(Len(o) - b) : l[i] = o[i + b]
  OBVIOUS
<1> HIDE DEF f, l
<1> DEFINE m == f \o <<x>>
<1>3. m \in Seq(S) /\ Len(m) = a + 1 /\ (\A i \in 1..a : m[i] = f[i]) /\ m[a + 1] = x
  BY <1>1
<1> HIDE DEF m
<1> DEFINE n == m \o l
<1>4. n \in Seq(S) /\ Len(n) = a + 1 + (Len(o) - b)
  <2>1. n \in Seq(S) /\ Len(n) = Len(m) + Len(l)
    BY <1>2, <1>3, ConcatProperties
  <2> QED BY <1>2, <1>3, <2>1
<1>5. /\ \A i \in 1..(a + 1) : n[i] = m[i]
      /\ \A j \in 1..(Len(o) - b) : n[a + 1 + j] = l[j]
  <2>1. \A i \in 1..(Len(m) + Len(l)) : n[i] = IF i <= Len(m) THEN m[i] ELSE l[i - Len(m)]
    BY <1>2, <1>3, ConcatProperties
  <2>2. Len(o) - b \in Nat
    OBVIOUS
  <2> QED BY <1>2, <1>3, <2>1, <2>2
<1>6. ASSUME NEW i \in (a + 2)..(Len(o) - b + a + 1) PROVE n[i] = o[i + (b - a - 1)]
  <2>1. i - (a + 1) \in 1..(Len(o) - b)
    BY <1>2
  <2>2. n[i] = l[i - (a + 1)]
    <3>1. i = a + 1 + (i - (a + 1))
      OBVIOUS
    <3> QED BY <1>5, <2>1, <3>1
  <2>3. l[i - (a + 1)] = o[(i - (a + 1)) + b]
    BY <1>2, <2>1
  <2>4. (i - (a + 1)) + b = i + (b - a - 1)
    OBVIOUS
  <2> QED BY <2>2, <2>3, <2>4
<1>7. n[a + 1] = x /\ \A i \in 1..a : n[i] = o[i]
  BY <1>1, <1>3, <1>5
<1>8. Len(n) = Len(o) - b + a + 1
  BY <1>4
<1>9. n = Splice(o, x, a, b)
  BY DEF n, m, f, l, Splice
<1> HIDE DEF n
<1>10. Replaces(n, Len(o) - b + a + 1, o, x, a, b)
  BY <1>6, <1>7 DEF Replaces
<1> QED BY <1>4, <1>8, <1>9, <1>10

\* Items that are replaced by one that takes their place leave a tiling.
Numbered(o, L) == \A i \in 1..L : o[i].start \in Nat /\ o[i].end \in Nat

LEMMA ReplacedTiles ==
    ASSUME NEW o, NEW L \in Nat, NEW q, NEW M \in Nat, NEW x, NEW a \in Nat, NEW b \in Nat,
           NEW n,
           a < b, b <= L, M = L - b + a + 1, x.start = a, x.end = b,
           Numbered(o, L), \A p \in 1..b : o[p].start = p - 1 /\ o[p].end = p,
           Tiles(o, L, n), Replaces(q, M, o, x, a, b)
    PROVE  Tiles(q, M, n)
<1> USE DEF Numbered, Tiles, Replaces
<1> DEFINE d == b - a - 1
<1>1. d \in Nat /\ a + 1 + d = b /\ M + d = L
  OBVIOUS
<1>2. \A i \in (a + 2)..M : i + d \in (b + 1)..L /\ i + d \in 1..L /\ q[i] = o[i + d]
  BY <1>1
<1> HIDE DEF d
<1>6. ASSUME NEW i \in 1..M PROVE q[i].start < q[i].end
  <2>1. CASE i <= a
    <3>1. i \in 1..a /\ i \in 1..L
      BY <2>1
    <3> QED BY <3>1
  <2>2. CASE i = a + 1
    BY <2>2
  <2>3. CASE i >= a + 2
    <3>1. i \in (a + 2)..M
      BY <2>3
    <3> QED BY <1>2, <3>1
  <2> QED BY <2>1, <2>2, <2>3
<1>7. ASSUME NEW i \in 1..M, NEW j \in 1..M, i < j PROVE q[i].end <= q[j].start
  <2>1. CASE j <= a
    <3>1. i \in 1..a /\ i \in 1..L /\ j \in 1..a /\ j \in 1..L
      BY <1>7, <2>1
    <3> QED BY <1>7, <3>1
  <2>2. CASE j = a + 1
    <3>1. i \in 1..a /\ i \in 1..b
      BY <1>7, <2>2
    <3>2. q[i].end = i
      BY <3>1
    <3> QED BY <2>2, <3>1, <3>2
  <2>3. CASE j >= a + 2
    <3>1. j \in (a + 2)..M
      BY <2>3
    <3>2. j + d \in (b + 1)..L /\ j + d \in 1..L /\ q[j] = o[j + d]
      BY <1>2, <3>1
    <3>3. CASE i <= a
      <4>1. i \in 1..a /\ i \in 1..L /\ i < j + d
        BY <1>1, <1>7, <3>3
      <4> QED BY <3>2, <4>1
    <3>4. CASE i = a + 1
      <4>1. b \in 1..L /\ b \in 1..b /\ b < j + d
        BY <3>2
      <4>2. o[b].end <= o[j + d].start /\ o[b].end = b
        BY <3>2, <4>1
      <4> QED BY <3>2, <3>4, <4>2
    <3>5. CASE i >= a + 2
      <4>1. i \in (a + 2)..M
        BY <3>5
      <4>2. i + d \in 1..L /\ q[i] = o[i + d]
        BY <1>2, <4>1
      <4>3. i + d < j + d
        BY <1>1, <1>7
      <4> QED BY <3>2, <4>2, <4>3
    <3> QED BY <3>3, <3>4, <3>5
  <2> QED BY <2>1, <2>2, <2>3
<1>8. ASSUME NEW i \in 1..(M - 1) PROVE q[i].end = q[i + 1].start
  <2>1. CASE i < a
    <3>1. i \in 1..a /\ i + 1 \in 1..a /\ i \in 1..(L - 1)
      BY <2>1
    <3> QED BY <3>1
  <2>2. CASE i = a
    <3>1. i \in 1..a /\ i \in 1..b
      BY <2>2
    <3>2. q[i].end = a
      BY <2>2, <3>1
    <3> QED BY <2>2, <3>2
  <2>3. CASE i = a + 1
    <3>1. i + 1 \in (a + 2)..M /\ (i + 1) + d = b + 1
      <4>1. i + 1 = a + 2 /\ a + 2 <= M
        BY <2>3
      <4>2. (a + 2) + d = b + 1
        BY <1>1
      <4> QED BY <4>1, <4>2
    <3>2. q[i + 1] = o[b + 1] /\ b + 1 \in 1..L
      BY <1>2, <3>1
    <3>3. b \in 1..(L - 1) /\ b \in 1..b
      BY <3>2
    <3>4. o[b].end = o[b + 1].start /\ o[b].end = b
      BY <3>3
    <3> QED BY <2>3, <3>2, <3>4
  <2>4. CASE i >= a + 2
    <3>1. i \in (a + 2)..M /\ i + 1 \in (a + 2)..M
      BY <2>4
    <3>2. q[i] = o[i + d] /\ q[i + 1] = o[(i + 1) + d] /\ (i + 1) + d \in 1..L
      BY <1>2, <3>1
    <3>3. i + d \in 1..(L - 1) /\ (i + 1) + d = (i + d) + 1
      BY <1>1, <1>2, <3>1, <3>2
    <3>4. o[i + d].end = o[(i + d) + 1].start
      BY <3>3
    <3> QED BY <3>2, <3>3, <3>4
  <2> QED BY <2>1, <2>2, <2>3, <2>4
<1>9. q[1].start = 0
  <2>1. CASE a = 0
    BY <2>1
  <2>2. CASE a > 0
    <3>1. 1 \in 1..a
      BY <2>2
    <3> QED BY <3>1
  <2> QED BY <2>1, <2>2
<1>10. q[M].end = n
  <2>1. CASE b = L
    <3>1. b \in 1..b /\ M = a + 1
      BY <2>1
    <3>2. o[b].end = b
      BY <3>1
    <3> QED BY <2>1, <3>1, <3>2
  <2>2. CASE b < L
    <3>1. M \in (a + 2)..M
      BY <2>2
    <3> QED BY <1>1, <1>2, <3>1
  <2> QED BY <2>1, <2>2
<1> QED BY <1>6, <1>7, <1>8, <1>9, <1>10 DEF Tiles

\* An item in place of the characters it covers keeps the items in their order.
LEMMA SplicedTiles ==
    ASSUME NEW o \in Seq(Items), NEW x \in Items, NEW n \in Nat, NEW a \in Nat, NEW b \in Nat,
           x.start = a, x.end = b, a < b, Untouched(o, x), Tiles(o, Len(o), n)
    PROVE  Tiles(Splice(o, x, a, b), Len(Splice(o, x, a, b)), n)
<1> DEFINE q == Splice(o, x, a, b)
           M == Len(o) - b + a + 1
<1>0. b <= Len(o) /\ \A p \in 1..b : o[p] = Item(Interval(p - 1, p), "text")
  BY DEF Untouched
<1>1. b <= Len(o) /\ \A p \in 1..b : o[p].start = p - 1 /\ o[p].end = p
  <2>1. ASSUME NEW p \in 1..b PROVE o[p].start = p - 1 /\ o[p].end = p
    <3>1. o[p] = Item(Interval(p - 1, p), "text")
      BY <1>0
    <3> DEFINE i == Interval(p - 1, p)
    <3>2. i.start = p - 1 /\ i.end = p
      BY AsItIsFields
    <3>3. Item(i, "text").start = i.start /\ Item(i, "text").end = i.end
      BY AsItIsFields
    <3> QED BY <3>1, <3>2, <3>3
  <2> QED BY <1>0, <2>1
<1>2. q \in Seq(Items) /\ Len(q) = M /\ Replaces(q, M, o, x, a, b)
  BY <1>1, Spliced
<1>3. Numbered(o, Len(o))
  <2>1. \A i \in 1..Len(o) : o[i] \in Items
    BY ElementOfSeq
  <2> QED BY <2>1 DEF Items, Numbered
<1>4. M \in Nat /\ Len(o) \in Nat
  BY <1>1
<1> HIDE DEF q
<1>5. Tiles(q, M, n)
  BY <1>1, <1>2, <1>3, <1>4, ReplacedTiles
<1> QED BY <1>2, <1>5 DEF q

\* Any span that is replaced has a place among the items.
LEMMA InPlaceType == ASSUME NEW s PROVE InPlaceOf(s) \in {"text", "substitute", "reference"}
BY DEF InPlaceOf

\* What stands for a span depends on the text only.
LEMMA PlaceUnchanged ==
    ASSUME world' = world
    PROVE  \A s : InPlaceOf(s)' = InPlaceOf(s) /\ ExactEntry(s)' = ExactEntry(s)
BY DEF InPlaceOf, ExactEntry, text

\* What is kept holds characters of the text.
LEMMA KeptShape ==
    ASSUME ArbInv, Held, NEW k \in kept
    PROVE  /\ k.start \in Nat /\ k.end \in Nat /\ k.start < k.end /\ k.end <= Len(text)
           /\ Item(k, InPlaceOf(k)) \in Items
<1>1. k.start \in Nat /\ k.end \in Nat /\ k.start < k.end
  BY SpanShape DEF ArbInv, Shapes, IsSpan, Interval_
<1>2. k.end <= Len(text)
  BY DEF Held
<1>3. Item(k, InPlaceOf(k)) \in Items
  BY <1>1, InPlaceType DEF Items, Item
<1> QED BY <1>1, <1>2, <1>3

\* The text that is rewritten is a sequence of characters.
LEMMA TextType == ASSUME world \in Worlds PROVE text \in Seq(STRING) /\ Len(text) \in Nat
<1>1. text \in Seq(STRING)
  BY WorldAssumption DEF text
<1> QED BY <1>1

\* The text before anything is written tiles itself.
LEMMA RewriteRewritten ==
    ASSUME OutInv, Rewrite
    PROVE  (out \in Seq(Items))' /\ Rewritten'
<1> DEFINE n == Len(text)
           o == AsItIs
<1>1. n \in Nat /\ world' = world /\ out' = o /\ left' = kept /\ kept' = kept
  BY TextType DEF OutInv, Held, Rewrite, arbitration
<1>2. o = [p \in 1..n |-> Item(Interval(p - 1, p), "text")]
  BY DEF AsItIs
<1>3. \A p \in 1..n : o[p] = Item(Interval(p - 1, p), "text")
  BY <1>2
<1>4. \A p \in 1..n : o[p].start = p - 1 /\ o[p].end = p /\ o[p] \in Items
  <2> SUFFICES ASSUME NEW p \in 1..n
               PROVE  o[p].start = p - 1 /\ o[p].end = p /\ o[p] \in Items
    OBVIOUS
  <2>1. p \in Nat /\ p - 1 \in Nat
    BY <1>1
  <2>2. o[p] = [start |-> p - 1, end |-> p, by |-> "text"]
    BY <1>3 DEF Item, Interval
  <2> QED BY <2>1, <2>2 DEF Items
<1>5. o \in Seq(Items) /\ Len(o) = n
  <2>1. o \in [1..n -> Items]
    BY <1>2, <1>4
  <2> QED BY <1>1, <2>1
<1> HIDE DEF o
<1>6. Tiles(o, n, n)
  BY <1>1, <1>4 DEF Tiles
<1>7. \A s \in kept : Untouched(o, s)
  <2> SUFFICES ASSUME NEW s \in kept PROVE Untouched(o, s)
    OBVIOUS
  <2>1. s.end \in Nat /\ s.end <= n
    BY KeptShape DEF OutInv
  <2> QED BY <1>1, <1>3, <1>5, <2>1 DEF Untouched
<1> QED BY <1>1, <1>5, <1>6, <1>7 DEF Rewritten, text

\* Writing a span from the end keeps what is written and what is not apart.
LEMMA WriteRewritten ==
    ASSUME OutInv, NEW s \in left, Write(s)
    PROVE  (out \in Seq(Items))' /\ Rewritten'
<1> DEFINE x == Item(s, InPlaceOf(s))
           a == s.start
           b == s.end
           n == Len(text)
<1>1. /\ at = "write" /\ NextWritten(s) /\ left' = left \ {s}
      /\ out' = Splice(out, x, a, b)
      /\ kept' = kept /\ at' = at /\ world' = world
  BY DEF Write, Splice, arbitration
<1>2. s \in kept /\ left \subseteq kept /\ out \in Seq(Items)
  BY DEF OutInv, Held
<1>3. /\ a \in Nat /\ b \in Nat /\ a < b /\ b <= n /\ n \in Nat /\ x \in Items
      /\ x.start = a /\ x.end = b
  BY <1>2, KeptShape, TextType, AsItIsFields DEF OutInv, Held
<1>4. /\ Tiles(out, Len(out), n) /\ \A k \in left : Untouched(out, k)
      /\ \A k \in kept \ left : \E i \in 1..Len(out) : out[i] = Item(k, InPlaceOf(k))
  BY <1>1 DEF OutInv, Rewritten
<1>5. Untouched(out, s) /\ Untouched(out, x)
  BY <1>3, <1>4 DEF Untouched
<1>6. b <= Len(out) /\ \A p \in 1..b : out[p] = Item(Interval(p - 1, p), "text")
  BY <1>5 DEF Untouched
<1> DEFINE q == Splice(out, x, a, b)
<1> HIDE DEF x, a, b, q
<1>7. Tiles(q, Len(q), n)
  BY <1>2, <1>3, <1>4, <1>5, SplicedTiles DEF q
<1>8. q \in Seq(Items) /\ Len(q) = Len(out) - b + a + 1 /\ Replaces(q, Len(q), out, x, a, b)
  <2>1. b <= Len(out)
    BY <1>6
  <2>2. /\ q \in Seq(Items) /\ Len(q) = Len(out) - b + a + 1
        /\ Replaces(q, Len(out) - b + a + 1, out, x, a, b)
    BY <1>2, <1>3, <2>1, Spliced DEF q
  <2> QED BY <2>2
<1>9. ASSUME NEW k \in left \ {s} PROVE Untouched(q, k)
  <2>1. k \in kept /\ k # s /\ k.start \in Nat /\ k.end \in Nat /\ k.start < k.end
    BY <1>2, KeptShape DEF OutInv
  <2>2. k.start <= a
    BY <1>1 DEF NextWritten, a
  <2>3. Disjoint(k, s)
    BY <1>2, <2>1 DEF OutInv, ArbInv, KeptDisjoint
  <2>4. k.end <= a
    BY <1>3, <2>1, <2>2, <2>3 DEF Disjoint, a, b
  <2>5. \A p \in 1..k.end : p \in 1..a /\ q[p] = out[p]
    BY <1>3, <1>8, <2>1, <2>4 DEF Replaces
  <2>6. \A p \in 1..k.end : out[p] = Item(Interval(p - 1, p), "text")
    BY <1>4 DEF Untouched
  <2>7. k.end <= Len(q)
    BY <1>2, <1>3, <1>6, <1>8, <2>1, <2>4
  <2> QED BY <2>5, <2>6, <2>7 DEF Untouched
<1>10. ASSUME NEW k \in kept \ (left \ {s})
       PROVE  \E i \in 1..Len(q) : q[i] = Item(k, InPlaceOf(k))
  <2>1. CASE k = s
    <3>1. q[a + 1] = x /\ a + 1 \in 1..Len(q)
      BY <1>2, <1>3, <1>6, <1>8 DEF Replaces
    <3> QED BY <2>1, <3>1 DEF x
  <2>2. CASE k # s
    <3>1. PICK i \in 1..Len(out) : out[i] = Item(k, InPlaceOf(k))
      BY <1>4, <2>2
    <3>2. /\ k.start \in Nat /\ k.end \in Nat /\ k.start < k.end
          /\ out[i].start = k.start /\ out[i].end = k.end
      BY <3>1, KeptShape, AsItIsFields DEF OutInv
    <3>3. Disjoint(k, s)
      BY <1>2, <2>2 DEF OutInv, ArbInv, KeptDisjoint
    <3>4. CASE i <= a
      <4>1. i \in 1..a /\ i \in 1..Len(q)
        BY <1>2, <1>3, <1>6, <1>8, <3>4
      <4>2. q[i] = out[i]
        BY <1>8, <4>1 DEF Replaces
      <4> QED BY <3>1, <4>1, <4>2
    <3>5. CASE a < i /\ i <= b
      <4>1. i \in 1..b
        BY <1>3, <3>5
      <4>2. out[i].start = i - 1 /\ out[i].end = i
        BY <1>6, <4>1, AsItIsFields
      <4> QED BY <1>3, <3>2, <3>3, <3>5, <4>2 DEF Disjoint, a, b
    <3>6. CASE b < i
      <4> DEFINE j == i - (b - a - 1)
      <4>1. j \in (a + 2)..Len(q) /\ j \in 1..Len(q) /\ j + (b - a - 1) = i
        BY <1>2, <1>3, <1>6, <1>8, <3>6
      <4>2. q[j] = out[i]
        BY <1>8, <4>1 DEF Replaces
      <4> QED BY <3>1, <4>1, <4>2
    <3> QED BY <1>3, <3>4, <3>5, <3>6
  <2> QED BY <2>1, <2>2
<1>11. q = out'
  BY <1>1 DEF q
<1>12. /\ Tiles(q, Len(q), n)
       /\ \A k \in left \ {s} : Untouched(q, k)
       /\ \A k \in kept \ (left \ {s}) : \E i \in 1..Len(q) : q[i] = Item(k, InPlaceOf(k))
  BY <1>7, <1>9, <1>10
<1>13. text' = text /\ \A k : InPlaceOf(k)' = InPlaceOf(k)
  BY <1>1, PlaceUnchanged DEF text
<1> QED BY <1>1, <1>8, <1>11, <1>12, <1>13 DEF Rewritten

----------------------------------------------------------------------------
(* What is done to one span. *)

\* A part of a text, and a span in it.
Part(t, s) == s.start \in Nat /\ s.end \in Nat /\ s.start <= s.end /\ s.end <= Len(t)
In(t, s)   == s \in Span /\ Part(t, s)

\* Where a span of a text begins and ends once it is trimmed.
BeginsAt(t, s, L, a) ==
    /\ a \in s.start..s.end
    /\ a = s.end \/ t[a + 1] \notin L
    /\ \A p \in (s.start + 1)..a : t[p] \in L
EndsAt(t, s, R, a, b) ==
    /\ b \in a..s.end
    /\ b = a \/ t[b] \notin R
    /\ \A p \in (b + 1)..s.end : t[p] \in R

\* There is such a beginning, and only one.
LEMMA BeginExists ==
    ASSUME NEW t, NEW s, Part(t, s), NEW L
    PROVE  \E a : BeginsAt(t, s, L, a)
<1> DEFINE A == {i \in Nat : i \in s.start..s.end /\ (i = s.end \/ t[i + 1] \notin L)}
<1>1. s.end \in A
  BY DEF Part
<1>2. PICK a \in A : \A m \in A : a <= m
  <2> HIDE DEF A
  <2>1. A \in SUBSET Nat
    BY DEF A
  <2> QED BY <1>1, <2>1, Least
<1>3. ASSUME NEW p \in (s.start + 1)..a PROVE t[p] \in L
  <2>1. p - 1 \in Nat /\ p - 1 \in s.start..s.end /\ p - 1 < a /\ (p - 1) + 1 = p
    BY DEF Part
  <2>2. p - 1 \notin A
    BY <1>2, <2>1
  <2> QED BY <2>1, <2>2
<1> QED BY <1>2, <1>3 DEF BeginsAt

LEMMA BeginOnce ==
    ASSUME NEW t, NEW s, Part(t, s), NEW L, NEW a,
           NEW c, BeginsAt(t, s, L, a), BeginsAt(t, s, L, c)
    PROVE  a = c
<1>1. a \in Int /\ c \in Int /\ s.start \in Int /\ s.end \in Int
  BY DEF BeginsAt, Part
<1>2. CASE a < c
  <2>1. a + 1 \in (s.start + 1)..c /\ a # s.end
    BY <1>1, <1>2 DEF BeginsAt
  <2> QED BY <2>1 DEF BeginsAt
<1>3. CASE c < a
  <2>1. c + 1 \in (s.start + 1)..a /\ c # s.end
    BY <1>1, <1>3 DEF BeginsAt
  <2> QED BY <2>1 DEF BeginsAt
<1> QED BY <1>1, <1>2, <1>3

\* There is such an end, and only one.
LEMMA EndExists ==
    ASSUME NEW t, NEW s, Part(t, s), NEW R, NEW a \in s.start..s.end
    PROVE  \E b : EndsAt(t, s, R, a, b)
<1> DEFINE B == {j \in Nat : j \in a..s.end /\ (j = a \/ t[j] \notin R)}
<1>1. a \in B /\ \A j \in B : j <= s.end
  BY DEF Part
<1>2. PICK b \in B : \A m \in B : m <= b
  <2> HIDE DEF B
  <2>1. B \in SUBSET Nat /\ s.end \in Nat
    BY DEF B, Part
  <2> QED BY <1>1, <2>1, Greatest
<1>3. ASSUME NEW p \in (b + 1)..s.end PROVE t[p] \in R
  <2>1. p \in Nat /\ p \in a..s.end /\ b < p
    BY DEF Part
  <2>2. p \notin B
    BY <1>2, <2>1
  <2> QED BY <2>1, <2>2
<1> QED BY <1>2, <1>3 DEF EndsAt

LEMMA EndOnce ==
    ASSUME NEW t, NEW s, Part(t, s), NEW R, NEW a \in s.start..s.end, NEW b, NEW d,
           EndsAt(t, s, R, a, b), EndsAt(t, s, R, a, d)
    PROVE  b = d
<1>1. b \in Int /\ d \in Int /\ a \in Int /\ s.end \in Int
  BY DEF EndsAt, Part
<1>2. CASE b < d
  <2>1. d \in (b + 1)..s.end /\ d # a
    BY <1>1, <1>2 DEF EndsAt
  <2> QED BY <2>1 DEF EndsAt
<1>3. CASE d < b
  <2>1. b \in (d + 1)..s.end /\ b # a
    BY <1>1, <1>3 DEF EndsAt
  <2> QED BY <2>1 DEF EndsAt
<1> QED BY <1>1, <1>2, <1>3

\* Trim finds them.
LEMMA TrimShape ==
    ASSUME NEW t, NEW s, Part(t, s), NEW L, NEW R
    PROVE  \E a, b : /\ Trim(t, s, L, R) = [s EXCEPT !.start = a, !.end = b]
                     /\ BeginsAt(t, s, L, a) /\ EndsAt(t, s, R, a, b)
<1> DEFINE P(i) == (i = s.end \/ t[i + 1] \notin L) /\ \A p \in (s.start + 1)..i : t[p] \in L
           from == CHOOSE i \in s.start..s.end : P(i)
           Q(j) == (j = from \/ t[j] \notin R) /\ \A p \in (j + 1)..s.end : t[p] \in R
           to == CHOOSE j \in from..s.end : Q(j)
<1>1. from \in s.start..s.end /\ P(from)
  <2>1. PICK a : BeginsAt(t, s, L, a)
    BY BeginExists
  <2>2. a \in s.start..s.end /\ P(a)
    BY <2>1 DEF BeginsAt
  <2> HIDE DEF P
  <2> QED BY <2>2
<1>2. BeginsAt(t, s, L, from)
  <2> HIDE DEF from
  <2> QED BY <1>1 DEF BeginsAt
<1>3. to \in from..s.end /\ Q(to)
  <2> HIDE DEF from
  <2>1. PICK b : EndsAt(t, s, R, from, b)
    BY <1>1, EndExists
  <2>2. b \in from..s.end /\ Q(b)
    BY <2>1 DEF EndsAt
  <2> HIDE DEF Q
  <2> QED BY <2>2
<1>4. EndsAt(t, s, R, from, to)
  <2> HIDE DEF from, to
  <2> QED BY <1>3 DEF EndsAt
<1>5. Trim(t, s, L, R) = [s EXCEPT !.start = from, !.end = to]
  BY DEF Trim
<1> QED BY <1>2, <1>4, <1>5

\* Trimming keeps a span in the text, inside itself, and of its type.
LEMMA TrimIn ==
    ASSUME NEW t, NEW s, In(t, s), NEW L, NEW R
    PROVE  /\ In(t, Trim(t, s, L, R)) /\ Inside(Trim(t, s, L, R), s)
           /\ Trim(t, s, L, R).type = s.type /\ Trim(t, s, L, R).score = s.score
<1>1. PICK a, b : /\ Trim(t, s, L, R) = [s EXCEPT !.start = a, !.end = b]
                  /\ BeginsAt(t, s, L, a) /\ EndsAt(t, s, R, a, b)
  BY TrimShape DEF In
<1>2. s \in Span /\ s.start \in Nat /\ s.end \in Nat /\ s.start <= s.end
  BY DEF In, Part
<1>3. a \in Nat /\ b \in Nat /\ s.start <= a /\ a <= b /\ b <= s.end
  BY <1>1, <1>2 DEF BeginsAt, EndsAt
<1> DEFINE r == [s EXCEPT !.start = a, !.end = b]
<1>4. r \in Span /\ r.start = a /\ r.end = b /\ r.type = s.type /\ r.score = s.score
  BY <1>2, <1>3 DEF Span
<1> HIDE DEF r
<1>5. In(t, r) /\ Inside(r, s)
  BY <1>2, <1>3, <1>4 DEF In, Part, Inside
<1> QED BY <1>1, <1>4, <1>5 DEF r

\* A span of a part of the text, moved to where the part is.
LEMMA MovedShape ==
    ASSUME NEW s \in Span, NEW by \in Int, s.start + by \in Nat, s.end + by \in Nat
    PROVE  /\ Moved(s, by) \in Span
           /\ Moved(s, by).start = s.start + by /\ Moved(s, by).end = s.end + by
           /\ Moved(s, by).type = s.type /\ Moved(s, by).score = s.score
BY DEF Moved, Span

\* A part of the text.
LEMMA PieceShape ==
    ASSUME NEW t \in Seq(STRING), NEW from \in Nat, NEW end \in Nat, from <= end, end <= Len(t)
    PROVE  LET piece == SubSeq(t, from + 1, end)
           IN  /\ piece \in Seq(STRING) /\ Len(piece) = end - from
               /\ \A p \in 1..(end - from) : piece[p] = t[from + p]
<1> DEFINE piece == SubSeq(t, from + 1, end)
<1>1. piece \in Seq(STRING) /\ Len(piece) = end - from
  OBVIOUS
<1>2. \A p \in 1..(end - from) : piece[p] = t[from + p]
  <2> SUFFICES ASSUME NEW p \in 1..(end - from) PROVE piece[p] = t[from + p]
    OBVIOUS
  <2>1. piece[p] = t[(from + 1) + p - 1]
    BY <1>1
  <2>2. (from + 1) + p - 1 = from + p
    OBVIOUS
  <2> QED BY <2>1, <2>2
<1> QED BY <1>1, <1>2

\* What is found in a part of the text is in that part, and part of what is in the text.
FoundIn(from, end, cut) == {e \in world.infra : from <= e.start /\ e.end <= end} \cup cut

LEMMA FoundShape ==
    ASSUME world \in Worlds, NEW from \in Nat, NEW end \in Nat, from <= end, end <= Len(text),
           NEW cut \in SUBSET CutOff(from, end), NEW f \in FoundIn(from, end, cut)
    PROVE  /\ f \in Span /\ from <= f.start /\ f.start <= f.end /\ f.end <= end
           /\ \E e \in world.infra : Inside(f, e) /\ f.type = e.type
<1>1. \A e \in world.infra : /\ e \in Span /\ e.start < e.end
                             /\ e.start \in Nat /\ e.end \in Nat
  BY WorldAssumption DEF Span
<1>2. CASE f \in world.infra /\ from <= f.start /\ f.end <= end
  BY <1>1, <1>2 DEF Inside
<1>3. CASE f \in cut
  <2>1. PICK e \in world.infra : /\ from < e.end /\ e.start < end
                                 /\ ~(from <= e.start /\ e.end <= end)
                                 /\ f = [e EXCEPT !.start = Max({@, from}),
                                              !.end = Min({e.end, end})]
    BY <1>3 DEF CutOff
  <2>2. /\ Max({e.start, from}) = IF e.start >= from THEN e.start ELSE from
        /\ Min({e.end, end}) = IF e.end <= end THEN e.end ELSE end
    <3>1. e.start \in Int /\ e.end \in Int /\ from \in Int /\ end \in Int
      BY <1>1
    <3> QED BY <3>1, OfTwo, Zenon
  <2>3. f = [e EXCEPT !.start = Max({e.start, from}), !.end = Min({e.end, end})]
    BY <2>1
  <2> DEFINE a == Max({e.start, from})
             b == Min({e.end, end})
  <2>4. a \in Nat /\ b \in Nat /\ from <= a /\ a <= b /\ b <= end /\ e.start <= a /\ b <= e.end
    <3>1. e.start \in Nat /\ e.end \in Nat /\ e.start < e.end /\ from < e.end /\ e.start < end
      BY <1>1, <2>1
    <3> QED BY <2>2, <3>1
  <2> HIDE DEF a, b
  <2>5. f = [e EXCEPT !.start = a, !.end = b]
    BY <2>3 DEF a, b
  <2>6. f \in Span /\ f.start = a /\ f.end = b /\ f.type = e.type
    BY <1>1, <2>4, <2>5 DEF Span
  <2> QED BY <2>4, <2>6 DEF Inside
<1> QED BY <1>2, <1>3 DEF FoundIn

\* What the service answers for a text is in the text and inside what it found.
LEMMA ServicedShape ==
    ASSUME NEW t, NEW found, \A f \in found : In(t, f), NEW e \in Serviced(t, found)
    PROVE  In(t, e) /\ \E f \in found : e = Trim(t, f, TrimLeft, TrimRight)
<1>1. PICK f \in found : e = Trim(t, f, TrimLeft, TrimRight)
  BY DEF Serviced
<1> QED BY <1>1, TrimIn

\* A record with the fields of a span is one.
LEMMA SpanRecord ==
    ASSUME NEW type \in Types, NEW a \in Nat, NEW b \in Nat, NEW c \in Nat
    PROVE  LET s == [type |-> type, start |-> a, end |-> b, score |-> c]
           IN  s \in Span /\ s.start = a /\ s.end = b /\ s.type = type /\ s.score = c
BY DEF Span

LEMMA BlocksShape ==
    ASSUME NEW t \in Seq(STRING), NEW e \in Blocks(t)
    PROVE  /\ In(t, e) /\ e.start < e.end /\ e.type = "CERTIFICATE"
           /\ t[e.start + 1] = "[" /\ t[e.end] = "]"
<1>1. PICK r \in [start : 0..Len(t), end : 1..Len(t)] :
          /\ r.start < r.end /\ t[r.start + 1] = "[" /\ t[r.end] = "]"
          /\ e = [type |-> "CERTIFICATE", start |-> r.start, end |-> r.end, score |-> 9]
  BY DEF Blocks
<1>2. r.start \in Nat /\ r.end \in Nat /\ r.end <= Len(t)
  BY <1>1
<1>3. e \in Span /\ e.start = r.start /\ e.end = r.end /\ e.type = "CERTIFICATE"
  <2>1. "CERTIFICATE" \in Types
    BY NamesAssumption
  <2>2. 9 \in Nat
    OBVIOUS
  <2> DEFINE s == [type |-> "CERTIFICATE", start |-> r.start, end |-> r.end, score |-> 9]
  <2>3. s \in Span /\ s.start = r.start /\ s.end = r.end /\ s.type = "CERTIFICATE"
    BY <1>2, <2>1, <2>2, SpanRecord, ZenonT(30)
  <2> QED BY <1>1, <2>3
<1> QED BY <1>1, <1>2, <1>3 DEF In, Part

\* What comes back for a part of the text is in the text.
LEMMA AnsweredShape ==
    ASSUME world \in Worlds, NEW from \in Nat, NEW end \in Nat, from <= end, end <= Len(text),
           NEW cut \in SUBSET CutOff(from, end), NEW s \in Answered(from, end, cut)
    PROVE  In(text, s)
<1> DEFINE piece == SubSeq(text, from + 1, end)
           found == FoundIn(from, end, cut)
           near == {Moved(f, -from) : f \in found}
<1>1. text \in Seq(STRING) /\ Len(text) \in Nat
  BY TextType
<1>2. piece \in Seq(STRING) /\ Len(piece) = end - from
  BY <1>1, PieceShape
<1>3. PICK e \in Serviced(piece, near) \cup Blocks(piece) : s = Moved(e, from)
  BY DEF Answered, FoundIn
<1>4. \A m \in near : In(piece, m)
  <2> SUFFICES ASSUME NEW f \in found PROVE In(piece, Moved(f, -from))
    OBVIOUS
  <2>1. f \in Span /\ from <= f.start /\ f.start <= f.end /\ f.end <= end
    BY FoundShape
  <2>2. f.start \in Nat /\ f.end \in Nat
    BY <2>1 DEF Span
  <2>3. f.start + (-from) \in Nat /\ f.end + (-from) \in Nat
    BY <2>1, <2>2
  <2>4. /\ Moved(f, -from) \in Span
        /\ Moved(f, -from).start = f.start + (-from) /\ Moved(f, -from).end = f.end + (-from)
    BY <2>1, <2>3, MovedShape
  <2> HIDE DEF piece
  <2> QED BY <1>2, <2>1, <2>2, <2>4 DEF In, Part
<1> HIDE DEF near, piece
<1>5. In(piece, e)
  BY <1>2, <1>3, <1>4, ServicedShape, BlocksShape
<1>6. e \in Span /\ e.start \in Nat /\ e.end \in Nat /\ e.start <= e.end /\ e.end <= end - from
  BY <1>2, <1>5 DEF In, Part
<1>7. Moved(e, from) \in Span /\ Moved(e, from).start = e.start + from
      /\ Moved(e, from).end = e.end + from
  BY <1>6, MovedShape
<1> QED BY <1>1, <1>3, <1>6, <1>7 DEF In, Part

----------------------------------------------------------------------------
(* The fragments of one answer are put together. *)

InOrder(o) == \A i, j \in DOMAIN o : i < j => ~Earlier(o[j], o[i])
Places(S)  == \A s \in S : s.start \in Nat /\ s.end \in Nat

\* One fragment comes after all others.
LEMMA LastExists ==
    ASSUME NEW S, S # {}, NEW b \in Nat,
           \A s \in S : s.start \in Nat /\ s.end \in Nat /\ s.start <= b /\ s.end <= b
    PROVE  \E x \in S : \A s \in S : ~Earlier(x, s)
<1> DEFINE F == {n \in Nat : \E s \in S : s.start = n}
<1>1. PICK s \in S : TRUE
  OBVIOUS
<1>2. PICK n \in F : \A m \in F : m <= n
  <2>1. s.start \in F /\ \A m \in F : m <= b
    BY <1>1
  <2> HIDE DEF F
  <2>2. F \in SUBSET Nat
    BY DEF F
  <2> QED BY <2>1, <2>2, Greatest
<1> DEFINE G == {m \in Nat : \E r \in S : r.start = n /\ r.end = m}
<1>3. PICK r \in S : r.start = n
  BY <1>2
<1>4. PICK e \in G : \A m \in G : m <= e
  <2>1. r.end \in G /\ \A m \in G : m <= b
    BY <1>3
  <2> HIDE DEF G
  <2>2. G \in SUBSET Nat
    BY DEF G
  <2> QED BY <2>1, <2>2, Greatest
<1>5. PICK x \in S : x.start = n /\ x.end = e
  BY <1>4
<1>6. ASSUME NEW q \in S PROVE ~Earlier(x, q)
  <2>1. q.start \in F /\ q.start <= n /\ q.start \in Nat /\ n \in Nat
    BY <1>2
  <2>2. q.start = n => q.end \in G /\ q.end <= e
    BY <1>4
  <2>3. q.end \in Nat /\ e \in Nat
    BY <1>4
  <2> QED BY <1>5, <2>1, <2>2, <2>3 DEF Earlier
<1> QED BY <1>6

\* Any fragments have an order.
LEMMA SortedExists ==
    ASSUME NEW F, IsFiniteSet(F), NEW b \in Nat,
           \A s \in F : s.start \in Nat /\ s.end \in Nat /\ s.start <= b /\ s.end <= b
    PROVE  \E o \in SetToSeqs(F) : InOrder(o)
<1> DEFINE Ordered(S) == \E o \in SetToSeqs(S) : InOrder(o)
           T == {n \in Nat : \A S \in SUBSET F : Cardinality(S) = n => Ordered(S)}
<1>1. 0 \in T
  <2> SUFFICES ASSUME NEW S \in SUBSET F, Cardinality(S) = 0 PROVE Ordered(S)
    OBVIOUS
  <2>1. S = {}
    BY FS_EmptySet, FS_Subset
  <2> DEFINE o == [i \in 1..0 |-> i]
  <2>2. o \in [1..Cardinality(S) -> S]
    OBVIOUS
  <2>3. o \in SetToSeqs(S)
    BY <2>2 DEF SetToSeqs
  <2>4. InOrder(o)
    BY DEF InOrder
  <2> QED BY <2>3, <2>4
<1>2. ASSUME NEW n \in T PROVE n + 1 \in T
  <2> SUFFICES ASSUME NEW S \in SUBSET F, Cardinality(S) = n + 1 PROVE Ordered(S)
    OBVIOUS
  <2>1. IsFiniteSet(S) /\ S # {}
    BY FS_EmptySet, FS_Subset
  <2>2. PICK x \in S : \A s \in S : ~Earlier(x, s)
    <3>1. \A s \in S : s.start \in Nat /\ s.end \in Nat /\ s.start <= b /\ s.end <= b
      OBVIOUS
    <3> QED BY <2>1, <3>1, LastExists
  <2>3. Cardinality(S \ {x}) = n
    <3>1. Cardinality(S \ {x}) = Cardinality(S) - 1
      BY <2>1, FS_RemoveElement
    <3>2. n \in Nat /\ Cardinality(S) = n + 1
      OBVIOUS
    <3> HIDE DEF T
    <3> QED BY <3>1, <3>2
  <2>4. S \ {x} \in SUBSET F
    OBVIOUS
  <2>5. PICK u \in SetToSeqs(S \ {x}) : InOrder(u)
    BY <2>3, <2>4
  <2>6. u \in [1..n -> S \ {x}] /\ \A i, j \in 1..n : i # j => u[i] # u[j]
    BY <2>3 DEF SetToSeqs
  <2>7. \A i, j \in 1..n : i < j => ~Earlier(u[j], u[i])
    BY <2>5, <2>6 DEF InOrder
  <2> DEFINE o == [i \in 1..(n + 1) |-> IF i <= n THEN u[i] ELSE x]
  <2>8. DOMAIN o = 1..(n + 1) /\ o[n + 1] = x
    OBVIOUS
  <2>9. \A i \in 1..n : o[i] = u[i] /\ o[i] \in S /\ o[i] # x
    BY <2>6
  <2>10. \A i \in 1..(n + 1) : i \in 1..n \/ i = n + 1
    OBVIOUS
  <2>11. o \in [1..(n + 1) -> S]
    BY <2>6
  <2> HIDE DEF o
  <2>12. o \in SetToSeqs(S)
    <3>1. ASSUME NEW i \in 1..(n + 1), NEW j \in 1..(n + 1), i # j PROVE o[i] # o[j]
      BY <2>6, <2>8, <2>9, <2>10, <3>1
    <3> QED BY <2>11, <3>1 DEF SetToSeqs
  <2>13. InOrder(o)
    <3> SUFFICES ASSUME NEW i \in 1..(n + 1), NEW j \in 1..(n + 1), i < j
                 PROVE  ~Earlier(o[j], o[i])
      BY <2>8 DEF InOrder
    <3>1. i \in 1..n
      OBVIOUS
    <3>2. CASE j = n + 1
      BY <2>2, <2>8, <2>9, <3>1, <3>2
    <3>3. CASE j \in 1..n
      BY <2>7, <2>9, <3>1, <3>3
    <3> QED BY <3>2, <3>3
  <2> QED BY <2>12, <2>13
<1>3. Cardinality(F) \in Nat
  BY FS_CardinalityType
<1> HIDE DEF Ordered
<1>4. T = Nat
  <2>1. T \in SUBSET Nat
    OBVIOUS
  <2> HIDE DEF T
  <2> QED BY <1>1, <1>2, <2>1, Induction
<1>5. Ordered(F)
  BY <1>3, <1>4
<1> QED BY <1>5 DEF Ordered

\* Sorted lists every fragment once, in that order.
LEMMA SortedShape ==
    ASSUME NEW F, IsFiniteSet(F), NEW b \in Nat,
           \A s \in F : s.start \in Nat /\ s.end \in Nat /\ s.start <= b /\ s.end <= b
    PROVE  \E n \in Nat :
               /\ Sorted(F) \in [1..n -> F] /\ Len(Sorted(F)) = n /\ (F # {} => n > 0)
               /\ \A i, j \in 1..n : i # j => Sorted(F)[i] # Sorted(F)[j]
               /\ \A f \in F : \E i \in 1..n : Sorted(F)[i] = f
               /\ \A i, j \in 1..n : i < j => ~Earlier(Sorted(F)[j], Sorted(F)[i])
<1> DEFINE o == Sorted(F)
           n == Cardinality(F)
<1>1. o \in SetToSeqs(F) /\ InOrder(o)
  <2>1. o = CHOOSE u \in SetToSeqs(F) : InOrder(u)
    BY DEF Sorted, InOrder
  <2> HIDE DEF o
  <2> QED BY <2>1, SortedExists
<1> HIDE DEF o
<1>2. n \in Nat /\ IsFiniteSet(1..n) /\ Cardinality(1..n) = n
  BY FS_CardinalityType, FS_Interval
<1>3. o \in [1..n -> F] /\ \A i, j \in 1..n : i # j => o[i] # o[j]
  BY <1>1 DEF SetToSeqs
<1>4. o \in Injection(1..n, F)
  BY <1>3, Fun_IsInj
<1>5. o \in Surjection(1..n, F)
  BY <1>2, <1>4, FS_Injection
<1>6. \A f \in F : \E i \in 1..n : o[i] = f
  BY <1>5 DEF Surjection
<1>7. Len(o) = n
  BY <1>2, <1>3
<1>8. F # {} => n > 0
  BY <1>2, <1>6
<1>9. \A i, j \in 1..n : i < j => ~Earlier(o[j], o[i])
  BY <1>1, <1>3 DEF InOrder
<1> QED BY <1>2, <1>3, <1>6, <1>7, <1>8, <1>9 DEF o

\* The entities as they stand after each fragment (the loop of merge_fragments).
Made(t, order) ==
    LET made[i \in DOMAIN order] ==
            IF i = 1 THEN [done |-> {}, last |-> order[1]] ELSE Join(t, made[i - 1], order[i])
    IN  made

Turns(t, o, n, g) ==
    g = [i \in 1..n |->
            IF i = 1 THEN [done |-> {}, last |-> o[1]] ELSE Join(t, g[i - 1], o[i])]

\* The loop makes something of any fragments.
LEMMA TurnsExist ==
    ASSUME NEW t, NEW o, NEW n \in Nat
    PROVE  \E g : Turns(t, o, n, g)
<1> DEFINE T == {m \in Nat : \E g : Turns(t, o, m, g)}
           first == [done |-> {}, last |-> o[1]]
<1>1. 0 \in T
  <2>1. Turns(t, o, 0, [i \in 1..0 |-> first])
    BY DEF Turns
  <2> QED BY <2>1
<1>2. ASSUME NEW m \in T PROVE m + 1 \in T
  <2>0. m \in Nat
    OBVIOUS
  <2>1. PICK g : Turns(t, o, m, g)
    OBVIOUS
  <2> DEFINE h == [i \in 1..(m + 1) |->
                      IF i <= m THEN g[i] ELSE IF i = 1 THEN first ELSE Join(t, g[m], o[m + 1])]
  <2> HIDE DEF first
  <2>2. \A i \in 1..m : g[i] = IF i = 1 THEN first ELSE Join(t, g[i - 1], o[i])
    BY <2>1 DEF Turns, first
  <2>3. \A i \in 1..(m + 1) : h[i] = IF i = 1 THEN first ELSE Join(t, h[i - 1], o[i])
    BY <2>0, <2>2
  <2>4. DOMAIN h = 1..(m + 1) /\ h = [i \in 1..(m + 1) |-> h[i]]
    OBVIOUS
  <2> HIDE DEF h
  <2>5. h = [i \in 1..(m + 1) |-> IF i = 1 THEN first ELSE Join(t, h[i - 1], o[i])]
    BY <2>3, <2>4
  <2>6. Turns(t, o, m + 1, h)
    BY <2>5 DEF Turns, first
  <2> QED BY <2>0, <2>6
<1>3. T = Nat
  <2>1. T \in SUBSET Nat
    OBVIOUS
  <2> HIDE DEF T
  <2> QED BY <1>1, <1>2, <2>1, Induction
<1> QED BY <1>3

LEMMA MadeTurns ==
    ASSUME NEW t, NEW n \in Nat, NEW o, DOMAIN o = 1..n
    PROVE  Turns(t, o, n, Made(t, o))
<1>1. \E g : Turns(t, o, n, g)
  BY TurnsExist
<1> QED BY <1>1 DEF Turns, Made

\* What merge_fragments puts together, before it is adjusted.
Entities(t, F) ==
    LET all == Made(t, Sorted(F))[Len(Sorted(F))]
    IN  IF F = {} THEN {} ELSE all.done \cup {all.last}

LEMMA MergedIs == ASSUME NEW t, NEW F PROVE Merged(t, F) = Adjusted(t, Entities(t, F))
<1>1. CASE F = {}
  BY <1>1 DEF Merged, Entities, Adjusted
<1>2. CASE F # {}
  BY <1>2 DEF Merged, Entities, Made
<1> QED BY <1>1, <1>2

\* A fragment that is linked to no other.
Alone(t, F, f) == \A g \in F \ {f} : ~Linked(t, f, g) /\ ~Linked(t, g, f)

\* An entity runs over what is no fragment only where links and spaces are.
Bridged(t, F, e) ==
    \A r : /\ r.start \in Nat /\ r.end \in Nat /\ r.start < r.end
           /\ \A f \in F : Disjoint(f, r)
           => Disjoint(e, r) \/ \A p \in (r.start + 1)..r.end : t[p] \in Links \cup Space

\* What is made of the first fragments of an order.
Good(t, F, o, i, m) ==
    /\ m = [done |-> m.done, last |-> m.last]
    /\ \A e \in m.done \cup {m.last} : In(t, e) /\ Bridged(t, F, e)
    /\ \E k \in 1..i : m.last.end = o[k].end /\ m.last.type = o[k].type
    /\ \E k \in 1..i : m.last.start = o[k].start
    /\ \A k \in 1..i : Alone(t, F, o[k]) => o[k] \in m.done \cup {m.last}

\* The fragments of an order, and the order.
Listed(t, F, o, n) ==
    /\ \A f \in F : In(t, f)
    /\ n \in Nat /\ o \in [1..n -> F]
    /\ \A i, j \in 1..n : i # j => o[i] # o[j]
    /\ \A i, j \in 1..n : i < j => ~Earlier(o[j], o[i])

LEMMA FirstMade ==
    ASSUME NEW t, NEW F, NEW o, NEW n, Listed(t, F, o, n), n > 0
    PROVE  Good(t, F, o, 1, [done |-> {}, last |-> o[1]])
<1> DEFINE m == [done |-> {}, last |-> o[1]]
<1>1. /\ m.done \cup {m.last} = {o[1]} /\ m.last = o[1]
      /\ m = [done |-> m.done, last |-> m.last]
  OBVIOUS
<1>2. 1 \in 1..n /\ 1 \in 1..1 /\ o[1] \in F
  BY DEF Listed
<1>3. In(t, o[1]) /\ Bridged(t, F, o[1])
  BY <1>2 DEF Listed, Bridged
<1> HIDE DEF m
<1>4. \A k \in 1..1 : k = 1
  OBVIOUS
<1>5. Good(t, F, o, 1, m)
  BY <1>1, <1>2, <1>3, <1>4 DEF Good
<1> QED BY <1>5 DEF m

\* A fragment that is joined to the entity in hand.
Longer(a, f) == [a EXCEPT !.end = Max({a.end, f.end}), !.score = Min({a.score, f.score})]

LEMMA Joined ==
    ASSUME NEW t, NEW F, NEW a, NEW f \in F, \A g \in F : In(t, g), In(t, a), Bridged(t, F, a),
           a.start <= f.start, Linked(t, a, f)
    PROVE  /\ In(t, Longer(a, f)) /\ Bridged(t, F, Longer(a, f))
           /\ Longer(a, f).start = a.start /\ Longer(a, f).type = a.type
           /\ Longer(a, f).end = a.end \/ Longer(a, f).end = f.end
<1> DEFINE e == Max({a.end, f.end})
           c == Min({a.score, f.score})
           b == [a EXCEPT !.end = e, !.score = c]
<1>1. /\ a \in Span /\ a.start \in Nat /\ a.end \in Nat /\ a.score \in Nat
      /\ f \in Span /\ f.start \in Nat /\ f.end \in Nat /\ f.score \in Nat
      /\ a.start <= a.end /\ a.end <= Len(t) /\ f.start <= f.end /\ f.end <= Len(t)
  BY DEF In, Part, Span
<1>2. /\ e = IF a.end >= f.end THEN a.end ELSE f.end
      /\ c = IF a.score <= f.score THEN a.score ELSE f.score
  <2>1. a.end \in Int /\ f.end \in Int /\ a.score \in Int /\ f.score \in Int
    BY <1>1
  <2> QED BY <2>1, OfTwo, Zenon
<1>3. e \in Nat /\ c \in Nat /\ a.end <= e /\ f.end <= e /\ (e = a.end \/ e = f.end)
  BY <1>1, <1>2
<1> HIDE DEF e, c
<1>4. b \in Span /\ b.start = a.start /\ b.end = e /\ b.type = a.type
  BY <1>1, <1>3 DEF Span
<1> HIDE DEF b
<1>5. In(t, b)
  BY <1>1, <1>3, <1>4 DEF In, Part
<1>6. Bridged(t, F, b)
  <2> SUFFICES ASSUME NEW r, r.start \in Nat, r.end \in Nat, r.start < r.end,
                      \A g \in F : Disjoint(g, r), ~Disjoint(b, r)
               PROVE  \A p \in (r.start + 1)..r.end : t[p] \in Links \cup Space
    BY DEF Bridged
  <2>1. Disjoint(f, r)
    OBVIOUS
  <2>2. CASE ~Disjoint(a, r)
    BY <2>2 DEF Bridged
  <2>3. CASE a.end <= r.start /\ r.end <= f.start
    <3>1. \A p \in (a.end + 1)..f.start : t[p] \in Links \cup Space
      BY DEF Linked
    <3>2. \A p \in (r.start + 1)..r.end : p \in (a.end + 1)..f.start
      BY <1>1, <2>3
    <3> QED BY <3>1, <3>2
  <2>4. ~Disjoint(a, r) \/ (a.end <= r.start /\ r.end <= f.start)
    BY <1>1, <1>3, <1>4, <2>1 DEF Disjoint
  <2> QED BY <2>2, <2>3, <2>4
<1>7. Longer(a, f) = b
  BY DEF Longer, b, e, c
<1> QED BY <1>3, <1>4, <1>5, <1>6, <1>7

LEMMA NextMade ==
    ASSUME NEW t, NEW F, NEW o, NEW n, Listed(t, F, o, n), NEW i \in 1..n, i + 1 \in 1..n,
           NEW m, Good(t, F, o, i, m)
    PROVE  Good(t, F, o, i + 1, Join(t, m, o[i + 1]))
<1> DEFINE f == o[i + 1]
           a == m.last
           q == Join(t, m, f)
<1> SUFFICES Good(t, F, o, i + 1, q)
  OBVIOUS
<1>0. n \in Nat /\ o \in [1..n -> F] /\ \A g \in F : In(t, g)
  BY DEF Listed
<1>1. f \in F /\ In(t, a) /\ Bridged(t, F, a) /\ In(t, f) /\ Bridged(t, F, f)
  <2>1. f \in F /\ In(t, a) /\ Bridged(t, F, a) /\ In(t, f)
    BY <1>0 DEF Good
  <2> QED BY <2>1 DEF Bridged
<1>2. \A k \in 1..i : k \in 1..n /\ k \in 1..(i + 1) /\ o[k] \in F \ {f} /\ f \in F \ {o[k]}
  BY <1>0, <1>1 DEF Listed
<1>3. a.start <= f.start
  <2>1. PICK k \in 1..i : a.start = o[k].start
    BY DEF Good
  <2>2. ~Earlier(f, o[k])
    BY <1>0, <2>1 DEF Listed
  <2>3. f.start \in Nat /\ o[k].start \in Nat
    BY <1>1, <1>2, <1>0, <2>1 DEF In, Part
  <2> QED BY <2>1, <2>2, <2>3 DEF Earlier
<1>4. PICK k \in 1..i : a.end = o[k].end /\ a.type = o[k].type
  BY DEF Good
<1>5. PICK j \in 1..i : a.start = o[j].start
  BY DEF Good
<1>6. i + 1 \in 1..(i + 1) /\ \A l \in 1..(i + 1) : l \in 1..i \/ l = i + 1
  OBVIOUS
<1>7. CASE Linked(t, a, f)
  <2> DEFINE b == Longer(a, f)
  <2>1. /\ In(t, b) /\ Bridged(t, F, b) /\ b.start = a.start /\ b.type = a.type
        /\ b.end = a.end \/ b.end = f.end
    <3> HIDE DEF a, f
    <3> QED BY <1>0, <1>1, <1>3, <1>7, Joined
  <2>2. q = [m EXCEPT !.last = b]
    BY <1>7 DEF Join, Longer
  <2>3. m = [done |-> m.done, last |-> a]
    BY DEF Good
  <2> HIDE DEF b
  <2>4. q.done = m.done /\ q.last = b /\ q = [done |-> m.done, last |-> b]
    BY <2>2, <2>3
  <2> HIDE DEF q
  <2>5. b.type = f.type /\ a.type = f.type
    BY <1>7, <2>1 DEF Linked
  <2>6. \E l \in 1..(i + 1) : b.end = o[l].end /\ b.type = o[l].type
    BY <1>2, <1>4, <1>6, <2>1, <2>5
  <2>7. \A l \in 1..i : Alone(t, F, o[l]) => o[l] \in m.done
    <3> SUFFICES ASSUME NEW l \in 1..i, Alone(t, F, o[l]), o[l] = a PROVE FALSE
      BY DEF Good
    <3>1. f \in F \ {o[l]}
      BY <1>2
    <3> QED BY <1>7, <3>1 DEF Alone
  <2>8. ~Alone(t, F, f)
    <3>1. o[k] \in F \ {f}
      BY <1>2
    <3>2. Linked(t, o[k], f)
      BY <1>4, <1>7 DEF Linked
    <3> QED BY <3>1, <3>2 DEF Alone
  <2>9. \A e \in m.done : In(t, e) /\ Bridged(t, F, e)
    BY DEF Good
  <2>10. \E l \in 1..(i + 1) : b.start = o[l].start
    BY <1>2, <1>5, <2>1
  <2> HIDE DEF a, f
  <2>11. \A l \in 1..(i + 1) : Alone(t, F, o[l]) => o[l] \in m.done \cup {b}
    BY <1>6, <2>7, <2>8 DEF f
  <2> QED BY <2>1, <2>4, <2>6, <2>9, <2>10, <2>11 DEF Good
<1>8. CASE ~Linked(t, a, f)
  <2>1. q = [done |-> m.done \cup {a}, last |-> f]
    BY <1>8 DEF Join
  <2>2. q.done = m.done \cup {a} /\ q.last = f
    BY <2>1
  <2> HIDE DEF q
  <2>3. \A l \in 1..i : Alone(t, F, o[l]) => o[l] \in m.done \cup {a}
    BY DEF Good
  <2>4. \A e \in m.done \cup {a} : In(t, e) /\ Bridged(t, F, e)
    BY DEF Good
  <2>5. f.end = o[i + 1].end /\ f.type = o[i + 1].type /\ f.start = o[i + 1].start
    OBVIOUS
  <2>6. \A l \in 1..(i + 1) : Alone(t, F, o[l]) => o[l] \in m.done \cup {a} \cup {f}
    BY <1>6, <2>3
  <2> HIDE DEF a, f
  <2> QED BY <1>1, <1>6, <2>1, <2>2, <2>4, <2>5, <2>6 DEF Good
<1> QED BY <1>7, <1>8

LEMMA AllMade ==
    ASSUME NEW t, NEW F, NEW o, NEW n, Listed(t, F, o, n), n > 0
    PROVE  \A i \in 1..n : Good(t, F, o, i, Made(t, o)[i])
<1>0. n \in Nat /\ DOMAIN o = 1..n
  BY DEF Listed
<1>1. Turns(t, o, n, Made(t, o))
  BY <1>0, MadeTurns
<1> DEFINE g == Made(t, o)
<1>2. \A i \in 1..n :
        g[i] = IF i = 1 THEN [done |-> {}, last |-> o[1]] ELSE Join(t, g[i - 1], o[i])
  BY <1>1 DEF Turns
<1> HIDE DEF g
<1> DEFINE T == {i \in Nat : i + 1 \in 1..n => Good(t, F, o, i + 1, g[i + 1])}
<1>3. 0 \in T
  <2>0. 1 \in 1..n
    BY <1>0
  <2>1. g[1] = [done |-> {}, last |-> o[1]]
    BY <1>2, <2>0
  <2> QED BY <2>1, FirstMade
<1>4. ASSUME NEW i \in T PROVE i + 1 \in T
  <2>0. i \in Nat
    OBVIOUS
  <2> SUFFICES ASSUME (i + 1) + 1 \in 1..n PROVE Good(t, F, o, (i + 1) + 1, g[(i + 1) + 1])
    BY <2>0
  <2>1. i + 1 \in 1..n /\ Good(t, F, o, i + 1, g[i + 1])
    BY <1>0, <2>0
  <2>2. (i + 1) + 1 # 1 /\ ((i + 1) + 1) - 1 = i + 1
    BY <2>0
  <2>3. g[(i + 1) + 1] = Join(t, g[i + 1], o[(i + 1) + 1])
    BY <1>2, <2>2
  <2> HIDE DEF T
  <2> QED BY <2>1, <2>3, NextMade
<1>5. T = Nat
  <2>1. T \in SUBSET Nat
    OBVIOUS
  <2> HIDE DEF T
  <2> QED BY <1>3, <1>4, <2>1, Induction
<1> SUFFICES ASSUME NEW i \in 1..n PROVE Good(t, F, o, i, g[i])
  BY DEF g
<1>6. i - 1 \in Nat /\ (i - 1) + 1 = i
  BY <1>0
<1>7. i - 1 \in T
  <2> HIDE DEF T
  <2> QED BY <1>5, <1>6
<1> QED BY <1>6, <1>7

\* The entities that the fragments make: each in the text, bridging links and spaces only,
\* and every fragment that is linked to no other is one.
LEMMA EntitiesShape ==
    ASSUME NEW t, Len(t) \in Nat, NEW F, IsFiniteSet(F), \A f \in F : In(t, f)
    PROVE  /\ \A e \in Entities(t, F) : In(t, e) /\ Bridged(t, F, e)
           /\ \A f \in F : Alone(t, F, f) => f \in Entities(t, F)
<1>1. CASE F = {}
  BY <1>1 DEF Entities
<1>2. CASE F # {}
  <2>1. \A f \in F : f.start \in Nat /\ f.end \in Nat /\ f.start <= Len(t) /\ f.end <= Len(t)
    BY DEF In, Part
  <2>2. PICK n \in Nat :
            /\ Sorted(F) \in [1..n -> F] /\ Len(Sorted(F)) = n /\ n > 0
            /\ \A i, j \in 1..n : i # j => Sorted(F)[i] # Sorted(F)[j]
            /\ \A f \in F : \E i \in 1..n : Sorted(F)[i] = f
            /\ \A i, j \in 1..n : i < j => ~Earlier(Sorted(F)[j], Sorted(F)[i])
    BY <1>2, <2>1, SortedShape
  <2> DEFINE o == Sorted(F)
             m == Made(t, o)[n]
  <2>3. Listed(t, F, o, n)
    BY <2>2 DEF Listed
  <2>4. Good(t, F, o, n, m)
    <3> HIDE DEF o
    <3>1. n \in 1..n
      BY <2>2
    <3> QED BY <2>2, <2>3, <3>1, AllMade
  <2>5. Entities(t, F) = m.done \cup {m.last}
    BY <1>2, <2>2 DEF Entities
  <2> HIDE DEF o, m
  <2>6. \A f \in F : \E i \in 1..n : o[i] = f
    BY <2>2 DEF o
  <2> QED BY <2>4, <2>5, <2>6 DEF Good
<1> QED BY <1>1, <1>2

\* What is cut out of an entity: part of it, in the text, of its type.
Of(t, s, e) == /\ In(t, s) /\ Inside(s, e) /\ s.type = e.type
               /\ s.start < s.end

LEMMA AdjustedShape ==
    ASSUME NEW t, NEW S, \A e \in S : In(t, e), NEW s \in Adjusted(t, S)
    PROVE  \E e \in S : Of(t, s, e) /\ s = Trim(t, e, Borders, Borders)
<1>1. PICK e \in S : s = Trim(t, e, Borders, Borders) /\ s.start < s.end
  BY DEF Adjusted
<1> QED BY <1>1, TrimIn DEF Of

LEMMA InsideOf ==
    ASSUME NEW t, NEW a, NEW b, NEW c, Of(t, a, b), Of(t, b, c), In(t, c)
    PROVE  Of(t, a, c)
BY DEF Of, Inside, In, Part

\* A part of a span, under its type.
Crop(s, a, b) == [s EXCEPT !.start = a, !.end = b]

LEMMA Cropped ==
    ASSUME NEW t, NEW s, In(t, s), NEW a,
           NEW b, a \in s.start..s.end, b \in s.start..s.end, a <= b
    PROVE  /\ In(t, Crop(s, a, b)) /\ Inside(Crop(s, a, b), s)
           /\ Crop(s, a, b).type = s.type /\ Crop(s, a, b).score = s.score
           /\ Crop(s, a, b).start = a /\ Crop(s, a, b).end = b
<1> DEFINE r == [s EXCEPT !.start = a, !.end = b]
<1>1. s \in Span /\ a \in Nat /\ b \in Nat /\ s.start <= a /\ b <= s.end
  BY DEF In, Part
<1>2. r \in Span /\ r.start = a /\ r.end = b /\ r.type = s.type /\ r.score = s.score
  BY <1>1 DEF Span
<1> HIDE DEF r
<1>3. In(t, r) /\ Inside(r, s)
  BY <1>1, <1>2 DEF In, Part, Inside
<1>4. Crop(s, a, b) = r
  BY DEF Crop, r
<1> QED BY <1>2, <1>3, <1>4

LEMMA UnnumberedShape ==
    ASSUME NEW t, NEW S, \A e \in S : In(t, e) /\ e.start < e.end, NEW s \in Unnumbered(t, S)
    PROVE  \E e \in S : Of(t, s, e)
<1> DEFINE Free(e) == {r \in [start : e.start..e.end, end : e.start..e.end] :
                           /\ r.start = e.start \/ \E c \in Scaffolds(t, e) : c.end = r.start
                           /\ r.end = e.end \/ \E c \in Scaffolds(t, e) : c.start = r.end
                           /\ \A c \in Scaffolds(t, e) : Disjoint(c, r)
                           /\ r.start <= r.end}
           Parts(e) == {[e EXCEPT !.start = r.start, !.end = r.end] : r \in Free(e)}
<1>1. PICK e \in S : s \in IF Scaffolds(t, e) = {} THEN {e} ELSE Adjusted(t, Parts(e))
  BY DEF Unnumbered
<1>2. CASE s = e
  BY <1>2 DEF Of, Inside, In, Part
<1>3. CASE s \in Adjusted(t, Parts(e))
  <2>1. \A q \in Parts(e) : In(t, q) /\ Inside(q, e) /\ q.type = e.type
    <3> SUFFICES ASSUME NEW q \in Parts(e)
                 PROVE  In(t, q) /\ Inside(q, e) /\ q.type = e.type
      OBVIOUS
    <3>1. PICK r \in Free(e) : q = Crop(e, r.start, r.end)
      <4> HIDE DEF Free
      <4> QED BY DEF Crop
    <3>2. r.start \in e.start..e.end /\ r.end \in e.start..e.end /\ r.start <= r.end
      OBVIOUS
    <3>3. In(t, e)
      OBVIOUS
    <3> HIDE DEF Free, Parts
    <3> QED BY <3>1, <3>2, <3>3, Cropped
  <2> HIDE DEF Parts
  <2>2. PICK q \in Parts(e) : Of(t, s, q)
    BY <1>3, <2>1, AdjustedShape
  <2> QED BY <2>1, <2>2 DEF Of, Inside, In, Part
<1> QED BY <1>1, <1>2, <1>3

LEMMA TightenedShape ==
    ASSUME NEW t, NEW s, In(t, s), s.start < s.end
    PROVE  Of(t, Tightened(t, s), s) /\ (s.type # "DATE" => Tightened(t, s) = s)
<1> DEFINE dates == Runs(t, s, DateChars)
           d == CHOOSE r \in dates : TRUE
<1>1. CASE s.type = "DATE" /\ Cardinality(dates) = 1
  <2>1. dates # {}
    BY <1>1, FS_EmptySet
  <2>2. d \in dates
    <3> HIDE DEF dates
    <3> QED BY <2>1
  <2>3. d.start \in s.start..s.end /\ d.end \in s.start..s.end /\ d.start < d.end
    BY <2>2 DEF Runs
  <2>4. Tightened(t, s) = Crop(s, d.start, d.end)
    BY <1>1 DEF Tightened, Crop
  <2> HIDE DEF d
  <2>5. d.start <= d.end
    BY <2>3 DEF In, Part
  <2>6. Of(t, Crop(s, d.start, d.end), s)
    BY <2>3, <2>5, Cropped DEF Of
  <2> QED BY <1>1, <2>4, <2>6
<1>2. CASE ~(s.type = "DATE" /\ Cardinality(dates) = 1)
  <2>1. Tightened(t, s) = s
    BY <1>2 DEF Tightened
  <2> QED BY <2>1 DEF Of, Inside, In, Part
<1> QED BY <1>1, <1>2

\* What the personal-data client answers is part of an entity.
LEMMA PersonalShape ==
    ASSUME NEW t, Len(t) \in Nat, NEW F, IsFiniteSet(F), \A f \in F : In(t, f),
           NEW s \in Personal(t, F)
    PROVE  \E e \in Entities(t, F) : Of(t, s, e)
<1>1. \A e \in Entities(t, F) : In(t, e)
  BY EntitiesShape
<1>2. PICK u \in Unnumbered(t, Merged(t, F)) : s = Tightened(t, u)
  BY DEF Personal
<1>3. \A m \in Merged(t, F) : \E e \in Entities(t, F) : Of(t, m, e)
  BY <1>1, AdjustedShape, MergedIs
<1>4. PICK m \in Merged(t, F) : Of(t, u, m)
  BY <1>2, <1>3, UnnumberedShape DEF Of
<1>5. PICK e \in Entities(t, F) : Of(t, m, e)
  BY <1>3
<1>6. Of(t, s, u)
  BY <1>2, <1>4, TightenedShape DEF Of
<1>7. In(t, m) /\ In(t, e)
  BY <1>1, <1>5 DEF Of
<1> QED BY <1>4, <1>5, <1>6, <1>7, InsideOf

\* A token of the inventory.
LEMMA InventoriedShape ==
    ASSUME NEW t, Len(t) \in Nat, NEW seen, NEW s \in Inventoried(t, seen)
    PROVE  In(t, s) /\ s.start < s.end
<1>1. PICK r \in Runs(t, Whole(t), TokenChars) :
          s = [type |-> "INVENTORY", start |-> r.start, end |-> r.end, score |-> 10]
  BY DEF Inventoried
<1>2. r.start \in 0..Len(t) /\ r.end \in 0..Len(t) /\ r.start < r.end
  BY <1>1 DEF Runs, Whole, Interval
<1>3. "INVENTORY" \in Types
  BY NamesAssumption
<1>4. r.start \in Nat /\ r.end \in Nat /\ 10 \in Nat /\ r.end <= Len(t) /\ r.start <= r.end
  BY <1>2
<1> DEFINE q == [type |-> "INVENTORY", start |-> r.start, end |-> r.end, score |-> 10]
<1>5. q \in Span /\ q.start = r.start /\ q.end = r.end
  BY <1>3, <1>4, SpanRecord, ZenonT(30)
<1> HIDE DEF q
<1>6. s = q
  BY <1>1 DEF q
<1> QED BY <1>2, <1>4, <1>5, <1>6 DEF In, Part

----------------------------------------------------------------------------
(* The parts of one entity. *)

\* Fragments f and g that nothing comes between, nor into another fragment of their type.
Kin(t, F, f, g) ==
    /\ Linked(t, f, g) /\ f.start < g.start
    /\ \A h \in F : h.type # f.type =>
          /\ h.start \notin f.end..g.start
          /\ \A e \in F : e.type = f.type => Earlier(h, e) \/ e.end <= h.start

\* The entities of a type that are done end before the one in hand begins.
Parted(T, m) ==
    /\ \A e \in m.done : e.type = T => e.end <= m.last.start
    /\ \A d, e \in m.done : d.type = T /\ e.type = T => d = e \/ Disjoint(d, e)

\* Both fragments are in an entity once the second has been taken.
Both(f, g, e) == Inside(f, e) /\ Inside(g, e) /\ e.type = f.type

\* What the loop does with a fragment: it is in the entity in hand, what was in it stays.
LEMMA JoinKeeps ==
    ASSUME NEW t, NEW F, NEW o, NEW n, Listed(t, F, o, n), NEW i \in 1..n, i + 1 \in 1..n,
           NEW m, Good(t, F, o, i, m)
    PROVE  LET q == Join(t, m, o[i + 1])
           IN  /\ In(t, o[i + 1]) /\ In(t, m.last) /\ m.last.start <= o[i + 1].start
               /\ Inside(o[i + 1], q.last) /\ q.last.type = o[i + 1].type
               /\ \/ /\ Linked(t, m.last, o[i + 1]) /\ q.done = m.done
                     /\ Inside(m.last, q.last) /\ q.last.start = m.last.start
                     /\ q.last.type = m.last.type
                  \/ /\ ~Linked(t, m.last, o[i + 1]) /\ q.done = m.done \cup {m.last}
                     /\ q.last = o[i + 1]
<1> DEFINE f == o[i + 1]
           a == m.last
           q == Join(t, m, f)
<1>0. n \in Nat /\ o \in [1..n -> F] /\ \A g \in F : In(t, g)
  BY DEF Listed
<1>1. f \in F /\ In(t, a) /\ In(t, f) /\ m = [done |-> m.done, last |-> a]
  BY <1>0 DEF Good
<1>2. a.start <= f.start
  <2>1. PICK k \in 1..i : a.start = o[k].start
    BY DEF Good
  <2>2. ~Earlier(f, o[k]) /\ k \in 1..n
    BY <1>0, <2>1 DEF Listed
  <2>3. f.start \in Nat /\ o[k].start \in Nat
    BY <1>1, <1>0, <2>2 DEF In, Part
  <2> QED BY <2>1, <2>2, <2>3 DEF Earlier
<1>3. /\ a \in Span /\ a.start \in Nat /\ a.end \in Nat /\ a.score \in Nat
      /\ f \in Span /\ f.start \in Nat /\ f.end \in Nat /\ f.score \in Nat
      /\ a.start <= a.end /\ f.start <= f.end
  BY <1>1 DEF In, Part, Span
<1>4. CASE Linked(t, a, f)
  <2> DEFINE e == Max({a.end, f.end})
             c == Min({a.score, f.score})
             b == [a EXCEPT !.end = e, !.score = c]
  <2>1. /\ e = IF a.end >= f.end THEN a.end ELSE f.end
        /\ c = IF a.score <= f.score THEN a.score ELSE f.score
    <3>1. a.end \in Int /\ f.end \in Int /\ a.score \in Int /\ f.score \in Int
      BY <1>3
    <3> QED BY <3>1, OfTwo, Zenon
  <2>2. e \in Nat /\ c \in Nat /\ a.end <= e /\ f.end <= e
    BY <1>3, <2>1
  <2>3. q = [m EXCEPT !.last = b]
    BY <1>4 DEF Join
  <2> HIDE DEF e, c
  <2>4. b \in Span /\ b.start = a.start /\ b.end = e /\ b.type = a.type
    BY <1>3, <2>2 DEF Span
  <2> HIDE DEF b
  <2>5. q.done = m.done /\ q.last = b
    BY <1>1, <2>3
  <2> HIDE DEF q
  <2>6. a.type = f.type
    BY <1>4 DEF Linked
  <2> HIDE DEF a, f
  <2>7. Inside(f, q.last) /\ Inside(a, q.last)
    BY <1>2, <1>3, <2>2, <2>4, <2>5 DEF Inside
  <2> QED BY <1>1, <1>2, <1>4, <2>4, <2>5, <2>6, <2>7 DEF q, f, a
<1>5. CASE ~Linked(t, a, f)
  <2>1. q = [done |-> m.done \cup {a}, last |-> f]
    BY <1>5 DEF Join
  <2>2. q.done = m.done \cup {a} /\ q.last = f
    BY <2>1
  <2> HIDE DEF q
  <2> HIDE DEF a, f
  <2>3. Inside(f, q.last)
    BY <1>3, <2>2 DEF Inside
  <2> QED BY <1>1, <1>2, <1>5, <2>2, <2>3 DEF q, f, a
<1> QED BY <1>4, <1>5

\* A fragment of the type that is not linked to the entity in hand begins after it, and so
\* does one of another type.
LEMMA BeginsAfter ==
    ASSUME NEW t, NEW F, NEW o, NEW n, Listed(t, F, o, n), NEW i \in 1..n, i + 1 \in 1..n,
           NEW m, Good(t, F, o, i, m), NEW f, NEW g, Kin(t, F, f, g),
           ~Linked(t, m.last, o[i + 1]), m.last.type = f.type
    PROVE  m.last.end <= o[i + 1].start
<1> DEFINE h == o[i + 1]
           a == m.last
<1>0. n \in Nat /\ o \in [1..n -> F] /\ \A e \in F : In(t, e)
  BY DEF Listed
<1>1. h \in F /\ In(t, a) /\ In(t, h)
  BY <1>0 DEF Good
<1>2. a.end \in Nat /\ h.start \in Nat
  BY <1>1 DEF In, Part
<1>3. CASE h.type = f.type
  <2> SUFFICES ASSUME ~(a.end <= h.start) PROVE FALSE
    OBVIOUS
  <2>1. h.start - a.end <= 2 /\ (a.end + 1)..h.start = {}
    BY <1>2
  <2> QED BY <1>3, <2>1 DEF Linked
<1>4. CASE h.type # f.type
  <2>1. PICK k \in 1..i : a.end = o[k].end /\ a.type = o[k].type
    BY DEF Good
  <2>2. ~Earlier(h, o[k]) /\ o[k] \in F
    BY <1>0, <2>1 DEF Listed
  <2>3. Earlier(h, o[k]) \/ o[k].end <= h.start
    BY <1>1, <1>4, <2>1, <2>2 DEF Kin
  <2> QED BY <2>1, <2>2, <2>3
<1> QED BY <1>3, <1>4

LEMMA StayParted ==
    ASSUME NEW t, NEW F, NEW o, NEW n, Listed(t, F, o, n), NEW i \in 1..n, i + 1 \in 1..n,
           NEW m, Good(t, F, o, i, m), NEW f, NEW g, Kin(t, F, f, g), Parted(f.type, m)
    PROVE  Parted(f.type, Join(t, m, o[i + 1]))
<1> DEFINE h == o[i + 1]
           a == m.last
           q == Join(t, m, h)
<1>1. /\ In(t, h) /\ In(t, a) /\ a.start <= h.start
      /\ \/ Linked(t, a, h) /\ q.done = m.done /\ q.last.start = a.start
         \/ ~Linked(t, a, h) /\ q.done = m.done \cup {a} /\ q.last = h
  BY JoinKeeps
<1>2. \A e \in m.done : In(t, e)
  BY DEF Good
<1> HIDE DEF q
<1>3. CASE Linked(t, a, h) /\ q.done = m.done /\ q.last.start = a.start
  BY <1>3 DEF Parted, q
<1>4. CASE ~Linked(t, a, h) /\ q.done = m.done \cup {a} /\ q.last = h
  <2>1. a.type = f.type => a.end <= h.start
    BY <1>4, BeginsAfter
  <2>2. \A e \in m.done : e.type = f.type => e.end <= a.start /\ e.end \in Nat
    BY <1>2 DEF Parted, In, Part
  <2>3. a.start \in Nat /\ h.start \in Nat
    BY <1>1 DEF In, Part
  <2> HIDE DEF a, h
  <2>4. \A e \in m.done : e.type = f.type => e.end <= h.start /\ Disjoint(e, a) /\ Disjoint(a, e)
    BY <1>1, <2>2, <2>3 DEF Disjoint
  <2>5. \A d, e \in m.done : d.type = f.type /\ e.type = f.type => d = e \/ Disjoint(d, e)
    BY DEF Parted
  <2>6. \A e \in q.done : e.type = f.type => e.end <= q.last.start
    BY <1>4, <2>1, <2>4
  <2>7. \A d, e \in q.done : d.type = f.type /\ e.type = f.type => d = e \/ Disjoint(d, e)
    BY <1>4, <2>4, <2>5
  <2> QED BY <2>6, <2>7 DEF Parted, q, h
<1> QED BY <1>1, <1>3, <1>4

\* A span is inside another's when it is inside one of its parts, whatever that holds.
LEMMA InsideTrans ==
    ASSUME NEW t, NEW f, In(t, f), NEW a, In(t, a), NEW b, b.start \in Int, b.end \in Int,
           Inside(f, a), Inside(a, b)
    PROVE  Inside(f, b)
BY DEF In, Part, Inside

\* What comes between the two is linked to the entity that holds the first.
LEMMA LinkedOn ==
    ASSUME NEW t, NEW F, NEW f, NEW g, Kin(t, F, f, g), In(t, f), In(t, g),
           NEW a, In(t, a), Inside(f, a), a.type = f.type,
           NEW h \in F, In(t, h), ~Earlier(h, f), ~Earlier(g, h), f \in F
    PROVE  Linked(t, a, h)
<1>1. /\ f.start \in Nat /\ f.end \in Nat /\ f.start <= f.end /\ g.start \in Nat
      /\ g.end \in Nat /\ a.end \in Nat /\ h.start \in Nat /\ h.end \in Nat /\ f.end <= a.end
  BY DEF In, Part, Inside
<1>2. h.start <= g.start
  BY <1>1 DEF Earlier
<1>3. h.type = f.type
  <2> SUFFICES ASSUME h.type # f.type PROVE FALSE
    OBVIOUS
  <2>1. h.start \notin f.end..g.start /\ (Earlier(h, f) \/ f.end <= h.start)
    BY DEF Kin
  <2> QED BY <1>1, <1>2, <2>1
<1>4. g.start - f.end <= 2 /\ \A p \in (f.end + 1)..g.start : t[p] \in Links \cup Space
  BY DEF Kin, Linked
<1>5. h.start - a.end <= 2 /\ \A p \in (a.end + 1)..h.start : p \in (f.end + 1)..g.start
  BY <1>1, <1>2, <1>4
<1> QED BY <1>3, <1>4, <1>5 DEF Linked

\* Where the loop is with the two: before, between, after.
Together(f, g, x, y, i, m) ==
    /\ Parted(f.type, m)
    /\ x <= i /\ i < y => Inside(f, m.last) /\ m.last.type = f.type
    /\ y <= i => \E e \in m.done \cup {m.last} : Both(f, g, e)

LEMMA StayTogether ==
    ASSUME NEW t, NEW F, NEW o, NEW n, Listed(t, F, o, n), NEW i \in 1..n, i + 1 \in 1..n,
           NEW m, Good(t, F, o, i, m), NEW f \in F, NEW g \in F, Kin(t, F, f, g),
           NEW x \in 1..n, NEW y \in 1..n, x < y, o[x] = f, o[y] = g,
           Together(f, g, x, y, i, m)
    PROVE  Together(f, g, x, y, i + 1, Join(t, m, o[i + 1]))
<1> DEFINE h == o[i + 1]
           a == m.last
           q == Join(t, m, h)
<1>0. /\ n \in Nat /\ o \in [1..n -> F] /\ \A e \in F : In(t, e)
      /\ \A k, l \in 1..n : k < l => ~Earlier(o[l], o[k])
  BY DEF Listed
<1>1. /\ In(t, h) /\ In(t, a) /\ a.start <= h.start /\ Inside(h, q.last) /\ q.last.type = h.type
      /\ \/ /\ Linked(t, a, h) /\ q.done = m.done /\ Inside(a, q.last)
            /\ q.last.type = a.type
         \/ ~Linked(t, a, h) /\ q.done = m.done \cup {a} /\ q.last = h
  BY JoinKeeps
<1>2. Parted(f.type, q)
  BY StayParted DEF Together
<1>3. h \in F /\ In(t, f) /\ In(t, g) /\ g.type = f.type
  BY <1>0 DEF Kin, Linked
<1>7. In(t, q.last) /\ q.last.start \in Int /\ q.last.end \in Int
  <2>1. Good(t, F, o, i + 1, q)
    BY NextMade
  <2>2. In(t, q.last)
    <3> HIDE DEF q
    <3> QED BY <2>1 DEF Good
  <2> HIDE DEF q
  <2> QED BY <2>2 DEF In, Part
<1> SUFFICES Together(f, g, x, y, i + 1, q)
  OBVIOUS
<1> HIDE DEF q
<1>4. CASE x <= i /\ i < y
  <2>1. Inside(f, a) /\ a.type = f.type
    BY <1>4 DEF Together
  <2>2. ~Earlier(h, f)
    BY <1>0, <1>4
  <2>3. ~Earlier(g, h)
    <3>1. CASE i + 1 = y
      <4>1. h = g /\ g.start \in Nat /\ g.end \in Nat
        BY <1>3, <3>1 DEF In, Part
      <4> QED BY <4>1 DEF Earlier
    <3>2. CASE i + 1 < y
      BY <1>0, <3>2
    <3> QED BY <1>0, <1>4, <3>1, <3>2
  <2>4. Linked(t, a, h)
    <3> HIDE DEF a, h
    <3> QED BY <1>1, <1>3, <2>1, <2>2, <2>3, LinkedOn
  <2>5. Inside(f, q.last) /\ q.last.type = f.type
    <3>1. Inside(a, q.last) /\ q.last.type = a.type
      BY <1>1, <2>4
    <3> HIDE DEF a, h
    <3> QED BY <1>1, <1>3, <1>7, <2>1, <3>1, InsideTrans
  <2>6. y <= i + 1 => Both(f, g, q.last)
    <3> SUFFICES ASSUME y <= i + 1 PROVE Both(f, g, q.last)
      OBVIOUS
    <3>1. i + 1 = y
      BY <1>0, <1>4
    <3> QED BY <1>1, <2>5, <3>1 DEF Both
  <2> QED BY <1>2, <2>5, <2>6 DEF Together
<1>5. CASE i < x
  <2>1. ~(y <= i + 1)
    BY <1>0, <1>5
  <2>2. x <= i + 1 => x = i + 1
    BY <1>0, <1>5
  <2> QED BY <1>1, <1>2, <2>1, <2>2 DEF Together
<1>6. CASE y <= i
  <2>1. PICK e \in m.done \cup {a} : Both(f, g, e)
    BY <1>6 DEF Together
  <2>2. CASE e \in q.done
    BY <1>0, <1>2, <1>6, <2>1, <2>2 DEF Together
  <2>3. CASE e \notin q.done
    <3>1. e = a /\ Linked(t, a, h) /\ Inside(a, q.last) /\ q.last.type = a.type
      BY <1>1, <2>1, <2>3
    <3> HIDE DEF a, h
    <3>2. Both(f, g, q.last)
      BY <1>1, <1>3, <1>7, <2>1, <3>1, InsideTrans DEF Both
    <3> QED BY <1>0, <1>2, <1>6, <3>2 DEF Together
  <2> QED BY <2>2, <2>3
<1> QED BY <1>0, <1>4, <1>5, <1>6

\* The two are in one entity, and entities of their type share no character.
LEMMA OneEntity ==
    ASSUME NEW t, Len(t) \in Nat, NEW F, IsFiniteSet(F), \A e \in F : In(t, e),
           NEW f \in F, NEW g \in F, Kin(t, F, f, g)
    PROVE  /\ \E e \in Entities(t, F) : Both(f, g, e)
           /\ \A d, e \in Entities(t, F) :
                  d.type = f.type /\ e.type = f.type => d = e \/ Disjoint(d, e)
<1>1. \A e \in F : e.start \in Nat /\ e.end \in Nat /\ e.start <= Len(t) /\ e.end <= Len(t)
  BY DEF In, Part
<1>2. PICK n \in Nat :
          /\ Sorted(F) \in [1..n -> F] /\ Len(Sorted(F)) = n /\ n > 0
          /\ \A i, j \in 1..n : i # j => Sorted(F)[i] # Sorted(F)[j]
          /\ \A e \in F : \E i \in 1..n : Sorted(F)[i] = e
          /\ \A i, j \in 1..n : i < j => ~Earlier(Sorted(F)[j], Sorted(F)[i])
  BY <1>1, SortedShape
<1> DEFINE o == Sorted(F)
           m == Made(t, o)
<1>3. Listed(t, F, o, n) /\ DOMAIN o = 1..n
  BY <1>2 DEF Listed
<1>4. Entities(t, F) = m[n].done \cup {m[n].last}
  BY <1>2 DEF Entities
<1>5. PICK x \in 1..n, y \in 1..n : o[x] = f /\ o[y] = g
  BY <1>2
<1> HIDE DEF o
<1>6. x < y
  <2>1. f.start < g.start /\ f.start \in Nat /\ g.start \in Nat
    BY <1>1 DEF Kin
  <2>2. Earlier(f, g)
    BY <2>1 DEF Earlier
  <2>3. x # y /\ ~(y < x)
    BY <1>3, <1>5, <2>1, <2>2 DEF Listed
  <2> QED BY <2>3
<1>7. \A i \in 1..n : Good(t, F, o, i, m[i])
  BY <1>2, <1>3, AllMade
<1>18. Turns(t, o, n, m)
  BY <1>3, MadeTurns
<1>8. \A i \in 1..n :
        m[i] = IF i = 1 THEN [done |-> {}, last |-> o[1]] ELSE Join(t, m[i - 1], o[i])
  BY <1>18 DEF Turns
<1> HIDE DEF m
<1>9. Together(f, g, x, y, 1, m[1])
  <2>0. 1 \in 1..n
    BY <1>2
  <2>1. m[1] = [done |-> {}, last |-> o[1]]
    BY <1>8, <2>0
  <2>2. m[1].done = {} /\ m[1].last = o[1]
    BY <2>1
  <2>3. x <= 1 => o[1] = f
    BY <1>5
  <2>4. Inside(f, f)
    BY <1>1 DEF Inside
  <2>5. ~(y <= 1)
    BY <1>6
  <2> QED BY <2>2, <2>3, <2>4, <2>5 DEF Together, Parted
<1> DEFINE T == {i \in Nat : i + 1 \in 1..n => Together(f, g, x, y, i + 1, m[i + 1])}
<1>10. 0 \in T
  BY <1>9
<1>11. ASSUME NEW i \in T PROVE i + 1 \in T
  <2>0. i \in Nat
    OBVIOUS
  <2> SUFFICES ASSUME (i + 1) + 1 \in 1..n
               PROVE  Together(f, g, x, y, (i + 1) + 1, m[(i + 1) + 1])
    BY <2>0
  <2>1. i + 1 \in 1..n /\ Together(f, g, x, y, i + 1, m[i + 1])
    BY <2>0
  <2>2. (i + 1) + 1 # 1 /\ ((i + 1) + 1) - 1 = i + 1
    BY <2>0
  <2>3. m[(i + 1) + 1] = Join(t, m[i + 1], o[(i + 1) + 1])
    BY <1>8, <2>2
  <2> HIDE DEF T
  <2> QED BY <1>3, <1>5, <1>6, <1>7, <2>1, <2>3, StayTogether
<1>12. T = Nat
  <2>1. T \in SUBSET Nat
    OBVIOUS
  <2> HIDE DEF T
  <2> QED BY <1>10, <1>11, <2>1, Induction
<1>13. Together(f, g, x, y, n, m[n])
  <2>1. n - 1 \in T /\ (n - 1) + 1 = n /\ n \in 1..n
    <3> HIDE DEF T
    <3> QED BY <1>2, <1>12
  <2> QED BY <2>1
<1>14. Good(t, F, o, n, m[n])
  BY <1>2, <1>7
<1>15. ASSUME NEW e \in m[n].done, e.type = f.type
       PROVE  Disjoint(e, m[n].last) /\ Disjoint(m[n].last, e)
  BY <1>13, <1>15 DEF Together, Parted, Disjoint
<1>16. \A d, e \in m[n].done : d.type = f.type /\ e.type = f.type => d = e \/ Disjoint(d, e)
  BY <1>13 DEF Together, Parted
<1>17. y <= n
  BY <1>2
<1>19. \E e \in Entities(t, F) : Both(f, g, e)
  BY <1>4, <1>13, <1>17 DEF Together
<1> QED BY <1>4, <1>15, <1>16, <1>19

\* Trimming takes characters of the borders only.
LEMMA TrimHolds ==
    ASSUME NEW t, NEW s, In(t, s), NEW L, NEW p \in Nat, Holds(s, p), t[p] \notin L
    PROVE  Holds(Trim(t, s, L, L), p)
<1>1. PICK a, b : /\ Trim(t, s, L, L) = [s EXCEPT !.start = a, !.end = b]
                  /\ BeginsAt(t, s, L, a) /\ EndsAt(t, s, L, a, b)
  BY TrimShape DEF In
<1>2. s \in Span /\ s.start \in Nat /\ s.end \in Nat /\ s.start <= s.end
  BY DEF In, Part
<1>3. a \in Nat /\ b \in Nat /\ s.start <= a /\ a <= b /\ b <= s.end
  BY <1>1, <1>2 DEF BeginsAt, EndsAt
<1>4. p \notin (s.start + 1)..a /\ p \notin (b + 1)..s.end
  BY <1>1 DEF BeginsAt, EndsAt
<1>5. a < p /\ p <= b
  BY <1>2, <1>3, <1>4 DEF Holds
<1> DEFINE r == [s EXCEPT !.start = a, !.end = b]
<1>6. r.start = a /\ r.end = b
  BY <1>2 DEF Span
<1> HIDE DEF r
<1>7. Trim(t, s, L, L) = r
  BY <1>1 DEF r
<1> QED BY <1>5, <1>6, <1>7 DEF Holds

\* A line number is three characters long at least, and is one of what holds the span.
LEMMA ScaffoldShape ==
    ASSUME NEW t, NEW s, s.start \in Nat, s.end \in Nat, NEW c \in Scaffolds(t, s)
    PROVE  /\ c.start \in Nat /\ c.end \in Nat /\ c.start < c.end /\ c.end - c.start >= 3
           /\ \A e : e.start \in Nat /\ e.end \in Nat /\ Inside(s, e) => c \in Scaffolds(t, e)
<1>1. c \in [start : s.start..s.end, end : s.start..s.end] /\ c.end - c.start >= 3
  BY DEF Scaffolds
<1>2. c.start \in s.start..s.end /\ c.end \in s.start..s.end
      /\ c = [start |-> c.start, end |-> c.end]
  BY <1>1
<1>3. ASSUME NEW e, e.start \in Nat, e.end \in Nat, Inside(s, e) PROVE c \in Scaffolds(t, e)
  <2>1. c.start \in e.start..e.end /\ c.end \in e.start..e.end
    BY <1>2, <1>3 DEF Inside
  <2>2. c \in [start : e.start..e.end, end : e.start..e.end]
    BY <1>2, <2>1
  <2> QED BY <2>2 DEF Scaffolds
<1> QED BY <1>1, <1>2, <1>3

\* A part of an entity, between line numbers that do not meet an interval, holds of the
\* interval all that the entity holds, borders excepted.
LEMMA UncutHolds ==
    ASSUME NEW t, NEW S, \A e \in S : In(t, e) /\ e.start < e.end, NEW k \in Unnumbered(t, S),
           NEW a \in Nat, NEW b \in Nat, NEW p \in Nat, a < p, p <= b, Holds(k, p),
           \A e \in S : \A c \in Scaffolds(t, e) : c.end <= a \/ b <= c.start
    PROVE  \E e \in S : /\ k.type = e.type /\ Holds(e, p)
                        /\ \A q \in Nat : a < q /\ q <= b /\ Holds(e, q) /\ t[q] \notin Borders
                                              => Holds(k, q)
<1> DEFINE Free(e) == {r \in [start : e.start..e.end, end : e.start..e.end] :
                           /\ r.start = e.start \/ \E c \in Scaffolds(t, e) : c.end = r.start
                           /\ r.end = e.end \/ \E c \in Scaffolds(t, e) : c.start = r.end
                           /\ \A c \in Scaffolds(t, e) : Disjoint(c, r)
                           /\ r.start <= r.end}
           Parts(e) == {[e EXCEPT !.start = r.start, !.end = r.end] : r \in Free(e)}
<1>1. PICK e \in S : k \in IF Scaffolds(t, e) = {} THEN {e} ELSE Adjusted(t, Parts(e))
  BY DEF Unnumbered
<1>2. CASE k = e
  BY <1>2
<1>3. CASE k \in Adjusted(t, Parts(e))
  <2>1. PICK u \in Parts(e) : k = Trim(t, u, Borders, Borders)
    <3> HIDE DEF Parts
    <3> QED BY <1>3 DEF Adjusted
  <2>2. PICK r \in Free(e) : u = Crop(e, r.start, r.end)
    <3> HIDE DEF Free
    <3> QED BY DEF Crop
  <2>3. /\ r.start \in e.start..e.end /\ r.end \in e.start..e.end /\ r.start <= r.end
        /\ r.start = e.start \/ \E c \in Scaffolds(t, e) : c.end = r.start
        /\ r.end = e.end \/ \E c \in Scaffolds(t, e) : c.start = r.end
    OBVIOUS
  <2>4. In(t, e)
    OBVIOUS
  <2> HIDE DEF Free, Parts
  <2>5. In(t, u) /\ Inside(u, e) /\ u.type = e.type /\ u.start = r.start /\ u.end = r.end
    BY <2>2, <2>3, <2>4, Cropped
  <2>6. In(t, k) /\ Inside(k, u) /\ k.type = u.type
    BY <2>1, <2>5, TrimIn
  <2>7. /\ e.start \in Nat /\ e.end \in Nat /\ r.start \in Nat /\ r.end \in Nat
        /\ k.start \in Nat /\ k.end \in Nat
    BY <2>3, <2>4, <2>6 DEF In, Part
  <2>8. r.start < p /\ p <= r.end
    BY <2>5, <2>6, <2>7 DEF Holds, Inside
  <2>9. Holds(e, p)
    BY <2>3, <2>7, <2>8 DEF Holds
  <2>10. \A c \in Scaffolds(t, e) : c.start \in Nat /\ c.end \in Nat /\ c.start < c.end
    BY <2>7, ScaffoldShape
  <2>11. ASSUME NEW q \in Nat, a < q, q <= b, Holds(e, q), t[q] \notin Borders
         PROVE  Holds(k, q)
    <3>1. r.start < q
      <4>1. CASE r.start = e.start
        BY <2>11, <4>1 DEF Holds
      <4>2. CASE \E c \in Scaffolds(t, e) : c.end = r.start
        <5>1. PICK c \in Scaffolds(t, e) : c.end = r.start
          BY <4>2
        <5>2. c.end <= a \/ b <= c.start
          OBVIOUS
        <5> QED BY <2>7, <2>8, <2>10, <2>11, <5>1, <5>2
      <4> QED BY <2>3, <4>1, <4>2
    <3>2. q <= r.end
      <4>1. CASE r.end = e.end
        BY <2>11, <4>1 DEF Holds
      <4>2. CASE \E c \in Scaffolds(t, e) : c.start = r.end
        <5>1. PICK c \in Scaffolds(t, e) : c.start = r.end
          BY <4>2
        <5>2. c.end <= a \/ b <= c.start
          OBVIOUS
        <5> QED BY <2>7, <2>8, <2>10, <2>11, <5>1, <5>2
      <4> QED BY <2>3, <4>1, <4>2
    <3>3. Holds(u, q)
      BY <2>5, <3>1, <3>2 DEF Holds
    <3> QED BY <2>1, <2>5, <2>11, <3>3, TrimHolds
  <2> QED BY <2>5, <2>6, <2>9, <2>11
<1> QED BY <1>1, <1>2, <1>3

----------------------------------------------------------------------------
(* The pieces of a long text. *)

\* Where the next piece begins.
Place == /\ pos \in Nat /\ pos <= Len(text)
         /\ at = "infra" => pos = 0 \/ pos < Len(text)

LEMMA PieceEndShape ==
    ASSUME world \in Worlds, NEW from \in Nat, from < Len(text)
    PROVE  /\ PieceEnd(from) \in Nat /\ from < PieceEnd(from) /\ PieceEnd(from) <= Len(text)
           /\ PieceEnd(from) < Len(text) => from + Reach < PieceEnd(from)
<1> DEFINE n == Len(text)
           last == Min({from + Size, n})
           lines == {p \in (from + Size - Reach + 1)..last : text[p] = "\n"}
<1>1. n \in Nat /\ Reach \in Nat /\ Reach > 0 /\ Threshold \in Nat
  BY TextType, OutgoingAssumption
<1>2. Size \in Nat /\ 4 * Reach <= Size
  <2>1. Size = IF Threshold >= 4 * Reach THEN Threshold ELSE 4 * Reach
    <3>1. Threshold \in Int /\ 4 * Reach \in Int
      BY <1>1
    <3> QED BY <3>1, OfTwo, Zenon DEF Size
  <2> QED BY <1>1, <2>1
<1>3. last = IF from + Size <= n THEN from + Size ELSE n
  <2>1. from + Size \in Int /\ n \in Int
    BY <1>1, <1>2
  <2> QED BY <2>1, OfTwo, Zenon
<1>4. last \in Nat /\ from < last /\ last <= n /\ (last < n => last = from + Size)
  BY <1>1, <1>2, <1>3
<1> HIDE DEF last
<1>5. CASE last < n /\ lines # {}
  <2>1. \A p \in lines : p \in Nat /\ p <= last /\ from + Size - Reach + 1 <= p
    BY <1>1, <1>2, <1>4
  <2>2. lines \in SUBSET Nat
    BY <2>1
  <2> HIDE DEF lines
  <2>3. Max(lines) \in lines
    BY <1>4, <1>5, <2>1, <2>2, MaxOf, Greatest
  <2>4. PieceEnd(from) = Max(lines)
    BY <1>5 DEF PieceEnd, lines, last
  <2> QED BY <1>1, <1>2, <1>4, <2>1, <2>3, <2>4
<1>6. CASE ~(last < n /\ lines # {})
  <2>1. PieceEnd(from) = last
    BY <1>6 DEF PieceEnd, last
  <2> QED BY <1>1, <1>2, <1>4, <2>1
<1> QED BY <1>5, <1>6

LEMMA NextPieceShape ==
    ASSUME NEW from \in Nat, NEW end \in Nat, from + Reach < end
    PROVE  NextPiece(from, end) = end - Reach /\ end - Reach \in Nat /\ from < end - Reach
<1>1. Reach \in Nat
  BY OutgoingAssumption
<1>2. end - Reach \in Int /\ from + 1 \in Int /\ end - Reach >= from + 1
  BY <1>1
<1>3. NextPiece(from, end) = end - Reach
  BY <1>2, OfTwo, Zenon DEF NextPiece
<1> QED BY <1>1, <1>2, <1>3

\* One piece: the text is done, or another one takes up the end of this one.
Piece(end, cut) ==
    /\ end \in Nat /\ pos <= end /\ end <= Len(text) /\ cut \in SUBSET CutOff(pos, end)
    /\ spans' = spans \cup Answered(pos, end, cut) \cup Blocks(text)
    /\ \/ end = Len(text) /\ at' = "personal" /\ pos' = pos
       \/ /\ end < Len(text) /\ at' = "infra" /\ Long
          /\ pos' = end - Reach /\ pos < pos' /\ pos' \in Nat

LEMMA DetectPiece ==
    ASSUME world \in Worlds, Place, Detect
    PROVE  \E end, cut : Piece(end, cut)
<1> DEFINE end == IF Long THEN PieceEnd(pos) ELSE Len(text)
<1>1. at = "infra" /\ Len(text) \in Nat /\ Threshold \in Nat /\ pos \in Nat
  BY TextType, OutgoingAssumption DEF Place, Detect
<1>2. end \in Nat /\ pos <= end /\ end <= Len(text)
      /\ (end < Len(text) => pos + Reach < end /\ Long)
  <2>1. CASE Long
    <3>1. pos < Len(text)
      BY <1>1, <2>1 DEF Long, Place
    <3> QED BY <1>1, <2>1, <3>1, PieceEndShape
  <2>2. CASE ~Long
    BY <1>1, <2>2 DEF Place
  <2> QED BY <2>1, <2>2
<1>3. PICK cut \in SUBSET CutOff(pos, end) :
          spans' = spans \cup Answered(pos, end, cut) \cup Blocks(text)
  BY DEF Detect
<1>4. IF end < Len(text) THEN pos' = NextPiece(pos, end) /\ at' = at
      ELSE at' = "personal" /\ pos' = pos
  BY DEF Detect
<1> HIDE DEF end
<1>5. CASE end < Len(text)
  <2>1. NextPiece(pos, end) = end - Reach /\ end - Reach \in Nat /\ pos < end - Reach
    BY <1>1, <1>2, <1>5, NextPieceShape
  <2> QED BY <1>1, <1>2, <1>3, <1>4, <1>5, <2>1 DEF Piece
<1>6. CASE ~(end < Len(text))
  BY <1>1, <1>2, <1>3, <1>4, <1>6 DEF Piece
<1> QED BY <1>5, <1>6

\* q is the part of t from from + 1 to end; u is the span s as the part has it.
Cutting(t, q, from, end) ==
    /\ t \in Seq(STRING) /\ q \in Seq(STRING) /\ from \in Nat /\ end \in Nat
    /\ from <= end /\ end <= Len(t) /\ Len(q) = end - from
    /\ \A p \in 1..(end - from) : q[p] = t[from + p]

Shifts(u, s, from, end) ==
    /\ s.start \in Nat /\ s.end \in Nat /\ s.start <= s.end
    /\ from <= s.start /\ s.end <= end
    /\ u.start = s.start - from /\ u.end = s.end - from

LEMMA ShiftsPart ==
    ASSUME NEW t, NEW q, NEW from, NEW end, Cutting(t, q, from, end),
           NEW u, NEW s, Shifts(u, s, from, end)
    PROVE  Part(q, u) /\ Part(t, s)
<1>1. /\ from \in Nat /\ end \in Nat /\ from <= end /\ end <= Len(t) /\ Len(q) = end - from
      /\ Len(t) \in Nat
  BY DEF Cutting
<1> QED BY <1>1 DEF Shifts, Part

\* A character of the part is that of the text.
LEMMA CharCut ==
    ASSUME NEW t, NEW q, NEW from, NEW end, Cutting(t, q, from, end),
           NEW p \in Nat, from < p, p <= end
    PROVE  q[p - from] = t[p]
<1>1. p - from \in 1..(end - from) /\ from + (p - from) = p
  BY DEF Cutting
<1> QED BY <1>1 DEF Cutting

LEMMA ValueCut ==
    ASSUME NEW t, NEW q, NEW from, NEW end, Cutting(t, q, from, end),
           NEW u, NEW s, Shifts(u, s, from, end)
    PROVE  Value(q, u) = Value(t, s)
<1>1. /\ from \in Nat /\ end \in Nat /\ from <= end /\ end <= Len(t) /\ Len(q) = end - from
      /\ t \in Seq(STRING) /\ q \in Seq(STRING)
  BY DEF Cutting
<1>2. /\ s.start \in Nat /\ s.end \in Nat /\ s.start <= s.end /\ s.end <= Len(t)
      /\ u.start \in Nat /\ u.end \in Nat /\ u.start <= u.end /\ u.end <= Len(q)
  BY ShiftsPart DEF Part
<1> DEFINE v == SubSeq(t, s.start + 1, s.end)
           w == SubSeq(q, u.start + 1, u.end)
           n == s.end - s.start
<1>3. v \in Seq(STRING) /\ Len(v) = n /\ \A p \in 1..n : v[p] = t[s.start + p]
  <2>1. s.start \in Nat /\ s.end \in Nat /\ s.start <= s.end /\ s.end <= Len(t)
        /\ t \in Seq(STRING)
    BY <1>1, <1>2
  <2> QED BY <2>1, PieceShape
<1>4. w \in Seq(STRING) /\ Len(w) = u.end - u.start
      /\ \A p \in 1..(u.end - u.start) : w[p] = q[u.start + p]
  BY SMTT(30), <1>1, <1>2, PieceShape
<1>5. u.end - u.start = n
  BY <1>1, <1>2 DEF Shifts
<1>6. \A p \in 1..n : w[p] = v[p]
  <2> SUFFICES ASSUME NEW p \in 1..n PROVE w[p] = v[p]
    OBVIOUS
  <2>1. s.start + p \in Nat /\ from < s.start + p /\ s.start + p <= end
    BY SMTT(30), <1>1, <1>2 DEF Shifts
  <2>2. q[(s.start + p) - from] = t[s.start + p]
    BY <2>1, CharCut
  <2>3. (s.start + p) - from = u.start + p
    BY <1>1, <1>2 DEF Shifts
  <2> QED BY <1>3, <1>4, <1>5, <2>2, <2>3
<1>7. Value(t, s) = v /\ Value(q, u) = w
  BY DEF Value
<1> HIDE DEF v, w
<1>8. v = w
  BY <1>3, <1>4, <1>5, <1>6
<1> QED BY <1>7, <1>8

\* Trimming the part of a span that the cut leaves, when what is trimmed is in the part.
LEMMA BeginsCut ==
    ASSUME NEW t, NEW q, NEW from, NEW end, Cutting(t, q, from, end),
           NEW s, s.start \in Nat, s.end \in Nat, s.end <= Len(t), NEW L,
           NEW a, BeginsAt(t, s, L, a),
           from <= a, a <= end,
           NEW u, u.start = (IF s.start >= from THEN s.start ELSE from) - from,
           u.end = (IF s.end <= end THEN s.end ELSE end) - from
    PROVE  BeginsAt(q, u, L, a - from)
<1>1. /\ from \in Nat /\ end \in Nat /\ from <= end /\ end <= Len(t) /\ Len(q) = end - from
      /\ Len(t) \in Nat
  BY DEF Cutting
<1>2. a \in s.start..s.end /\ a \in Nat /\ s.start <= a /\ a <= s.end
  BY DEF BeginsAt
<1>3. a - from \in u.start..u.end
  BY <1>1, <1>2
<1>4. a - from = u.end \/ q[(a - from) + 1] \notin L
  <2>1. CASE a = s.end
    BY <1>1, <1>2, <2>1
  <2>2. CASE a = end
    BY <1>1, <1>2, <2>2
  <2>3. CASE a # s.end /\ a # end
    <3>1. t[a + 1] \notin L
      BY <2>3 DEF BeginsAt
    <3>2. a + 1 \in Nat /\ from < a + 1 /\ a + 1 <= end /\ (a + 1) - from = (a - from) + 1
      BY <1>1, <1>2, <2>3
    <3>3. q[(a + 1) - from] = t[a + 1]
      BY <3>2, CharCut
    <3> QED BY <3>1, <3>2, <3>3
  <2> QED BY <2>1, <2>2, <2>3
<1>5. ASSUME NEW p \in (u.start + 1)..(a - from) PROVE q[p] \in L
  <2>1. from + p \in (s.start + 1)..a /\ p \in 1..(end - from)
    BY <1>1, <1>2
  <2> QED BY <2>1 DEF BeginsAt, Cutting
<1> QED BY <1>3, <1>4, <1>5 DEF BeginsAt

LEMMA EndsCut ==
    ASSUME NEW t, NEW q, NEW from, NEW end, Cutting(t, q, from, end),
           NEW s, s.start \in Nat, s.end \in Nat, s.end <= Len(t), NEW R, NEW a, NEW b,
           a \in Nat, EndsAt(t, s, R, a, b), from <= a, b <= end,
           NEW u, u.end = (IF s.end <= end THEN s.end ELSE end) - from
    PROVE  EndsAt(q, u, R, a - from, b - from)
<1>1. /\ from \in Nat /\ end \in Nat /\ from <= end /\ end <= Len(t) /\ Len(q) = end - from
      /\ Len(t) \in Nat
  BY DEF Cutting
<1>2. b \in Nat /\ a <= b /\ b <= s.end
  BY DEF EndsAt
<1>3. b - from \in (a - from)..u.end
  BY <1>1, <1>2
<1>4. b - from = a - from \/ q[b - from] \notin R
  <2>1. CASE b = a
    BY <2>1
  <2>2. CASE b # a
    <3>1. q[b - from] = t[b]
      <4>1. from < b
        BY <1>1, <1>2, <2>2
      <4> QED BY <1>2, <4>1, CharCut
    <3> QED BY <2>2, <3>1 DEF EndsAt
  <2> QED BY <2>1, <2>2
<1>5. ASSUME NEW p \in ((b - from) + 1)..u.end PROVE q[p] \in R
  <2>1. from + p \in (b + 1)..s.end /\ p \in 1..(end - from)
    BY <1>1, <1>2
  <2> QED BY <2>1 DEF EndsAt, Cutting
<1> QED BY <1>3, <1>4, <1>5 DEF EndsAt

LEMMA TrimIs ==
    ASSUME NEW t, NEW s, Part(t, s), NEW L, NEW R, NEW a, NEW b,
           BeginsAt(t, s, L, a), EndsAt(t, s, R, a, b)
    PROVE  Trim(t, s, L, R) = Crop(s, a, b)
<1>1. PICK c, d : /\ Trim(t, s, L, R) = [s EXCEPT !.start = c, !.end = d]
                  /\ BeginsAt(t, s, L, c) /\ EndsAt(t, s, R, c, d)
  BY TrimShape
<1>2. c = a
  BY <1>1, BeginOnce
<1>3. a \in s.start..s.end
  BY DEF BeginsAt
<1>4. d = b
  BY <1>1, <1>2, <1>3, EndOnce
<1> QED BY <1>1, <1>2, <1>4 DEF Crop

\* A span that is whole in the part is trimmed there as it is in the text.
LEMMA TrimCut ==
    ASSUME NEW t, NEW q, NEW from, NEW end, Cutting(t, q, from, end),
           NEW s, In(t, s), from <= s.start, s.end <= end, NEW L, NEW R
    PROVE  Trim(q, Moved(s, -from), L, R) = Moved(Trim(t, s, L, R), -from)
<1> DEFINE u == Moved(s, -from)
<1>1. from \in Nat /\ end \in Nat /\ end <= Len(t) /\ Len(t) \in Nat
  BY DEF Cutting
<1>2. s \in Span /\ s.start \in Nat /\ s.end \in Nat /\ s.start <= s.end /\ s.end <= Len(t)
  BY DEF In, Part
<1>3. /\ u \in Span /\ u.start = s.start - from /\ u.end = s.end - from
      /\ u.type = s.type /\ u.score = s.score
  <2>1. -from \in Int /\ s.start + (-from) \in Nat /\ s.end + (-from) \in Nat
        /\ s.start + (-from) = s.start - from /\ s.end + (-from) = s.end - from
    BY <1>1, <1>2
  <2> QED BY <1>2, <2>1, MovedShape
<1> HIDE DEF u
<1>4. PICK a, b : /\ Trim(t, s, L, R) = [s EXCEPT !.start = a, !.end = b]
                  /\ BeginsAt(t, s, L, a) /\ EndsAt(t, s, R, a, b)
  BY <1>2, TrimShape DEF Part
<1>5. a \in Nat /\ b \in Nat /\ s.start <= a /\ a <= b /\ b <= s.end
  BY <1>2, <1>4 DEF BeginsAt, EndsAt
<1>6. Shifts(u, s, from, end)
  BY <1>2, <1>3 DEF Shifts
<1>7. Part(q, u)
  BY <1>6, ShiftsPart
<1>8. from <= a /\ a <= end /\ b <= end
  BY <1>1, <1>2, <1>5
<1>9. /\ u.start = (IF s.start >= from THEN s.start ELSE from) - from
      /\ u.end = (IF s.end <= end THEN s.end ELSE end) - from
  BY <1>1, <1>2, <1>3
<1>10. BeginsAt(q, u, L, a - from)
  BY <1>2, <1>4, <1>8, <1>9, BeginsCut
<1>11. EndsAt(q, u, R, a - from, b - from)
  BY <1>2, <1>4, <1>5, <1>8, <1>9, EndsCut
<1>12. Trim(q, u, L, R) = Crop(u, a - from, b - from)
  BY <1>7, <1>10, <1>11, TrimIs
<1>13. Crop(u, a - from, b - from) = Moved(Crop(s, a, b), -from)
  <2>1. a + (-from) = a - from /\ b + (-from) = b - from
    BY <1>1, <1>5
  <2> QED BY <1>2, <1>3, <1>5, <2>1 DEF Crop, Moved, Span, u
<1> QED BY <1>4, <1>12, <1>13 DEF Crop, u

\* The word around a place: where it begins and where it ends.
WordFrom(t, x, a) ==
    a \in 0..x /\ (\A p \in (a + 1)..x : t[p] \notin White) /\ (a = 0 \/ t[a] \in White)
WordTo(t, x, b) ==
    b \in x..Len(t) /\ (\A p \in (x + 1)..b : t[p] \notin White)
    /\ (b = Len(t) \/ t[b + 1] \in White)

LEMMA WordFromExists ==
    ASSUME NEW t, NEW x \in Nat PROVE \E a : WordFrom(t, x, a)
<1> DEFINE A == {i \in Nat : i \in 0..x /\ (i = 0 \/ t[i] \in White)}
<1>1. 0 \in A /\ \A i \in A : i <= x
  OBVIOUS
<1>2. PICK a \in A : \A m \in A : m <= a
  <2> HIDE DEF A
  <2>1. A \in SUBSET Nat
    BY DEF A
  <2> QED BY <1>1, <2>1, Greatest
<1>3. ASSUME NEW p \in (a + 1)..x PROVE t[p] \notin White
  <2>1. p \in Nat /\ p \in 0..x /\ a < p
    OBVIOUS
  <2>2. p \notin A
    BY <1>2, <2>1
  <2> QED BY <2>1, <2>2
<1> QED BY <1>2, <1>3 DEF WordFrom

LEMMA WordToExists ==
    ASSUME NEW t, Len(t) \in Nat, NEW x \in Nat, x <= Len(t) PROVE \E b : WordTo(t, x, b)
<1> DEFINE B == {j \in Nat : j \in x..Len(t) /\ (j = Len(t) \/ t[j + 1] \in White)}
<1>1. Len(t) \in B
  OBVIOUS
<1>2. PICK b \in B : \A m \in B : b <= m
  <2> HIDE DEF B
  <2>1. B \in SUBSET Nat
    BY DEF B
  <2> QED BY <1>1, <2>1, Least
<1>3. ASSUME NEW p \in (x + 1)..b PROVE t[p] \notin White
  <2>1. p - 1 \in Nat /\ p - 1 \in x..Len(t) /\ p - 1 < b /\ (p - 1) + 1 = p /\ p - 1 # Len(t)
        /\ b \in Nat
    OBVIOUS
  <2>2. p - 1 \notin B
    <3> HIDE DEF B
    <3> QED BY <1>2, <2>1
  <2> QED BY <2>1, <2>2
<1> QED BY <1>2, <1>3 DEF WordTo

\* The words of a text, as a token sees them.
WordsOf(t) == Runs(t, Whole(t), ToSet(t) \ White)

LEMMA WordShape ==
    ASSUME NEW t \in Seq(STRING), NEW r
    PROVE  r \in WordsOf(t) <=>
               /\ r \in [start : 0..Len(t), end : 0..Len(t)] /\ r.start < r.end
               /\ \A p \in (r.start + 1)..r.end : t[p] \notin White
               /\ r.start = 0 \/ t[r.start] \in White
               /\ r.end = Len(t) \/ t[r.end + 1] \in White
<1>1. \A p \in 1..Len(t) : t[p] \in ToSet(t)
  BY DEF ToSet
<1>2. Whole(t).start = 0 /\ Whole(t).end = Len(t)
  BY DEF Whole, Interval
<1>3. \A a \in 0..Len(t) : a = 0 \/ a \in 1..Len(t)
  OBVIOUS
<1>4. \A a \in 0..Len(t) : a = Len(t) \/ a + 1 \in 1..Len(t)
  OBVIOUS
<1>5. ASSUME r \in [start : 0..Len(t), end : 0..Len(t)]
      PROVE  \A p \in (r.start + 1)..r.end : p \in 1..Len(t)
  BY <1>5
<1>6. r \in WordsOf(t) <=>
          /\ r \in [start : 0..Len(t), end : 0..Len(t)] /\ r.start < r.end
          /\ \A p \in (r.start + 1)..r.end : t[p] \in ToSet(t) \ White
          /\ r.start = 0 \/ t[r.start] \notin ToSet(t) \ White
          /\ r.end = Len(t) \/ t[r.end + 1] \notin ToSet(t) \ White
  BY <1>2 DEF WordsOf, Runs
<1> QED BY <1>1, <1>3, <1>4, <1>5, <1>6

\* _expand_token: the word around a span, trimmed.
LEMMA TokenFrom ==
    ASSUME NEW t \in Seq(STRING), NEW x \in Nat, x <= Len(t), NEW a, WordFrom(t, x, a)
    PROVE  Min({x} \cup {r.start : r \in {w \in WordsOf(t) : Holds(w, x)}}) = a
<1> DEFINE near == {w \in WordsOf(t) : Holds(w, x)}
           T == {x} \cup {r.start : r \in near}
<1>0. Len(t) \in Nat /\ a \in Nat /\ a <= x
  BY DEF WordFrom
<1>1. \A w \in near : w.start = a
  <2> SUFFICES ASSUME NEW w \in near PROVE w.start = a
    OBVIOUS
  <2>1. /\ w.start \in Nat /\ w.start < x /\ x <= w.end /\ w.end \in Nat
        /\ \A p \in (w.start + 1)..w.end : t[p] \notin White
        /\ w.start = 0 \/ t[w.start] \in White
    BY <1>0, WordShape DEF Holds
  <2>2. ~(w.start < a)
    <3> SUFFICES ASSUME w.start < a PROVE FALSE
      OBVIOUS
    <3>1. a \in (w.start + 1)..w.end /\ a # 0
      BY <1>0, <2>1
    <3> QED BY <2>1, <3>1 DEF WordFrom
  <2>3. ~(a < w.start)
    <3> SUFFICES ASSUME a < w.start PROVE FALSE
      OBVIOUS
    <3>1. w.start \in (a + 1)..x /\ w.start # 0
      BY <1>0, <2>1
    <3> QED BY <2>1, <3>1 DEF WordFrom
  <2> QED BY <1>0, <2>1, <2>2, <2>3
<1>2. a < x => near # {}
  <2> SUFFICES ASSUME a < x PROVE near # {}
    OBVIOUS
  <2>1. PICK b : WordTo(t, x, b)
    BY <1>0, WordToExists
  <2> DEFINE w == Interval(a, b)
  <2>2. w.start = a /\ w.end = b /\ w \in [start : 0..Len(t), end : 0..Len(t)] /\ a < b
        /\ x <= b
    BY <1>0, <2>1 DEF Interval, WordTo
  <2> HIDE DEF w
  <2>3. \A p \in (a + 1)..b : t[p] \notin White
    <3> SUFFICES ASSUME NEW p \in (a + 1)..b PROVE t[p] \notin White
      OBVIOUS
    <3>1. p \in (a + 1)..x \/ p \in (x + 1)..b
      BY <1>0, <2>1 DEF WordTo
    <3> QED BY <2>1, <3>1 DEF WordFrom, WordTo
  <2>4. w \in WordsOf(t)
    BY <2>1, <2>2, <2>3, WordShape DEF WordFrom, WordTo
  <2> QED BY <2>2, <2>4 DEF Holds
<1>3. T \subseteq {x, a} /\ a \in T
  <2>1. CASE a = x
    BY <1>1, <2>1
  <2>2. CASE a < x
    <3>1. PICK w \in near : TRUE
      BY <1>2, <2>2
    <3> HIDE DEF near
    <3> QED BY <1>1, <3>1
  <2>3. a = x \/ a < x
    BY <1>0
  <2> HIDE DEF T
  <2> QED BY <2>1, <2>2, <2>3
<1> HIDE DEF T
<1>4. T \in SUBSET Nat /\ T # {} /\ \A m \in T : a <= m
  BY <1>0, <1>3
<1>5. Min(T) \in T /\ \A m \in T : Min(T) <= m
  BY <1>4, MinOf
<1>6. Min(T) \in Nat /\ Min(T) <= a /\ a <= Min(T)
  BY <1>3, <1>4, <1>5
<1> QED BY <1>0, <1>6 DEF T

LEMMA TokenTo ==
    ASSUME NEW t \in Seq(STRING), NEW x \in Nat, x <= Len(t), NEW b, WordTo(t, x, b)
    PROVE  Max({x} \cup {r.end : r \in {w \in WordsOf(t) : Holds(w, x + 1)}}) = b
<1> DEFINE near == {w \in WordsOf(t) : Holds(w, x + 1)}
           T == {x} \cup {r.end : r \in near}
<1>0. Len(t) \in Nat /\ b \in Nat /\ x <= b /\ b <= Len(t)
  BY DEF WordTo
<1>1. \A w \in near : w.end = b
  <2> SUFFICES ASSUME NEW w \in near PROVE w.end = b
    OBVIOUS
  <2>1. /\ w.start \in Nat /\ w.start <= x /\ x < w.end /\ w.end \in Nat /\ w.end <= Len(t)
        /\ \A p \in (w.start + 1)..w.end : t[p] \notin White
        /\ w.end = Len(t) \/ t[w.end + 1] \in White
    BY <1>0, WordShape DEF Holds
  <2>2. ~(b < w.end)
    <3> SUFFICES ASSUME b < w.end PROVE FALSE
      OBVIOUS
    <3>1. b + 1 \in (w.start + 1)..w.end /\ b # Len(t)
      BY <1>0, <2>1
    <3> QED BY <2>1, <3>1 DEF WordTo
  <2>3. ~(w.end < b)
    <3> SUFFICES ASSUME w.end < b PROVE FALSE
      OBVIOUS
    <3>1. w.end + 1 \in (x + 1)..b /\ w.end # Len(t)
      BY <1>0, <2>1
    <3> QED BY <2>1, <3>1 DEF WordTo
  <2> QED BY <1>0, <2>1, <2>2, <2>3
<1>2. x < b => near # {}
  <2> SUFFICES ASSUME x < b PROVE near # {}
    OBVIOUS
  <2>1. PICK a : WordFrom(t, x, a)
    BY WordFromExists
  <2> DEFINE w == Interval(a, b)
  <2>2. w.start = a /\ w.end = b /\ w \in [start : 0..Len(t), end : 0..Len(t)] /\ a < b
        /\ a <= x
    BY <1>0, <2>1 DEF Interval, WordFrom
  <2> HIDE DEF w
  <2>3. \A p \in (a + 1)..b : t[p] \notin White
    <3> SUFFICES ASSUME NEW p \in (a + 1)..b PROVE t[p] \notin White
      OBVIOUS
    <3>1. p \in (a + 1)..x \/ p \in (x + 1)..b
      BY <1>0, <2>1 DEF WordFrom
    <3> QED BY <2>1, <3>1 DEF WordFrom, WordTo
  <2>4. w \in WordsOf(t)
    BY <2>1, <2>2, <2>3, WordShape DEF WordFrom, WordTo
  <2>5. Holds(w, x + 1)
    BY <1>0, <2>1, <2>2 DEF Holds, WordFrom
  <2> QED BY <2>4, <2>5
<1>3. T \subseteq {x, b} /\ b \in T
  <2>1. CASE b = x
    BY <1>1, <2>1
  <2>2. CASE x < b
    <3>1. PICK w \in near : TRUE
      BY <1>2, <2>2
    <3> HIDE DEF near
    <3> QED BY <1>1, <3>1
  <2> QED BY <1>0, <2>1, <2>2
<1> HIDE DEF T
<1>4. T \in SUBSET Nat /\ T # {} /\ \A m \in T : m <= b
  BY <1>0, <1>3
<1>5. Max(T) \in T /\ \A m \in T : m <= Max(T)
  BY <1>0, <1>4, MaxOf
<1>6. Max(T) \in Nat /\ Max(T) <= b /\ b <= Max(T)
  BY <1>3, <1>4, <1>5
<1> QED BY <1>0, <1>6 DEF T

LEMMA TokenIs ==
    ASSUME NEW t \in Seq(STRING), NEW s, Part(t, s), NEW a, WordFrom(t, s.start, a),
           NEW b, WordTo(t, s.end, b)
    PROVE  Token(t, s) = Trim(t, Interval(a, b), TrimLeft, TrimRight)
<1>1. s.start \in Nat /\ s.end \in Nat /\ s.start <= Len(t) /\ s.end <= Len(t)
  BY DEF Part
<1>2. Min({s.start} \cup {r.start : r \in {w \in WordsOf(t) : Holds(w, s.start)}}) = a
  BY <1>1, TokenFrom
<1>3. Max({s.end} \cup {r.end : r \in {w \in WordsOf(t) : Holds(w, s.end + 1)}}) = b
  BY <1>1, TokenTo
<1> QED BY <1>2, <1>3 DEF Token, WordsOf

LEMMA WordsCut ==
    ASSUME NEW t, NEW q, NEW from, NEW end, Cutting(t, q, from, end),
           NEW u, NEW s, Shifts(u, s, from, end),
           NEW a, WordFrom(t, s.start, a), NEW b, WordTo(t, s.end, b)
    PROVE  /\ WordFrom(q, u.start, (IF a >= from THEN a ELSE from) - from)
           /\ WordTo(q, u.end, (IF b <= end THEN b ELSE end) - from)
<1> DEFINE c == (IF a >= from THEN a ELSE from) - from
           d == (IF b <= end THEN b ELSE end) - from
<1>1. /\ from \in Nat /\ end \in Nat /\ from <= end /\ end <= Len(t) /\ Len(q) = end - from
      /\ Len(t) \in Nat
  BY DEF Cutting
<1>2. /\ s.start \in Nat /\ s.end \in Nat /\ from <= s.start /\ s.start <= s.end /\ s.end <= end
      /\ u.start = s.start - from /\ u.end = s.end - from
  BY DEF Shifts
<1>3. a \in Nat /\ a <= s.start /\ b \in Nat /\ s.end <= b /\ b <= Len(t)
  BY <1>1, <1>2 DEF WordFrom, WordTo
<1>4. c \in 0..u.start /\ d \in u.end..Len(q)
  BY <1>1, <1>2, <1>3
<1>5. ASSUME NEW p \in (c + 1)..u.start PROVE q[p] \notin White
  <2>1. from + p \in (a + 1)..s.start /\ p \in 1..(end - from)
    BY <1>1, <1>2, <1>3
  <2> QED BY <2>1 DEF WordFrom, Cutting
<1>6. c = 0 \/ q[c] \in White
  <2>1. CASE a <= from
    BY <1>1, <1>3, <2>1
  <2>2. CASE from < a
    <3>1. t[a] \in White
      BY <1>1, <1>3, <2>2 DEF WordFrom
    <3>2. q[a - from] = t[a]
      BY <1>1, <1>2, <1>3, <2>2, CharCut
    <3> QED BY <1>1, <1>3, <2>2, <3>1, <3>2
  <2> QED BY <1>1, <1>3, <2>1, <2>2
<1>7. ASSUME NEW p \in (u.end + 1)..d PROVE q[p] \notin White
  <2>1. from + p \in (s.end + 1)..b /\ p \in 1..(end - from)
    BY <1>1, <1>2, <1>3
  <2> QED BY <2>1 DEF WordTo, Cutting
<1>8. d = Len(q) \/ q[d + 1] \in White
  <2>1. CASE end <= b
    BY <1>1, <1>3, <2>1
  <2>2. CASE b < end
    <3>1. t[b + 1] \in White
      BY <1>1, <1>3, <2>2 DEF WordTo
    <3>2. q[(b + 1) - from] = t[b + 1] /\ (b + 1) - from = (b - from) + 1
      <4>1. b + 1 \in Nat /\ from < b + 1 /\ b + 1 <= end /\ (b + 1) - from = (b - from) + 1
        BY <1>1, <1>2, <1>3, <2>2
      <4> QED BY <4>1, CharCut
    <3> QED BY <1>1, <1>3, <2>2, <3>1, <3>2
  <2> QED BY <1>1, <1>3, <2>1, <2>2
<1> QED BY <1>4, <1>5, <1>6, <1>7, <1>8 DEF WordFrom, WordTo

\* A token of the text that is whole in the part is a token of the part.
LEMMA TokenCut ==
    ASSUME NEW t, NEW q, NEW from, NEW end, Cutting(t, q, from, end),
           NEW u, NEW s, Shifts(u, s, from, end),
           from <= Token(t, s).start, Token(t, s).end <= end
    PROVE  Shifts(Token(q, u), Token(t, s), from, end)
<1>1. /\ from \in Nat /\ end \in Nat /\ from <= end /\ end <= Len(t) /\ Len(q) = end - from
      /\ t \in Seq(STRING) /\ q \in Seq(STRING) /\ Len(t) \in Nat
  BY DEF Cutting
<1>2. Part(t, s) /\ Part(q, u)
  BY ShiftsPart
<1>3. /\ s.start \in Nat /\ s.end \in Nat /\ s.start <= s.end /\ s.end <= Len(t)
      /\ from <= s.start /\ s.end <= end
  BY <1>2 DEF Part, Shifts
<1>4. PICK a : WordFrom(t, s.start, a)
  BY <1>3, WordFromExists
<1>5. PICK b : WordTo(t, s.end, b)
  BY <1>1, <1>3, WordToExists
<1> DEFINE i == Interval(a, b)
           e == (IF a >= from THEN a ELSE from) - from
           f == (IF b <= end THEN b ELSE end) - from
           j == Interval(e, f)
<1>6. i.start = a /\ i.end = b /\ j.start = e /\ j.end = f
  BY DEF Interval
<1>7. a \in Nat /\ b \in Nat /\ a <= s.start /\ s.end <= b /\ b <= Len(t)
  BY <1>1, <1>3, <1>4, <1>5 DEF WordFrom, WordTo
<1>8. WordFrom(q, u.start, e) /\ WordTo(q, u.end, f)
  BY <1>4, <1>5, WordsCut
<1>9. Token(t, s) = Trim(t, i, TrimLeft, TrimRight)
  BY <1>1, <1>2, <1>4, <1>5, TokenIs
<1>10. Token(q, u) = Trim(q, j, TrimLeft, TrimRight)
  BY <1>1, <1>2, <1>8, TokenIs
<1>11. Part(t, i) /\ Part(q, j)
  BY SMTT(30), <1>1, <1>3, <1>6, <1>7 DEF Part
<1> HIDE DEF i, j
<1>12. PICK c, d : /\ Token(t, s) = [i EXCEPT !.start = c, !.end = d]
                   /\ BeginsAt(t, i, TrimLeft, c) /\ EndsAt(t, i, TrimRight, c, d)
  BY <1>9, <1>11, TrimShape
<1>13. c \in Nat /\ d \in Nat /\ a <= c /\ c <= d /\ d <= b
  BY <1>6, <1>7, <1>12 DEF BeginsAt, EndsAt
<1>14. Token(t, s).start = c /\ Token(t, s).end = d
  BY <1>12 DEF i, Interval
<1>15. from <= c /\ c <= end /\ d <= end
  BY <1>1, <1>13, <1>14
<1>16. BeginsAt(q, j, TrimLeft, c - from)
  BY <1>6, <1>7, <1>12, <1>15, BeginsCut
<1>17. EndsAt(q, j, TrimRight, c - from, d - from)
  BY <1>6, <1>7, <1>12, <1>13, <1>15, EndsCut
<1>18. Token(q, u) = Crop(j, c - from, d - from)
  BY <1>10, <1>11, <1>16, <1>17, TrimIs
<1>19. Token(q, u).start = c - from /\ Token(q, u).end = d - from
  BY <1>18 DEF Crop, j, Interval
<1> QED BY <1>13, <1>14, <1>15, <1>19 DEF Shifts

\* A path segment of the token in the part is one of the token in the text.
LEMMA SegmentCut ==
    ASSUME NEW t, NEW q, NEW from, NEW end, Cutting(t, q, from, end),
           NEW u, NEW s, Shifts(u, s, from, end),
           NEW r \in Runs(q, u, ToSet(q) \ {"/"})
    PROVE  \E w \in Runs(t, s, ToSet(t) \ {"/"}) : Value(t, w) = Value(q, r)
<1>1. /\ from \in Nat /\ end \in Nat /\ from <= end /\ end <= Len(t) /\ Len(q) = end - from
      /\ t \in Seq(STRING) /\ q \in Seq(STRING) /\ Len(t) \in Nat
  BY DEF Cutting
<1>2. /\ s.start \in Nat /\ s.end \in Nat /\ from <= s.start /\ s.start <= s.end /\ s.end <= end
      /\ u.start = s.start - from /\ u.end = s.end - from
  BY DEF Shifts
<1>3. /\ r \in [start : u.start..u.end, end : u.start..u.end] /\ r.start < r.end
      /\ \A p \in (r.start + 1)..r.end : q[p] \in ToSet(q) \ {"/"}
      /\ r.start = u.start \/ q[r.start] \notin ToSet(q) \ {"/"}
      /\ r.end = u.end \/ q[r.end + 1] \notin ToSet(q) \ {"/"}
  BY DEF Runs
<1>4. \A p \in 1..Len(q) : q[p] \in ToSet(q)
  BY DEF ToSet
<1>5. \A p \in 1..Len(t) : t[p] \in ToSet(t)
  BY DEF ToSet
<1> DEFINE a == r.start + from
           b == r.end + from
           w == Interval(a, b)
<1>6. w.start = a /\ w.end = b /\ w = [start |-> a, end |-> b]
  BY DEF Interval
<1>7. /\ r.start \in Nat /\ r.end \in Nat /\ u.start <= r.start /\ r.end <= u.end
      /\ a \in s.start..s.end /\ b \in s.start..s.end /\ a < b /\ a \in Nat /\ b \in Nat
  <2>1. r.start \in u.start..u.end /\ r.end \in u.start..u.end
    BY <1>3
  <2>2. u.start \in Nat /\ u.end \in Nat
    BY <1>1, <1>2
  <2>3. r.start \in Nat /\ r.end \in Nat /\ u.start <= r.start /\ r.end <= u.end
    BY <2>1, <2>2
  <2>4. r.start < r.end
    BY <1>3
  <2>5. a \in Nat /\ b \in Nat
    BY <1>1, <2>3
  <2>6. s.start <= a
    BY <1>1, <1>2, <2>3
  <2>7. b <= s.end
    BY <1>1, <1>2, <2>3
  <2>8. a < b
    BY <1>1, <2>3, <2>4
  <2> QED BY SMTT(30), <1>1, <1>2, <2>3, <2>5, <2>6, <2>7, <2>8
<1> HIDE DEF a, b, w
<1>14. r.start = a - from /\ r.end = b - from /\ from <= a /\ b <= end
  <2>1. a = r.start + from /\ b = r.end + from
    BY DEF a, b
  <2>2. r.start = a - from /\ r.end = b - from
    BY <1>1, <1>7, <2>1
  <2>3. s.start <= a /\ b <= s.end
    BY <1>2, <1>7
  <2>4. from <= a /\ b <= end
    BY <1>1, <1>2, <1>7, <2>3
  <2> QED BY <2>2, <2>4
<1>8. ASSUME NEW p \in (a + 1)..b PROVE t[p] \in ToSet(t) \ {"/"}
  <2>0. p \in Nat /\ a < p /\ p <= b
    BY <1>7
  <2>1. p - from \in (r.start + 1)..r.end /\ p \in Nat /\ from < p /\ p <= end
        /\ p \in 1..Len(t)
    BY <1>1, <1>7, <1>14, <2>0
  <2>2. q[p - from] = t[p]
    BY <2>1, CharCut
  <2> QED BY <1>3, <1>5, <2>1, <2>2
<1>9. a = s.start \/ t[a] \notin ToSet(t) \ {"/"}
  <2>1. CASE r.start = u.start
    BY <1>1, <1>2, <1>7, <1>14, <2>1
  <2>2. CASE r.start # u.start
    <3>1. r.start \in 1..Len(q) /\ from < a /\ a <= end /\ a - from = r.start
      <4>1. u.start \in Nat /\ u.start < r.start
        BY <1>1, <1>2, <1>7, <2>2
      <4> QED BY <1>1, <1>7, <1>14, <4>1
    <3>2. q[r.start] = "/"
      BY <1>3, <1>4, <2>2, <3>1
    <3>3. q[a - from] = t[a]
      BY <1>7, <3>1, CharCut
    <3> QED BY <3>1, <3>2, <3>3
  <2> QED BY <2>1, <2>2
<1>10. b = s.end \/ t[b + 1] \notin ToSet(t) \ {"/"}
  <2>1. CASE r.end = u.end
    BY <1>1, <1>2, <1>7, <1>14, <2>1
  <2>2. CASE r.end # u.end
    <3>1. /\ r.end + 1 \in 1..Len(q) /\ from < b + 1 /\ b + 1 <= end
          /\ (b + 1) - from = r.end + 1 /\ b + 1 \in Nat
      <4>1. u.end \in Nat /\ r.end < u.end /\ u.end <= end - from
        BY SMTT(30), <1>1, <1>2, <1>7, <2>2
      <4> QED BY <1>1, <1>7, <1>14, <4>1
    <3>2. q[r.end + 1] = "/"
      BY <1>3, <1>4, <2>2, <3>1
    <3>3. q[(b + 1) - from] = t[b + 1]
      BY <3>1, CharCut
    <3> QED BY <3>1, <3>2, <3>3
  <2> QED BY <2>1, <2>2
<1>11. w \in Runs(t, s, ToSet(t) \ {"/"})
  BY <1>6, <1>7, <1>8, <1>9, <1>10 DEF Runs
<1>12. Shifts(r, w, from, end)
  <2>1. a <= b
    BY <1>7
  <2> QED BY <1>6, <1>7, <1>14, <2>1 DEF Shifts
<1>13. Value(q, r) = Value(t, w)
  BY <1>12, ValueCut
<1> QED BY <1>11, <1>13

\* What the service finds public in the part is public in the text.
LEMMA PublicCut ==
    ASSUME NEW t, NEW q, NEW from, NEW end, Cutting(t, q, from, end),
           NEW u, NEW s, Shifts(u, s, from, end), u.type = s.type,
           from <= Token(t, s).start, Token(t, s).end <= end, PublicToken(q, u)
    PROVE  PublicToken(t, s)
<1>1. Shifts(Token(q, u), Token(t, s), from, end)
  BY TokenCut
<1>2. Value(q, Token(q, u)) = Value(t, Token(t, s)) /\ Value(q, u) = Value(t, s)
  BY <1>1, ValueCut
<1>3. (\E r \in Runs(q, Token(q, u), ToSet(q) \ {"/"}) : Value(q, r) = Value(q, u))
      => \E r \in Runs(t, Token(t, s), ToSet(t) \ {"/"}) : Value(t, r) = Value(t, s)
  BY <1>1, <1>2, SegmentCut
<1> QED BY <1>2, <1>3 DEF PublicToken

LEMMA TokenPart ==
    ASSUME NEW t \in Seq(STRING), NEW s, Part(t, s)
    PROVE  Part(t, Token(t, s))
<1>1. s.start \in Nat /\ s.end \in Nat /\ s.start <= s.end /\ s.end <= Len(t) /\ Len(t) \in Nat
  BY DEF Part
<1>2. PICK a : WordFrom(t, s.start, a)
  BY <1>1, WordFromExists
<1>3. PICK b : WordTo(t, s.end, b)
  BY <1>1, WordToExists
<1> DEFINE i == Interval(a, b)
<1>4. i.start = a /\ i.end = b
  BY DEF Interval
<1>5. a \in Nat /\ b \in Nat /\ a <= s.start /\ s.end <= b /\ b <= Len(t)
  BY <1>1, <1>2, <1>3 DEF WordFrom, WordTo
<1>6. Token(t, s) = Trim(t, i, TrimLeft, TrimRight)
  BY <1>2, <1>3, TokenIs
<1>7. Part(t, i)
  BY <1>1, <1>4, <1>5 DEF Part
<1> HIDE DEF i
<1>8. PICK c, d : /\ Token(t, s) = [i EXCEPT !.start = c, !.end = d]
                  /\ BeginsAt(t, i, TrimLeft, c) /\ EndsAt(t, i, TrimRight, c, d)
  BY <1>6, <1>7, TrimShape
<1>9. Token(t, s).start = c /\ Token(t, s).end = d
  BY <1>8 DEF i, Interval
<1>10. c \in Nat /\ d \in Nat /\ c <= d /\ d <= b
  BY <1>4, <1>5, <1>8 DEF BeginsAt, EndsAt
<1> QED BY <1>1, <1>5, <1>9, <1>10 DEF Part

\* The part of the text that one piece is.
LEMMA PieceCut ==
    ASSUME world \in Worlds, NEW from \in Nat, NEW end \in Nat, from <= end, end <= Len(text)
    PROVE  Cutting(text, SubSeq(text, from + 1, end), from, end)
BY TextType, PieceShape DEF Cutting

\* What the part is asked about is what was found there, moved.
Near(from, end, cut) == {Moved(f, -from) : f \in FoundIn(from, end, cut)}

LEMMA NearShape ==
    ASSUME world \in Worlds, NEW from \in Nat, NEW end \in Nat, from <= end, end <= Len(text),
           NEW cut \in SUBSET CutOff(from, end), NEW m \in Near(from, end, cut)
    PROVE  /\ In(SubSeq(text, from + 1, end), m)
           /\ \E e \in world.infra : e.start <= m.start + from /\ m.end + from <= e.end
<1>1. PICK f \in FoundIn(from, end, cut) : m = Moved(f, -from)
  BY DEF Near
<1>2. f \in Span /\ from <= f.start /\ f.start <= f.end /\ f.end <= end
  BY FoundShape
<1>3. PICK e \in world.infra : Inside(f, e)
  BY FoundShape
<1>4. f.start \in Nat /\ f.end \in Nat
  BY <1>2 DEF Span
<1>5. m \in Span /\ m.start = f.start + (-from) /\ m.end = f.end + (-from)
  <2>1. -from \in Int /\ f.start + (-from) \in Nat /\ f.end + (-from) \in Nat
    BY <1>2, <1>4
  <2> QED BY <1>1, <1>2, <2>1, MovedShape
<1>6. Cutting(text, SubSeq(text, from + 1, end), from, end)
  BY PieceCut
<1>7. m.start + from = f.start /\ m.end + from = f.end
  BY <1>4, <1>5
<1>8. Len(SubSeq(text, from + 1, end)) = end - from
  BY <1>6 DEF Cutting
<1>9. m.start \in Nat /\ m.end \in Nat /\ m.start <= m.end /\ m.end <= end - from
  BY <1>2, <1>4, <1>5
<1> QED BY <1>3, <1>5, <1>7, <1>8, <1>9 DEF In, Part, Inside

\* Two spans with the same fields are one.
LEMMA SameSpan ==
    ASSUME NEW a \in Span, NEW b \in Span, a.type = b.type, a.start = b.start, a.end = b.end,
           a.score = b.score
    PROVE  a = b
BY DEF Span

\* An entity that the detector is certain to see is answered for by any piece that holds it
\* and its token.
LEMMA SeenAnswered ==
    ASSUME world \in Worlds, NEW from \in Nat, NEW end \in Nat, from <= end, end <= Len(text),
           NEW cut \in SUBSET CutOff(from, end), NEW e \in world.infra, Seen(e),
           from <= e.start, e.end <= end,
           from <= Token(text, Trim(text, e, TrimLeft, TrimRight)).start,
           Token(text, Trim(text, e, TrimLeft, TrimRight)).end <= end
    PROVE  Trim(text, e, TrimLeft, TrimRight) \in Answered(from, end, cut)
<1> DEFINE q == SubSeq(text, from + 1, end)
           s == Trim(text, e, TrimLeft, TrimRight)
           near == Near(from, end, cut)
           m == Moved(e, -from)
           u == Moved(s, -from)
           trimmed == {Trim(q, f, TrimLeft, TrimRight) :
                          f \in {g \in near : Value(q, g) \notin AllowExact}}
<1>1. Cutting(text, q, from, end)
  BY PieceCut
<1>2. In(text, e)
  BY TextType, WorldAssumption DEF In, Part, Span, text
<1>3. In(text, s) /\ Inside(s, e) /\ s.type = e.type
  BY <1>2, TrimIn
<1>4. /\ e \in Span /\ e.start \in Nat /\ e.end \in Nat /\ e.start <= e.end
      /\ s \in Span /\ s.start \in Nat /\ s.end \in Nat /\ s.start <= s.end
      /\ e.start <= s.start /\ s.end <= e.end
  BY <1>2, <1>3 DEF In, Part, Inside
<1>5. u = Trim(q, m, TrimLeft, TrimRight)
  BY <1>1, <1>2, TrimCut
<1>6. from <= s.start /\ s.end <= end
  BY <1>4
<1>7. /\ -from \in Int /\ e.start + (-from) \in Nat /\ e.end + (-from) \in Nat
      /\ s.start + (-from) \in Nat /\ s.end + (-from) \in Nat
  BY SMTT(30), <1>4, <1>6
<1>8. /\ m.start = e.start + (-from) /\ m.end = e.end + (-from)
      /\ u \in Span /\ u.start = s.start + (-from) /\ u.end = s.end + (-from) /\ u.type = s.type
  BY <1>4, <1>7, MovedShape
<1>9. Shifts(m, e, from, end) /\ Shifts(u, s, from, end)
  <2>1. m.start = e.start - from /\ m.end = e.end - from
        /\ u.start = s.start - from /\ u.end = s.end - from
    BY <1>4, <1>8
  <2> HIDE DEF m, u, s
  <2> QED BY <1>4, <1>6, <2>1 DEF Shifts
<1>10. m \in near
  <2>1. e \in FoundIn(from, end, cut)
    BY DEF FoundIn
  <2> QED BY <2>1 DEF Near
<1>11. Value(q, m) = Value(text, e) /\ Value(q, u) = Value(text, s)
  <2> HIDE DEF m, u, s, q
  <2> QED BY <1>1, <1>9, ValueCut
<1>12. u \in trimmed
  <2>1. Value(q, m) \notin AllowExact
    BY <1>11 DEF Seen
  <2> HIDE DEF u, m, q, near
  <2> QED BY <1>5, <1>10, <2>1
<1>13. ~FalseCard(q, u, trimmed)
  <2> SUFFICES ASSUME u.type = "CREDIT_CARD", Value(q, u) \in NotCards,
                      NEW a \in trimmed, Inside(u, a), a.end - a.start > u.end - u.start
               PROVE  FalseCard(text, s, world.infra)
    BY DEF FalseCard, Seen
  <2>1. PICK f \in near : a = Trim(q, f, TrimLeft, TrimRight)
    OBVIOUS
  <2>2. PICK g \in world.infra : g.start <= f.start + from /\ f.end + from <= g.end
    BY NearShape
  <2>3. In(q, f)
    BY NearShape
  <2> HIDE DEF q, near, u, s, trimmed
  <2>4. In(q, a) /\ Inside(a, f)
    BY <2>1, <2>3, TrimIn
  <2>5. /\ a.start \in Nat /\ a.end \in Nat /\ f.start \in Nat /\ f.end \in Nat
        /\ f.start <= a.start /\ a.end <= f.end /\ a.start <= u.start /\ u.end <= a.end
    BY <2>3, <2>4 DEF In, Part, Inside
  <2>6. g.start \in Nat /\ g.end \in Nat
    BY WorldAssumption DEF Span
  <2>7. g.start <= s.start /\ s.end <= g.end /\ g.end - g.start > s.end - s.start
    <3>1. s.start = u.start + from /\ s.end = u.end + from /\ u.start \in Nat /\ u.end \in Nat
      <4>1. u.start = s.start - from /\ u.end = s.end - from
        BY <1>9 DEF Shifts
      <4>2. s.start \in Nat /\ s.end \in Nat /\ from <= s.start /\ s.start <= s.end
        BY <1>4, <1>6
      <4> QED BY <4>1, <4>2
    <3>2. g.start <= a.start + from /\ a.end + from <= g.end
      BY SMTT(30), <2>2, <2>5, <2>6
    <3>3. a.start <= u.start /\ u.end <= a.end /\ a.end - a.start > u.end - u.start
      BY <2>5
    <3>4. a.start + from <= u.start + from /\ u.end + from <= a.end + from
      BY <2>5, <3>1, <3>3
    <3>5. g.start <= u.start + from
      BY <2>5, <2>6, <3>1, <3>2, <3>4
    <3>6. u.end + from <= g.end
      BY <2>5, <2>6, <3>1, <3>2, <3>4
    <3>7. g.end - g.start > u.end - u.start
      <4>1. g.end - g.start >= (a.end + from) - (a.start + from)
        BY <2>5, <2>6, <3>2
      <4>2. (a.end + from) - (a.start + from) = a.end - a.start
        BY <2>5
      <4> QED BY SMTT(30), <2>5, <2>6, <3>1, <3>3, <4>1, <4>2
    <3>8. u.end - u.start = s.end - s.start
      BY <3>1
    <3> QED BY <3>1, <3>5, <3>6, <3>7, <3>8
  <2> QED BY <1>8, <1>11, <2>7 DEF FalseCard, Inside
<1>14. ~PublicToken(q, u)
  <2>1. ~PublicToken(text, s)
    BY DEF Seen
  <2> HIDE DEF u, s, q
  <2> QED BY <1>1, <1>8, <1>9, <2>1, PublicCut DEF s
<1>15. u \in Serviced(q, near)
  BY <1>12, <1>13, <1>14 DEF Serviced
<1>16. Moved(u, from) = s
  <2> HIDE DEF s
  <2>1. u.score = s.score
    BY <1>4, <1>7, MovedShape
  <2> HIDE DEF u
  <2>2. u.start + from = s.start /\ u.end + from = s.end
    BY <1>4, <1>8
  <2>3. u.start + from \in Nat /\ u.end + from \in Nat /\ from \in Int
    BY <1>4, <2>2
  <2>4. /\ Moved(u, from) \in Span /\ Moved(u, from).start = s.start
        /\ Moved(u, from).end = s.end /\ Moved(u, from).type = s.type
        /\ Moved(u, from).score = s.score
    BY <1>8, <2>1, <2>2, <2>3, MovedShape
  <2> QED BY <1>4, <2>4, SameSpan
<1>17. Moved(u, from) \in Answered(from, end, cut)
  <2> HIDE DEF u
  <2> QED BY <1>15 DEF Answered, Near, FoundIn
<1> QED BY <1>16, <1>17

----------------------------------------------------------------------------
(* What the detectors have reported. *)

\* What they report is in the text.
SpansIn == \A s \in spans : In(text, s)

\* A span from a begin mark to an end mark: a block, of the text or of a piece of it.
Marked(s) ==
    s.start < s.end /\ s.type = "CERTIFICATE" /\ text[s.start + 1] = "[" /\ text[s.end] = "]"

\* The service answers for what it found, and for the blocks.
FromInfra ==
    at \in {"infra", "personal"} =>
        \A s \in spans : Marked(s) \/ \E e \in world.infra : Inside(s, e)

\* What is certain to be seen is reported, or is whole in what the next pieces hold.
SeenYet ==
    at # "refused" =>
        \A e \in world.infra : Seen(e) =>
            LET s == Trim(text, e, TrimLeft, TrimRight)
            IN  \/ s \in spans
                \/ at = "infra" /\ pos <= e.start /\ pos <= Token(text, s).start

BlocksYet == at \notin {"infra", "refused"} => Blocks(text) \subseteq spans

\* A certain entity is reported; a token that is ours and unseen is reported whole.
Named(f) == LET s == Trim(text, f, Borders, Borders) IN s.start < s.end => s \in spans
Claimed(r) == (\E s \in spans : ~Public(s) /\ Inside(r, s)) \/ ~Has(text, r, Alnum)

PersonalYet ==
    at \notin {"infra", "personal", "refused"} =>
        /\ \A f \in world.personal : Certain(f) => Named(f)
        /\ \A r \in Runs(text, Whole(text), TokenChars) : OursUnseen(r) => Claimed(r)
        /\ \A f \in world.personal : InText(f)
        /\ Personal(text, world.personal) \subseteq spans

Reported == Place /\ SpansIn /\ FromInfra /\ SeenYet /\ BlocksYet /\ PersonalYet

\* All this is about the world, that no step changes.
LEMMA WorldUnchanged ==
    ASSUME world' = world
    PROVE  /\ text' = text
           /\ \A e : Seen(e)' <=> Seen(e)
           /\ \A f : Certain(f)' <=> Certain(f)
           /\ \A r : OursUnseen(r)' <=> OursUnseen(r)
<1>1. text' = text
  BY DEF text
<1>2. \A e : Seen(e)' <=> Seen(e)
  BY <1>1 DEF Seen, Long
<1>3. \A f : Certain(f)' <=> Certain(f)
  BY <1>1 DEF Certain, InText
<1>4. \A r : OursUnseen(r)' <=> OursUnseen(r)
  BY <1>1 DEF OursUnseen
<1> QED BY <1>1, <1>2, <1>3, <1>4

LEMMA AnsweredFrom ==
    ASSUME world \in Worlds, NEW from \in Nat, NEW end \in Nat, from <= end, end <= Len(text),
           NEW cut \in SUBSET CutOff(from, end), NEW s \in Answered(from, end, cut)
    PROVE  Marked(s) \/ \E e \in world.infra : Inside(s, e)
<1> DEFINE q == SubSeq(text, from + 1, end)
           near == Near(from, end, cut)
<1>1. Cutting(text, q, from, end)
  BY PieceCut
<1>2. /\ text \in Seq(STRING) /\ Len(text) \in Nat /\ Len(q) = end - from
      /\ q \in Seq(STRING)
  BY <1>1, TextType DEF Cutting
<1>3. PICK b \in Serviced(q, near) \cup Blocks(q) : s = Moved(b, from)
  BY DEF Answered, Near, FoundIn
<1>4. CASE b \in Serviced(q, near)
  <2>1. \A m \in near : In(q, m)
    BY NearShape
  <2>2. PICK m \in near : b = Trim(q, m, TrimLeft, TrimRight)
    <3> HIDE DEF q, near
    <3> QED BY <1>4, <2>1, ServicedShape
  <2>3. PICK e \in world.infra : e.start <= m.start + from /\ m.end + from <= e.end
    BY NearShape
  <2> HIDE DEF q, near
  <2>4. In(q, m) /\ In(q, b) /\ Inside(b, m)
    BY <2>1, <2>2, TrimIn
  <2>5. /\ m.start \in Nat /\ m.end \in Nat /\ b.start \in Nat /\ b.end \in Nat /\ b \in Span
        /\ m.start <= b.start /\ b.end <= m.end
    BY <2>4 DEF In, Part, Inside
  <2>6. s.start = b.start + from /\ s.end = b.end + from
    <3>1. from \in Int /\ b.start + from \in Nat /\ b.end + from \in Nat
      BY <2>5
    <3> QED BY <1>3, <2>5, <3>1, MovedShape
  <2>7. e.start \in Nat /\ e.end \in Nat
    BY WorldAssumption DEF Span
  <2>8. e.start <= s.start /\ s.end <= e.end
    BY <2>3, <2>5, <2>6, <2>7
  <2> QED BY <2>8 DEF Inside
<1>5. CASE b \in Blocks(q)
  <2> HIDE DEF q
  <2>1. PICK r \in [start : 0..Len(q), end : 1..Len(q)] :
            /\ r.start < r.end /\ q[r.start + 1] = "[" /\ q[r.end] = "]"
            /\ b = [type |-> "CERTIFICATE", start |-> r.start, end |-> r.end, score |-> 9]
    BY <1>5 DEF Blocks
  <2>2. r.start \in Nat /\ r.end \in Nat /\ r.end <= end - from
    BY <1>2, <2>1
  <2> DEFINE x == r.start + from
             y == r.end + from
  <2>3. x \in Nat /\ y \in Nat /\ x < y /\ y <= end /\ from <= x
    BY <2>1, <2>2
  <2>4. s = [type |-> "CERTIFICATE", start |-> x, end |-> y, score |-> 9]
    BY <1>3, <2>1 DEF Moved
  <2>5. x - from = r.start /\ y - from = r.end
    BY <2>2
  <2> HIDE DEF x, y
  <2>6. text[x + 1] = "["
    <3>1. x + 1 \in Nat /\ from < x + 1 /\ x + 1 <= end /\ (x + 1) - from = r.start + 1
      BY <2>2, <2>3, <2>5
    <3>2. q[(x + 1) - from] = text[x + 1]
      BY <1>1, <3>1, CharCut
    <3> QED BY <2>1, <3>1, <3>2
  <2>7. text[y] = "]"
    <3>1. from < y
      BY <2>3
    <3>2. q[y - from] = text[y]
      BY <1>1, <2>3, <3>1, CharCut
    <3> QED BY <2>1, <2>5, <3>2
  <2>8. s.start = x /\ s.end = y /\ s.type = "CERTIFICATE"
    BY <2>4
  <2> QED BY <2>3, <2>6, <2>7, <2>8 DEF Marked
<1> QED BY <1>3, <1>4, <1>5

\* A piece takes what is certain to be seen, or leaves it whole to those that follow.
LEMMA PieceSeen ==
    ASSUME world \in Worlds, Place, NEW end, NEW cut, Piece(end, cut),
           NEW e \in world.infra, Seen(e), NEW s, s = Trim(text, e, TrimLeft, TrimRight),
           pos <= e.start, pos <= Token(text, s).start
    PROVE  s \in spans' \/ (at' = "infra" /\ pos' <= e.start /\ pos' <= Token(text, s).start)
<1> DEFINE token == Token(text, s)
<1>1. /\ end \in Nat /\ pos \in Nat /\ pos <= end /\ end <= Len(text) /\ Len(text) \in Nat
      /\ Reach \in Nat /\ text \in Seq(STRING)
  BY TextType, OutgoingAssumption DEF Piece, Place
<1>2. In(text, e)
  BY TextType, WorldAssumption DEF In, Part, Span, text
<1>3. In(text, s)
  BY <1>2, TrimIn
<1>4. Part(text, token)
  BY <1>1, <1>3, TokenPart DEF In
<1>5. /\ e.start \in Nat /\ e.end \in Nat /\ e.end <= Len(text)
      /\ token.start \in Nat /\ token.end \in Nat /\ token.end <= Len(text)
  BY <1>2, <1>4 DEF In, Part
<1>6. CASE e.end <= end /\ token.end <= end
  <2>1. s \in Answered(pos, end, cut)
    BY <1>1, <1>6, SeenAnswered DEF Piece
  <2> QED BY <2>1 DEF Piece
<1>7. CASE ~(e.end <= end /\ token.end <= end)
  <2>1. end < Len(text)
    BY <1>1, <1>5, <1>7
  <2>2. Long /\ at' = "infra" /\ pos' = end - Reach
    BY <1>1, <2>1 DEF Piece
  <2>3. Max({token.end, e.end}) - Min({token.start, e.start}) <= Reach
    BY <2>2 DEF Seen
  <2> HIDE DEF token
  <2>4. /\ Max({token.end, e.end}) = IF token.end >= e.end THEN token.end ELSE e.end
        /\ Min({token.start, e.start}) = IF token.start <= e.start THEN token.start ELSE e.start
    <3>1. token.end \in Int /\ e.end \in Int /\ token.start \in Int /\ e.start \in Int
      BY <1>5
    <3> QED BY <3>1, OfTwo, Zenon
  <2>5. end - Reach <= e.start /\ end - Reach <= token.start
    BY SMTT(30), <1>1, <1>5, <1>7, <2>3, <2>4
  <2> QED BY <2>2, <2>5 DEF token
<1> QED BY <1>6, <1>7

LEMMA DetectReported ==
    ASSUME world \in Worlds, Reported, Detect
    PROVE  Reported'
<1>1. Place /\ at = "infra" /\ world' = world /\ text' = text /\ at \in {"infra"}
  BY WorldUnchanged DEF Reported, Detect
<1>2. PICK end, cut : Piece(end, cut)
  BY <1>1, DetectPiece
<1>3. /\ end \in Nat /\ pos \in Nat /\ pos <= end /\ end <= Len(text) /\ Len(text) \in Nat
      /\ cut \in SUBSET CutOff(pos, end) /\ Reach \in Nat \ {0}
      /\ spans' = spans \cup Answered(pos, end, cut) \cup Blocks(text)
      /\ at' \in {"infra", "personal"} /\ text \in Seq(STRING)
  BY <1>1, <1>2, TextType, OutgoingAssumption DEF Piece, Place
<1>4. Place'
  <2>1. CASE pos' = pos /\ at' = "personal"
    BY <1>1, <2>1 DEF Place
  <2>2. CASE end < Len(text) /\ pos' = end - Reach /\ pos' \in Nat
    BY <1>1, <1>3, <2>2 DEF Place
  <2> QED BY <1>2, <2>1, <2>2 DEF Piece
<1>5. SpansIn'
  <2>1. \A s \in spans' : In(text, s)
    BY <1>3, AnsweredShape, BlocksShape DEF Reported, SpansIn
  <2> QED BY <1>1, <2>1 DEF SpansIn
<1>6. FromInfra'
  <2>1. \A s \in Blocks(text) : Marked(s)
    BY <1>3, BlocksShape DEF Marked
  <2>2. \A s \in spans' : Marked(s) \/ \E e \in world.infra : Inside(s, e)
    BY <1>1, <1>3, <2>1, AnsweredFrom DEF Reported, FromInfra
  <2>3. \A s : Marked(s)' <=> Marked(s)
    BY <1>1 DEF Marked
  <2> QED BY <1>1, <2>2, <2>3 DEF FromInfra
<1>7. SeenYet'
  <2> SUFFICES ASSUME NEW e \in world.infra, Seen(e),
                      NEW s, s = Trim(text, e, TrimLeft, TrimRight)
               PROVE  s \in spans' \/ (at' = "infra" /\ pos' <= e.start
                                       /\ pos' <= Token(text, s).start)
    BY <1>1, WorldUnchanged DEF SeenYet
  <2>1. s \in spans \/ (pos <= e.start /\ pos <= Token(text, s).start)
    BY <1>1 DEF Reported, SeenYet
  <2>2. s \in spans => s \in spans'
    BY <1>3
  <2> QED BY <1>1, <1>2, <2>1, <2>2, PieceSeen
<1>8. BlocksYet'
  BY <1>1, <1>3 DEF BlocksYet
<1>9. PersonalYet'
  BY <1>3 DEF PersonalYet
<1> QED BY <1>4, <1>5, <1>6, <1>7, <1>8, <1>9 DEF Reported

LEMMA CertainNamed ==
    ASSUME NEW t, Len(t) \in Nat, NEW F, IsFiniteSet(F), \A g \in F : In(t, g),
           NEW f \in F, Alone(t, F, f), f.type # "DATE", f.score >= MinScore,
           Scaffolds(t, f) = {},
           NEW s, s = Trim(t, f, Borders, Borders), s.start < s.end, Plausible(t, s)
    PROVE  s \in Personal(t, F)
<1>1. f \in Entities(t, F)
  BY EntitiesShape
<1>2. In(t, s) /\ Inside(s, f) /\ s.type = f.type /\ s.score = f.score
  BY TrimIn
<1>3. s \in Merged(t, F)
  BY <1>1, MergedIs DEF Adjusted
<1>4. Scaffolds(t, s) = {}
  <2> SUFFICES ASSUME NEW r \in Scaffolds(t, s) PROVE r \in Scaffolds(t, f)
    OBVIOUS
  <2>1. /\ f.start \in Nat /\ f.end \in Nat /\ s.start \in Nat /\ s.end \in Nat
        /\ f.start <= s.start /\ s.end <= f.end
    BY <1>2 DEF In, Part, Inside
  <2>2. r \in [start : s.start..s.end, end : s.start..s.end]
    BY DEF Scaffolds
  <2>3. r.start \in s.start..s.end /\ r.end \in s.start..s.end
        /\ r = [start |-> r.start, end |-> r.end]
    BY <2>2
  <2>4. r.start \in f.start..f.end /\ r.end \in f.start..f.end
    BY <2>1, <2>3
  <2>5. r \in [start : f.start..f.end, end : f.start..f.end]
    BY <2>3, <2>4
  <2> QED BY <2>5 DEF Scaffolds
<1>5. s \in Unnumbered(t, Merged(t, F))
  BY <1>3, <1>4 DEF Unnumbered
<1>6. Tightened(t, s) = s
  BY <1>2, TightenedShape
<1> QED BY <1>2, <1>5, <1>6 DEF Personal

\* A token of the text holds no mark of a block.
LEMMA RunShape ==
    ASSUME NEW t, Len(t) \in Nat, NEW r \in Runs(t, Whole(t), TokenChars)
    PROVE  /\ r.start \in Nat /\ r.end \in Nat /\ r.start < r.end /\ r.end <= Len(t)
           /\ \A p \in (r.start + 1)..r.end : t[p] \notin {"[", "]"}
<1>1. /\ r \in [start : 0..Len(t), end : 0..Len(t)] /\ r.start < r.end
      /\ \A p \in (r.start + 1)..r.end : t[p] \in TokenChars
  BY DEF Runs, Whole, Interval
<1>2. TokenChars \cap {"[", "]"} = {}
  BY NamesAssumption DEF TokenChars, Separators
<1> QED BY <1>1, <1>2

LEMMA UnseenClaimed ==
    ASSUME world \in Worlds, Reported, DetectPersonal, \A f \in world.personal : In(text, f),
           NEW r \in Runs(text, Whole(text), TokenChars), OursUnseen(r)
    PROVE  (\E s \in spans' : ~Public(s) /\ Inside(r, s)) \/ ~Has(text, r, Alnum)
<1> DEFINE seen == spans \cup Personal(text, world.personal)
<1>1. spans' = seen \cup Inventoried(text, seen) /\ at = "personal"
  BY DEF DetectPersonal
<1>2. text \in Seq(STRING) /\ Len(text) \in Nat
  BY TextType
<1>3. /\ r.start \in Nat /\ r.end \in Nat /\ r.start < r.end /\ r.end <= Len(text)
      /\ \A p \in (r.start + 1)..r.end : text[p] \notin {"[", "]"}
  BY <1>2, RunShape
<1>4. CASE \A s \in seen : Disjoint(s, r)
  <2> DEFINE s == [type |-> "INVENTORY", start |-> r.start, end |-> r.end, score |-> 10]
  <2>1. s \in Inventoried(text, seen)
    BY <1>4 DEF Inventoried, OursUnseen
  <2>2. s.start = r.start /\ s.end = r.end /\ s.type = "INVENTORY"
    OBVIOUS
  <2>3. ~Public(s)
    BY <2>2, NamesAssumption DEF Public
  <2>4. Inside(r, s)
    BY <1>3, <2>2 DEF Inside
  <2> HIDE DEF s, seen
  <2> QED BY <1>1, <2>1, <2>3, <2>4
<1>5. CASE \E s \in spans : ~Disjoint(s, r)
  <2>1. PICK s \in spans : ~Disjoint(s, r)
    BY <1>5
  <2>2. s.start \in Nat /\ s.end \in Nat /\ s.start <= s.end
    BY DEF Reported, SpansIn, In, Part
  <2>3. CASE Marked(s)
    <3>1. /\ s.start < s.end /\ s.type = "CERTIFICATE"
          /\ text[s.start + 1] = "[" /\ text[s.end] = "]"
      BY <2>3 DEF Marked
    <3>2. s.start + 1 \notin (r.start + 1)..r.end /\ s.end \notin (r.start + 1)..r.end
      BY <1>3, <3>1
    <3>3. Inside(r, s)
      BY <1>3, <2>1, <2>2, <3>1, <3>2 DEF Disjoint, Inside
    <3>4. ~Public(s)
      BY <3>1, NamesAssumption DEF Public
    <3> QED BY <1>1, <3>3, <3>4
  <2>4. CASE \E e \in world.infra : Inside(s, e)
    <3>1. PICK e \in world.infra : Inside(s, e)
      BY <2>4
    <3>2. e.start \in Nat /\ e.end \in Nat
      BY WorldAssumption DEF Span
    <3>3. Disjoint(e, r)
      BY DEF OursUnseen
    <3> QED BY <1>3, <2>1, <2>2, <3>1, <3>2, <3>3 DEF Disjoint, Inside
  <2> QED BY <1>1, <2>3, <2>4 DEF Reported, FromInfra
<1>6. CASE \E s \in Personal(text, world.personal) : ~Disjoint(s, r)
  <2>1. PICK s \in Personal(text, world.personal) : ~Disjoint(s, r)
    BY <1>6
  <2>2. IsFiniteSet(world.personal)
    BY WorldAssumption
  <2>3. PICK e \in Entities(text, world.personal) : Of(text, s, e)
    BY <1>2, <2>2, PersonalShape
  <2>4. In(text, e) /\ Bridged(text, world.personal, e)
    BY <1>2, <2>2, EntitiesShape
  <2>5. ~Disjoint(e, r)
    BY <1>3, <2>1, <2>3, <2>4 DEF Of, In, Part, Inside, Disjoint
  <2>6. \A f \in world.personal : Disjoint(f, r)
    BY DEF OursUnseen
  <2>7. \A p \in (r.start + 1)..r.end : text[p] \in Links \cup Space
    BY <1>3, <2>4, <2>5, <2>6 DEF Bridged
  <2>8. Alnum \cap (Links \cup Space) = {}
    BY NamesAssumption DEF Borders, White
  <2> QED BY <2>7, <2>8 DEF Has
<1> QED BY <1>4, <1>5, <1>6

LEMMA PersonalReported ==
    ASSUME world \in Worlds, Reported, DetectPersonal
    PROVE  Reported'
<1> DEFINE F == world.personal
           seen == spans \cup Personal(text, F)
<1>1. /\ at = "personal" /\ at' = "check" /\ world' = world /\ text' = text /\ pos' = pos
      /\ spans' = seen \cup Inventoried(text, seen) /\ \A f \in F : InText(f)
  BY WorldUnchanged DEF DetectPersonal
<1>2. text \in Seq(STRING) /\ Len(text) \in Nat /\ IsFiniteSet(F)
  BY TextType, WorldAssumption
<1>3. \A f \in F : In(text, f)
  <2> SUFFICES ASSUME NEW f \in F PROVE In(text, f)
    OBVIOUS
  <2>1. f \in [type : Types, start : Int, end : Int, score : Nat]
    BY WorldAssumption
  <2>2. 0 <= f.start /\ f.start <= f.end /\ f.end <= Len(text)
    BY <1>1 DEF InText
  <2>3. f.start \in Nat /\ f.end \in Nat
    BY <2>1, <2>2
  <2>4. f \in Span
    BY <2>1, <2>3 DEF Span
  <2> QED BY <2>2, <2>3, <2>4 DEF In, Part
<1>4. Place'
  BY <1>1 DEF Reported, Place
<1>5. SpansIn'
  <2>1. \A s \in Personal(text, F) : In(text, s)
    BY <1>2, <1>3, PersonalShape DEF Of
  <2>2. \A s \in Inventoried(text, seen) : In(text, s)
    BY <1>2, InventoriedShape
  <2>3. \A s \in spans : In(text, s)
    BY DEF Reported, SpansIn
  <2> QED BY <1>1, <2>1, <2>2, <2>3 DEF SpansIn
<1>6. FromInfra'
  BY <1>1 DEF FromInfra
<1>7. SeenYet'
  <2>1. spans \subseteq spans' /\ at # "refused" /\ at # "infra"
    BY <1>1
  <2>2. \A e \in world.infra : Seen(e) => Trim(text, e, TrimLeft, TrimRight) \in spans
    BY <2>1 DEF Reported, SeenYet
  <2> QED BY <1>1, <2>1, <2>2, WorldUnchanged DEF SeenYet
<1>8. BlocksYet'
  <2>1. Blocks(text) \subseteq spans
    BY <1>1 DEF Reported, BlocksYet
  <2> QED BY <1>1, <2>1 DEF BlocksYet
<1>9. PersonalYet'
  <2>1. ASSUME NEW f \in F, Certain(f),
               NEW s, s = Trim(text, f, Borders, Borders), s.start < s.end
        PROVE  s \in spans'
    <3>1. Alone(text, F, f) /\ f.type # "DATE" /\ f.score >= MinScore /\ Scaffolds(text, f) = {}
          /\ Plausible(text, s)
      BY <2>1 DEF Certain, Alone
    <3>2. s \in Personal(text, F)
      BY <1>2, <1>3, <2>1, <3>1, CertainNamed
    <3> QED BY <1>1, <3>2
  <2>2. \A f \in F : Certain(f) => Named(f)'
    BY <1>1, <2>1 DEF Named
  <2>3. \A r \in Runs(text, Whole(text), TokenChars) : OursUnseen(r) => Claimed(r)'
    BY <1>1, <1>3, UnseenClaimed DEF Claimed
  <2>4. (\A f \in world.personal : InText(f))'
    BY <1>1 DEF InText
  <2>5. (Personal(text, world.personal) \subseteq spans)'
    BY <1>1
  <2> QED BY <1>1, <2>2, <2>3, <2>4, <2>5, WorldUnchanged DEF PersonalYet
<1> QED BY <1>4, <1>5, <1>6, <1>7, <1>8, <1>9 DEF Reported

\* The steps that follow report nothing.
LEMMA QuietReported ==
    ASSUME Reported, UNCHANGED <<world, pos, spans>>,
           \/ at' = at
           \/ at \notin {"infra", "personal", "refused"} /\ at' \notin {"infra", "personal"}
           \/ at' = "refused"
    PROVE  Reported'
<1>1. world' = world /\ text' = text /\ pos' = pos /\ spans' = spans
  BY WorldUnchanged
<1>2. Place' /\ SpansIn' /\ FromInfra' /\ BlocksYet'
  BY <1>1 DEF Reported, Place, SpansIn, FromInfra, BlocksYet, Marked
<1>3. SeenYet'
  BY <1>1, WorldUnchanged DEF Reported, SeenYet
<1>4. \A f : Named(f)' <=> Named(f)
  BY <1>1 DEF Named
<1>5. \A r : Claimed(r)' <=> Claimed(r)
  BY <1>1 DEF Claimed
<1>7. \A f : InText(f)' <=> InText(f)
  BY <1>1 DEF InText
<1>6. PersonalYet'
  BY <1>1, <1>4, <1>5, <1>7, WorldUnchanged DEF Reported, PersonalYet
<1> QED BY <1>2, <1>3, <1>6 DEF Reported

----------------------------------------------------------------------------
(* The exchange: what it holds at each step. *)

LEMMA ArbSame == ArbInv /\ UNCHANGED arbitration => ArbInv'
BY NextArb

LEMMA ArbNew == Init' => ArbInv'
BY InitArb, PTL

\* Nothing of the arbitration is beyond the text.
LEMMA ResolveHeld ==
    ASSUME ArbInv, \A s \in given \cup kept \cup pieces : s.end <= Len(text), Len(text) \in Nat,
           Arbitrate
    PROVE  \A s \in given' \cup kept' \cup pieces' : s.end <= Len(text)
<1>1. CASE \E s \in waiting : Take(s)
  <2>1. PICK s \in waiting : Take(s)
    BY <1>1
  <2>2. s \in given /\ given' = given /\ kept' = kept /\ pieces' = {Interval(s.start, s.end)}
    BY <2>1 DEF Take, ArbInv, Shapes
  <2> QED BY <2>2 DEF Interval
<1>2. CASE \E k \in against : Cut(k)
  <2>1. PICK k \in against : Cut(k)
    BY <1>2
  <2>2. given' = given /\ kept' = kept /\ pieces' = UNION {Minus(i, k) : i \in pieces}
    BY <2>1 DEF Cut
  <2>3. k \in kept /\ WellFormed(k)
    BY DEF ArbInv, Shapes
  <2>4. Interval_(k)
    BY <2>3, SpanShape DEF IsSpan
  <2>5. ASSUME NEW m \in pieces' PROVE m.end <= Len(text)
    <3>1. PICK i \in pieces : m \in Minus(i, k)
      BY <2>2
    <3>2. i = Interval(i.start, i.end) /\ Interval_(i) /\ i.end <= Len(text)
      BY DEF ArbInv, Shapes
    <3>3. m.end <= i.end /\ m.end \in Nat /\ i.end \in Nat
      BY <2>4, <3>1, <3>2, MinusApart DEF Interval_
    <3> QED BY <3>2, <3>3
  <2> QED BY <2>2, <2>5
<1>3. CASE Keep
  <2>1. given' = given /\ pieces' = {}
        /\ kept' = kept \cup {[hand EXCEPT !.start = i.start, !.end = i.end] : i \in pieces}
        /\ hand # NoSpan
    BY <1>3 DEF Keep
  <2>2. hand \in Span
    BY <2>1 DEF ArbInv, Shapes, WellFormed
  <2>3. \A i \in pieces : [hand EXCEPT !.start = i.start, !.end = i.end].end = i.end
    BY <2>2 DEF Span
  <2> QED BY <2>1, <2>3
<1> QED BY <1>1, <1>2, <1>3 DEF Arbitrate

LEMMA OutInit == InitOutgoing => OutInv /\ Reported
<1> SUFFICES ASSUME InitOutgoing PROVE OutInv /\ Reported
  OBVIOUS
<1>1. /\ world \in Worlds /\ at = "infra" /\ pos = 0 /\ spans = {} /\ given = {} /\ Idle
      /\ left = {} /\ out = <<>>
  BY DEF InitOutgoing
<1>2. ArbInv
  BY <1>1, InitArb DEF Init, Idle
<1>3. Held
  BY <1>1 DEF Held, Idle
<1>4. Steps /\ Rewritten
  BY <1>1 DEF Steps, Rewritten
<1>5. text \in Seq(STRING) /\ Len(text) \in Nat
  BY <1>1, TextType
<1>6. Place /\ SpansIn /\ FromInfra /\ BlocksYet /\ PersonalYet
  BY <1>1, <1>5 DEF Place, SpansIn, FromInfra, BlocksYet, PersonalYet
<1>7. SeenYet
  <2> SUFFICES ASSUME NEW e \in world.infra, NEW s, s = Trim(text, e, TrimLeft, TrimRight)
               PROVE  pos <= e.start /\ pos <= Token(text, s).start
    BY <1>1 DEF SeenYet
  <2>1. In(text, e)
    BY <1>1, <1>5, WorldAssumption DEF In, Part, Span, text
  <2>2. In(text, s)
    BY <2>1, TrimIn
  <2>3. Part(text, Token(text, s))
    BY <1>5, <2>2, TokenPart DEF In
  <2> QED BY <1>1, <2>1, <2>3 DEF In, Part
<1> QED BY <1>2, <1>3, <1>4, <1>6, <1>7 DEF OutInv, Reported

LEMMA DetectOut ==
    ASSUME OutInv, Reported, Detect \/ DetectPersonal \/ Fail
    PROVE  OutInv' /\ Reported'
<1>1. /\ world \in Worlds /\ world' = world /\ text' = text /\ UNCHANGED arbitration
      /\ left' = left /\ out' = out /\ ArbInv /\ Held /\ Steps /\ Rewritten
  BY WorldUnchanged DEF OutInv, Held, Detect, DetectPersonal, Fail
<1>2. ArbInv'
  BY <1>1, ArbSame
<1>3. given' = given /\ kept' = kept /\ pieces' = pieces /\ (Idle' <=> Idle)
  BY <1>1 DEF arbitration, Idle
<1>4. CASE Detect \/ DetectPersonal
  <2>1. at \in {"infra", "personal"} /\ at' \in {"infra", "personal", "check"}
    BY <1>4 DEF Detect, DetectPersonal
  <2>2. Held'
    BY <1>1, <1>3, <2>1 DEF Held
  <2>3. Steps' /\ Rewritten'
    BY <1>1, <1>3, <2>1 DEF Steps, Rewritten
  <2>4. Reported'
    BY <1>1, <1>4, DetectReported, PersonalReported
  <2> QED BY <1>2, <2>2, <2>3, <2>4 DEF OutInv
<1>5. CASE Fail
  <2>1. at' = "refused" /\ UNCHANGED <<world, pos, spans>>
    BY <1>5 DEF Fail
  <2>2. Held'
    BY <1>1, <1>3, <2>1 DEF Held
  <2>3. Steps' /\ Rewritten'
    BY <1>1, <1>3, <2>1 DEF Steps, Rewritten
  <2>4. Reported'
    BY <2>1, QuietReported
  <2> QED BY <1>2, <2>2, <2>3, <2>4 DEF OutInv
<1> QED BY <1>4, <1>5

LEMMA CheckOut ==
    ASSUME OutInv, Reported, Check
    PROVE  OutInv' /\ Reported'
<1>1. /\ world \in Worlds /\ world' = world /\ text' = text /\ at = "check" /\ pos' = pos
      /\ left' = left /\ out' = out /\ spans' = spans /\ ArbInv /\ Held /\ Steps
      /\ hand' = hand /\ pieces' = pieces /\ against' = against /\ kept' = kept
  BY WorldUnchanged DEF OutInv, Held, Check
<1>2. Idle /\ given = {} /\ left = {} /\ out = <<>>
  BY <1>1 DEF Steps
<1>3. CASE at' = "refused" /\ UNCHANGED <<given, waiting>>
  <2>1. UNCHANGED arbitration /\ given' = given
    BY <1>1, <1>3 DEF arbitration
  <2>2. ArbInv'
    BY <1>1, <2>1, ArbSame
  <2>3. Held'
    BY <1>1, <1>3 DEF Held
  <2>4. Steps' /\ Rewritten'
    BY <1>3 DEF Steps, Rewritten
  <2>5. Reported'
    BY <1>1, <1>3, QuietReported
  <2> QED BY <2>2, <2>3, <2>4, <2>5 DEF OutInv
<1>4. CASE /\ at' = "arbitrate" /\ given' = spans /\ waiting' = spans
           /\ ~(\E s \in spans : Malformed(s))
  <2>1. \A s \in spans : WellFormed(s) /\ s.end <= Len(text)
    <3> SUFFICES ASSUME NEW s \in spans PROVE WellFormed(s) /\ s.end <= Len(text)
      OBVIOUS
    <3>1. In(text, s)
      BY DEF Reported, SpansIn
    <3>2. s \in Span /\ s.start \in Nat /\ s.end \in Nat /\ s.end <= Len(text)
      BY <3>1 DEF In, Part
    <3>3. ~(s.start >= s.end)
      BY <1>4 DEF Malformed
    <3> QED BY <3>2, <3>3 DEF WellFormed
  <2>2. Init'
    BY <1>1, <1>2, <1>4, <2>1 DEF Init, Idle
  <2>3. ArbInv'
    BY <2>2, ArbNew
  <2>4. Held'
    BY <1>1, <1>2, <1>4, <2>1 DEF Held, Idle
  <2>5. Steps' /\ Rewritten'
    BY <1>1, <1>2, <1>4 DEF Steps, Rewritten
  <2>6. Reported'
    BY <1>1, <1>4, QuietReported
  <2> QED BY <2>3, <2>4, <2>5, <2>6 DEF OutInv
<1> QED BY <1>3, <1>4 DEF Check

LEMMA ResolveOut ==
    ASSUME OutInv, Reported, Resolve
    PROVE  OutInv' /\ Reported'
<1>1. /\ world \in Worlds /\ world' = world /\ text' = text /\ at = "arbitrate" /\ at' = at
      /\ pos' = pos /\ left' = left /\ out' = out /\ spans' = spans /\ Arbitrate
      /\ ArbInv /\ Held /\ Steps
  BY WorldUnchanged DEF OutInv, Held, Resolve
<1>2. ArbInv'
  BY <1>1, NextArb
<1>3. given' = given
  BY <1>1 DEF Arbitrate, Take, Cut, Keep
<1>4. Held'
  <2>1. \A s \in given' \cup kept' \cup pieces' : s.end <= Len(text)
    BY <1>1, TextType, ResolveHeld DEF Held
  <2>2. left = {}
    BY <1>1 DEF Steps
  <2> QED BY <1>1, <2>1, <2>2 DEF Held
<1>5. Steps' /\ Rewritten'
  BY <1>1, <1>3 DEF Steps, Rewritten
<1>6. Reported'
  BY <1>1, QuietReported
<1> QED BY <1>2, <1>4, <1>5, <1>6 DEF OutInv

LEMMA WriteOut ==
    ASSUME OutInv, Reported, Rewrite \/ (\E s \in left : Write(s)) \/ Send
    PROVE  OutInv' /\ Reported'
<1>1. /\ world \in Worlds /\ world' = world /\ text' = text /\ UNCHANGED arbitration
      /\ pos' = pos /\ spans' = spans /\ ArbInv /\ Held /\ Steps /\ Rewritten
  BY WorldUnchanged DEF OutInv, Held, Rewrite, Write, Send
<1>2. ArbInv'
  BY <1>1, ArbSame
<1>3. /\ given' = given /\ kept' = kept /\ pieces' = pieces /\ (Idle' <=> Idle)
      /\ (Arbitrated' <=> Arbitrated)
  BY <1>1 DEF arbitration, Idle, Arbitrated
<1>4. CASE Rewrite
  <2>1. at = "arbitrate" /\ at' = "write" /\ Arbitrated /\ left' = kept
    BY <1>4 DEF Rewrite
  <2>2. (out \in Seq(Items))' /\ Rewritten'
    BY <1>4, RewriteRewritten
  <2>3. Held'
    BY <1>1, <1>3, <2>1, <2>2 DEF Held
  <2>4. Steps'
    BY <1>1, <1>3, <2>1 DEF Steps
  <2>5. Reported'
    BY <1>1, <2>1, QuietReported
  <2> QED BY <1>2, <2>2, <2>3, <2>4, <2>5 DEF OutInv
<1>5. CASE \E s \in left : Write(s)
  <2>0. PICK s \in left : Write(s)
    BY <1>5
  <2>1. at = "write" /\ at' = at /\ left' \subseteq left
    BY <2>0 DEF Write
  <2>2. (out \in Seq(Items))' /\ Rewritten'
    BY <2>0, WriteRewritten
  <2>3. Held'
    BY <1>1, <1>3, <2>1, <2>2 DEF Held
  <2>4. Steps'
    BY <1>1, <1>3, <2>1 DEF Steps
  <2>5. Reported'
    BY <1>1, <2>1, QuietReported
  <2> QED BY <1>2, <2>2, <2>3, <2>4, <2>5 DEF OutInv
<1>6. CASE Send
  <2>1. at = "write" /\ at' = "sent" /\ left = {} /\ left' = left /\ out' = out
    BY <1>6 DEF Send
  <2>2. Held'
    BY <1>1, <1>3, <2>1 DEF Held
  <2>3. Steps'
    BY <1>1, <1>3, <2>1 DEF Steps
  <2>4. Rewritten'
    BY <1>1, <1>3, <2>1, PlaceUnchanged DEF Rewritten
  <2>5. Reported'
    BY <1>1, <2>1, QuietReported
  <2> QED BY <1>2, <2>2, <2>3, <2>4, <2>5 DEF OutInv
<1> QED BY <1>4, <1>5, <1>6

LEMMA StillOut ==
    ASSUME OutInv, Reported, UNCHANGED vars
    PROVE  OutInv' /\ Reported'
<1>1. /\ world' = world /\ text' = text /\ UNCHANGED arbitration /\ at' = at
      /\ pos' = pos /\ spans' = spans /\ left' = left /\ out' = out
  BY WorldUnchanged DEF vars
<1>2. ArbInv'
  BY <1>1, ArbSame DEF OutInv
<1>3. given' = given /\ kept' = kept /\ pieces' = pieces /\ (Idle' <=> Idle)
      /\ (Arbitrated' <=> Arbitrated)
  BY <1>1 DEF arbitration, Idle, Arbitrated
<1>4. Held' /\ Steps'
  BY <1>1, <1>3 DEF OutInv, Held, Steps
<1>5. Rewritten'
  BY <1>1, <1>3, PlaceUnchanged DEF OutInv, Rewritten
<1>6. Reported'
  BY <1>1, QuietReported
<1> QED BY <1>2, <1>4, <1>5, <1>6 DEF OutInv

LEMMA OutNext == OutInv /\ Reported /\ [Next]_vars => OutInv' /\ Reported'
<1> SUFFICES ASSUME OutInv, Reported, [Next]_vars PROVE OutInv' /\ Reported'
  OBVIOUS
<1>1. CASE Detect \/ DetectPersonal \/ Fail
  BY <1>1, DetectOut
<1>2. CASE Check
  BY <1>2, CheckOut
<1>3. CASE Resolve
  BY <1>3, ResolveOut
<1>4. CASE Rewrite \/ (\E s \in left : Write(s)) \/ Send
  BY <1>4, WriteOut
<1>5. CASE UNCHANGED vars
  BY <1>5, StillOut
<1> QED BY <1>1, <1>2, <1>3, <1>4, <1>5 DEF Next

LEMMA OutInductive == SpecOutgoing => [](OutInv /\ Reported)
BY OutInit, OutNext, PTL DEF SpecOutgoing

----------------------------------------------------------------------------
(* What leaves. *)

\* A character of the text that a span which is not public holds does not leave.
LEMMA HiddenAt ==
    ASSUME OutInv, Reported, Sent, NEW g \in spans, ~Public(g), NEW p \in Nat, Holds(g, p),
           text[p] \in Alnum
    PROVE  Covered(p) /\ Hidden(p)
<1>1. /\ given = spans /\ Arbitrated /\ left = {} /\ ArbInv /\ Held /\ Rewritten
  BY DEF OutInv, Steps, Sent
<1>2. WellFormed(g) /\ g \in given
  BY <1>1 DEF ArbInv, Shapes
<1>3. g.start \in Nat /\ g.end \in Nat /\ p \in (g.start + 1)..g.end
  BY <1>2 DEF Holds, WellFormed, Span
<1>4. PICK k \in kept : Holds(k, p)
  BY <1>1, <1>2, <1>3, ArbNothingGivenUp DEF NothingGivenUp, Arbitrated
<1>5. ~Public(k)
  BY <1>1, <1>2, <1>3, <1>4, ArbClasses DEF ClassesRespected
<1>6. k.start \in Nat /\ k.end \in Nat /\ k.start < k.end
  BY <1>1, KeptShape
<1>7. Tiles(out, Len(out), Len(text)) /\ \E i \in 1..Len(out) : out[i] = Item(k, InPlaceOf(k))
  BY <1>1 DEF Rewritten, Sent
<1>8. PICK i \in 1..Len(out) : out[i] = Item(k, InPlaceOf(k))
  BY <1>7
<1> DEFINE x == out[i]
<1>9. x.start = k.start /\ x.end = k.end /\ x.by = InPlaceOf(k)
  BY <1>8 DEF Item
<1>10. out \in Seq(Items) /\ Len(out) \in Nat
  BY <1>1 DEF Held
<1>11. x \in ToSet(out) /\ Holds(x, p)
  BY <1>4, <1>9, <1>10 DEF ToSet, Holds
<1>12. ASSUME NEW y \in ToSet(out), Holds(y, p) PROVE y = x
  <2>1. PICK j \in 1..Len(out) : y = out[j]
    BY <1>10 DEF ToSet
  <2>2. y.start \in Nat /\ y.end \in Nat
    <3>1. out[j] \in Items
      BY <1>10, <2>1
    <3> QED BY <2>1, <3>1 DEF Items
  <2>3. i < j => x.end <= y.start
    BY <1>7, <2>1 DEF Tiles
  <2>4. j < i => y.end <= x.start
    BY <1>7, <2>1 DEF Tiles
  <2> HIDE DEF x
  <2>5. i = j
    BY <1>6, <1>9, <1>10, <1>11, <1>12, <2>2, <2>3, <2>4 DEF Holds
  <2> QED BY <2>1, <2>5 DEF x
<1>13. ItemAt(p) = x
  <2> HIDE DEF x
  <2> QED BY <1>11, <1>12 DEF ItemAt
<1>14. Has(text, k, Alnum)
  <2>1. p \in (k.start + 1)..k.end
    BY <1>4, <1>6 DEF Holds
  <2> QED BY <2>1 DEF Has
<1>15. x.by # "text" \/ ExactEntry(k)
  BY <1>5, <1>9, <1>14 DEF InPlaceOf
<1>16. Hidden(p)
  BY <1>4, <1>13, <1>15 DEF Hidden
<1> QED BY <1>11, <1>16 DEF Covered

\* Nor does what lies in such a span.
LEMMA HiddenInside ==
    ASSUME OutInv, Reported, Sent, NEW g \in spans, ~Public(g), NEW s, s.start \in Nat,
           s.end \in Nat, Inside(s, g)
    PROVE  HiddenIn(s)
<1>1. In(text, g)
  BY DEF Reported, SpansIn
<1> SUFFICES ASSUME NEW p \in (s.start + 1)..s.end, text[p] \in Alnum
             PROVE  Covered(p) /\ Hidden(p)
  BY DEF HiddenIn
<1>2. p \in Nat /\ Holds(g, p)
  BY <1>1 DEF In, Part, Inside, Holds
<1> QED BY <1>2, HiddenAt

LEMMA SeenHidden ==
    ASSUME OutInv, Reported, Sent, NEW e \in world.infra, Seen(e)
    PROVE  HiddenIn(Trim(text, e, TrimLeft, TrimRight))
<1> DEFINE s == Trim(text, e, TrimLeft, TrimRight)
<1>1. world \in Worlds /\ text \in Seq(STRING)
  BY TextType DEF OutInv, Held
<1>2. In(text, e)
  BY <1>1, TextType, WorldAssumption DEF In, Part, Span, text
<1>3. In(text, s) /\ s.type = e.type
  BY <1>2, TrimIn
<1>4. s \in spans
  BY DEF Reported, SeenYet, Sent
<1> HIDE DEF s
<1>5. ~Public(s)
  BY <1>3 DEF Seen, Public
<1>6. s.start \in Nat /\ s.end \in Nat /\ Inside(s, s)
  BY <1>3 DEF In, Part, Inside
<1> QED BY <1>4, <1>5, <1>6, HiddenInside DEF s

LEMMA CertainHidden ==
    ASSUME OutInv, Reported, Sent, NEW f \in world.personal, Certain(f)
    PROVE  HiddenIn(f)
<1> DEFINE s == Trim(text, f, Borders, Borders)
<1>1. world \in Worlds /\ text \in Seq(STRING) /\ Len(text) \in Nat
  BY TextType DEF OutInv, Held
<1>2. In(text, f)
  <2>1. f \in [type : Types, start : Int, end : Int, score : Nat]
    BY <1>1, WorldAssumption
  <2>2. 0 <= f.start /\ f.start <= f.end /\ f.end <= Len(text)
    BY DEF Certain, InText
  <2>3. f.start \in Nat /\ f.end \in Nat
    BY <2>1, <2>2
  <2>4. f \in Span
    BY <2>1, <2>3 DEF Span
  <2> QED BY <2>2, <2>3, <2>4 DEF In, Part
<1>3. PICK a, b : /\ s = [f EXCEPT !.start = a, !.end = b]
                  /\ BeginsAt(text, f, Borders, a) /\ EndsAt(text, f, Borders, a, b)
  BY <1>2, TrimShape DEF In
<1>4. In(text, s) /\ s.type = f.type /\ f \in Span
  BY <1>2, TrimIn DEF In
<1>5. s.start = a /\ s.end = b
  BY <1>3, <1>4 DEF Span
<1>6. Named(f)
  BY DEF Reported, PersonalYet, Sent
<1>7. f.start \in Nat /\ f.end \in Nat /\ a \in Nat /\ b \in Nat
      /\ f.start <= a /\ a <= b /\ b <= f.end
  BY <1>2, <1>3 DEF In, Part, BeginsAt, EndsAt
<1> SUFFICES ASSUME NEW p \in (f.start + 1)..f.end, text[p] \in Alnum
             PROVE  Covered(p) /\ Hidden(p)
  BY DEF HiddenIn
<1>8. text[p] \notin Borders
  BY NamesAssumption
<1>9. p \notin (f.start + 1)..a /\ p \notin (b + 1)..f.end
  BY <1>3, <1>8 DEF BeginsAt, EndsAt
<1>10. p \in Nat /\ a < p /\ p <= b
  BY <1>7, <1>9
<1> HIDE DEF s
<1>11. s \in spans
  BY <1>5, <1>6, <1>7, <1>10 DEF Named, s
<1>12. ~Public(s)
  <2>1. s.type = "PERSON"
    BY <1>4 DEF Certain
  <2> QED BY <2>1, NamesAssumption DEF Public
<1>13. Holds(s, p)
  BY <1>5, <1>10 DEF Holds
<1> QED BY <1>10, <1>11, <1>12, <1>13, HiddenAt

LEMMA BlockHidden ==
    ASSUME OutInv, Reported, Sent, NEW b \in Blocks(text)
    PROVE  HiddenIn(b)
<1>1. text \in Seq(STRING)
  BY TextType DEF OutInv, Held
<1>2. In(text, b) /\ b.type = "CERTIFICATE"
  BY <1>1, BlocksShape
<1>3. b \in spans
  BY DEF Reported, BlocksYet, Sent
<1>4. ~Public(b)
  BY <1>2, NamesAssumption DEF Public
<1>5. b.start \in Nat /\ b.end \in Nat /\ Inside(b, b)
  BY <1>2 DEF In, Part, Inside
<1> QED BY <1>3, <1>4, <1>5, HiddenInside

LEMMA UnseenHidden ==
    ASSUME OutInv, Reported, Sent, NEW r \in Runs(text, Whole(text), TokenChars), OursUnseen(r)
    PROVE  HiddenIn(r)
<1>1. Len(text) \in Nat
  BY TextType DEF OutInv, Held
<1>2. r.start \in Nat /\ r.end \in Nat
  BY <1>1, RunShape
<1>3. Claimed(r)
  BY DEF Reported, PersonalYet, Sent
<1>4. CASE ~Has(text, r, Alnum)
  BY <1>4 DEF Has, HiddenIn
<1>5. CASE \E s \in spans : ~Public(s) /\ Inside(r, s)
  BY <1>2, <1>5, HiddenInside
<1> QED BY <1>3, <1>4, <1>5 DEF Claimed

\* Parts of one entity leave together: what is reported of it holds both.
LEMMA PartsHidden ==
    ASSUME OutInv, Reported, Sent, NEW f \in world.personal, NEW g \in world.personal,
           PartsOfOne(f, g), PartReported(f, g)
    PROVE  HiddenIn(f) /\ HiddenIn(g)
<1> DEFINE F == world.personal
           t == text
<1>1. world \in Worlds /\ Len(t) \in Nat /\ IsFiniteSet(F)
  BY TextType, WorldAssumption DEF OutInv, Held
<1>2. \A h \in F : In(t, h)
  <2> SUFFICES ASSUME NEW h \in F PROVE In(text, h)
    OBVIOUS
  <2>1. h \in [type : Types, start : Int, end : Int, score : Nat]
    BY <1>1, WorldAssumption
  <2>2. 0 <= h.start /\ h.start <= h.end /\ h.end <= Len(text)
    BY DEF Reported, PersonalYet, Sent, InText
  <2>3. h.start \in Nat /\ h.end \in Nat
    BY <2>1, <2>2
  <2>4. h \in Span
    BY <2>1, <2>3 DEF Span
  <2> QED BY <2>2, <2>3, <2>4 DEF In, Part
<1>3. Kin(t, F, f, g)
  BY DEF PartsOfOne, Kin
<1>4. PICK k \in Personal(t, F) :
          k.type = f.type /\ \E p \in (k.start + 1)..k.end : Holds(f, p) \/ Holds(g, p)
  BY DEF PartReported
<1>5. PICK p \in (k.start + 1)..k.end : Holds(f, p) \/ Holds(g, p)
  BY <1>4
<1>6. k \in spans /\ ~Public(k)
  <2>1. k \in spans
    BY <1>4 DEF Reported, PersonalYet, Sent
  <2> QED BY <1>4, <2>1 DEF PartsOfOne, Public
<1>7. In(t, k) /\ p \in Nat /\ Holds(k, p)
  <2>1. In(text, k)
    BY <1>6 DEF Reported, SpansIn
  <2> QED BY <1>5, <2>1 DEF In, Part, Holds
<1> HIDE DEF F, t
<1>8. In(t, f) /\ In(t, g)
  BY <1>2 DEF F
<1> DEFINE S == Merged(t, F)
           a == f.start
           b == IF f.end >= g.end THEN f.end ELSE g.end
<1>9. \A e \in Entities(t, F) : In(t, e)
  BY <1>1, <1>2, EntitiesShape
<1>10. \A e \in S : In(t, e) /\ e.start < e.end
  BY <1>9, AdjustedShape, MergedIs DEF Of
<1>11. k \in Unnumbered(t, S)
  <2>1. PICK u \in Unnumbered(t, S) : k = Tightened(t, u)
    BY <1>4 DEF Personal
  <2>2. \E e \in S : Of(t, u, e)
    BY <1>10, <2>1, UnnumberedShape
  <2>3. Of(t, k, u) /\ (u.type # "DATE" => k = u)
    BY <2>1, <2>2, TightenedShape DEF Of
  <2>4. u.type # "DATE"
    BY <1>4, <2>3 DEF Of, PartsOfOne
  <2> QED BY <2>1, <2>3, <2>4
<1>12. /\ a \in Nat /\ b \in Nat /\ f.end \in Nat /\ g.start \in Nat /\ g.end \in Nat
       /\ f.start <= f.end /\ g.start <= g.end /\ f.end <= b /\ g.end <= b
       /\ f.start < g.start /\ g.start - f.end <= 2
  BY <1>3, <1>8 DEF In, Part, Kin, Linked
<1>13. ASSUME NEW e \in S, NEW c \in Scaffolds(t, e) PROVE c.end <= a \/ b <= c.start
  <2>1. e.start \in Nat /\ e.end \in Nat /\ Inside(e, Whole(t))
        /\ Whole(t).start \in Nat /\ Whole(t).end \in Nat
    BY <1>1, <1>10 DEF In, Part, Inside, Whole, Interval
  <2>2. /\ c.start \in Nat /\ c.end \in Nat /\ c.end - c.start >= 3
        /\ c \in Scaffolds(t, Whole(t))
    BY <2>1, ScaffoldShape
  <2>3. Disjoint(c, f) /\ Disjoint(c, g)
    BY <2>2 DEF PartsOfOne, t
  <2> HIDE DEF S
  <2> QED BY <1>12, <2>2, <2>3 DEF Disjoint
<1>14. a < p /\ p <= b
  BY <1>5, <1>7, <1>12 DEF Holds
<1>15. PICK e \in S :
           /\ k.type = e.type /\ Holds(e, p)
           /\ \A q \in Nat : a < q /\ q <= b /\ Holds(e, q) /\ t[q] \notin Borders
                                 => Holds(k, q)
  <2>1. a \in Nat /\ b \in Nat
    BY <1>12
  <2> HIDE DEF S, a, b
  <2>2. \A d \in S : \A c \in Scaffolds(t, d) : c.end <= a \/ b <= c.start
    BY <1>13
  <2> QED BY <1>7, <1>10, <1>11, <1>14, <2>1, <2>2, UncutHolds
<1>16. PICK n \in Entities(t, F) : e = Trim(t, n, Borders, Borders)
  BY <1>15, MergedIs DEF Adjusted
<1>17. In(t, n) /\ In(t, e) /\ Inside(e, n) /\ e.type = n.type
  BY <1>9, <1>16, TrimIn
<1> HIDE DEF S, a, b
<1>18. \E m \in Entities(t, F) : Both(f, g, m)
  BY <1>1, <1>2, <1>3, OneEntity DEF F
<1>19. PICK m \in Entities(t, F) : Both(f, g, m)
  BY <1>18
<1>20. In(t, m) /\ Holds(m, p) /\ Holds(n, p)
  <2>1. In(t, m) /\ Inside(f, m) /\ Inside(g, m)
    BY <1>9, <1>19 DEF Both
  <2>2. Holds(m, p)
    BY <1>5, <1>7, <1>8, <2>1 DEF Inside, Holds, In, Part
  <2>3. Holds(n, p)
    BY <1>7, <1>15, <1>17 DEF Inside, Holds, In, Part
  <2> QED BY <2>1, <2>2, <2>3
<1>21. n = m
  <2>1. n = m \/ Disjoint(n, m)
    <3>1. n.type = f.type /\ m.type = f.type
      BY <1>4, <1>15, <1>17, <1>19 DEF Both
    <3> QED BY <1>1, <1>2, <1>3, <3>1, OneEntity DEF F
  <2> QED BY <1>7, <1>17, <1>20, <2>1 DEF Disjoint, Holds, In, Part
<1>22. ASSUME NEW q \in Nat, Holds(f, q) \/ Holds(g, q), t[q] \in Alnum
       PROVE  Covered(q) /\ Hidden(q)
  <2>0. In(t, m) /\ Inside(f, m) /\ Inside(g, m)
    BY <1>9, <1>19 DEF Both
  <2>1. Holds(n, q) /\ a < q /\ q <= b
    <3>1. Holds(m, q)
      BY <1>8, <1>22, <2>0 DEF Inside, Holds, In, Part
    <3>2. a < q /\ q <= b
      BY <1>12, <1>22 DEF Holds, a
    <3> QED BY <1>21, <3>1, <3>2
  <2>2. t[q] \notin Borders
    BY <1>22, NamesAssumption
  <2>3. Holds(e, q)
    BY <1>16, <1>17, <2>1, <2>2, TrimHolds
  <2>4. Holds(k, q)
    BY <1>15, <2>1, <2>2, <2>3
  <2> QED BY <1>6, <1>22, <2>4, HiddenAt DEF t
<1>23. \A q \in (f.start + 1)..f.end : q \in Nat /\ Holds(f, q)
  BY <1>12 DEF Holds, a
<1>24. \A q \in (g.start + 1)..g.end : q \in Nat /\ Holds(g, q)
  BY <1>12 DEF Holds
<1> QED BY <1>22, <1>23, <1>24 DEF HiddenIn, t

LEMMA OutTypes == OutInv /\ Reported => TypeOK
<1> SUFFICES ASSUME OutInv, Reported PROVE TypeOK
  OBVIOUS
<1>1. /\ world \in Worlds /\ text \in Seq(STRING) /\ Len(text) \in Nat /\ ArbInv /\ Held
      /\ out \in Seq(Items) /\ left \subseteq kept
  BY TextType DEF OutInv, Held
<1>2. at \in {"infra", "personal", "check", "arbitrate", "write", "sent", "refused"}
  BY <1>1 DEF Held
<1>3. pos \in 0..Len(text)
  BY <1>1 DEF Reported, Place
<1>4. \A s \in spans : s.start \in 0..Len(text) /\ s.end \in 0..Len(text)
  BY <1>1 DEF Reported, SpansIn, In, Part
<1>5. \A s \in given \cup waiting \cup kept \cup left : s.start < s.end /\ s.end <= Len(text)
  BY <1>1 DEF ArbInv, Shapes, Held, WellFormed
<1>6. against \subseteq kept /\ waiting \subseteq given
  BY <1>1 DEF ArbInv, Shapes
<1>7. \A i \in DOMAIN out : out[i] \in Items /\ i \in 1..Len(out)
  BY <1>1
<1>8. \A i \in DOMAIN out : out[i].by \in {"text", "substitute", "reference"}
  BY <1>7 DEF Items
<1>9. ASSUME at = "write", NEW s \in left, NEW i \in DOMAIN out, out[i].by # "text"
      PROVE  s.end <= out[i].start
  <2>1. s.start \in Nat /\ s.end \in Nat /\ s.start < s.end
    BY <1>1, KeptShape
  <2>2. Tiles(out, Len(out), Len(text)) /\ Untouched(out, s)
    BY <1>9 DEF OutInv, Rewritten
  <2>3. i \notin 1..s.end
    <3>1. ASSUME i \in 1..s.end PROVE FALSE
      <4>1. out[i] = Item(Interval(i - 1, i), "text")
        BY <2>2, <3>1 DEF Untouched
      <4>2. out[i].by = "text"
        BY <4>1 DEF Item
      <4> QED BY <1>9, <4>2
    <3> QED BY <3>1
  <2>4. s.end \in 1..Len(out) /\ s.end < i /\ i \in 1..Len(out)
    BY <1>1, <1>7, <2>1, <2>2, <2>3 DEF Untouched
  <2>5. out[s.end].end <= out[i].start
    BY <2>2, <2>4 DEF Tiles
  <2>6. out[s.end].end = s.end
    <3>1. s.end \in 1..s.end
      BY <2>1
    <3>2. out[s.end] = Item(Interval(s.end - 1, s.end), "text")
      BY <2>2, <3>1 DEF Untouched
    <3> QED BY <3>2 DEF Item, Interval
  <2> QED BY <2>5, <2>6
<1> QED BY <1>1, <1>2, <1>3, <1>4, <1>5, <1>6, <1>8, <1>9 DEF TypeOK

\* Every variable of an exchange has its type, and what is kept and not written yet is ahead
\* of what has been written.
THEOREM TypesOfTheExchange == SpecOutgoing => []TypeOK
BY OutInductive, OutTypes, PTL

\* The spans that transform rewrites by offsets share no character.
THEOREM WrittenPiecesNeverOverlap == SpecOutgoing => []KeptDisjoint
<1>1. OutInv /\ Reported => KeptDisjoint
  BY DEF OutInv, ArbInv
<1> QED BY <1>1, OutInductive, PTL

\* Each character that is rewritten goes to the first class that claims it.
THEOREM WrittenClassesRespected == SpecOutgoing => []ClassesRespected
<1>1. OutInv /\ Reported => ClassesRespected
  BY ArbClasses DEF OutInv
<1> QED BY <1>1, OutInductive, PTL

\* The rewriting by offsets gives the whole text back, each part once and in its place.
THEOREM TheTextLeavesWhole == SpecOutgoing => []TextIsWhole
<1>1. ASSUME OutInv, Reported PROVE TextIsWhole
  <2> SUFFICES ASSUME Sent
               PROVE  /\ out # <<>> => out[1].start = 0 /\ Last(out).end = Len(text)
                      /\ out = <<>> => Len(text) = 0
                      /\ \A i \in 1..(Len(out) - 1) : out[i].end = out[i + 1].start
    BY DEF TextIsWhole
  <2>0. at = "sent"
    BY DEF Sent
  <2>1. Tiles(out, Len(out), Len(text)) /\ out \in Seq(Items)
    <3>1. Tiles(out, Len(out), Len(text))
      BY <2>0, <1>1 DEF OutInv, Rewritten
    <3>2. out \in Seq(Items)
      BY <1>1 DEF OutInv, Held
    <3> QED BY <3>1, <3>2
  <2>2. out = <<>> <=> Len(out) = 0
    BY <2>1
  <2>3. Len(out) \in Nat
    BY <2>1
  <2> QED BY <2>1, <2>2, <2>3 DEF Tiles, Last
<1>2. OutInv /\ Reported => TextIsWhole
  BY <1>1
<1> QED BY <1>2, OutInductive, PTL

\* to_surrogate lets nothing through of what the detectors were certain to see, wherever
\* DetectClient cuts a long text, whatever resolve_overlaps is given.
THEOREM NothingCertainLeaves == SpecOutgoing => []NothingSeenLeaves
<1>1. OutInv /\ Reported => NothingSeenLeaves
  BY SeenHidden, CertainHidden, BlockHidden, UnseenHidden DEF NothingSeenLeaves
<1> QED BY <1>1, OutInductive, PTL

\* PiiClient.detect judges an entity and not its fragments: a fragment under the threshold
\* is never left in clear next to the substitute of the rest.
THEOREM EntitiesLeaveWhole == SpecOutgoing => []NoHalfEntity
<1>1. OutInv /\ Reported => NoHalfEntity
  BY PartsHidden DEF NoHalfEntity
<1> QED BY <1>1, OutInductive, PTL
=============================================================================
