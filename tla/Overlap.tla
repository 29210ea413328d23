------------------------------ MODULE Overlap ------------------------------
(***************************************************************************)
(* src/src/anonproxy/surrogates/overlap.py: spans that may overlap become  *)
(* pieces that do not.  Spans are taken in an order that puts secrets      *)
(* first and public spans last; what earlier ones already hold is cut out  *)
(* of each, and what remains is kept in pieces, never thrown away.         *)
(* A span is a record [type, start, end, score] that holds the characters  *)
(* start + 1 to end of a text.                                             *)
(***************************************************************************)
EXTENDS Integers, FiniteSets

CONSTANTS Types,                     \* the types of a span
          SecretTypes, PublicTypes,  \* the classes SECRET and PUBLIC of classes.py
          Priority(_)                \* priority_of: the smaller wins

\* A type has one class (CLASS_OF).
ASSUME ClassesAssumption ==
    /\ SecretTypes \cup PublicTypes \subseteq Types
    /\ SecretTypes \cap PublicTypes = {}

VARIABLES given,    \* the spans to arbitrate
          waiting,  \* those not taken yet
          hand,     \* the span being cut, or none
          pieces,   \* what remains of it, as intervals
          against,  \* kept pieces it has not been compared with
          kept      \* what is retained

arbitration == <<given, waiting, hand, pieces, against, kept>>

NoSpan == [type |-> "none", start |-> 0, end |-> 0, score |-> 0]

Interval(from, to) == [start |-> from, end |-> to]
Holds(s, p)    == s.start < p /\ p <= s.end
Disjoint(a, b) == a.end <= b.start \/ b.end <= a.start

Secret(s) == s.type \in SecretTypes
Public(s) == s.type \in PublicTypes
Class(s)  == IF Secret(s) THEN 0 ELSE IF Public(s) THEN 2 ELSE 1

\* (mutant) the longest span first, whatever its class.
BeforeByLength(s, t) == s.end - s.start > t.end - t.start

\* _sort_key, up to what only makes it total (the name of the type and the position).
Before(s, t) ==
    \/ Class(s) < Class(t)
    \/ /\ Class(s) = Class(t)
       /\ \/ s.end - s.start > t.end - t.start
          \/ /\ s.end - s.start = t.end - t.start
             /\ \/ Priority(s.type) < Priority(t.type)
                \/ Priority(s.type) = Priority(t.type) /\ s.score > t.score

\* The next span in the order.
Take(s) ==
    /\ hand = NoSpan
    /\ s \in waiting /\ \A t \in waiting : ~Before(t, s)
    /\ waiting' = waiting \ {s}
    /\ hand' = s
    /\ pieces' = {Interval(s.start, s.end)} /\ against' = kept
    /\ UNCHANGED <<given, kept>>

\* (mutant) what follows a kept piece begins with its last character.
MinusLate(i, k) ==
    IF Disjoint(i, k) THEN {i}
    ELSE (IF i.start < k.start THEN {Interval(i.start, k.start)} ELSE {})
            \cup (IF k.end < i.end THEN {Interval(k.end - 1, i.end)} ELSE {})

\* What an interval keeps outside a kept piece.
Minus(i, k) ==
    IF Disjoint(i, k) THEN {i}
    ELSE (IF i.start < k.start THEN {Interval(i.start, k.start)} ELSE {})
            \cup (IF k.end < i.end THEN {Interval(k.end, i.end)} ELSE {})

\* One turn of the loop of _uncovered.
Cut(k) ==
    /\ hand # NoSpan /\ pieces # {}
    /\ k \in against /\ against' = against \ {k}
    /\ pieces' = UNION {Minus(i, k) : i \in pieces}
    /\ UNCHANGED <<given, waiting, hand, kept>>

\* What remains is kept under the type and score of its span.
Keep ==
    /\ hand # NoSpan /\ (against = {} \/ pieces = {})
    /\ kept' = kept \cup {[hand EXCEPT !.start = i.start, !.end = i.end] : i \in pieces}
    /\ hand' = NoSpan /\ pieces' = {} /\ against' = {}
    /\ UNCHANGED <<given, waiting>>

Arbitrate ==
    \/ \E s \in waiting : Take(s)
    \/ \E k \in against : Cut(k)
    \/ Keep

Idle == waiting = {} /\ hand = NoSpan /\ pieces = {} /\ against = {} /\ kept = {}

\* resolve_overlaps, for any spans that hold something.
Span == [type : Types, start : Nat, end : Nat, score : Nat]
WellFormed(s) == s \in Span /\ s.start < s.end

Init ==
    /\ \A s \in given : WellFormed(s)
    /\ waiting = given /\ hand = NoSpan /\ pieces = {} /\ against = {} /\ kept = {}

Spec == Init /\ [][Arbitrate]_arbitration

Arbitrated == waiting = {} /\ hand = NoSpan

\* No two kept pieces hold the same character: the replacement by offsets that
\* follows would otherwise write a piece of one value into the other.
KeptDisjoint == \A a, b \in kept : a = b \/ Disjoint(a, b)

\* Nothing a span claimed is lost on the way: each character is kept, or still
\* claimed by a span that waits.
NothingGivenUp ==
    \A s \in given : \A p \in (s.start + 1)..s.end :
        \/ \E k \in kept : Holds(k, p)
        \/ \E t \in waiting : Holds(t, p)
        \/ hand # NoSpan /\ Holds(hand, p)

\* A character that a secret claims is kept as a secret, and one that anything else
\* claims is not kept as public: a public span is left in clear.
ClassesRespected ==
    Arbitrated =>
        \A s \in given : \A k \in kept : \A p \in (s.start + 1)..s.end :
            Holds(k, p) => /\ Secret(s) => Secret(k)
                           /\ ~Public(s) => ~Public(k)
=============================================================================
