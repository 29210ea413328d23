------------------------------- MODULE Spans -------------------------------
(***************************************************************************)
(* What is done to the spans of one text before they are arbitrated:       *)
(*   the detection service trims them and drops what is public             *)
(*     (src/services/anonshield/wrapper/app.py),                           *)
(*   the personal-data client puts fragments together again, cuts line     *)
(*     numbers out and judges the entity (src/src/anonproxy/pii/spans.py,  *)
(*     client.py),                                                         *)
(*   the inventory adds the tokens that are ours where nothing was seen.   *)
(* A text is a sequence of characters; a span holds start + 1 to end.      *)
(***************************************************************************)
EXTENDS Overlap, SequencesExt

CONSTANTS Capitals, Small, Digits,  \* characters
          DateChars,                \* the digits that dates are written with
          Labels,                   \* inventory: segments that are ours
          AllowExact, AllowTyped,   \* allow-list: values, and <<value, type>>
          NotCards,                 \* values whose checksum is not that of a card
          Streets,                  \* words that name a street
          MinScore                  \* least score of a personal entity

Letters == Capitals \cup Small
Alnum   == Letters \cup Digits
Space      == {" "}
Structure  == {"\t", "\n"}
White      == Space \cup Structure
Links      == {"-", "'"}
Borders    == White \cup {",", ".", "(", ")"}
TrimLeft   == {"(", "'"}
TrimRight  == {")", "'", ",", "."}
Separators == {".", "/", "-"}
TokenChars == Alnum \cup Separators

Value(t, s) == SubSeq(t, s.start + 1, s.end)
Has(t, s, C) == \E p \in (s.start + 1)..s.end : t[p] \in C
Inside(a, b) == b.start <= a.start /\ a.end <= b.end
Whole(t) == Interval(0, Len(t))

\* The longest intervals of a text that hold only characters of a set.
Runs(t, s, C) ==
    {r \in [start : s.start..s.end, end : s.start..s.end] :
        /\ r.start < r.end /\ \A p \in (r.start + 1)..r.end : t[p] \in C
        /\ r.start = s.start \/ t[r.start] \notin C
        /\ r.end = s.end \/ t[r.end + 1] \notin C}

Words(t, s) == {Value(t, r) : r \in Runs(t, s, ToSet(t) \ (White \cup {","}))}

\* A span without the characters of L at its start and of R at its end.
Trim(t, s, L, R) ==
    LET from == CHOOSE i \in s.start..s.end :
                    /\ i = s.end \/ t[i + 1] \notin L
                    /\ \A p \in (s.start + 1)..i : t[p] \in L
        to   == CHOOSE j \in from..s.end :
                    /\ j = from \/ t[j] \notin R
                    /\ \A p \in (j + 1)..s.end : t[p] \in R
    IN  [s EXCEPT !.start = from, !.end = to]

----------------------------------------------------------------------------
(* The detection service. *)

\* _expand_token: the characters around a span up to the next spaces, trimmed.
Token(t, s) ==
    LET words == Runs(t, Whole(t), ToSet(t) \ White)
        from  == Min({s.start} \cup {r.start : r \in {w \in words : Holds(w, s.start)}})
        to    == Max({s.end} \cup {r.end : r \in {w \in words : Holds(w, s.end + 1)}})
    IN  Trim(t, Interval(from, to), TrimLeft, TrimRight)

\* est_a_nous: one of the segments is a label of the inventory.
Ours(v) == \E r \in Runs(v, Whole(v), ToSet(v) \ Separators) : Value(v, r) \in Labels

Allowed(v, type) == v \in AllowExact \/ <<v, type>> \in AllowTyped

\* _raison_publique: the whole token decides, or a path segment of it; what is ours is never public.
PublicToken(t, e) ==
    LET token == Token(t, e)
        v     == Value(t, e)
    IN  /\ ~Ours(Value(t, token)) /\ ~Ours(v)
        /\ \/ Allowed(Value(t, token), e.type)
           \/ /\ \E r \in Runs(t, token, ToSet(t) \ {"/"}) : Value(t, r) = v
              /\ Allowed(v, e.type)

\* _ecarter_cartes_invalides: no card, and part of something longer.
FalseCard(t, e, among) ==
    /\ e.type = "CREDIT_CARD" /\ Value(t, e) \in NotCards
    /\ \E a \in among : Inside(e, a) /\ a.end - a.start > e.end - e.start

\* What POST /detect answers for the spans its analyzer finds in a text.
Serviced(t, found) ==
    LET trimmed == {Trim(t, e, TrimLeft, TrimRight) :
                        e \in {f \in found : Value(t, f) \notin AllowExact}}
    IN  {e \in trimmed : ~FalseCard(t, e, trimmed) /\ ~PublicToken(t, e)}

----------------------------------------------------------------------------
(* The personal-data client. *)

\* _ajuster.
Adjusted(t, spans) == {s \in {Trim(t, f, Borders, Borders) : f \in spans} : s.start < s.end}

\* What may stand between two fragments of one entity.
Linked(t, a, b) ==
    /\ a.type = b.type /\ b.start - a.end <= 2
    /\ \A p \in (a.end + 1)..b.start : t[p] \in Links \cup Space

Earlier(a, b) == a.start < b.start \/ (a.start = b.start /\ a.end < b.end)

Sorted(fragments) ==
    CHOOSE o \in SetToSeqs(fragments) : \A i, j \in DOMAIN o : i < j => ~Earlier(o[j], o[i])

\* One turn of the loop: a fragment is linked to the entity in hand, or begins another.
Join(t, made, next) ==
    LET a == made.last
    IN  IF Linked(t, a, next)
        THEN [made EXCEPT !.last = [a EXCEPT !.end   = Max({a.end, next.end}),
                                             !.score = Min({a.score, next.score})]]
        ELSE [done |-> made.done \cup {a}, last |-> next]

\* merge_fragments: the least certain fragment gives its score to the whole.
Merged(t, fragments) ==
    LET order == Sorted(fragments)
        made[i \in DOMAIN order] ==
            IF i = 1 THEN [done |-> {}, last |-> order[1]] ELSE Join(t, made[i - 1], order[i])
        all == made[Len(order)]
    IN  IF fragments = {} THEN {} ELSE Adjusted(t, all.done \cup {all.last})

\* The line numbers of a tool output that a span runs across.
Scaffolds(t, s) ==
    {r \in [start : s.start..s.end, end : s.start..s.end] :
        /\ r.end - r.start >= 3 /\ t[r.start + 1] = "\n" /\ t[r.end] = "\t"
        /\ \E d \in (r.start + 2)..(r.end - 1) :
              /\ \A p \in (r.start + 2)..(d - 1) : t[p] \in {" ", "\t"}
              /\ \A p \in d..(r.end - 1) : t[p] \in Digits}

\* couper_echafaudage.
Unnumbered(t, spans) ==
    UNION {LET cuts == Scaffolds(t, s)
               free == {r \in [start : s.start..s.end, end : s.start..s.end] :
                           /\ r.start = s.start \/ \E c \in cuts : c.end = r.start
                           /\ r.end = s.end \/ \E c \in cuts : c.start = r.end
                           /\ \A c \in cuts : Disjoint(c, r)
                           /\ r.start <= r.end}
           IN  IF cuts = {} THEN {s}
               ELSE Adjusted(t, {[s EXCEPT !.start = r.start, !.end = r.end] : r \in free})
           : s \in spans}

\* resserrer: a DATE that holds one date is that date.
Tightened(t, s) ==
    LET dates == Runs(t, s, DateChars)
    IN  IF s.type = "DATE" /\ Cardinality(dates) = 1
        THEN LET d == CHOOSE r \in dates : TRUE IN [s EXCEPT !.start = d.start, !.end = d.end]
        ELSE s

\* garder: the entity has the form of its type.
Plausible(t, s) ==
    CASE s.type = "ADDRESS" ->
            /\ Has(t, s, Letters)
            /\ \/ Words(t, s) \cap Streets # {}
               \/ Cardinality(Words(t, s)) >= 2 \/ Has(t, s, {","})
      [] s.type = "PERSON" ->
            /\ Has(t, s, Letters)
            /\ Cardinality(Words(t, s)) >= 2 \/ t[s.start + 1] \in Capitals
      [] s.type = "DATE" -> Has(t, s, Digits)
      [] OTHER -> TRUE

\* (mutant) fragments are judged before they are put together.
PersonalJudgedFirst(t, fragments) ==
    {Tightened(t, s) : s \in Unnumbered(t, Merged(t, {f \in fragments : f.score >= MinScore}))}

\* PiiClient.detect.
Personal(t, fragments) ==
    LET entities == {Tightened(t, s) : s \in Unnumbered(t, Merged(t, fragments))}
    IN  {s \in entities : Plausible(t, s) /\ s.score >= MinScore}

\* spans_inventaire: the tokens that are ours and that no span touches.
Inventoried(t, seen) ==
    {[type |-> "INVENTORY", start |-> r.start, end |-> r.end, score |-> 10] :
        r \in {k \in Runs(t, Whole(t), TokenChars) :
                   Ours(Value(t, k)) /\ \A s \in seen : Disjoint(s, k)}}

\* _detect_blocs_longs: a block runs from a begin mark to the next end mark, and the
\* begin marks in it are part of it. All blocks have the same label.
Blocks(t) ==
    {[type |-> "CERTIFICATE", start |-> r.start, end |-> r.end, score |-> 9] :
        r \in {k \in [start : 0..Len(t), end : 1..Len(t)] :
                   /\ k.start < k.end /\ t[k.start + 1] = "[" /\ t[k.end] = "]"
                   /\ \A p \in (k.start + 2)..(k.end - 1) : t[p] # "]"
                   /\ \A p \in 1..k.start : t[p] = "[" => \E q \in p..k.start : t[q] = "]"}}
=============================================================================
