------------------------------ MODULE Outgoing ------------------------------
(***************************************************************************)
(* One text on its way out (Pseudonymizer.to_surrogate, the two detectors, *)
(* SurrogateEngine.transform): the infrastructure detector is asked piece  *)
(* by piece when the text is long, then the personal-data detector, the    *)
(* inventory completes them, the spans are arbitrated (module Overlap) and *)
(* the text is rewritten from its end, by offsets.                         *)
(* Each detector may fail, and so may the substitution of a span: module   *)
(* Engine is what it does, here it is what it puts in place of a span.     *)
(* The world is what the recognizers would report: the text, the infra-    *)
(* structure spans in it, and the fragments of personal entities.          *)
(***************************************************************************)
EXTENDS Spans

CONSTANTS Worlds,     \* records [text, infra, personal]
          Threshold,  \* regex_threshold: longer texts are cut
          Reach       \* the overlap of two pieces (256)

ASSUME OutgoingAssumption ==
    /\ Threshold \in Nat /\ Reach \in Nat \ {0} /\ MinScore \in Nat
    /\ DateChars \subseteq Digits

\* What the detectors report of a text: the service finds its spans in it, the
\* personal-data model may answer anything that is a span.
ASSUME WorldAssumption ==
    \A w \in Worlds :
        /\ w.text \in Seq(STRING)
        /\ \A e \in w.infra : e \in Span /\ e.start < e.end /\ e.end <= Len(w.text)
        /\ IsFiniteSet(w.personal)
        /\ w.personal \subseteq [type : Types, start : Int, end : Int, score : Nat]

\* A letter or a digit is no punctuation; the types that this module names are types of
\* CLASS_OF, and none is public.
ASSUME NamesAssumption ==
    /\ Alnum \cap (Borders \cup TrimLeft \cup TrimRight \cup Links \cup Separators
                      \cup {"[", "]"}) = {}
    /\ {"PERSON", "INVENTORY", "CERTIFICATE"} \subseteq Types \ PublicTypes

VARIABLES world, at,
          pos,     \* where the next piece begins
          spans,   \* what the detectors have reported
          left,    \* kept spans not written yet
          out      \* the text as it is rewritten: items [start, end, by]

vars == <<arbitration, world, at, pos, spans, left, out>>

text == world.text
Size == Max({Threshold, 4 * Reach})
Long == Len(text) > Threshold

Item(s, by) == [start |-> s.start, end |-> s.end, by |-> by]

----------------------------------------------------------------------------
(* DetectClient. *)

\* (mutant) the next piece begins where this one ends.
NextPieceAtEnd(from, end) == end
\* The next piece takes the end of this one again.
NextPiece(from, end) == Max({end - Reach, from + 1})

\* Where a piece ends: after the last line end in its last part, if there is one.
PieceEnd(from) ==
    LET end   == Min({from + Size, Len(text)})
        lines == {p \in (from + Size - Reach + 1)..end : text[p] = "\n"}
    IN  IF end < Len(text) /\ lines # {} THEN Max(lines) ELSE end

Moved(s, by) == [s EXCEPT !.start = @ + by, !.end = @ + by]

\* What the service answers for the characters from + 1 to end: it sees the entities
\* that are whole in them, and some part or nothing of those it sees the end of.
Answered(from, end, cut) ==
    LET piece == SubSeq(text, from + 1, end)
        found == {e \in world.infra : from <= e.start /\ e.end <= end} \cup cut
    IN  {Moved(e, from) : e \in Serviced(piece, {Moved(f, -from) : f \in found}) \cup Blocks(piece)}

CutOff(from, end) ==
    {[e EXCEPT !.start = Max({@, from}), !.end = Min({e.end, end})] :
        e \in {f \in world.infra : /\ ~(from <= f.start /\ f.end <= end)
                                   /\ from < f.end /\ f.start < end}}

Detect ==
    /\ at = "infra"
    /\ LET end == IF Long THEN PieceEnd(pos) ELSE Len(text)
       IN  /\ \E cut \in SUBSET CutOff(pos, end) :
                 spans' = spans \cup Answered(pos, end, cut) \cup Blocks(text)
           /\ IF end < Len(text)
              THEN pos' = NextPiece(pos, end) /\ UNCHANGED at
              ELSE at' = "personal" /\ UNCHANGED pos
    /\ UNCHANGED <<arbitration, world, left, out>>

----------------------------------------------------------------------------
(* PiiClient and CompositeDetector. *)

\* merge_fragments refuses a fragment that is not in the text.
InText(f) == 0 <= f.start /\ f.start <= f.end /\ f.end <= Len(text)

DetectPersonal ==
    /\ at = "personal" /\ \A f \in world.personal : InText(f)
    /\ LET seen == spans \cup Personal(text, world.personal)
       IN  spans' = seen \cup Inventoried(text, seen)
    /\ at' = "check"
    /\ UNCHANGED <<arbitration, world, pos, left, out>>

\* A detector out of reach, an answer that cannot be used: nothing leaves.
Fail ==
    /\ at \in {"infra", "personal", "write"} /\ at' = "refused"
    /\ UNCHANGED <<arbitration, world, pos, spans, left, out>>

----------------------------------------------------------------------------
(* transform. *)

\* (mutant) an empty span is let through.
MalformedTooLong(s) == s.end > Len(text)
Malformed(s) == s.start >= s.end \/ s.end > Len(text)

Check ==
    /\ at = "check"
    /\ IF \E s \in spans : Malformed(s)
       THEN at' = "refused" /\ UNCHANGED <<given, waiting>>
       ELSE at' = "arbitrate" /\ given' = spans /\ waiting' = spans
    /\ UNCHANGED <<hand, pieces, against, kept, world, pos, spans, left, out>>

Resolve ==
    /\ at = "arbitrate" /\ Arbitrate
    /\ UNCHANGED <<world, at, pos, spans, left, out>>

\* The text as it came, character by character.
AsItIs == [p \in 1..Len(text) |-> Item(Interval(p - 1, p), "text")]

Rewrite ==
    /\ at = "arbitrate" /\ Arbitrated
    /\ left' = kept /\ out' = AsItIs /\ at' = "write"
    /\ UNCHANGED <<arbitration, world, pos, spans>>

\* What substitute_value gives for a span: public classes, what has no letter or digit and
\* the exact entries of the allow-list stay, secrets become references, the rest substitutes.
ExactEntry(s) == Allowed(Value(text, s), s.type) /\ ~Ours(Value(text, s))
InPlaceOf(s) ==
    IF Public(s) \/ ~Has(text, s, Alnum) THEN "text"
    ELSE IF Secret(s) THEN "reference"
    ELSE IF ExactEntry(s) THEN "text" ELSE "substitute"

\* (mutant) the text is rewritten from its beginning.
FirstWritten(s) == \A k \in left : s.start <= k.start

\* From the end: the offsets of what is left to write stay right.
NextWritten(s) == \A k \in left : k.start <= s.start

Write(s) ==
    /\ at = "write" /\ s \in left /\ NextWritten(s)
    /\ out' = SubSeq(out, 1, s.start) \o <<Item(s, InPlaceOf(s))>>
                 \o SubSeq(out, s.end + 1, Len(out))
    /\ left' = left \ {s}
    /\ UNCHANGED <<arbitration, world, at, pos, spans>>

Send ==
    /\ at = "write" /\ left = {} /\ at' = "sent"
    /\ UNCHANGED <<arbitration, world, pos, spans, left, out>>

InitOutgoing ==
    /\ world \in Worlds /\ at = "infra" /\ pos = 0 /\ spans = {}
    /\ given = {} /\ Idle /\ left = {} /\ out = <<>>

Next ==
    \/ Detect \/ DetectPersonal \/ Fail \/ Check \/ Resolve \/ Rewrite
    \/ \E s \in left : Write(s)
    \/ Send

SpecOutgoing == InitOutgoing /\ [][Next]_vars

----------------------------------------------------------------------------
(* Properties. *)

\* Every variable has its type; what is kept and not written yet is ahead of the text
\* that has been written.
TypeOK ==
    /\ at \in {"infra", "personal", "check", "arbitrate", "write", "sent", "refused"}
    /\ pos \in 0..Len(text)
    /\ \A s \in spans : s.start \in 0..Len(text) /\ s.end \in 0..Len(text)
    /\ \A s \in given \cup waiting \cup kept \cup left : s.start < s.end /\ s.end <= Len(text)
    /\ left \subseteq kept /\ against \subseteq kept /\ waiting \subseteq given
    /\ \A i \in DOMAIN out : out[i].by \in {"text", "substitute", "reference"}
    /\ at = "write" => \A s \in left : \A i \in DOMAIN out :
                           out[i].by # "text" => s.end <= out[i].start

Sent == at = "sent"
ItemAt(p) == CHOOSE x \in ToSet(out) : Holds(x, p)
Covered(p) == \E x \in ToSet(out) : Holds(x, p)

\* What leaves is the text, each part once and in its place: nothing of a value is
\* written twice, and nothing between two values is lost.
TextIsWhole ==
    Sent => /\ out # <<>> => out[1].start = 0 /\ Last(out).end = Len(text)
            /\ out = <<>> => Len(text) = 0
            /\ \A i \in 1..(Len(out) - 1) : out[i].end = out[i + 1].start

\* A character that does not leave: something stands for it, or its piece is an exact
\* entry of the allow-list that is not ours.
Hidden(p) == LET x == ItemAt(p)
             IN  \/ x.by # "text"
                 \/ \E k \in kept : Holds(k, p) /\ ExactEntry(k)

HiddenIn(s) == \A p \in (s.start + 1)..s.end : text[p] \in Alnum => Covered(p) /\ Hidden(p)

\* What the infrastructure detector is certain to see: an entity of a class that is
\* hidden, that with its token is no longer than the overlap of two pieces, and not public.
Seen(e) ==
    LET s == Trim(text, e, TrimLeft, TrimRight)
        token == Token(text, s)
    IN  /\ ~Public(e) /\ Value(text, e) \notin AllowExact
        /\ ~PublicToken(text, s) /\ ~FalseCard(text, s, world.infra)
        /\ Long => Max({token.end, e.end}) - Min({token.start, e.start}) <= Reach

\* A personal entity that came in one piece, on one line, certain and well formed.
Certain(f) ==
    /\ InText(f) /\ f.score >= MinScore /\ f.type = "PERSON"
    /\ Scaffolds(text, f) = {} /\ Plausible(text, Trim(text, f, Borders, Borders))
    /\ \A g \in world.personal \ {f} : ~Linked(text, f, g) /\ ~Linked(text, g, f)

\* A token that is ours and that no detector says anything of.
OursUnseen(r) ==
    Ours(Value(text, r)) /\ \A s \in world.infra \cup world.personal : Disjoint(s, r)

\* Nothing that was certain to be seen leaves in clear, however long the text, wherever
\* it is cut, whatever overlaps it; and nothing leaves when a detector is out of reach.
NothingSeenLeaves ==
    Sent => /\ \A e \in world.infra : Seen(e) => HiddenIn(Trim(text, e, TrimLeft, TrimRight))
            /\ \A f \in world.personal : Certain(f) => HiddenIn(f)
            /\ \A b \in Blocks(text) : HiddenIn(b)
            /\ \A r \in Runs(text, Whole(text), TokenChars) : OursUnseen(r) => HiddenIn(r)

\* Two fragments that merge_fragments must put together: no fragment of another type begins
\* between them or inside one of their type, and no line number of a tool output meets them.
PartsOfOne(f, g) ==
    /\ Linked(text, f, g) /\ f.start < g.start /\ f.type \notin PublicTypes \cup {"DATE"}
    /\ \A h \in world.personal : h.type # f.type =>
          /\ h.start \notin f.end..g.start
          /\ \A e \in world.personal : e.type = f.type => Earlier(h, e) \/ e.end <= h.start
    /\ \A c \in Scaffolds(text, Whole(text)) : Disjoint(c, f) /\ Disjoint(c, g)

\* An entity that is reported and that meets one of them.
PartReported(f, g) ==
    \E k \in Personal(text, world.personal) :
        k.type = f.type /\ \E p \in (k.start + 1)..k.end : Holds(f, p) \/ Holds(g, p)

\* A substitute for a part of a personal entity never stands next to the rest of it in
\* clear: it would have the shape of a protection.
NoHalfEntity ==
    Sent => \A f, g \in world.personal :
                PartsOfOne(f, g) /\ PartReported(f, g) => HiddenIn(f) /\ HiddenIn(g)

\* (violated) A name of the inventory is ours whatever a detector says of it.
OursIsHidden ==
    Sent => \A r \in Runs(text, Whole(text), TokenChars) : Ours(Value(text, r)) => HiddenIn(r)

\* (violated) What a line number cuts in two stays replaced, both parts of it.
BothPartsHidden ==
    Sent => \A f \in world.personal :
        f.score >= MinScore /\ f.type # "DATE" /\ Plausible(text, f)
            => \A p \in (f.start + 1)..f.end :
                  /\ text[p] \in Letters
                  /\ \A c \in Scaffolds(text, f) : ~Holds(c, p) => Hidden(p)
=============================================================================
