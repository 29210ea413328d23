------------------------------- MODULE Stream -------------------------------
(***************************************************************************)
(* The streamed answer: _TextBuffer and SSERewriter (anthropic_walker.py)  *)
(* between the events of the upstream and the client.  A text is a sequence*)
(* of letters and the upstream cuts it where it likes, so a surrogate may  *)
(* arrive in several deltas; tool arguments are kept until their block     *)
(* stops.  The upstream may skip a start, stop a block that is not open,   *)
(* put text and arguments on one index, or break off.                      *)
(***************************************************************************)
EXTENDS Naturals, Sequences, FiniteSets

CONSTANTS Letters,     \* the letters of a text
          Surrogates,  \* the surrogates of the view, as sequences of letters
          Indices,     \* the block indices
          MaxChunk,    \* bound: letters in a delta
          MaxLetters,  \* bound: letters in the whole stream
          EndOfJson,   \* the letter that makes tool arguments well-formed
          NONE

ASSUME StreamAssumption ==
    /\ Surrogates \subseteq Seq(Letters) \ {<<>>}
    /\ IsFiniteSet(Surrogates)
    /\ EndOfJson \in Letters
    /\ MaxChunk \in Nat /\ MaxLetters \in Nat
    /\ NONE \notin Seq(Letters)

VARIABLES text,   \* text[i]: the tail buffer of block i, or NONE
          json,   \* json[i]: the arguments accumulated for block i, or NONE
          shown,  \* shown[i]: what the client has received for i, per kind
          left,   \* letters the upstream may still send
          phase,  \* "open", "ended" (message_stop), "closed", "broken"
          due,    \* history: what the blocks of i that stopped should have shown
          given   \* history: what the upstream has sent since, unresolved

vars == <<text, json, shown, left, phase, due, given>>

----------------------------------------------------------------------------
(* Substituter: what a regular expression made of the surrogates, longest  *)
(* first, finds from left to right.                                        *)

MatchesAt(t, i) ==
    {s \in Surrogates : i + Len(s) - 1 <= Len(t) /\ SubSeq(t, i, i + Len(s) - 1) = s}

Longest(S) == CHOOSE s \in S : \A u \in S : Len(u) <= Len(s)

\* The piece of t that begins at i is a surrogate, or a letter in none.
Piece(t, i) ==
    LET M == MatchesAt(t, i) IN IF M = {} THEN [letter |-> <<t[i]>>] ELSE [real |-> Longest(M)]

EndOf(t, i) ==
    LET M == MatchesAt(t, i) IN IF M = {} THEN i ELSE i + Len(Longest(M)) - 1

\* pattern.sub from i on: what is put back, and where the pieces end.
Sub(t) ==
    LET from[i \in 1..(Len(t) + 1)] ==
            IF i = Len(t) + 1 THEN [out |-> <<>>, ends |-> {}]
            ELSE LET rest == from[EndOf(t, i) + 1]
                 IN  [out  |-> <<Piece(t, i)>> \o rest.out,
                      ends |-> {EndOf(t, i)} \cup rest.ends]
    IN  from

Ends(t) == Sub(t)[1].ends

\* to_real: each surrogate is put back as one real value.
Resolve(t) == Sub(t)[1].out

\* max_surrogate_len
Keep == IF Surrogates = {} THEN 0 ELSE Len(Longest(Surrogates))

\* (mutant) the cut falls where the length says.
CutAnywhere(buf) == IF Len(buf) <= Keep THEN 0 ELSE Len(buf) - Keep

\* (mutant) a surrogate that straddles that point is waited for.
CutWaits(buf) ==
    IF Len(buf) > Keep /\ Len(buf) - Keep \in Ends(buf)
    THEN Len(buf) - Keep ELSE 0

\* How much of the buffer is sure to be complete: all but the last Keep
\* letters, and the whole of a surrogate that straddles that point.
Cut(buf) ==
    IF Len(buf) <= Keep THEN 0
    ELSE LET past == {e \in Ends(buf) : e >= Len(buf) - Keep}
         IN  CHOOSE e \in past : \A f \in past : e <= f

\* _resolve_tool_args: parsed and resolved whole, or given back as it is.
ToolArgs(raw) ==
    IF raw # <<>> /\ raw[Len(raw)] = EndOfJson THEN Resolve(raw)
    ELSE [k \in 1..Len(raw) |-> [letter |-> <<raw[k]>>]]

----------------------------------------------------------------------------

Kinds == {"text", "json"}
Nothing == [i \in Indices |-> [kind \in Kinds |-> <<>>]]
Running == phase \in {"open", "ended"}
Held(x) == IF x = NONE THEN <<>> ELSE x

Init ==
    /\ text = [i \in Indices |-> NONE]
    /\ json = [i \in Indices |-> NONE]
    /\ shown = Nothing
    /\ phase = "open"
    /\ left = MaxLetters
    /\ due = Nothing
    /\ given = Nothing

Chunks == UNION {[1..n -> Letters] : n \in 1..MaxChunk}

\* What the text or the arguments given should show.
Shows(kind, t) == IF kind = "text" THEN Resolve(t) ELSE ToolArgs(t)

\* History: the blocks of I stop.
Settle(I) ==
    /\ due' = [i \in Indices |->
         IF i \notin I THEN due[i]
         ELSE [kind \in Kinds |-> due[i][kind] \o Shows(kind, given[i][kind])]]
    /\ given' = [i \in Indices |-> IF i \in I THEN Nothing[i] ELSE given[i]]

----------------------------------------------------------------------------

\* content_block_start.  On an index in use it puts a new accumulator in the
\* place of the old one, whose content is lost.
BlockStart(i, kind) ==
    /\ Running
    /\ text' = IF kind = "text" THEN [text EXCEPT ![i] = <<>>] ELSE text
    /\ json' = IF kind = "json" THEN [json EXCEPT ![i] = <<>>] ELSE json
    /\ due' = [due EXCEPT ![i][kind] = shown[i][kind]]
    /\ given' = [given EXCEPT ![i][kind] = <<>>]
    /\ UNCHANGED <<shown, phase, left>>

Send(i, kind, c) ==
    /\ Running
    /\ Len(c) <= left
    /\ left' = left - Len(c)
    /\ given' = [given EXCEPT ![i][kind] = @ \o c]

\* text_delta: the buffer is created on the way if the start never came.
TextDelta(i, c) ==
    LET buf == Held(text[i]) \o c IN
    /\ Send(i, "text", c)
    /\ text' = [text EXCEPT ![i] = SubSeq(buf, Cut(buf) + 1, Len(buf))]
    /\ shown' = [shown EXCEPT ![i]["text"] = @ \o Resolve(SubSeq(buf, 1, Cut(buf)))]
    /\ UNCHANGED <<json, phase, due>>

\* input_json_delta: kept, nothing is emitted.
JsonDelta(i, c) ==
    /\ Send(i, "json", c)
    /\ json' = [json EXCEPT ![i] = Held(@) \o c]
    /\ UNCHANGED <<text, shown, phase, due>>

\* The accumulators of the blocks of I are popped and emitted.
Flush(I) ==
    /\ text' = [i \in Indices |-> IF i \in I THEN NONE ELSE text[i]]
    /\ json' = [i \in Indices |-> IF i \in I THEN NONE ELSE json[i]]
    /\ shown' = [i \in Indices |->
         IF i \notin I THEN shown[i]
         ELSE [kind \in Kinds |->
                 shown[i][kind] \o Shows(kind, Held(IF kind = "text" THEN text[i] ELSE json[i]))]]
    /\ Settle(I)

\* content_block_stop, of an open block or not.
BlockStop(i) == Running /\ Flush({i}) /\ UNCHANGED <<phase, left>>

\* message_delta: close() before it goes out.
MessageDelta == Running /\ Flush(Indices) /\ UNCHANGED <<phase, left>>

\* (mutant) message_stop goes out before what is still held.
MessageStopBare ==
    phase = "open" /\ phase' = "ended" /\ UNCHANGED <<text, json, shown, due, given, left>>

MessageStop == phase = "open" /\ Flush(Indices) /\ phase' = "ended" /\ UNCHANGED left

\* The upstream has nothing more: close() once again.
StreamEnds == Running /\ Flush(Indices) /\ phase' = "closed" /\ UNCHANGED left

\* The upstream breaks off: an error event, and what is held is lost.
StreamBreaks ==
    Running /\ phase' = "broken" /\ UNCHANGED <<text, json, shown, due, given, left>>

Over == phase \in {"closed", "broken"} /\ UNCHANGED vars

Next ==
    \/ \E i \in Indices :
        \/ \E kind \in Kinds : BlockStart(i, kind)
        \/ \E c \in Chunks : TextDelta(i, c) \/ JsonDelta(i, c)
        \/ BlockStop(i)
    \/ MessageDelta \/ MessageStop \/ StreamEnds \/ StreamBreaks
    \/ Over

Spec == Init /\ [][Next]_vars

----------------------------------------------------------------------------
(* Properties. *)

\* Every variable has its type, and a buffer never holds back more letters than
\* the longest surrogate has.
TypeOK ==
    /\ text \in [Indices -> Seq(Letters) \cup {NONE}]
    /\ json \in [Indices -> Seq(Letters) \cup {NONE}]
    /\ \A i \in Indices : Len(Held(text[i])) <= Keep
    /\ given \in [Indices -> [Kinds -> Seq(Letters)]]
    /\ phase \in {"open", "ended", "closed", "broken"}
    /\ left \in 0..MaxLetters

\* However the upstream cuts a text, the client has received the beginning of
\* what the whole text restores to: no surrogate is shown in part, restored
\* inside a longer one, or found where two deltas meet and the text has none.
CutsDoNotShow ==
    \A i \in Indices :
        shown[i]["text"] \o Resolve(Held(text[i]))
            = due[i]["text"] \o Resolve(given[i]["text"])

\* All that was given before message_stop, text and arguments, has been shown
\* when message_stop goes out, and all that was given since when the stream
\* ends: the client ignores what comes later.
ShownByTheStop ==
    [][phase' # phase /\ phase' # "broken" =>
         \A i \in Indices, kind \in Kinds :
             shown'[i][kind] = due[i][kind] \o Shows(kind, given[i][kind])]_vars
=============================================================================
