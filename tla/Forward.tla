------------------------------ MODULE Forward ------------------------------
(***************************************************************************)
(* One client connection of the forward proxy (forward/proxy.py), from the *)
(* CONNECT to its end: the verdict on the destination, then a tunnel or a  *)
(* sequence of inspected exchanges, each over an upstream connection of    *)
(* its own.  The client and the upstream write whole heads and units of    *)
(* bodies; either may keep its word, or send what it likes, fall silent    *)
(* and leave.  A unit of a body may look like a head: only the reader's    *)
(* framing tells them apart.  A party may also stop reading: what is       *)
(* written to it is then awaited without a delay.                          *)
(***************************************************************************)
EXTENDS Naturals, Sequences

CONSTANTS Destinations,  \* host names, as sequences of labels, widest first
          InspectRules, TunnelRules,  \* the names the policy file declares
          Requests,      \* the heads a client may send
          Heads,         \* the heads an upstream may send
          Looks,         \* what a unit that is no head looks like to a reader
          MaxInterim,    \* _MAX_INTERIM
          Exchanges,     \* bound: requests on the connection
          MaxWire,       \* bound: units under way in one direction
          TunnelUnits,   \* bound: units sent each way in a tunnel
          NONE

Frames == {"none", "length", "chunked", "unclear", "endless"}
Parses == {"yes", "no", "oversized"}

ASSUME ForwardAssumption ==
    /\ InspectRules \cap TunnelRules = {}
    /\ MaxInterim \in Nat
    /\ \A r \in Requests : /\ r.parses \in Parses /\ r.frame \in Frames \ {"endless"}
                           /\ r.n \in Nat /\ r.expect \in {"none", "continue", "other"}
    /\ \A h \in Heads \cup Looks :
           /\ h.parses \in Parses /\ h.frame \in Frames /\ h.n \in Nat
           /\ h.status \in {"interim", "switch", "empty", "final"}

VARIABLES dest,    \* the destination of the CONNECT
          at,      \* where the task of the connection is
          ex,      \* the exchange: its number, request, answer, units read...
          client,  \* the client
          inbox,   \* what it has written and the proxy has not read
          up,      \* the upstream of the exchange
          wire,    \* what it has written and the proxy has not read
          heard,   \* history: what the client was told, in order
          pipe,    \* the two directions of a tunnel
          fault    \* history: something outside the two parties' word failed

vars == <<dest, at, ex, client, inbox, up, wire, heard, pipe, fault>>

----------------------------------------------------------------------------
(* ForwardPolicy.  An address is a name of one label, which no other begins.*)

Covers(rule, host) == Len(rule) <= Len(host) /\ SubSeq(host, 1, Len(rule)) = rule

Verdict(host) ==
    LET covering == {r \in InspectRules \cup TunnelRules : Covers(r, host)}
        nearest  == CHOOSE r \in covering : \A s \in covering : Len(s) <= Len(r)
    IN IF covering = {} THEN "refuse"
       ELSE IF nearest \in InspectRules THEN "inspect" ELSE "tunnel"

----------------------------------------------------------------------------

Fresh(n) == [k |-> n, req |-> NONE, answer |-> NONE, got |-> 0, said |-> 0]
Closed   == [open |-> FALSE, honest |-> FALSE, deaf |-> FALSE, asked |-> NONE,
             mode |-> "done", left |-> 0, interims |-> 0, ended |-> FALSE]

\* The client's last word on a request: an answer, a 502, a 403 or a 417.
Last == {"answer", "error", "refusal"}
Heard(n, kinds) == \E i \in 1..Len(heard) : heard[i].k = n /\ heard[i].kind \in kinds

\* A write to the client: lost if it has left.
Tell(kind, unit, units, due) ==
    heard' = IF client.gone THEN heard
             ELSE Append(heard, [k |-> ex.k, kind |-> kind, unit |-> unit,
                                 units |-> units, due |-> due])
Say(kind) == Tell(kind, NONE, 0, 0)

\* The exchange is over, and its upstream is closed with it.
Over(next) ==
    /\ at' = next
    /\ ex' = Fresh(ex.k)
    /\ up' = Closed /\ wire' = <<>>

\* ce.drain() has no delay: where the task waits for the client to take what it was
\* told, and the place it goes on to.
Waits  == {"wait_body", "wait_answer", "wait_idle", "wait_closed"}
Onward == [wait_body |-> "body", wait_answer |-> "answer",
          wait_idle |-> "idle", wait_closed |-> "closed"]

\* The last write of an exchange is taken at once, or the task waits.
Ends(next) ==
    \/ Over(next)
    \/ /\ at' = IF next = "idle" THEN "wait_idle" ELSE "wait_closed"
       /\ UNCHANGED <<ex, up, wire>>

\* _echouer, then the end of the connection.
Fail == Ends("closed") /\ Say("error") /\ UNCHANGED <<dest, client, inbox, pipe>>

----------------------------------------------------------------------------
(* The CONNECT.                                                            *)

\* _refuser: the destination is not declared, or cannot be reached.  What is written
\* before the first exchange is short and alone: it is not waited for.
Refuse ==
    /\ at = "connect"
    /\ at' = "closed" /\ Say("refusal")
    /\ fault' = (fault \/ Verdict(dest) # "refuse")
    /\ UNCHANGED <<dest, ex, client, inbox, up, wire, pipe>>

\* _inspecter, to its loop: the upstream was reached once and is closed
\* again; the client may refuse the certificate made for it.
Inspect ==
    /\ at = "connect" /\ Verdict(dest) = "inspect"
    /\ at' \in {"idle", "closed"} /\ Say("established")
    /\ UNCHANGED <<dest, ex, client, inbox, up, wire, pipe, fault>>

Tunnel ==
    /\ at = "connect" /\ Verdict(dest) = "tunnel"
    /\ at' = "tunnel" /\ Say("established")
    /\ UNCHANGED <<dest, ex, client, inbox, up, wire, pipe, fault>>

----------------------------------------------------------------------------
(* _lire_corps, on what a head declares and what is there to read.         *)

Complete(h) == h.frame = "none" \/ (h.frame = "length" /\ ex.got = h.n)

Piece(h, units) ==
    /\ units # <<>>
    /\ \/ h.frame = "length" /\ ex.got < h.n
       \/ h.frame = "chunked" /\ Head(units).framed = "piece"

LastPiece(h, units) ==
    h.frame = "chunked" /\ units # <<>> /\ Head(units).framed = "end"

\* No length, one that is no number, a chunk that is no chunk, or a body that
\* stops before its end.
Unreadable(h, units, ended) ==
    \/ h.frame \in {"unclear", "endless"}
    \/ h.frame = "chunked" /\ units # <<>> /\ Head(units).framed \notin {"piece", "end"}
    \/ units = <<>> /\ ended /\ ~Complete(h)

----------------------------------------------------------------------------
(* _echange: the request.                                                  *)

\* _lire_entete: a client that has left, or a head that does not fit, ends the
\* connection; otherwise its exchange begins.
ReadRequest ==
    /\ at = "idle" /\ inbox # <<>>
    /\ IF Head(inbox).shape.parses = "oversized"
       THEN at' = "closed" /\ UNCHANGED ex
       ELSE at' = "open" /\ ex' = [Fresh(ex.k + 1) EXCEPT !.req = Head(inbox).shape]
    /\ inbox' = Tail(inbox)
    /\ UNCHANGED <<dest, client, up, wire, heard, pipe, fault>>

ClientIsGone ==
    /\ at = "idle" /\ inbox = <<>> /\ client.gone
    /\ at' = "closed"
    /\ UNCHANGED <<dest, ex, client, inbox, up, wire, heard, pipe, fault>>

\* _ouvrir_amont: a new connection for every exchange.
OpenUpstream ==
    /\ at = "open"
    /\ \E honest, deaf \in BOOLEAN :
        /\ honest => ~deaf
        /\ up' = [Closed EXCEPT !.open = TRUE, !.honest = honest, !.deaf = deaf,
                                !.mode = "heads"]
        /\ fault' = (fault \/ ~honest)
    /\ at' = "request"
    /\ UNCHANGED <<dest, ex, client, inbox, wire, heard, pipe>>

UpstreamRefuses == at = "open" /\ Fail /\ fault' = TRUE

\* (mutant) the acknowledgement is left to the upstream.
AcceptInSilence ==
    /\ at = "request" /\ ex.req.parses = "yes" /\ ex.req.expect # "other"
    /\ at' = "body"
    /\ UNCHANGED <<dest, ex, client, inbox, up, wire, heard, pipe, fault>>

\* The head is sound, and its 100-continue is honoured here.
Accept ==
    /\ at = "request" /\ ex.req.parses = "yes" /\ ex.req.expect # "other"
    /\ IF ex.req.expect = "continue"
       THEN at' \in {"body", "wait_body"} /\ Say("continue")
       ELSE at' = "body" /\ UNCHANGED heard
    /\ UNCHANGED <<dest, ex, client, inbox, up, wire, pipe, fault>>

\* (mutant) the exception goes up to the task, which dies.
IllFormedInSilence ==
    /\ at = "request" /\ ex.req.parses = "no"
    /\ Over("closed") /\ UNCHANGED <<dest, client, inbox, heard, pipe, fault>>

IllFormed == at = "request" /\ ex.req.parses = "no" /\ Fail /\ UNCHANGED fault

\* (mutant) the exchange goes on after the refusal.
UnmetExpectationGoesOn ==
    /\ at = "request" /\ ex.req.parses = "yes" /\ ex.req.expect = "other"
    /\ at' = "body" /\ Say("refusal")
    /\ UNCHANGED <<dest, ex, client, inbox, up, wire, pipe, fault>>

\* 417
UnmetExpectation ==
    /\ at = "request" /\ ex.req.parses = "yes" /\ ex.req.expect = "other"
    /\ Ends("closed") /\ Say("refusal")
    /\ UNCHANGED <<dest, client, inbox, pipe, fault>>

ReadBody ==
    /\ at = "body"
    /\ \/ /\ Piece(ex.req, inbox)
          /\ ex' = [ex EXCEPT !.got = @ + 1] /\ inbox' = Tail(inbox)
          /\ UNCHANGED at
       \/ /\ LastPiece(ex.req, inbox)
          /\ at' = "send" /\ inbox' = Tail(inbox) /\ UNCHANGED ex
       \/ /\ Complete(ex.req)
          /\ at' = "send" /\ UNCHANGED <<ex, inbox>>
    /\ UNCHANGED <<dest, client, up, wire, heard, pipe, fault>>

BodyUnreadable ==
    /\ at = "body" /\ Unreadable(ex.req, inbox, client.gone)
    /\ Fail /\ UNCHANGED fault

\* What has been read is transformed and written in one piece.
Send ==
    /\ at = "send"
    /\ at' = "drain"
    /\ up' = [up EXCEPT !.asked = ex.got]
    /\ UNCHANGED <<dest, ex, client, inbox, wire, heard, pipe, fault>>

TransformFails == at \in {"send", "restore"} /\ Fail /\ fault' = TRUE

\* drain() has no delay: an upstream that does not read keeps it waiting.
Drained ==
    /\ at = "drain" /\ ~up.deaf
    /\ at' = "answer" /\ ex' = [ex EXCEPT !.got = 0]
    /\ UNCHANGED <<dest, client, inbox, up, wire, heard, pipe, fault>>

DrainFails == at = "drain" /\ up.ended /\ Fail /\ UNCHANGED fault

----------------------------------------------------------------------------
(* _echange: the answer.                                                   *)

Shapes == Heads \cup Looks
Answered(h) == at = "answer" /\ wire # <<>> /\ Head(wire).shape = h /\ h.parses = "yes"

\* (mutant) an interim answer is passed on whatever it declares.
RelayInterimUnchecked(h) ==
    /\ Answered(h) /\ h.status = "interim" /\ ex.said < MaxInterim
    /\ at' \in {"answer", "wait_answer"} /\ Tell("interim", Head(wire), 0, 0)
    /\ ex' = [ex EXCEPT !.said = @ + 1] /\ wire' = Tail(wire)
    /\ UNCHANGED <<dest, client, inbox, up, pipe, fault>>

\* (mutant) interim answers are not counted against a bound.
RelayInterimUncounted(h) ==
    /\ Answered(h) /\ h.status = "interim" /\ (h.frame = "none" \/ h.n = 0)
    /\ at' \in {"answer", "wait_answer"} /\ Tell("interim", Head(wire), 0, 0)
    /\ ex' = [ex EXCEPT !.said = @ + 1] /\ wire' = Tail(wire)
    /\ UNCHANGED <<dest, client, inbox, up, pipe, fault>>

Bodiless(h) == h.frame = "none" \/ (h.frame = "length" /\ h.n = 0)

RelayInterim(h) ==
    /\ Answered(h) /\ h.status = "interim" /\ ex.said < MaxInterim /\ Bodiless(h)
    /\ at' \in {"answer", "wait_answer"} /\ Tell("interim", Head(wire), 0, 0)
    /\ ex' = [ex EXCEPT !.said = @ + 1] /\ wire' = Tail(wire)
    /\ UNCHANGED <<dest, client, inbox, up, pipe, fault>>

\* An answer that does not parse, a change of protocol, an interim answer too
\* many or one with a body, or none at all.
AnswerRefused ==
    /\ at = "answer"
    /\ \/ wire = <<>> /\ up.ended
       \/ wire # <<>> /\ Head(wire).shape.parses # "yes"
       \/ \E h \in Shapes :
            /\ Answered(h)
            /\ \/ h.status = "switch"
               \/ h.status = "interim" /\ (ex.said = MaxInterim \/ ~Bodiless(h))
    /\ Fail /\ UNCHANGED fault

\* An answer that has no body ends the connection, whatever it announces.
RelayBare(h) ==
    /\ Answered(h)
    /\ \/ h.status = "empty"
       \/ h.status = "final" /\ ex.req.head
    /\ Tell("answer", Head(wire), 0, 0)
    /\ Ends("closed")
    /\ UNCHANGED <<dest, client, inbox, pipe, fault>>

ReadFinal(h) ==
    /\ Answered(h) /\ h.status = "final" /\ ~ex.req.head
    /\ at' = "content"
    /\ ex' = [ex EXCEPT !.answer = Head(wire), !.got = 0]
    /\ wire' = Tail(wire)
    /\ UNCHANGED <<dest, client, inbox, up, heard, pipe, fault>>

\* (mutant) the end of the connection is the end of the body.
ReadContentToTheEnd ==
    /\ at = "content"
    /\ \/ /\ Piece(ex.answer.shape, wire)
          /\ ex' = [ex EXCEPT !.got = @ + 1] /\ wire' = Tail(wire)
          /\ UNCHANGED at
       \/ /\ LastPiece(ex.answer.shape, wire) \/ (wire = <<>> /\ up.ended)
          /\ at' = "restore" /\ wire' = <<>> /\ UNCHANGED ex
       \/ /\ Complete(ex.answer.shape)
          /\ at' = "restore" /\ UNCHANGED <<ex, wire>>
    /\ UNCHANGED <<dest, client, inbox, up, heard, pipe, fault>>

ReadContent ==
    /\ at = "content"
    /\ \/ /\ Piece(ex.answer.shape, wire)
          /\ ex' = [ex EXCEPT !.got = @ + 1] /\ wire' = Tail(wire)
          /\ UNCHANGED at
       \/ /\ LastPiece(ex.answer.shape, wire)
          /\ at' = "restore" /\ wire' = Tail(wire) /\ UNCHANGED ex
       \/ /\ Complete(ex.answer.shape)
          /\ at' = "restore" /\ UNCHANGED <<ex, wire>>
    /\ UNCHANGED <<dest, client, inbox, up, heard, pipe, fault>>

ContentUnreadable ==
    /\ at = "content" /\ Unreadable(ex.answer.shape, wire, up.ended)
    /\ Fail /\ UNCHANGED fault

\* _residu_amont: more than the answer has come.
Residue == at = "restore" /\ wire # <<>> /\ Fail /\ UNCHANGED fault

Relay ==
    /\ at = "restore" /\ wire = <<>>
    /\ Tell("answer", ex.answer, ex.got,
            IF ex.answer.shape.frame = "none" THEN 0 ELSE ex.answer.shape.n)
    /\ Ends(IF ex.req.close \/ ex.answer.shape.close THEN "closed" ELSE "idle")
    /\ UNCHANGED <<dest, client, inbox, pipe, fault>>

\* The client reads what it was told, and the task goes on.
Taken ==
    /\ at \in Waits /\ ~client.deaf
    /\ IF Onward[at] \in {"idle", "closed"} THEN Over(Onward[at])
       ELSE at' = Onward[at] /\ UNCHANGED <<ex, up, wire>>
    /\ UNCHANGED <<dest, client, inbox, heard, pipe, fault>>

\* A write to a client that has left may raise, and drain() raises: _echouer tells nobody.
WriteFails ==
    /\ client.gone /\ at \in {"request", "answer"} \cup Waits
    /\ Over("closed")
    /\ UNCHANGED <<dest, client, inbox, heard, pipe, fault>>

----------------------------------------------------------------------------
(* _attendre: a delay without a unit.  A party that keeps its word answers *)
(* in time, unless it is itself waiting for the proxy.                     *)

AwaitsUs == client.phase = "hold" /\ ~Heard(client.sent, Last \cup {"continue", "interim"})

ClientSilent ==
    /\ at = "body" /\ inbox = <<>> /\ ~client.gone /\ ~Complete(ex.req)
    /\ ~client.honest \/ AwaitsUs \/ client.phase = "rest"
    /\ Fail /\ UNCHANGED fault

\* (mutant) the delay is on the head alone.
UpstreamSilentAtFirst ==
    /\ at = "answer" /\ wire = <<>> /\ ~up.ended
    /\ ~up.honest \/ up.asked = NONE \/ up.mode = "done"
    /\ Fail /\ UNCHANGED fault

UpstreamSilent ==
    /\ \/ at = "answer"
       \/ at = "content" /\ ~Complete(ex.answer.shape)
    /\ wire = <<>> /\ ~up.ended
    /\ ~up.honest \/ up.asked = NONE \/ up.mode = "done"
    /\ Fail /\ UNCHANGED fault

\* stop: every task is cancelled.
Stop ==
    /\ at \notin {"closed", "stopped"}
    /\ Over("stopped")
    /\ fault' = TRUE
    /\ UNCHANGED <<dest, client, inbox, heard, pipe>>

----------------------------------------------------------------------------
(* The client: an agent that keeps its connection between requests.        *)

Unit(n, framed, shape) == [k |-> n, framed |-> framed, shape |-> shape]
Write(unit) == Len(inbox) < MaxWire /\ inbox' = Append(inbox, unit)
HasBody(r) == r.frame = "chunked" \/ (r.frame = "length" /\ r.n > 0)

Resting == client.phase = "rest" /\ (client.sent = 0 \/ Heard(client.sent, Last))

Ask(r) ==
    /\ at \notin {"connect", "tunnel", "closed", "stopped"}
    /\ Resting /\ ~client.gone /\ client.sent < Exchanges
    /\ client.honest => r.parses = "yes" /\ r.frame # "unclear"
    /\ Write(Unit(client.sent + 1, "head", r))
    /\ client' = [client EXCEPT !.sent = @ + 1, !.left = r.n,
                                !.pieces = r.frame = "chunked",
                                !.phase = IF ~HasBody(r) THEN "rest"
                                          ELSE IF r.expect = "none" THEN "body" ELSE "hold"]
    /\ UNCHANGED <<dest, at, ex, up, wire, heard, pipe, fault>>

\* It holds its body until it is told to send it, or what became of it.
GoAhead ==
    /\ client.phase = "hold" /\ ~client.gone
    /\ ~client.honest \/ ~AwaitsUs
    /\ client' = [client EXCEPT !.phase = IF Heard(client.sent, Last) THEN "rest" ELSE "body"]
    /\ UNCHANGED <<dest, at, ex, inbox, up, wire, heard, pipe, fault>>

SendBody ==
    /\ client.phase = "body" /\ ~client.gone
    /\ LET more == client.left > 0
           last == client.left <= (IF client.pieces THEN 0 ELSE 1)
       IN \/ /\ Write(Unit(client.sent, IF more THEN "piece" ELSE "end", NONE))
             /\ client' = [client EXCEPT !.left = IF more THEN @ - 1 ELSE 0,
                                         !.phase = IF last THEN "rest" ELSE @]
          \/ /\ ~client.honest /\ client.pieces
             /\ Write(Unit(client.sent, "torn", NONE))
             /\ client' = [client EXCEPT !.phase = "rest"]
    /\ UNCHANGED <<dest, at, ex, up, wire, heard, pipe, fault>>

Leave ==
    /\ ~client.gone /\ at # "tunnel"
    /\ client.honest => Resting
    /\ client' = [client EXCEPT !.gone = TRUE]
    /\ UNCHANGED <<dest, at, ex, inbox, up, wire, heard, pipe, fault>>

----------------------------------------------------------------------------
(* The upstream.                                                           *)

Emit(framed, shape) ==
    /\ up.open /\ ~up.ended
    /\ Len(wire) < MaxWire /\ wire' = Append(wire, Unit(ex.k, framed, shape))
    /\ UNCHANGED <<dest, at, ex, client, inbox, heard, pipe, fault>>

Proper(h) ==
    /\ h.parses = "yes" /\ h.frame \in {"none", "length", "chunked"}
    /\ \/ h.status \in {"final", "empty"}
       \/ h.status = "interim" /\ Bodiless(h) /\ up.interims < MaxInterim

\* What its own head announces, it sends; an interim answer is followed by
\* another head.
EmitHead(h) ==
    LET bare == h.status = "empty" \/ ex.req.head
        next == IF h.status = "interim" THEN "heads" ELSE "done"
    IN
    /\ up.mode = "heads" /\ up.interims <= MaxInterim
    /\ up.honest => up.asked # NONE /\ Proper(h)
    /\ Emit("head", h)
    /\ up' = [up EXCEPT !.left = h.n,
                        !.interims = IF h.status = "interim" THEN @ + 1 ELSE @,
                        !.mode = IF bare \/ Bodiless(h) \/ h.parses # "yes" THEN next
                                 ELSE IF h.frame = "length" THEN "sized"
                                 ELSE IF h.frame = "chunked" THEN "pieces" ELSE "done"]

EmitBody ==
    /\ up.mode \in {"sized", "pieces"}
    /\ \/ /\ up.left > 0
          /\ \E look \in Looks : Emit("piece", look)
          /\ up' = [up EXCEPT !.left = @ - 1,
                              !.mode = IF @ = "sized" /\ up.left = 1 THEN "done" ELSE @]
       \/ /\ up.left = 0
          /\ \E look \in Looks : Emit("end", look)
          /\ up' = [up EXCEPT !.mode = "done"]
       \/ /\ ~up.honest /\ up.mode = "pieces"
          /\ \E look \in Looks : Emit("torn", look)
          /\ up' = [up EXCEPT !.mode = "done"]

\* It breaks its word: more than it announced, or less.
EmitMore ==
    /\ ~up.honest /\ up.mode = "done"
    /\ \E look \in Looks : Emit("more", look)
    /\ UNCHANGED up

HangUp ==
    /\ up.open /\ ~up.honest /\ ~up.ended
    /\ up' = [up EXCEPT !.ended = TRUE]
    /\ UNCHANGED <<dest, at, ex, client, inbox, wire, heard, pipe, fault>>

----------------------------------------------------------------------------
(* _relayer: two pumps, and an end of one direction that leaves the other. *)

Directions == {"out", "in"}
Pipe(d, new) ==
    at = "tunnel" /\ pipe' = [pipe EXCEPT ![d] = new]
    /\ UNCHANGED <<dest, at, ex, client, inbox, up, wire, heard, fault>>

SendInTunnel(d) ==
    /\ ~pipe[d].ended /\ ~pipe[d].reset /\ pipe[d].sent < TunnelUnits
    /\ Pipe(d, [pipe[d] EXCEPT !.sent = @ + 1])

EndInTunnel(d) ==
    /\ ~pipe[d].ended /\ ~pipe[d].reset
    /\ Pipe(d, [pipe[d] EXCEPT !.ended = TRUE])

\* The source of direction d resets its connection: it reads the other no more.
Reset(d) == ~pipe[d].reset /\ Pipe(d, [pipe[d] EXCEPT !.reset = TRUE])
ReaderLost(d) == pipe[IF d = "out" THEN "in" ELSE "out"].reset

\* src.read raises once the source is reset, whatever it has received before.
Pump(d) ==
    /\ pipe[d].passed < pipe[d].sent /\ ~pipe[d].shut /\ ~pipe[d].reset
    /\ Pipe(d, [pipe[d] EXCEPT !.passed = @ + 1])

\* write_eof: at the end of the source, when it is read no more, or when the write fails.
Shut(d) ==
    /\ ~pipe[d].shut
    /\ \/ pipe[d].passed = pipe[d].sent /\ pipe[d].ended
       \/ pipe[d].reset
       \/ pipe[d].passed < pipe[d].sent /\ ReaderLost(d)
    /\ Pipe(d, [pipe[d] EXCEPT !.shut = TRUE])

\* (mutant) the connection is closed when one direction ends.
TunnelClosesEarly ==
    /\ at = "tunnel" /\ \E d \in Directions : pipe[d].shut
    /\ at' = "closed"
    /\ UNCHANGED <<dest, ex, client, inbox, up, wire, heard, pipe, fault>>

TunnelCloses ==
    /\ at = "tunnel" /\ \A d \in Directions : pipe[d].shut
    /\ at' = "closed"
    /\ UNCHANGED <<dest, ex, client, inbox, up, wire, heard, pipe, fault>>

----------------------------------------------------------------------------

Init ==
    /\ dest \in Destinations
    /\ at = "connect"
    /\ ex = Fresh(0)
    /\ client \in [honest : BOOLEAN, deaf : BOOLEAN, gone : {FALSE}, phase : {"rest"},
                   sent : {0}, left : {0}, pieces : {FALSE}]
    /\ client.honest => ~client.deaf
    /\ inbox = <<>>
    /\ up = Closed /\ wire = <<>>
    /\ heard = <<>>
    /\ pipe = [d \in Directions |-> [sent |-> 0, passed |-> 0, ended |-> FALSE,
                                     reset |-> FALSE, shut |-> FALSE]]
    /\ fault = FALSE

Connect == Refuse \/ Inspect \/ Tunnel

Exchange ==
    \/ ReadRequest \/ ClientIsGone
    \/ OpenUpstream \/ UpstreamRefuses
    \/ Accept \/ IllFormed \/ UnmetExpectation
    \/ ReadBody \/ BodyUnreadable
    \/ Send \/ TransformFails \/ Drained \/ DrainFails
    \/ \E h \in Shapes : RelayInterim(h) \/ RelayBare(h) \/ ReadFinal(h)
    \/ AnswerRefused
    \/ ReadContent \/ ContentUnreadable \/ Residue \/ Relay
    \/ Taken \/ WriteFails

Silence == ClientSilent \/ UpstreamSilent

ClientSends == GoAhead \/ SendBody
UpstreamSends == EmitBody \/ \E h \in Heads : EmitHead(h)

Relayed ==
    \/ TunnelCloses
    \/ \E d \in Directions : Pump(d) \/ Shut(d)

InTunnel == \E d \in Directions : SendInTunnel(d) \/ EndInTunnel(d) \/ Reset(d)

Next ==
    \/ Connect \/ Exchange \/ Silence \/ Relayed \/ Stop
    \/ ClientSends \/ Leave \/ \E r \in Requests : Ask(r)
    \/ UpstreamSends \/ EmitMore \/ HangUp
    \/ InTunnel

\* The event loop runs a task that can go on, and its timers; a party that
\* keeps its word sends what it has begun.
Fairness ==
    /\ WF_vars(Connect) /\ WF_vars(Exchange) /\ WF_vars(Silence)
    /\ WF_vars(client.honest /\ ClientSends)
    /\ WF_vars(up.honest /\ UpstreamSends)

Spec == Init /\ [][Next]_vars /\ Fairness

----------------------------------------------------------------------------

Busy == {"open", "request", "body", "send", "drain", "answer", "content", "restore"}
            \cup Waits

Requested == Requests \cup {NONE}
Units == [k : Nat, framed : {"head", "piece", "end", "torn", "more"}, shape : Shapes]

TypeOK ==
    /\ dest \in Destinations
    /\ at \in Busy \cup {"connect", "tunnel", "idle", "closed", "stopped"}
    /\ ex \in [k : Nat, req : Requested, answer : Units \cup {NONE}, got : Nat,
               said : 0..MaxInterim]
    /\ at \in {"content", "restore"} => ex.answer \in Units
    /\ client \in [honest : BOOLEAN, deaf : BOOLEAN, gone : BOOLEAN,
                   phase : {"rest", "hold", "body"}, sent : Nat, left : Nat,
                   pieces : BOOLEAN]
    /\ inbox \in Seq([k : Nat, framed : {"head", "piece", "end", "torn"},
                      shape : Requested])
    /\ up \in [open : BOOLEAN, honest : BOOLEAN, deaf : BOOLEAN, asked : Nat \cup {NONE},
               mode : {"heads", "sized", "pieces", "done"}, left : Nat, interims : Nat,
               ended : BOOLEAN]
    /\ wire \in Seq(Units)
    /\ heard \in Seq([k : Nat, kind : Last \cup {"established", "continue", "interim"},
                      unit : Units \cup {NONE}, units : Nat, due : Nat])
    /\ pipe \in [Directions -> [sent : Nat, passed : Nat, ended : BOOLEAN,
                                reset : BOOLEAN, shut : BOOLEAN]]
    /\ fault \in BOOLEAN

\* What the client hears as an answer to a request, interim or not, is a head
\* that the upstream sent as a head, on the connection of that request: never
\* bytes of a body, never what was left of another exchange.
AnswersAreOwn ==
    \A i \in 1..Len(heard) :
        heard[i].kind \in {"interim", "answer"} =>
            heard[i].unit.framed = "head" /\ heard[i].unit.k = heard[i].k

\* Nothing is told of a request after its last word, and requests are
\* answered in order.
OneLastWord ==
    \A i, j \in 1..Len(heard) :
        i < j => /\ heard[i].k <= heard[j].k
                 /\ heard[i].kind \in Last => heard[i].k < heard[j].k

\* A body goes on as a whole or not at all, in both directions: it has no
\* more and no less than its sender announced.
WholeOrNothing ==
    /\ \A i \in 1..Len(heard) : heard[i].units = heard[i].due
    /\ up.asked # NONE =>
           up.asked = IF ex.req.frame \in {"length", "chunked"} THEN ex.req.n ELSE 0

\* A connection that ends while its client is there, unless the proxy was
\* stopped, ends with a word on the request that was read: no exchange is cut
\* off in silence.
EndsAreNamed ==
    at = "closed" /\ ~client.gone => heard # <<>> /\ (ex.k > 0 => Heard(ex.k, Last))

\* A tunnel that ends has delivered, each way, all that was sent, unless one of
\* the two parties has reset its connection: what was received from that one and
\* not yet read is then dropped, and what was for it cannot be written.
TunnelDelivers ==
    at = "closed" =>
        \A d \in Directions :
            pipe[d].passed = pipe[d].sent \/ pipe[d].reset \/ ReaderLost(d)

\* A party that does not read what is written to it, and does not leave.
Held ==
    \/ at = "drain" /\ up.deaf
    \/ at \in Waits /\ client.deaf /\ ~client.gone

\* Once a request is read its exchange ends, whatever the client and the
\* upstream send or do not send: every read has a delay.  The writes have none,
\* and a party that stops reading holds the exchange.
EveryExchangeEnds == at = "open" ~> (at \notin Busy \/ Held)

\* A client and an upstream that keep their word are served: the request gets
\* the upstream's own answer, whichever expectation, interim answers and
\* framing they use.
HonestAreServed ==
    \A n \in 1..Exchanges :
        (at = "open" /\ ex.k = n /\ client.honest /\ ex.req.expect # "other")
            ~> (Heard(n, {"answer"}) \/ fault)
=============================================================================
