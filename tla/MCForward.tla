----------------------------- MODULE MCForward -----------------------------
(* An instance of Forward for TLC: a name of each verdict, requests and       *)
(* answers of every framing, and pieces that look like a whole answer.        *)
EXTENDS Forward

MCDestinations == {<<"test">>, <<"test", "read">>, <<"test", "read", "blind">>}
MCInspect == {<<"test", "read">>}
MCTunnel  == {<<"test", "read", "blind">>}

Request(head, expect, frame, n, close) ==
    [parses |-> "yes", head |-> head, expect |-> expect, frame |-> frame, n |-> n,
     close |-> close]
MCRequests ==
    {Request(FALSE, "continue", "length", 1, FALSE),
     Request(FALSE, "none", "chunked", 1, FALSE),
     Request(TRUE, "none", "none", 0, TRUE),
     Request(FALSE, "other", "length", 1, FALSE),
     Request(FALSE, "none", "unclear", 0, FALSE)}
    \cup {[Request(FALSE, "none", "none", 0, FALSE) EXCEPT !.parses = p] :
              p \in {"no", "oversized"}}

Answer(status, frame, n) ==
    [parses |-> "yes", status |-> status, frame |-> frame, n |-> n, close |-> FALSE]
MCHeads ==
    {Answer("interim", "none", 0), Answer("interim", "length", 1),
     Answer("switch", "none", 0), Answer("empty", "none", 0),
     Answer("final", "length", 1), Answer("final", "chunked", 1),
     Answer("final", "endless", 0),
     [Answer("final", "none", 0) EXCEPT !.parses = "no"],
     [Answer("final", "length", 0) EXCEPT !.close = TRUE]}
MCLooks == {Answer("final", "none", 0)}
=============================================================================
