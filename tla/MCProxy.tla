------------------------------ MODULE MCProxy ------------------------------
(* Instances of Proxy for TLC. *)
EXTENDS Proxy, TLC

CONSTANTS proxy, fwd, q1, q2, r1, r2, r3, s1, s2, s3, s4

\* r1 and r2 are first given the same candidate; r3 is public by its shape.
MCCandidates ==
    [r \in Reals |-> CASE r = r1 -> <<s1>>
                       [] r = r2 -> <<r2, s1, s3>>
                       [] r = r3 -> <<r3>>]

\* A request at the proxy with the same value twice, another at the forward
\* process that carries it too.
SharedServed == (q1 :> proxy) @@ (q2 :> fwd)
SharedCarries == (q1 :> <<r2, r2>>) @@ (q2 :> <<r1, r2>>)

\* Two requests at one process, the second a streamed one.
AloneServed == (q1 :> proxy) @@ (q2 :> proxy)
AloneCarries == (q1 :> <<r1, r2>>) @@ (q2 :> <<r2, r3>>)

\* One value, sent twice to one process.
TwiceServed == (q1 :> proxy) @@ (q2 :> proxy)
TwiceCarries == (q1 :> <<r1>>) @@ (q2 :> <<r1>>)
=============================================================================
