------------------------------ MODULE Mapping ------------------------------
(***************************************************************************)
(* What the vault promises to everything that uses it, for one scope: a    *)
(* surrogate, once given a meaning, keeps it for ever; two values never    *)
(* share a surrogate; a value goes out under one surrogate at a time, and  *)
(* only a deliberate choice changes which one.  Vault.tla is shown to      *)
(* implement this.                                                         *)
(***************************************************************************)
CONSTANTS Reals,    \* the real values to hide
          Surrs,    \* the surrogates that may stand for them
          NONE      \* no value, no surrogate

VARIABLES meaning,  \* meaning[s]: the real value surrogate s restores to
          current,  \* current[r]: the surrogate r goes out under today
          reserved  \* surrogates taken by a shared attribute, never restored

mapVars == <<meaning, current, reserved>>

Init ==
    /\ meaning = [s \in Surrs |-> NONE]
    /\ current = [r \in Reals |-> NONE]
    /\ reserved = {}

Free(s) == meaning[s] = NONE /\ s \notin reserved

\* A value seen for the first time receives a free surrogate.
Name(r, s) ==
    /\ Free(s)
    /\ current[r] = NONE
    /\ meaning' = [meaning EXCEPT ![s] = r]
    /\ current' = [current EXCEPT ![r] = s]
    /\ UNCHANGED reserved

\* The operator gives a value another surrogate; the former one keeps its
\* meaning.
Rename(r, s) ==
    /\ Free(s)
    /\ current[r] # NONE
    /\ meaning' = [meaning EXCEPT ![s] = r]
    /\ current' = [current EXCEPT ![r] = s]
    /\ UNCHANGED reserved

\* A zone, a subnet or a registry takes a surrogate of its own.
Reserve(s) ==
    /\ Free(s)
    /\ reserved' = reserved \cup {s}
    /\ UNCHANGED <<meaning, current>>

Next ==
    \/ \E r \in Reals, s \in Surrs : Name(r, s) \/ Rename(r, s)
    \/ \E s \in Surrs : Reserve(s)

Spec == Init /\ [][Next]_mapVars
=============================================================================
