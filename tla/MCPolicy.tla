------------------------------ MODULE MCPolicy ------------------------------
(* Instances of Policy for TLC: two layers, a host and a password. *)
EXTENDS Policy, TLC

CONSTANTS host, password, t1, t2, w1, w2

MCPortees == <<"global", "session">>
MCGranularites == <<"classe", "valeur">>
MCCle == (host :> <<"infrastructure", "host">>) @@ (password :> <<"secret", "password">>)
MCClasse == (host :> "infrastructure") @@ (password :> "secret")

NoRules == <<Empty, Empty>>

\* The class is revealed everywhere; this host is kept hidden in the session.
HostExcepted ==
    <<[Empty EXCEPT !["infrastructure"] = REVELER], [Empty EXCEPT !["host"] = ANONYMISER]>>

Symmetry == Permutations(Threads) \cup Permutations(Writers)
=============================================================================
