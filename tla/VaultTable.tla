----------------------------- MODULE VaultTable -----------------------------
(***************************************************************************)
(* The table `mapping' of src/src/anonproxy/vault.py for one scope, as a   *)
(* set of rows, and what its SQL statements read and refuse.  Every column *)
(* a constraint or a reader looks at is here:                              *)
(*   hist   the surrogate written in a historical type "_ancien:<s>:<t>",  *)
(*          NONE for a row that is not historical                          *)
(*   etype  the entity type, the inner one <t> for a historical row        *)
(*   real   the real value (key_idx is the HMAC of <<etype, real>>, real_idx*)
(*          that of real: equal exactly when their inputs are)             *)
(*   surr   the surrogate                                                  *)
(*   seal   the associated data real_enc was sealed with                   *)
(***************************************************************************)
CONSTANTS Entity,    \* the types of entities (canon:host, PERSON...)
          Internal,  \* the types of shared attributes (_ZONE, _REGISTRY...)
          Reals, Surrs, NONE

ASSUME TableAssumption ==
    /\ Entity \cap Internal = {}
    /\ NONE \notin Reals \cup Surrs

Types == Entity \cup Internal

\* Vault._aad: what ties a sealed value to its row.
Aad(hist, etype, surr) == <<hist, etype, surr>>

Row == [hist : Surrs \cup {NONE}, etype : Types, real : Reals, surr : Surrs,
        seal : (Surrs \cup {NONE}) \X Types \X Surrs]

\* The row an INSERT of bind or rebind writes.
NewRow(t, r, s) ==
    [hist |-> NONE, etype |-> t, real |-> r, surr |-> s, seal |-> Aad(NONE, t, s)]

\* etype NOT LIKE '\_%': neither historical nor a shared attribute.
IsCurrent(x) == x.hist = NONE /\ x.etype \in Entity

\* (mutant) view() leaves out every type that starts with "_".
InViewCurrentOnly(x) == IsCurrent(x)

\* The rows view() returns: the current ones and the historical ones.
InView(x) == x.hist # NONE \/ x.etype \in Entity

\* Vault._open succeeds: the row is still the one its value was sealed for.
Opens(x) == x.seal = Aad(x.hist, x.etype, x.surr)

SamePrimaryKey(x, y) == x.hist = y.hist /\ x.etype = y.etype /\ x.real = y.real

----------------------------------------------------------------------------
(* The three uniqueness constraints of _SCHEMA. *)

\* (mutant) without the partial index idx_real_unique.
NoRealIndex(x, y) == FALSE

PrimaryKeyClash(x, y) == SamePrimaryKey(x, y)
SurrogateClash(x, y) == x.surr = y.surr
RealClash(x, y) == IsCurrent(x) /\ IsCurrent(y) /\ x.real = y.real

Clash(x, y) == PrimaryKeyClash(x, y) \/ SurrogateClash(x, y) \/ RealClash(x, y)

\* IntegrityError on the INSERT of row n.
Refused(R, n) == \E x \in R : Clash(x, n)

----------------------------------------------------------------------------
(* Reads. *)

\* get_surrogate: the surrogate of r under exactly this type.
SurrogatesTyped(R, t, r) ==
    {x.surr : x \in {y \in R : y.hist = NONE /\ y.etype = t /\ y.real = r}}

\* _surrogate_for_real: under any entity type.
SurrogatesAny(R, r) == {x.surr : x \in {y \in R : IsCurrent(y) /\ y.real = r}}

\* The row that owns a surrogate, whatever its type.
Owners(R, s) == {x \in R : x.surr = s}

\* view: the pairs <<surrogate, real>> a response is restored with.
View(R) == {<<x.surr, x.real>> : x \in {y \in R : InView(y)}}

----------------------------------------------------------------------------
(* The UPDATE of rebind, for one row `a' it read earlier: it selects by    *)
(* type and key, and reseals for the row it believes it is renaming.       *)

Hit(R, a) == {x \in R : x.hist = NONE /\ x.etype = a.etype /\ x.real = a.real}

\* (mutant) the type is renamed, the sealed value is left as it was.
DemotedWithoutReseal(x, a) == [x EXCEPT !.hist = a.surr]

\* (mutant) the historical type is "_ancien:<type>", without the surrogate.
DemotedByType(x, a) == [x EXCEPT !.hist = a.etype, !.seal = Aad(a.etype, a.etype, a.surr)]

Demoted(x, a) ==
    [x EXCEPT !.hist = a.surr, !.seal = Aad(a.surr, a.etype, a.surr)]

\* The table after the UPDATE of every row in `as'.
Demote(R, as) ==
    {x \in R : \A a \in as : x \notin Hit(R, a)}
        \cup UNION {{Demoted(x, a) : x \in Hit(R, a)} : a \in as}

\* IntegrityError on that UPDATE: the historical key is already there.
DemoteRefused(R, as) ==
    \E a \in as : \E x \in Hit(R, a), y \in R \ Hit(R, a) :
        PrimaryKeyClash(Demoted(x, a), y)
=============================================================================
