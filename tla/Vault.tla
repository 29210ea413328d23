------------------------------- MODULE Vault -------------------------------
(***************************************************************************)
(* src/src/anonproxy/vault.py: processes sharing one SQLite vault.         *)
(* Each process holds its own Vault object, hence its own RLock (one call  *)
(* at a time per process, `op') and its own `version'.  A step is one SQL  *)
(* statement, or one transaction: those are what SQLite makes atomic       *)
(* between processes.                                                      *)
(***************************************************************************)
EXTENDS VaultTable, Naturals, FiniteSets

CONSTANTS Procs,        \* processes with a Vault object on the file
          CONFLICT,     \* SurrogateConflict
          UNAVAILABLE   \* VaultUnavailableError

ASSUME VaultAssumption ==
    /\ CONFLICT \notin Surrs \cup {NONE}
    /\ UNAVAILABLE \notin Surrs \cup {NONE}

VARIABLES rows,     \* the table
          op,       \* op[p]: the call p's lock is held by
          version   \* version[p]: Vault.version

vars == <<rows, op, version>>

----------------------------------------------------------------------------

\* A call under way: what it was given, what it read, and the statement it
\* comes to next.
Binding == [at : {"typed", "any"}, etype : Types, real : Reals, surr : Surrs,
            anciens : {{}}]

Renaming == [at : {"read", "write"}, etype : Entity, real : Reals, surr : Surrs,
             anciens : SUBSET Row]

\* A call that ended: its answer, not yet taken by the caller.
Done == [at : {"done"}, real : Reals, ret : Surrs \cup {CONFLICT, UNAVAILABLE}]

Idle == [at |-> "idle"]

Answer(p, r, x) == op' = [op EXCEPT ![p] = [at |-> "done", real |-> r, ret |-> x]]

Goto(p, at, t, r, s) ==
    op' = [op EXCEPT ![p] = [at |-> at, etype |-> t, real |-> r, surr |-> s,
                             anciens |-> {}]]

Init ==
    /\ rows = {}
    /\ op = [p \in Procs |-> Idle]
    /\ version = [p \in Procs |-> 0]

----------------------------------------------------------------------------
(* bind: INSERT, and when a constraint refuses it, look for what is there. *)

Bind(p, t, r, s) ==
    LET n == NewRow(t, r, s) IN
    /\ op[p].at = "idle"
    /\ IF Refused(rows, n)
       THEN Goto(p, "typed", t, r, s) /\ UNCHANGED <<rows, version>>
       ELSE /\ rows' = rows \cup {n}
            /\ version' = [version EXCEPT ![p] = @ + 1]
            /\ Answer(p, r, s)

\* existing = get_surrogate(...)
BindTyped(p) ==
    LET c == op[p]
        found == SurrogatesTyped(rows, c.etype, c.real)
    IN
    /\ c.at = "typed"
    /\ \/ \E s \in found : Answer(p, c.real, s)
       \/ found = {} /\ Goto(p, "any", c.etype, c.real, c.surr)
    /\ UNCHANGED <<rows, version>>

\* (mutant) finds nothing and answers the surrogate it failed to insert.
BindAnyAnswersItsOwn(p) ==
    LET c == op[p]
        found == SurrogatesAny(rows, c.real)
    IN
    /\ c.at = "any"
    /\ \/ \E s \in found : Answer(p, c.real, s)
       \/ found = {} /\ Answer(p, c.real, c.surr)
    /\ UNCHANGED <<rows, version>>

\* ... or _surrogate_for_real(...), or else SurrogateConflict
BindAny(p) ==
    LET c == op[p]
        found == SurrogatesAny(rows, c.real)
    IN
    /\ c.at = "any"
    /\ \/ \E s \in found : Answer(p, c.real, s)
       \/ found = {} /\ Answer(p, c.real, CONFLICT)
    /\ UNCHANGED <<rows, version>>

----------------------------------------------------------------------------
(* rebind: who owns the surrogate, which rows the value has, then one      *)
(* transaction that demotes those rows and inserts the new one.            *)

RebindFree(p, t, r, s) ==
    /\ op[p].at = "idle"
    /\ Owners(rows, s) = {}
    /\ Goto(p, "read", t, r, s)
    /\ UNCHANGED <<rows, version>>

RebindTaken(p, r, s) ==
    /\ op[p].at = "idle"
    /\ \E x \in Owners(rows, s) : x.real # r
    /\ Answer(p, r, CONFLICT)
    /\ UNCHANGED <<rows, version>>

\* "déjà exactement ce que l'opérateur demande"
RebindAlready(p, r, s) ==
    /\ op[p].at = "idle"
    /\ \E x \in Owners(rows, s) : x.real = r
    /\ Answer(p, r, s)
    /\ UNCHANGED <<rows, version>>

RebindRead(p) ==
    LET c == op[p] IN
    /\ c.at = "read"
    /\ op' = [op EXCEPT ![p].at = "write",
                        ![p].anciens = {x \in rows : IsCurrent(x) /\ x.real = c.real}]
    /\ UNCHANGED <<rows, version>>

\* (mutant) the demotion is committed before the INSERT is tried.
RebindWriteNoTransaction(p) ==
    LET c == op[p]
        n == NewRow(c.etype, c.real, c.surr)
        demoted == Demote(rows, c.anciens)
    IN
    /\ c.at = "write"
    /\ IF Refused(demoted, n)
       THEN Answer(p, c.real, CONFLICT) /\ rows' = demoted /\ UNCHANGED version
       ELSE /\ rows' = demoted \cup {n}
            /\ version' = [version EXCEPT ![p] = @ + 1]
            /\ Answer(p, c.real, c.surr)

RebindWrite(p) ==
    LET c == op[p]
        n == NewRow(c.etype, c.real, c.surr)
        demoted == Demote(rows, c.anciens)
    IN
    /\ c.at = "write"
    /\ IF DemoteRefused(rows, c.anciens) \/ Refused(demoted, n)
       THEN Answer(p, c.real, CONFLICT) /\ UNCHANGED <<rows, version>>
       ELSE /\ rows' = demoted \cup {n}
            /\ version' = [version EXCEPT ![p] = @ + 1]
            /\ Answer(p, c.real, c.surr)

----------------------------------------------------------------------------

\* sqlite3.Error on the INSERT of bind, or in the transaction of rebind, which
\* is then rolled back: the caller is told VaultUnavailableError.
WriteFails(p) ==
    /\ \/ op[p].at = "idle" /\ \E r \in Reals : Answer(p, r, UNAVAILABLE)
       \/ op[p].at = "write" /\ Answer(p, op[p].real, UNAVAILABLE)
    /\ UNCHANGED <<rows, version>>

\* The caller takes the answer; the lock is released.
Return(p) ==
    /\ op[p].at = "done"
    /\ op' = [op EXCEPT ![p] = Idle]
    /\ UNCHANGED <<rows, version>>

\* The process dies and is started again on the same file.
Restart(p) ==
    /\ op' = [op EXCEPT ![p] = Idle]
    /\ version' = [version EXCEPT ![p] = 0]
    /\ UNCHANGED rows

Next ==
    \E p \in Procs :
        \/ \E r \in Reals, s \in Surrs :
              \/ \E t \in Types : Bind(p, t, r, s)
              \/ \E t \in Entity : RebindFree(p, t, r, s)
              \/ RebindTaken(p, r, s)
              \/ RebindAlready(p, r, s)
        \/ BindTyped(p) \/ BindAny(p)
        \/ RebindRead(p) \/ RebindWrite(p)
        \/ WriteFails(p) \/ Return(p) \/ Restart(p)

Spec == Init /\ [][Next]_vars

----------------------------------------------------------------------------
(* Properties. *)

\* Every variable has its type: rows have the columns of the schema, a call
\* is idle or carries what its next statement needs.
TypeOK ==
    /\ rows \in SUBSET Row
    /\ op \in [Procs -> Binding \cup Renaming \cup Done \cup {Idle}]
    /\ version \in [Procs -> Nat]

\* Every sealed value still opens: two renamings of a value that cross never
\* leave a row renamed with the seal of another (one such row would make
\* every view() of the scope fail, vault.py:313).
SealsOpen == \A x \in rows : Opens(x)

\* What has been sent stays restorable to the same value, whatever the
\* operator renames since (vault.py:279-284).
MeaningIsPermanent == [][View(rows) \subseteq View(rows')]_vars

\* A value that has a surrogate has one in every later state: no request can
\* find it nameless in the middle of a renaming (vault.py:309-311).
NeverNameless ==
    [][\A r \in Reals : SurrogatesAny(rows, r) # {} => SurrogatesAny(rows', r) # {}]_vars

\* The surrogate a call answers stands for the value the call was about, even
\* when the INSERT lost a race and the answer was read back afterwards.
AnswerNamesTheValue ==
    \A p \in Procs :
        op[p].at = "done" /\ op[p].ret \in Surrs =>
            \E x \in Owners(rows, op[p].ret) : x.real = op[p].real

\* Table R as a map from surrogates to values, and back.
MeaningOf(R) ==
    [s \in Surrs |-> IF \E x \in Owners(R, s) : InView(x)
                     THEN (CHOOSE x \in Owners(R, s) : InView(x)).real ELSE NONE]

CurrentOf(R) ==
    [r \in Reals |-> IF SurrogatesAny(R, r) = {} THEN NONE
                     ELSE CHOOSE s \in SurrogatesAny(R, r) : TRUE]

ReservedOf(R) == {x.surr : x \in {y \in R : ~InView(y)}}

\* Such a map is what Mapping promises.
Promise == INSTANCE Mapping WITH
    meaning <- MeaningOf(rows), current <- CurrentOf(rows), reserved <- ReservedOf(rows)

\* Refinement: every step of the vault is a step of Mapping or none.
ImplementsMapping == Promise!Spec

\* A rename that is accepted takes effect: the value goes out under the
\* surrogate the operator chose.
ChoiceTakesEffect ==
    [][\A p \in Procs, r \in Reals, s \in Surrs :
        \/ RebindAlready(p, r, s)
        \/ RebindWrite(p) /\ op[p].real = r /\ op'[p].ret = s
        => SurrogatesAny(rows', r) = {s}]_vars
=============================================================================
