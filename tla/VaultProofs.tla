---------------------------- MODULE VaultProofs ----------------------------
(***************************************************************************)
(* Proofs about Vault.tla, for any number of processes, types, values and  *)
(* surrogates.  The inductive invariant IInv adds to the checked ones the  *)
(* uniqueness the schema enforces and what a rename in progress may rely   *)
(* on: a row it read is still there, as it was or demoted.                 *)
(***************************************************************************)
EXTENDS Vault, TLAPS

\* The three constraints of the schema hold between any two rows.
RowsUnique == \A x, y \in rows : x # y => ~Clash(x, y)

\* Row y is what the demotion of row a makes of it.
IsDemotion(y, a) ==
    y.hist = a.surr /\ y.etype = a.etype /\ y.real = a.real /\ y.surr = a.surr

\* What the call c, about to write, read of table R: at most one row, a current
\* row of its value, still there or demoted since by another process.
AnciensGood(c, R) ==
    c.at = "write" =>
        /\ \A a, b \in c.anciens : a = b
        /\ \A a \in c.anciens :
              /\ IsCurrent(a)
              /\ a.real = c.real
              /\ a \in R \/ \E y \in R : IsDemotion(y, a)

AnciensKnown == \A p \in Procs : AnciensGood(op[p], rows)

\* The surrogate a finished call answers stands for its value in table R.
AnswerGood(c, R) ==
    c.at = "done" /\ c.ret \in Surrs => \E x \in Owners(R, c.ret) : x.real = c.real

\* The calls, of every shape.
Call == Binding \cup Renaming \cup Done \cup {Idle}

IInv ==
    /\ TypeOK
    /\ RowsUnique
    /\ SealsOpen
    /\ AnciensKnown
    /\ AnswerNamesTheValue

----------------------------------------------------------------------------
(* The table. *)

LEMMA NewRowIsRow ==
    ASSUME NEW t \in Types, NEW r \in Reals, NEW s \in Surrs
    PROVE  /\ NewRow(t, r, s) \in Row
           /\ Opens(NewRow(t, r, s))
    BY DEF NewRow, Row, Opens, Aad

\* A row inserted where no constraint refuses it keeps the rows unique.
LEMMA InsertUnique ==
    ASSUME NEW R, \A x, y \in R : x # y => ~Clash(x, y),
           NEW n, ~Refused(R, n)
    PROVE  \A x, y \in R \cup {n} : x # y => ~Clash(x, y)
    BY DEF Refused, Clash, PrimaryKeyClash, SamePrimaryKey, SurrogateClash, RealClash

\* The row an UPDATE of rebind renames is the row rebind read: were it another
\* one, the demotion of the row read would hold the historical key already.
LEMMA HitIsAncien ==
    ASSUME NEW R \in SUBSET Row, \A x, y \in R : x # y => ~Clash(x, y),
           NEW as \in SUBSET Row, NEW a \in as, IsCurrent(a),
           a \in R \/ \E y \in R : IsDemotion(y, a),
           ~DemoteRefused(R, as),
           NEW x \in Hit(R, a)
    PROVE  x = a
<1>1. x \in R /\ x.hist = NONE /\ x.etype = a.etype /\ x.real = a.real
    BY DEF Hit
<1>2. CASE a \in R
    <2>1. SamePrimaryKey(x, a)
        BY <1>1 DEF SamePrimaryKey, IsCurrent
    <2> QED BY <2>1, <1>1, <1>2 DEF Clash, PrimaryKeyClash
<1>3. CASE \E y \in R : IsDemotion(y, a)
    <2>1. PICK y \in R : IsDemotion(y, a)
        BY <1>3
    <2>2. y.hist # NONE
        BY <2>1, TableAssumption DEF IsDemotion, Row
    <2>3. y \in R \ Hit(R, a)
        BY <2>1, <2>2 DEF Hit
    <2>4. x \in Row
        BY <1>1
    <2>5. PrimaryKeyClash(Demoted(x, a), y)
        BY <2>1, <2>4, <1>1 DEF PrimaryKeyClash, SamePrimaryKey, Demoted, IsDemotion, Row
    <2> QED BY <2>3, <2>5 DEF DemoteRefused
<1> QED BY <1>2, <1>3

\* A demoted row is a row, opens, and is the demotion of the row read.
LEMMA DemotedRow ==
    ASSUME NEW a \in Row
    PROVE  /\ Demoted(a, a) \in Row
           /\ Opens(Demoted(a, a))
           /\ IsDemotion(Demoted(a, a), a)
    BY DEF Demoted, Row, Opens, Aad, IsDemotion

\* The demotion of rows that were read earlier: the table stays unique, every
\* row still opens, and every row is still there, as it was or demoted.
LEMMA DemoteTable ==
    ASSUME NEW R \in SUBSET Row, \A x, y \in R : x # y => ~Clash(x, y),
           \A x \in R : Opens(x),
           NEW as \in SUBSET Row,
           \A a, b \in as : a = b,
           \A a \in as : IsCurrent(a) /\ (a \in R \/ \E y \in R : IsDemotion(y, a)),
           ~DemoteRefused(R, as)
    PROVE  /\ Demote(R, as) \in SUBSET Row
           /\ \A x \in Demote(R, as) : Opens(x)
           /\ \A x, y \in Demote(R, as) : x # y => ~Clash(x, y)
           /\ \A x \in R : x \in Demote(R, as)
                           \/ (x \in as /\ Demoted(x, x) \in Demote(R, as))
           /\ \A x \in Demote(R, as) :
                 x \in R \/ \E a \in as : a \in R /\ x = Demoted(a, a)
<1>1. ASSUME NEW a \in as, NEW x \in Hit(R, a)
      PROVE  x = a
    BY <1>1, HitIsAncien
<1>2. ASSUME NEW x \in Demote(R, as)
      PROVE  \/ x \in R /\ \A a \in as : x \notin Hit(R, a)
             \/ \E a \in as : a \in R /\ a \in Hit(R, a) /\ x = Demoted(a, a)
    <2>1. CASE x \in R /\ \A a \in as : x \notin Hit(R, a)
        BY <2>1
    <2>2. CASE x \in UNION {{Demoted(h, a) : h \in Hit(R, a)} : a \in as}
        <3>1. PICK a \in as : \E h \in Hit(R, a) : x = Demoted(h, a)
            BY <2>2
        <3>2. \A h \in Hit(R, a) : h = a
            BY <1>1, <3>1
        <3> QED BY <3>1, <3>2 DEF Hit
    <2> QED BY <1>2, <2>1, <2>2 DEF Demote
<1>3. Demote(R, as) \in SUBSET Row
    BY <1>2, DemotedRow
<1>4. \A x \in Demote(R, as) : Opens(x)
    BY <1>2, DemotedRow
<1>5. ASSUME NEW x \in Demote(R, as), NEW y \in Demote(R, as), x # y
      PROVE  ~Clash(x, y)
    <2>1. CASE x \in R /\ y \in R
        BY <2>1, <1>5
    <2>2. ASSUME NEW u \in R, \A a \in as : u \notin Hit(R, a),
                 NEW a \in as, a \in R, a \in Hit(R, a)
          PROVE  ~Clash(u, Demoted(a, a)) /\ ~Clash(Demoted(a, a), u)
        <3>1. u # a
            BY <2>2
        <3>2. ~SurrogateClash(u, a) /\ ~SurrogateClash(a, u)
            BY <2>2, <3>1 DEF Clash
        <3>3. ~SurrogateClash(u, Demoted(a, a)) /\ ~SurrogateClash(Demoted(a, a), u)
            BY <3>2, <2>2 DEF SurrogateClash, Demoted, Row
        <3>4. u \in R \ Hit(R, a)
            BY <2>2
        <3>5. ~PrimaryKeyClash(Demoted(a, a), u)
            BY <2>2, <3>4 DEF DemoteRefused
        <3>6. ~PrimaryKeyClash(u, Demoted(a, a))
            BY <3>5 DEF PrimaryKeyClash, SamePrimaryKey
        <3>7. ~IsCurrent(Demoted(a, a))
            BY <2>2, TableAssumption DEF IsCurrent, Demoted, Row
        <3> QED BY <3>3, <3>5, <3>6, <3>7 DEF Clash, RealClash
    <2>3. CASE x \in R /\ \A a \in as : x \notin Hit(R, a)
        <3>1. CASE y \in R /\ \A a \in as : y \notin Hit(R, a)
            BY <2>1, <2>3, <3>1
        <3>2. CASE \E a \in as : a \in R /\ a \in Hit(R, a) /\ y = Demoted(a, a)
            BY <2>2, <2>3, <3>2
        <3> QED BY <1>2, <3>1, <3>2
    <2>4. CASE \E a \in as : a \in R /\ a \in Hit(R, a) /\ x = Demoted(a, a)
        <3>1. CASE y \in R /\ \A a \in as : y \notin Hit(R, a)
            BY <2>2, <2>4, <3>1
        <3>2. CASE \E a \in as : a \in R /\ a \in Hit(R, a) /\ y = Demoted(a, a)
            BY <2>4, <3>2, <1>5
        <3> QED BY <1>2, <3>1, <3>2
    <2> QED BY <1>2, <2>3, <2>4
<1>6. ASSUME NEW x \in R
      PROVE  x \in Demote(R, as) \/ (x \in as /\ Demoted(x, x) \in Demote(R, as))
    <2>1. CASE \A a \in as : x \notin Hit(R, a)
        BY <2>1 DEF Demote
    <2>2. CASE \E a \in as : x \in Hit(R, a)
        <3>1. PICK a \in as : x \in Hit(R, a)
            BY <2>2
        <3>2. x = a
            BY <1>1, <3>1
        <3>3. Demoted(x, x) \in {Demoted(h, a) : h \in Hit(R, a)}
            BY <3>1, <3>2
        <3>4. Demoted(x, x) \in UNION {{Demoted(h, b) : h \in Hit(R, b)} : b \in as}
            BY <3>3
        <3> QED BY <3>2, <3>4 DEF Demote
    <2> QED BY <2>1, <2>2
<1> QED BY <1>2, <1>3, <1>4, <1>5, <1>6

----------------------------------------------------------------------------
(* From one table to the next. *)

\* Every row of R is in S, as it was or, if it was current, demoted.
Kept(R, S) ==
    \A x \in R : x \in S \/ (IsCurrent(x) /\ \E y \in S : IsDemotion(y, x))

\* A rename in progress keeps what it read, whatever another process writes.
LEMMA KeptAnciens ==
    ASSUME NEW R \in SUBSET Row, NEW S, Kept(R, S), NEW a \in Row,
           a \in R \/ \E y \in R : IsDemotion(y, a)
    PROVE  a \in S \/ \E y \in S : IsDemotion(y, a)
<1>1. CASE a \in R
    BY <1>1 DEF Kept
<1>2. CASE \E y \in R : IsDemotion(y, a)
    <2>1. PICK y \in R : IsDemotion(y, a)
        BY <1>2
    <2>2. ~IsCurrent(y)
        BY <2>1, TableAssumption DEF IsDemotion, IsCurrent, Row
    <2> QED BY <2>1, <2>2 DEF Kept
<1> QED BY <1>1, <1>2

\* A surrogate keeps its owner, and an owner in the view stays in the view.
LEMMA KeptOwners ==
    ASSUME NEW R \in SUBSET Row, NEW S, Kept(R, S), NEW x \in R
    PROVE  \E y \in S : /\ y.surr = x.surr /\ y.real = x.real
                        /\ InView(x) => InView(y)
<1>1. CASE x \in S
    BY <1>1
<1>2. CASE \E y \in S : IsDemotion(y, x)
    <2>1. PICK y \in S : IsDemotion(y, x)
        BY <1>2
    <2>2. InView(y)
        BY <2>1, TableAssumption DEF IsDemotion, InView, Row
    <2> QED BY <2>1, <2>2 DEF IsDemotion
<1> QED BY <1>1, <1>2 DEF Kept

\* A step that leaves a good table and gives process p the call c keeps IInv.
LEMMA StepKeeps ==
    ASSUME IInv,
           rows' \in SUBSET Row, RowsUnique', SealsOpen', Kept(rows, rows'),
           version' \in [Procs -> Nat],
           NEW p \in Procs, NEW c \in Call,
           op' = [op EXCEPT ![p] = c],
           AnciensGood(c, rows'), AnswerGood(c, rows')
    PROVE  IInv'
<1> USE DEF IInv
<1>1. TypeOK'
    BY DEF TypeOK, Call
<1>2. ASSUME NEW q \in Procs
      PROVE  op'[q] = IF q = p THEN c ELSE op[q]
    BY DEF TypeOK
<1>3. AnciensKnown'
    <2> SUFFICES ASSUME NEW q \in Procs
                 PROVE  AnciensGood(op'[q], rows')
        BY DEF AnciensKnown
    <2>1. CASE q = p
        BY <1>2, <2>1
    <2>2. CASE q # p
        <3>1. op'[q] = op[q]
            BY <1>2, <2>2
        <3>2. AnciensGood(op[q], rows)
            BY DEF AnciensKnown
        <3>3. op[q].at = "write" => op[q].anciens \in SUBSET Row
            BY DEF TypeOK, Call, Binding, Renaming, Done, Idle
        <3>4. ASSUME op[q].at = "write", NEW a \in op[q].anciens
              PROVE  a \in rows' \/ \E y \in rows' : IsDemotion(y, a)
            BY <3>2, <3>3, <3>4, KeptAnciens DEF AnciensGood, TypeOK
        <3> QED BY <3>1, <3>2, <3>4 DEF AnciensGood
    <2> QED BY <2>1, <2>2
<1>4. AnswerNamesTheValue'
    <2> SUFFICES ASSUME NEW q \in Procs, op'[q].at = "done", op'[q].ret \in Surrs
                 PROVE  \E x \in Owners(rows', op'[q].ret) : x.real = op'[q].real
        BY DEF AnswerNamesTheValue, Owners
    <2>1. CASE q = p
        BY <1>2, <2>1 DEF AnswerGood
    <2>2. CASE q # p
        <3>1. op'[q] = op[q]
            BY <1>2, <2>2
        <3>2. PICK x \in rows : x.surr = op[q].ret /\ x.real = op[q].real
            BY <3>1 DEF AnswerNamesTheValue, Owners
        <3>3. PICK y \in rows' : y.surr = x.surr /\ y.real = x.real
            BY KeptOwners DEF TypeOK
        <3> QED BY <3>1, <3>2, <3>3 DEF Owners
    <2> QED BY <2>1, <2>2
<1> QED BY <1>1, <1>3, <1>4

\* The table unchanged: nothing to show but the call.
LEMMA CallKeeps ==
    ASSUME IInv, UNCHANGED rows, version' \in [Procs -> Nat],
           NEW p \in Procs, NEW c \in Call,
           op' = [op EXCEPT ![p] = c],
           AnciensGood(c, rows), AnswerGood(c, rows)
    PROVE  IInv'
<1>1. RowsUnique' /\ SealsOpen' /\ Kept(rows, rows')
    BY DEF IInv, RowsUnique, SealsOpen, Kept
<1>2. rows' \in SUBSET Row
    BY DEF IInv, TypeOK
<1> QED BY <1>1, <1>2, StepKeeps

\* An INSERT no constraint refuses leaves a good table.
LEMMA InsertKeeps ==
    ASSUME IInv, NEW t \in Types, NEW r \in Reals, NEW s \in Surrs,
           ~Refused(rows, NewRow(t, r, s)),
           rows' = rows \cup {NewRow(t, r, s)}
    PROVE  /\ rows' \in SUBSET Row /\ RowsUnique' /\ SealsOpen'
           /\ Kept(rows, rows')
<1>1. RowsUnique'
    BY InsertUnique DEF IInv, RowsUnique
<1>2. rows' \in SUBSET Row /\ SealsOpen'
    BY NewRowIsRow DEF IInv, TypeOK, SealsOpen
<1> QED BY <1>1, <1>2 DEF Kept

\* The transaction of rebind, when no constraint refuses it, leaves a good table.
LEMMA RebindTable ==
    ASSUME IInv, NEW p \in Procs, op[p].at = "write",
           NEW n, n = NewRow(op[p].etype, op[p].real, op[p].surr),
           NEW D, D = Demote(rows, op[p].anciens),
           ~DemoteRefused(rows, op[p].anciens), ~Refused(D, n),
           rows' = D \cup {n}
    PROVE  /\ rows' \in SUBSET Row /\ RowsUnique' /\ SealsOpen'
           /\ Kept(rows, rows')
<1>1. /\ op[p].anciens \in SUBSET Row /\ op[p].etype \in Types
      /\ op[p].real \in Reals /\ op[p].surr \in Surrs
    BY DEF IInv, TypeOK, Types, Binding, Renaming, Done, Idle
<1>2. n \in Row /\ Opens(n)
    BY <1>1, NewRowIsRow
<1>3. /\ \A a, b \in op[p].anciens : a = b
      /\ \A a \in op[p].anciens :
            IsCurrent(a) /\ (a \in rows \/ \E y \in rows : IsDemotion(y, a))
    BY DEF IInv, AnciensKnown, AnciensGood
<1>4. /\ D \in SUBSET Row
      /\ \A x \in D : Opens(x)
      /\ \A x, y \in D : x # y => ~Clash(x, y)
      /\ \A x \in rows : x \in D \/ (x \in op[p].anciens /\ Demoted(x, x) \in D)
    <2> DEFINE as == op[p].anciens
    <2>1. rows \in SUBSET Row /\ (\A x, y \in rows : x # y => ~Clash(x, y))
          /\ \A x \in rows : Opens(x)
        BY DEF IInv, TypeOK, RowsUnique, SealsOpen
    <2>2. /\ as \in SUBSET Row /\ (\A a, b \in as : a = b) /\ ~DemoteRefused(rows, as)
          /\ \A a \in as : IsCurrent(a) /\ (a \in rows \/ \E y \in rows : IsDemotion(y, a))
        BY <1>1, <1>3
    <2>3. D = Demote(rows, as)
        OBVIOUS
    <2> HIDE DEF as
    <2>4. /\ Demote(rows, as) \in SUBSET Row
          /\ \A x \in Demote(rows, as) : Opens(x)
          /\ \A x, y \in Demote(rows, as) : x # y => ~Clash(x, y)
          /\ \A x \in rows : x \in Demote(rows, as)
                             \/ (x \in as /\ Demoted(x, x) \in Demote(rows, as))
        BY <2>1, <2>2, DemoteTable
    <2> QED BY <2>3, <2>4 DEF as
<1>5. RowsUnique'
    BY <1>4, InsertUnique DEF RowsUnique
<1>6. rows' \in SUBSET Row /\ SealsOpen'
    BY <1>2, <1>4 DEF SealsOpen
<1>7. Kept(rows, rows')
    BY <1>1, <1>3, <1>4, DemotedRow DEF Kept
<1> QED BY <1>5, <1>6, <1>7

----------------------------------------------------------------------------

LEMMA InitIInv == Init => IInv
    BY DEF Init, IInv, TypeOK, RowsUnique, SealsOpen, AnciensKnown, AnciensGood,
           AnswerNamesTheValue, Idle

\* What each step does to the table, and that IInv holds after it.
LEMMA StepIInv == IInv /\ [Next]_vars => IInv' /\ Kept(rows, rows')
<1> SUFFICES ASSUME IInv, [Next]_vars
             PROVE  IInv' /\ Kept(rows, rows')
    OBVIOUS
<1> USE DEF Answer, Goto
<1>0. /\ op \in [Procs -> Call]
      /\ version \in [Procs -> Nat]
      /\ rows \in SUBSET Row
    BY DEF IInv, TypeOK, Call
<1>1. UNCHANGED rows => Kept(rows, rows')
    BY DEF Kept
<1>2. ASSUME NEW p \in Procs, NEW t \in Types, NEW r \in Reals, NEW s \in Surrs,
             Bind(p, t, r, s)
      PROVE  IInv' /\ Kept(rows, rows')
    <2>1. CASE Refused(rows, NewRow(t, r, s))
        <3> DEFINE c == [at |-> "typed", etype |-> t, real |-> r, surr |-> s, anciens |-> {}]
        <3>1. c \in Call /\ AnciensGood(c, rows) /\ AnswerGood(c, rows)
            BY DEF Call, Binding, Renaming, AnciensGood, AnswerGood
        <3>2. op' = [op EXCEPT ![p] = c] /\ UNCHANGED <<rows, version>>
            BY <1>2, <2>1 DEF Bind
        <3> QED BY <3>1, <3>2, <1>0, <1>1, CallKeeps
    <2>2. CASE ~Refused(rows, NewRow(t, r, s))
        <3> DEFINE c == [at |-> "done", real |-> r, ret |-> s]
        <3>1. /\ op' = [op EXCEPT ![p] = c]
              /\ rows' = rows \cup {NewRow(t, r, s)}
              /\ version' = [version EXCEPT ![p] = @ + 1]
            BY <1>2, <2>2 DEF Bind
        <3>2. /\ rows' \in SUBSET Row /\ RowsUnique' /\ SealsOpen'
              /\ Kept(rows, rows')
            BY <2>2, <3>1, InsertKeeps
        <3>3. version' \in [Procs -> Nat]
            BY <3>1, <1>0
        <3>4. \E x \in rows' : x.surr = s /\ x.real = r
            <4>1. NewRow(t, r, s) \in rows'
                BY <3>1
            <4>2. NewRow(t, r, s).surr = s /\ NewRow(t, r, s).real = r
                BY DEF NewRow
            <4> QED BY <4>1, <4>2
        <3>5. c \in Call /\ AnciensGood(c, rows') /\ AnswerGood(c, rows')
            BY <3>4 DEF Call, Done, AnciensGood, AnswerGood, Owners
        <3> HIDE DEF c
        <3> QED BY <3>1, <3>2, <3>3, <3>5, StepKeeps
    <2> QED BY <2>1, <2>2
<1>3. ASSUME NEW p \in Procs, BindTyped(p)
      PROVE  IInv' /\ Kept(rows, rows')
    <2>0. /\ op[p].etype \in Types /\ op[p].real \in Reals /\ op[p].surr \in Surrs
          /\ UNCHANGED <<rows, version>>
        BY <1>0, <1>3 DEF BindTyped, Call, Binding, Renaming, Done, Idle
    <2>1. ASSUME NEW s \in SurrogatesTyped(rows, op[p].etype, op[p].real),
                 Answer(p, op[p].real, s)
          PROVE  IInv'
        <3> DEFINE c == [at |-> "done", real |-> op[p].real, ret |-> s]
        <3>1. s \in Surrs /\ \E x \in Owners(rows, s) : x.real = op[p].real
            BY <1>0 DEF SurrogatesTyped, Owners, Row
        <3>2. c \in Call /\ AnciensGood(c, rows) /\ AnswerGood(c, rows)
            BY <2>0, <3>1 DEF Call, Done, AnciensGood, AnswerGood
        <3>3. op' = [op EXCEPT ![p] = c]
            BY <2>1
        <3> HIDE DEF c
        <3> QED BY <2>0, <3>2, <3>3, <1>0, CallKeeps
    <2>2. ASSUME Goto(p, "any", op[p].etype, op[p].real, op[p].surr)
          PROVE  IInv'
        <3> DEFINE c == [at |-> "any", etype |-> op[p].etype, real |-> op[p].real,
                         surr |-> op[p].surr, anciens |-> {}]
        <3>1. c \in Call /\ AnciensGood(c, rows) /\ AnswerGood(c, rows)
            BY <2>0 DEF Call, Binding, Renaming, AnciensGood, AnswerGood
        <3>2. op' = [op EXCEPT ![p] = c]
            BY <2>2
        <3> HIDE DEF c
        <3> QED BY <2>0, <3>1, <3>2, <1>0, CallKeeps
    <2> QED BY <1>1, <1>3, <2>0, <2>1, <2>2 DEF BindTyped
<1>4. ASSUME NEW p \in Procs, BindAny(p)
      PROVE  IInv' /\ Kept(rows, rows')
    <2>0. op[p].real \in Reals /\ UNCHANGED <<rows, version>>
        BY <1>0, <1>4 DEF BindAny, Call, Binding, Renaming, Done, Idle
    <2>1. ASSUME NEW s \in SurrogatesAny(rows, op[p].real) \cup {CONFLICT},
                 Answer(p, op[p].real, s)
          PROVE  IInv'
        <3> DEFINE c == [at |-> "done", real |-> op[p].real, ret |-> s]
        <3>1. \/ s = CONFLICT /\ s \notin Surrs
              \/ s \in Surrs /\ \E x \in Owners(rows, s) : x.real = op[p].real
            BY <1>0, VaultAssumption DEF SurrogatesAny, Owners, Row
        <3>2. c \in Call /\ AnciensGood(c, rows) /\ AnswerGood(c, rows)
            BY <2>0, <3>1 DEF Call, Done, AnciensGood, AnswerGood
        <3>3. op' = [op EXCEPT ![p] = c]
            BY <2>1
        <3> HIDE DEF c
        <3> QED BY <2>0, <3>2, <3>3, <1>0, CallKeeps
    <2> QED BY <1>1, <1>4, <2>0, <2>1 DEF BindAny
<1>5. ASSUME NEW p \in Procs, NEW t \in Entity, NEW r \in Reals, NEW s \in Surrs,
             RebindFree(p, t, r, s)
      PROVE  IInv' /\ Kept(rows, rows')
    <2> DEFINE c == [at |-> "read", etype |-> t, real |-> r, surr |-> s, anciens |-> {}]
    <2>1. c \in Call /\ AnciensGood(c, rows) /\ AnswerGood(c, rows)
        BY DEF Call, Binding, Renaming, AnciensGood, AnswerGood, Types
    <2>2. op' = [op EXCEPT ![p] = c] /\ UNCHANGED <<rows, version>>
        BY <1>5 DEF RebindFree
    <2> HIDE DEF c
    <2> QED BY <2>1, <2>2, <1>0, <1>1, CallKeeps
<1>6. ASSUME NEW p \in Procs, NEW r \in Reals, NEW s \in Surrs,
             RebindTaken(p, r, s) \/ RebindAlready(p, r, s)
      PROVE  IInv' /\ Kept(rows, rows')
    <2>1. PICK x \in Surrs \cup {CONFLICT} :
             /\ Answer(p, r, x) /\ UNCHANGED <<rows, version>>
             /\ x \in Surrs => \E y \in Owners(rows, x) : y.real = r
        BY <1>6, VaultAssumption DEF RebindTaken, RebindAlready
    <2> DEFINE c == [at |-> "done", real |-> r, ret |-> x]
    <2>2. c \in Call /\ AnciensGood(c, rows) /\ AnswerGood(c, rows)
        BY <2>1 DEF Call, Done, AnciensGood, AnswerGood
    <2>3. op' = [op EXCEPT ![p] = c]
        BY <2>1
    <2> HIDE DEF c
    <2> QED BY <2>1, <2>2, <2>3, <1>0, <1>1, CallKeeps
<1>7. ASSUME NEW p \in Procs, RebindRead(p)
      PROVE  IInv' /\ Kept(rows, rows')
    <2> DEFINE found == {x \in rows : IsCurrent(x) /\ x.real = op[p].real}
               c == [op[p] EXCEPT !.at = "write", !.anciens = found]
    <2>1. op[p] \in Renaming /\ UNCHANGED <<rows, version>>
        BY <1>0, <1>7 DEF RebindRead, Call, Binding, Renaming, Done, Idle
    <2>2. found \in SUBSET Row
        BY <1>0
    <2>3. c \in Call /\ c.at = "write" /\ c.anciens = found /\ c.real = op[p].real
        BY <2>1, <2>2 DEF Call, Renaming
    <2>4. \A a, b \in found : a = b
        BY DEF IInv, RowsUnique, Clash, RealClash
    <2>5. AnciensGood(c, rows) /\ AnswerGood(c, rows)
        BY <2>3, <2>4 DEF AnciensGood, AnswerGood
    <2>6. op' = [op EXCEPT ![p] = c]
        BY <1>0, <1>7 DEF RebindRead
    <2> HIDE DEF c
    <2> QED BY <2>1, <2>3, <2>5, <2>6, <1>0, <1>1, CallKeeps
<1>8. ASSUME NEW p \in Procs, RebindWrite(p)
      PROVE  IInv' /\ Kept(rows, rows')
    <2> DEFINE n == NewRow(op[p].etype, op[p].real, op[p].surr)
               D == Demote(rows, op[p].anciens)
    <2>0. op[p].at = "write" /\ op[p] \in Renaming
        BY <1>0, <1>8 DEF RebindWrite, Call, Binding, Renaming, Done, Idle
    <2>1. CASE DemoteRefused(rows, op[p].anciens) \/ Refused(D, n)
        <3> DEFINE c == [at |-> "done", real |-> op[p].real, ret |-> CONFLICT]
        <3>1. c \in Call /\ AnciensGood(c, rows) /\ AnswerGood(c, rows)
            BY <2>0, VaultAssumption DEF Call, Binding, Renaming, Done, AnciensGood, AnswerGood
        <3>2. op' = [op EXCEPT ![p] = c] /\ UNCHANGED <<rows, version>>
            BY <1>8, <2>1 DEF RebindWrite
        <3> HIDE DEF c
        <3> QED BY <3>1, <3>2, <1>0, <1>1, CallKeeps
    <2>2. CASE ~DemoteRefused(rows, op[p].anciens) /\ ~Refused(D, n)
        <3> DEFINE c == [at |-> "done", real |-> op[p].real, ret |-> op[p].surr]
        <3>1. /\ op' = [op EXCEPT ![p] = c]
              /\ rows' = D \cup {n}
              /\ version' = [version EXCEPT ![p] = @ + 1]
            BY <1>8, <2>2 DEF RebindWrite
        <3>2. n \in rows' /\ n.surr = op[p].surr /\ n.real = op[p].real
            BY <3>1 DEF NewRow
        <3>3. c \in Call /\ AnciensGood(c, rows') /\ AnswerGood(c, rows')
            BY <2>0, <3>2 DEF Call, Binding, Renaming, Done, AnciensGood, AnswerGood, Owners
        <3>4. version' \in [Procs -> Nat]
            BY <3>1, <1>0
        <3> HIDE DEF c, n, D
        <3>5. /\ rows' \in SUBSET Row /\ RowsUnique' /\ SealsOpen'
              /\ Kept(rows, rows')
            BY <2>0, <2>2, <3>1, RebindTable DEF n, D
        <3> QED BY <3>1, <3>3, <3>4, <3>5, StepKeeps
    <2> QED BY <2>1, <2>2
<1>9. ASSUME NEW p \in Procs, WriteFails(p)
      PROVE  IInv' /\ Kept(rows, rows')
    <2>1. PICK r \in Reals : Answer(p, r, UNAVAILABLE) /\ UNCHANGED <<rows, version>>
        BY <1>0, <1>9 DEF WriteFails, Call, Binding, Renaming, Done, Idle
    <2> DEFINE c == [at |-> "done", real |-> r, ret |-> UNAVAILABLE]
    <2>2. c \in Call /\ AnciensGood(c, rows) /\ AnswerGood(c, rows)
        BY VaultAssumption DEF Call, Done, AnciensGood, AnswerGood
    <2>3. op' = [op EXCEPT ![p] = c]
        BY <2>1
    <2> HIDE DEF c
    <2> QED BY <2>1, <2>2, <2>3, <1>0, <1>1, CallKeeps
<1>10. ASSUME NEW p \in Procs, Return(p) \/ Restart(p)
       PROVE  IInv' /\ Kept(rows, rows')
    <2>1. Idle \in Call /\ AnciensGood(Idle, rows) /\ AnswerGood(Idle, rows)
        BY DEF Call, AnciensGood, AnswerGood, Idle
    <2>2. /\ op' = [op EXCEPT ![p] = Idle] /\ UNCHANGED rows
          /\ version' \in [Procs -> Nat]
        BY <1>0, <1>10 DEF Return, Restart
    <2> QED BY <2>1, <2>2, <1>1, CallKeeps
<1>11. CASE UNCHANGED vars
    BY <1>1, <1>11 DEF vars, IInv, TypeOK, RowsUnique, SealsOpen, AnciensKnown,
        AnswerNamesTheValue
<1> QED
    BY <1>2, <1>3, <1>4, <1>5, <1>6, <1>7, <1>8, <1>9, <1>10, <1>11 DEF Next

THEOREM Invariance == Spec => []IInv
    BY InitIInv, StepIInv, PTL DEF Spec

\* Every variable keeps its type.
THEOREM TypeCorrect == Spec => []TypeOK
    BY Invariance, PTL DEF IInv

\* No interleaving of binds and renames, in any number of processes, ever
\* leaves a row whose sealed value no longer opens.
THEOREM EverySealOpens == Spec => []SealsOpen
    BY Invariance, PTL DEF IInv

\* The answer of a call stands for the value the call was about.
THEOREM AnswersAreRight == Spec => []AnswerNamesTheValue
    BY Invariance, PTL DEF IInv

\* A surrogate that restores to a value restores to it for ever.
THEOREM MeaningPermanent == Spec => MeaningIsPermanent
<1>1. IInv /\ [Next]_vars => [View(rows) \subseteq View(rows')]_vars
    <2> SUFFICES ASSUME IInv, [Next]_vars, NEW x \in rows, InView(x)
                 PROVE  \E y \in rows' : InView(y) /\ y.surr = x.surr /\ y.real = x.real
        BY DEF View
    <2>1. Kept(rows, rows') /\ rows \in SUBSET Row
        BY StepIInv DEF IInv, TypeOK
    <2> QED BY <2>1, KeptOwners
<1> QED BY <1>1, Invariance, PTL DEF Spec, MeaningIsPermanent

\* A value that has a surrogate is never found without one.
THEOREM NamedForEver == Spec => NeverNameless
<1>1. IInv /\ [Next]_vars =>
        [\A r \in Reals : SurrogatesAny(rows, r) # {} => SurrogatesAny(rows', r) # {}]_vars
    <2> SUFFICES ASSUME IInv, Next, NEW r \in Reals, SurrogatesAny(rows, r) # {}
                 PROVE  SurrogatesAny(rows', r) # {}
        OBVIOUS
    <2>1. PICK x \in rows : IsCurrent(x) /\ x.real = r
        BY DEF SurrogatesAny
    <2>2. ASSUME NEW y \in rows', IsCurrent(y), y.real = r
          PROVE  SurrogatesAny(rows', r) # {}
        BY <2>2 DEF SurrogatesAny
    <2>3. CASE x \in rows'
        BY <2>1, <2>2, <2>3
    <2>4. CASE rows' = rows
        BY <2>1, <2>3, <2>4
    <2>5. ASSUME NEW p \in Procs, RebindWrite(p), rows' # rows
          PROVE  SurrogatesAny(rows', r) # {}
        <3> DEFINE n == NewRow(op[p].etype, op[p].real, op[p].surr)
                   D == Demote(rows, op[p].anciens)
        <3>1. /\ ~DemoteRefused(rows, op[p].anciens) /\ ~Refused(D, n)
              /\ rows' = D \cup {n}
              /\ op[p].at = "write"
            BY <2>5 DEF RebindWrite
        <3>2. CASE op[p].real = r
            <4>1. op[p].etype \in Entity
                BY <3>1 DEF IInv, TypeOK, Binding, Renaming, Done, Idle
            <4> QED BY <2>2, <3>1, <3>2, <4>1 DEF NewRow, IsCurrent
        <3>3. CASE op[p].real # r
            <4>1. \A a \in op[p].anciens : a.real # r
                BY <3>1, <3>3 DEF IInv, AnciensKnown, AnciensGood
            <4>2. x \in D
                BY <2>1, <4>1 DEF Demote, Hit
            <4> QED BY <2>3, <3>1, <4>2
        <3> QED BY <3>2, <3>3
    <2> QED
        BY <2>3, <2>4, <2>5 DEF Next, Bind, BindTyped, BindAny, RebindFree, RebindTaken,
            RebindAlready, RebindRead, WriteFails, Return, Restart
<1> QED BY <1>1, Invariance, PTL DEF Spec, NeverNameless

-----------------------------------------------------------------------------
(* The vault implements Mapping: whatever the processes that share it do,  *)
(* each of its steps gives one value one free surrogate, reserves one, or  *)
(* changes nothing the others can see.                                     *)

Unique(R) == \A x, y \in R : x # y => ~Clash(x, y)

\* The same surrogate for the same value, as readable as before.
Alike(x, y) == x.surr = y.surr /\ x.real = y.real /\ (InView(x) <=> InView(y))

\* A row of the view gives its surrogate its meaning.
LEMMA MeaningOfRow ==
    ASSUME NEW R \in SUBSET Row, Unique(R), NEW x \in R, InView(x)
    PROVE  MeaningOf(R)[x.surr] = x.real
<1>1. \A y \in Owners(R, x.surr) : y = x
    BY DEF Unique, Owners, Clash, SurrogateClash
<1>2. x \in Owners(R, x.surr) /\ x.surr \in Surrs
    BY DEF Owners, Row
<1> QED BY <1>1, <1>2 DEF MeaningOf

LEMMA MeaningOfNone ==
    ASSUME NEW R \in SUBSET Row, NEW s \in Surrs, \A x \in R : InView(x) => x.surr # s
    PROVE  MeaningOf(R)[s] = NONE
    BY DEF MeaningOf, Owners

\* A current row is where its value goes.
LEMMA CurrentOfRow ==
    ASSUME NEW R \in SUBSET Row, Unique(R), NEW x \in R, IsCurrent(x)
    PROVE  CurrentOf(R)[x.real] = x.surr
<1>1. \A y \in R : IsCurrent(y) /\ y.real = x.real => y = x
    BY DEF Unique, Clash, RealClash
<1>2. SurrogatesAny(R, x.real) = {x.surr}
    BY <1>1 DEF SurrogatesAny
<1>3. x.real \in Reals
    BY DEF Row
<1> QED BY <1>2, <1>3 DEF CurrentOf

LEMMA CurrentOfNone ==
    ASSUME NEW R \in SUBSET Row, NEW r \in Reals, \A x \in R : IsCurrent(x) => x.real # r
    PROVE  CurrentOf(R)[r] = NONE
<1>1. SurrogatesAny(R, r) = {}
    BY DEF SurrogatesAny
<1> QED BY <1>1 DEF CurrentOf

\* From table R to table S, which has one more row, n, and where the rows of R
\* are found again, the other values' current ones as they were.
LEMMA OneMore ==
    ASSUME NEW R \in SUBSET Row, Unique(R), NEW S \in SUBSET Row, Unique(S), NEW n \in S,
           IsCurrent(n), \A x \in R : x.surr # n.surr,
           \A x \in R : \E y \in S : Alike(x, y),
           \A y \in S : y = n \/ \E x \in R : Alike(x, y),
           \A x \in R : IsCurrent(x) /\ x.real # n.real => x \in S,
           \A y \in S : IsCurrent(y) => y = n \/ (y \in R /\ y.real # n.real)
    PROVE  /\ MeaningOf(R)[n.surr] = NONE
           /\ n.surr \notin ReservedOf(R)
           /\ MeaningOf(S) = [MeaningOf(R) EXCEPT ![n.surr] = n.real]
           /\ CurrentOf(S) = [CurrentOf(R) EXCEPT ![n.real] = n.surr]
           /\ ReservedOf(S) = ReservedOf(R)
<1>1. n.surr \in Surrs /\ n.real \in Reals /\ InView(n)
    BY DEF Row, IsCurrent, InView
<1>2. MeaningOf(R)[n.surr] = NONE
    BY <1>1, MeaningOfNone
<1>3. n.surr \notin ReservedOf(R)
    BY DEF ReservedOf
<1>4. ASSUME NEW s \in Surrs
      PROVE  MeaningOf(S)[s] = IF s = n.surr THEN n.real ELSE MeaningOf(R)[s]
    <2>1. CASE s = n.surr
        BY <1>1, <2>1, MeaningOfRow
    <2>2. CASE s # n.surr /\ \E x \in R : InView(x) /\ x.surr = s
        <3>1. PICK x \in R : InView(x) /\ x.surr = s
            BY <2>2
        <3>2. PICK y \in S : Alike(x, y)
            BY <3>1
        <3>3. InView(y) /\ y.surr = s /\ y.real = x.real
            BY <3>1, <3>2 DEF Alike
        <3>4. MeaningOf(R)[s] = x.real /\ MeaningOf(S)[s] = x.real
            BY <3>1, <3>3, MeaningOfRow
        <3> QED BY <2>2, <3>4
    <2>3. CASE s # n.surr /\ \A x \in R : InView(x) => x.surr # s
        <3>1. \A y \in S : InView(y) => y.surr # s
            BY <2>3 DEF Alike
        <3> QED BY <2>3, <3>1, MeaningOfNone
    <2> QED BY <2>1, <2>2, <2>3
<1>5. ASSUME NEW r \in Reals
      PROVE  CurrentOf(S)[r] = IF r = n.real THEN n.surr ELSE CurrentOf(R)[r]
    <2>1. CASE r = n.real
        BY <2>1, CurrentOfRow
    <2>2. CASE r # n.real /\ \E x \in R : IsCurrent(x) /\ x.real = r
        <3>1. PICK x \in R : IsCurrent(x) /\ x.real = r
            BY <2>2
        <3>2. x \in S
            BY <2>2, <3>1
        <3>3. CurrentOf(R)[r] = x.surr /\ CurrentOf(S)[r] = x.surr
            BY <3>1, <3>2, CurrentOfRow
        <3> QED BY <2>2, <3>3
    <2>3. CASE r # n.real /\ \A x \in R : IsCurrent(x) => x.real # r
        <3>1. \A y \in S : IsCurrent(y) => y.real # r
            BY <2>3
        <3> QED BY <2>3, <3>1, CurrentOfNone
    <2> QED BY <2>1, <2>2, <2>3
<1>6. MeaningOf(S) = [MeaningOf(R) EXCEPT ![n.surr] = n.real]
    <2>1. /\ MeaningOf(S) = [s \in Surrs |-> MeaningOf(S)[s]]
          /\ MeaningOf(R) = [s \in Surrs |-> MeaningOf(R)[s]]
        BY DEF MeaningOf
    <2> QED BY <1>1, <1>4, <2>1
<1>7. CurrentOf(S) = [CurrentOf(R) EXCEPT ![n.real] = n.surr]
    <2>1. /\ CurrentOf(S) = [r \in Reals |-> CurrentOf(S)[r]]
          /\ CurrentOf(R) = [r \in Reals |-> CurrentOf(R)[r]]
        BY DEF CurrentOf
    <2> QED BY <1>1, <1>5, <2>1
<1>8. ReservedOf(S) = ReservedOf(R)
    BY <1>1 DEF ReservedOf, Alike
<1> QED BY <1>2, <1>3, <1>6, <1>7, <1>8

\* Such a change is a step of Mapping: the value is named, or renamed.
LEMMA OneMoreIsPromised ==
    ASSUME IInv, NEW n \in rows',
           IsCurrent(n), n.surr \in Surrs, n.real \in Reals,
           MeaningOf(rows)[n.surr] = NONE, n.surr \notin ReservedOf(rows),
           MeaningOf(rows') = [MeaningOf(rows) EXCEPT ![n.surr] = n.real],
           CurrentOf(rows') = [CurrentOf(rows) EXCEPT ![n.real] = n.surr],
           ReservedOf(rows') = ReservedOf(rows)
    PROVE  Promise!Next
<1>1. Promise!Name(n.real, n.surr) \/ Promise!Rename(n.real, n.surr)
    BY DEF Promise!Name, Promise!Rename, Promise!Free
<1> QED BY <1>1 DEF Promise!Next

\* bind inserts a row.
LEMMA BindIsPromised ==
    ASSUME IInv, IInv', NEW p \in Procs, NEW t \in Types, NEW r \in Reals, NEW s \in Surrs,
           ~Refused(rows, NewRow(t, r, s)), rows' = rows \cup {NewRow(t, r, s)}
    PROVE  Promise!Next
<1> DEFINE n == NewRow(t, r, s)
<1>1. /\ n \in Row /\ n.hist = NONE /\ n.etype = t /\ n.real = r /\ n.surr = s
      /\ ~Refused(rows, n) /\ rows' = rows \cup {n}
    BY NewRowIsRow DEF NewRow
<1>2. rows \in SUBSET Row /\ rows' \in SUBSET Row /\ Unique(rows) /\ Unique(rows')
    BY DEF IInv, TypeOK, RowsUnique, Unique
<1> HIDE DEF n
<1>3. \A x \in rows : x.surr # s
    BY <1>1 DEF Refused, Clash, SurrogateClash
<1>4. CASE t \in Entity
    <2>1. IsCurrent(n)
        BY <1>1, <1>4 DEF IsCurrent
    <2>2. \A x \in rows : IsCurrent(x) => x.real # n.real
        BY <1>1, <2>1 DEF Refused, Clash, RealClash
    <2>3. \A x \in rows : Alike(x, x)
        BY DEF Alike
    <2>4. /\ MeaningOf(rows)[n.surr] = NONE /\ n.surr \notin ReservedOf(rows)
          /\ MeaningOf(rows') = [MeaningOf(rows) EXCEPT ![n.surr] = n.real]
          /\ CurrentOf(rows') = [CurrentOf(rows) EXCEPT ![n.real] = n.surr]
          /\ ReservedOf(rows') = ReservedOf(rows)
        BY <1>1, <1>2, <1>3, <2>1, <2>2, <2>3, OneMore, SMTT(30)
    <2> QED BY <1>1, <2>1, <2>4, OneMoreIsPromised
<1>5. CASE t \notin Entity
    <2>1. ~InView(n) /\ ~IsCurrent(n)
        BY <1>1, <1>5 DEF InView, IsCurrent
    <2>2. MeaningOf(rows)[s] = NONE /\ s \notin ReservedOf(rows)
        BY <1>2, <1>3, MeaningOfNone DEF ReservedOf
    <2>3. ReservedOf(rows') = ReservedOf(rows) \cup {s}
        BY <1>1, <2>1 DEF ReservedOf
    <2>4. MeaningOf(rows') = MeaningOf(rows)
        <3>1. ASSUME NEW s2 \in Surrs
              PROVE  MeaningOf(rows')[s2] = MeaningOf(rows)[s2]
            <4>1. CASE \E x \in rows : InView(x) /\ x.surr = s2
                BY <1>1, <1>2, <4>1, MeaningOfRow
            <4>2. CASE \A x \in rows : InView(x) => x.surr # s2
                <5>1. \A x \in rows' : InView(x) => x.surr # s2
                    BY <1>1, <2>1, <4>2
                <5> QED BY <1>2, <4>2, <5>1, MeaningOfNone
            <4> QED BY <4>1, <4>2
        <3>2. /\ MeaningOf(rows') = [s2 \in Surrs |-> MeaningOf(rows')[s2]]
              /\ MeaningOf(rows) = [s2 \in Surrs |-> MeaningOf(rows)[s2]]
            BY DEF MeaningOf
        <3> QED BY <3>1, <3>2
    <2>5. CurrentOf(rows') = CurrentOf(rows)
        <3>1. ASSUME NEW r2 \in Reals
              PROVE  CurrentOf(rows')[r2] = CurrentOf(rows)[r2]
            <4>1. CASE \E x \in rows : IsCurrent(x) /\ x.real = r2
                BY <1>1, <1>2, <4>1, CurrentOfRow
            <4>2. CASE \A x \in rows : IsCurrent(x) => x.real # r2
                <5>1. \A x \in rows' : IsCurrent(x) => x.real # r2
                    BY <1>1, <2>1, <4>2
                <5> QED BY <1>2, <4>2, <5>1, CurrentOfNone
            <4> QED BY <4>1, <4>2
        <3>2. /\ CurrentOf(rows') = [r2 \in Reals |-> CurrentOf(rows')[r2]]
              /\ CurrentOf(rows) = [r2 \in Reals |-> CurrentOf(rows)[r2]]
            BY DEF CurrentOf
        <3> QED BY <3>1, <3>2
    <2>6. Promise!Reserve(s)
        BY <2>2, <2>3, <2>4, <2>5 DEF Promise!Reserve, Promise!Free
    <2> QED BY <2>6 DEF Promise!Next
<1> QED BY <1>4, <1>5

\* rebind demotes the row the value had, if any, and inserts another.
LEMMA RebindIsPromised ==
    ASSUME IInv, IInv', NEW p \in Procs, RebindWrite(p), rows' # rows
    PROVE  Promise!Next
<1> DEFINE c == op[p]
           as == op[p].anciens
           n == NewRow(c.etype, c.real, c.surr)
           D == Demote(rows, as)
<1>1. /\ c.at = "write" /\ ~DemoteRefused(rows, as) /\ ~Refused(D, n) /\ rows' = D \cup {n}
    BY DEF RebindWrite
<1>2. c.etype \in Entity /\ c.real \in Reals /\ c.surr \in Surrs /\ as \in SUBSET Row
    BY <1>1 DEF IInv, TypeOK, Binding, Renaming, Done, Idle
<1>3. /\ rows \in SUBSET Row /\ rows' \in SUBSET Row
      /\ Unique(rows) /\ Unique(rows') /\ \A x \in rows : Opens(x)
    BY DEF IInv, TypeOK, RowsUnique, Unique, SealsOpen
<1>4. /\ \A a, b \in as : a = b
      /\ \A a \in as : /\ IsCurrent(a) /\ a.real = c.real
                       /\ a \in rows \/ \E y \in rows : IsDemotion(y, a)
    BY <1>1 DEF IInv, AnciensKnown, AnciensGood
<1>5. n \in Row /\ IsCurrent(n) /\ n.real = c.real /\ n.surr = c.surr
    BY <1>2, NewRowIsRow DEF NewRow, IsCurrent, Types
<1> HIDE DEF n, as, c
<1>6. /\ \A x \in rows : x \in D \/ (x \in as /\ Demoted(x, x) \in D)
      /\ \A x \in D : x \in rows \/ \E a \in as : a \in rows /\ x = Demoted(a, a)
    BY <1>1, <1>2, <1>3, <1>4, DemoteTable DEF Unique
<1> HIDE DEF D
<1>7. \A a \in as : Alike(a, Demoted(a, a)) /\ ~IsCurrent(Demoted(a, a))
    BY <1>2, <1>4, TableAssumption DEF Alike, Demoted, Row, InView, IsCurrent
<1>8. \A x \in D : x.surr # n.surr /\ (IsCurrent(x) => x.real # n.real)
    BY <1>1, <1>5 DEF Refused, Clash, SurrogateClash, RealClash
<1>9. \A x \in rows : \E y \in D : Alike(x, y)
    BY <1>6, <1>7 DEF Alike
<1>10. \A y \in D : \E x \in rows : Alike(x, y)
    <2>1. ASSUME NEW y \in D
          PROVE  \E x \in rows : Alike(x, y)
        <3>1. CASE y \in rows
            BY <3>1 DEF Alike
        <3>2. CASE \E a \in as : a \in rows /\ y = Demoted(a, a)
            BY <1>7, <3>2
        <3> QED BY <1>6, <3>1, <3>2
    <2> QED BY <2>1
<1>11. \A x \in rows : x.surr # n.surr
    BY <1>8, <1>9 DEF Alike
<1>12. \A x \in rows : IsCurrent(x) /\ x.real # n.real => x \in D
    BY <1>4, <1>5, <1>6
<1>13. \A y \in D : IsCurrent(y) => y \in rows /\ y.real # n.real
    BY <1>6, <1>7, <1>8
<1>14. /\ MeaningOf(rows)[n.surr] = NONE /\ n.surr \notin ReservedOf(rows)
       /\ MeaningOf(rows') = [MeaningOf(rows) EXCEPT ![n.surr] = n.real]
       /\ CurrentOf(rows') = [CurrentOf(rows) EXCEPT ![n.real] = n.surr]
       /\ ReservedOf(rows') = ReservedOf(rows)
    <2>1. n \in rows' /\ IsCurrent(n)
        BY <1>1, <1>5
    <2>2. \A x \in rows : \E y \in rows' : Alike(x, y)
        BY <1>1, <1>9
    <2>3. \A y \in rows' : y = n \/ \E x \in rows : Alike(x, y)
        BY <1>1, <1>10
    <2>4. \A x \in rows : IsCurrent(x) /\ x.real # n.real => x \in rows'
        BY <1>1, <1>12
    <2>5. \A y \in rows' : IsCurrent(y) => y = n \/ (y \in rows /\ y.real # n.real)
        BY <1>1, <1>13
    <2> QED BY <1>3, <1>11, <2>1, <2>2, <2>3, <2>4, <2>5, OneMore
<1> QED BY <1>1, <1>2, <1>5, <1>14, OneMoreIsPromised

\* The vault implements Mapping.
THEOREM VaultImplementsMapping == Spec => ImplementsMapping
<1>1. Init => Promise!Init
    BY DEF Init, Promise!Init, MeaningOf, CurrentOf, ReservedOf, Owners, SurrogatesAny
<1>2. IInv /\ IInv' /\ [Next]_vars => [Promise!Next]_(Promise!mapVars)
    <2> SUFFICES ASSUME IInv, IInv', [Next]_vars
                 PROVE  Promise!Next \/ UNCHANGED Promise!mapVars
        OBVIOUS
    <2>1. CASE rows' = rows
        BY <2>1 DEF Promise!mapVars
    <2>2. ASSUME NEW p \in Procs, NEW t \in Types, NEW r \in Reals, NEW s \in Surrs,
                 Bind(p, t, r, s), rows' # rows
          PROVE  Promise!Next
        BY <2>2, BindIsPromised DEF Bind
    <2>3. ASSUME NEW p \in Procs, RebindWrite(p), rows' # rows
          PROVE  Promise!Next
        BY <2>3, RebindIsPromised
    <2> QED
        BY <2>1, <2>2, <2>3 DEF Next, BindTyped, BindAny, RebindFree, RebindTaken,
            RebindAlready, RebindRead, WriteFails, Return, Restart, vars
<1> QED BY <1>1, <1>2, Invariance, PTL DEF Spec, ImplementsMapping, Promise!Spec
=============================================================================
