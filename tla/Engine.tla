------------------------------- MODULE Engine -------------------------------
(***************************************************************************)
(* SurrogateEngine of src/src/anonproxy/surrogates/engine.py: threads of   *)
(* several processes replace values over one vault.  A value may ask for   *)
(* the substitutes of its pieces and for the attributes it shares with     *)
(* others, so that a call is a stack of calls, and what it has been told   *)
(* is used several steps later.                                            *)
(* The vault is the promise of module Mapping with the types of its rows;  *)
(* Vault details its statements.  The policy is the set of values it       *)
(* reveals now; Policy details how it is read, Proxy what is asked.        *)
(***************************************************************************)
EXTENDS Candidates

CONSTANTS Threads, Owner,   \* [Threads -> process]
          Values,           \* what may be detected: [type, text]
          Revealable,       \* the texts a rule may reveal
          Days,             \* the days the calls happen on, one after the other
          MaxTries, MaxCalls, MaxChanges,
          Blocking          \* setting arbitrage = bloquant

\* The attributes that values share, and the types of the rows that are no raw type.
Shareds == {"_ZONE", "_SUBNET", "_REPO_ORG", "_REGISTRY"}
Kinds   == {"host", "ip", "net", "email", "repo", "image", "date", "generic"}

ASSUME EngineAssumption ==
    /\ MaxTries \in Nat \ {0} /\ MaxCalls \in Nat /\ MaxChanges \in Nat
    /\ \A p \in {Owner[th] : th \in Threads} : p \in STRING
    /\ \A v \in Values : v.type \notin Shareds \cup Kinds /\ WellMade(v.text)
    /\ Blocking \in BOOLEAN /\ Jours \in Nat \ {0} /\ Days \subseteq Nat

VARIABLES table,     \* rows [type, real, sur] of the vault
          shared,    \* per process, its memory of shared attributes
          stack,     \* per thread, the calls in progress, the deepest first
          revealed,  \* what the policy reveals now
          today,
          answers,   \* the calls that ended: [value, out, open]
          open,      \* per thread, what was revealed at some point of its call
          ever,      \* what was ever revealed
          calls, changes

vars == <<table, shared, stack, revealed, today, answers, open, ever, calls, changes>>
history == <<answers, open, ever>>

Procs == {Owner[th] : th \in Threads}
REFUSED == [k |-> "refused"]

Frame(need) == [op |-> need.op, type |-> need.type, text |-> need.text,
                at |-> "enter", try |-> 0, same |-> 0, names |-> <<>>]

Top(th) == stack[th][1]

----------------------------------------------------------------------------
(* The vault. *)

Row(type, real, sur) == [type |-> type, real |-> real, sur |-> sur]
RowOf(type, real) == {r \in table : r.type = type /\ r.real = real}
Current(real) == {r \in table : r.type \notin Shareds /\ r.real = real}
\* What already names a value: its own row, else a row of another type of entity.
Existing(type, real) == IF RowOf(type, real) # {} THEN RowOf(type, real) ELSE Current(real)
Taken(sur) == \E r \in table : r.sur = sur

\* Vault.bind inserts, answers what it finds, or refuses.
Inserts(type, real, sur) ==
    /\ ~Taken(sur) /\ RowOf(type, real) = {}
    /\ type \in Shareds \/ Current(real) = {}

----------------------------------------------------------------------------
(* How a call ends. *)

Continue(th, frame) == stack' = [stack EXCEPT ![th] = <<frame>> \o Tail(@)]

\* The call of a thread: its last frame.
Whole(th) == Last(stack[th])

Answer(th, out) ==
    answers' = answers \cup {[type |-> Whole(th).type, text |-> Whole(th).text,
                              out |-> out, open |-> open[th]]}

\* The frame that asked is told what was answered.
Hears(f, out) == [f EXCEPT !.names = Append(@, out)]

Return(th, out) ==
    IF Len(stack[th]) = 1
    THEN /\ stack' = [stack EXCEPT ![th] = <<>>]
         /\ Answer(th, out)
    ELSE /\ stack' = [stack EXCEPT ![th] =
                 <<Hears(@[2], out)>> \o SubSeq(@, 3, Len(@))]
         /\ UNCHANGED answers

\* An exception leaves every call of the thread (SurrogateCollisionError, VaultUnavailableError).
Refuse(th) == stack' = [stack EXCEPT ![th] = <<>>] /\ Answer(th, REFUSED)

Quiet == UNCHANGED <<revealed, today, open, ever, calls, changes>>

----------------------------------------------------------------------------
(* substitute_value. *)

Call(th) ==
    /\ stack[th] = <<>>
    /\ calls < MaxCalls /\ calls' = calls + 1
    /\ \E v \in Values : stack' = [stack EXCEPT ![th] = <<Frame(Part(v.type, v.text))>>]
    /\ open' = [open EXCEPT ![th] = revealed]
    /\ UNCHANGED <<table, shared, revealed, today, answers, ever, changes>>

\* What goes out as it is, before the vault is looked at.
NothingToHide(f) ==
    \/ f.type \in PublicTypes
    \/ f.type \in {"FILE_PATH", "USER_PATH"} /\ f.text.k = "path" /\ NothingMasked(f.text)
    \/ f.text.k = "blank"

\* (mutant) the allow-list before the class of the value.
LeftAsItIsPublicFirst(f) ==
    \/ NothingToHide(f)
    \/ f.text \in Public
    \/ f.type \notin SecretTypes /\ Stored(f.type, f.text) \in revealed

LeftAsItIs(f) ==
    \/ NothingToHide(f)
    \/ /\ f.type \notin SecretTypes
       /\ f.text \in Public \/ Stored(f.type, f.text) \in revealed

Enter(th) ==
    /\ stack[th] # <<>> /\ Top(th).op = "value" /\ Top(th).at = "enter"
    /\ LET f     == Top(th)
           known == RowOf(Key(f.type, f.text), Stored(f.type, f.text))
       IN  \/ LeftAsItIs(f) /\ Return(th, f.text)
           \/ /\ ~LeftAsItIs(f) /\ f.type \in SecretTypes
              /\ Return(th, SecretReference(f.text))
           \/ /\ ~LeftAsItIs(f) /\ f.type \notin SecretTypes
              /\ \/ \E r \in known : Return(th, r.sur)
                 \/ /\ known = {}
                    /\ Continue(th, [f EXCEPT !.at = "draw"])
                    /\ UNCHANGED answers
    /\ UNCHANGED <<table, shared>> /\ Quiet

\* The candidate of an attempt asks for what it is made of, one after the other.
AskPart(th) ==
    /\ stack[th] # <<>> /\ Top(th).op = "value" /\ Top(th).at = "draw"
    /\ Top(th).try < MaxTries
    /\ LET f    == Top(th)
           asks == AskedFor(f.type, f.text)
       IN  /\ Len(f.names) < Len(asks)
           /\ stack' = [stack EXCEPT ![th] = <<Frame(asks[Len(f.names) + 1])>> \o @]
    /\ UNCHANGED <<table, shared, answers>> /\ Quiet

Ready(th) ==
    /\ stack[th] # <<>> /\ Top(th).op = "value" /\ Top(th).at = "draw"
    /\ Len(Top(th).names) = Len(AskedFor(Top(th).type, Top(th).text))
    /\ Top(th).try < MaxTries

Drawn(th) == LET f == Top(th) IN Candidate(f.type, f.text, f.try, f.names, today)

\* (mutant) the number of the attempt is not advanced.
NextTryStays(f) == [f EXCEPT !.names = <<>>]
NextTry(f) == [f EXCEPT !.try = @ + 1, !.names = <<>>]

Itself(f, c) == c = f.text \/ c = Stored(f.type, f.text)

\* A candidate that is the value itself is never bound.
DrawsItself(th) ==
    /\ Ready(th) /\ Itself(Top(th), Drawn(th))
    /\ Continue(th, [NextTry(Top(th)) EXCEPT !.same = @ + 1])
    /\ UNCHANGED <<table, shared, answers>> /\ Quiet

\* The operator is asked about what bind answered, own or found, unless the value is a
\* piece of another.
Bound(th, f, sur) ==
    IF Blocking /\ f.type # "PATH_SEGMENT"
    THEN /\ Continue(th, [f EXCEPT !.at = "wait", !.names = <<sur>>])
         /\ UNCHANGED answers
    ELSE Return(th, sur)

Bind(th) ==
    /\ Ready(th) /\ ~Itself(Top(th), Drawn(th))
    /\ LET f    == Top(th)
           type == Key(f.type, f.text)
           real == Stored(f.type, f.text)
           c    == Drawn(th)
       IN  \/ /\ Inserts(type, real, c)
              /\ table' = table \cup {Row(type, real, c)}
              /\ Bound(th, f, c)
           \/ /\ ~Inserts(type, real, c)
              /\ \E r \in Existing(type, real) : Bound(th, f, r.sur)
              /\ UNCHANGED table
           \/ /\ ~Inserts(type, real, c) /\ Existing(type, real) = {}
              /\ Continue(th, NextTry(f))
              /\ UNCHANGED <<table, answers>>
    /\ UNCHANGED shared /\ Quiet

\* attendre_decision: the operator reveals the value, or the deadline passes.
Wait(th) ==
    /\ stack[th] # <<>> /\ Top(th).at = "wait"
    /\ LET f == Top(th)
       IN  \/ Stored(f.type, f.text) \in revealed /\ Return(th, f.text)
           \/ Return(th, f.names[1])
    /\ UNCHANGED <<table, shared>> /\ Quiet

\* The attempts are spent: nothing to replace if each of them drew the value.
Exhausted(th) ==
    /\ stack[th] # <<>> /\ Top(th).op = "value" /\ Top(th).at = "draw"
    /\ Top(th).try = MaxTries
    /\ IF Top(th).same = MaxTries THEN Return(th, Top(th).text) ELSE Refuse(th)
    /\ UNCHANGED <<table, shared>> /\ Quiet

----------------------------------------------------------------------------
(* _alloc_shared. *)

Memory(th, f) == {m \in shared[Owner[th]] : m.type = f.type /\ m.real = f.text}
Remember(th, f, sur) ==
    shared' = [shared EXCEPT ![Owner[th]] = @ \cup {Row(f.type, f.text, sur)}]

Lookup(th) ==
    /\ stack[th] # <<>> /\ Top(th).op = "share" /\ Top(th).at = "enter"
    /\ LET f == Top(th)
       IN  \/ /\ \E m \in Memory(th, f) : Return(th, m.sur)
              /\ UNCHANGED shared
           \/ /\ Memory(th, f) = {}
              /\ \E r \in RowOf(f.type, f.text) : Return(th, r.sur) /\ Remember(th, f, r.sur)
           \/ /\ Memory(th, f) = {} /\ RowOf(f.type, f.text) = {}
              /\ Continue(th, [f EXCEPT !.at = "draw"])
              /\ UNCHANGED <<shared, answers>>
    /\ UNCHANGED table /\ Quiet

\* (mutant) the memory is filled with the candidate instead of what the vault answers.
AllocateOwn(th) ==
    /\ stack[th] # <<>> /\ Top(th).op = "share" /\ Top(th).at = "draw"
    /\ Top(th).try < MaxTries
    /\ LET f == Top(th)
           c == FakeShared(f.type, f.text, f.try)
       IN  \/ /\ c = f.text \/ Taken(c)
              /\ Continue(th, NextTry(f))
              /\ UNCHANGED <<table, shared, answers>>
           \/ /\ c # f.text /\ ~Taken(c)
              /\ table' = table \cup IF RowOf(f.type, f.text) = {}
                                     THEN {Row(f.type, f.text, c)} ELSE {}
              /\ Remember(th, f, c) /\ Return(th, c)
    /\ Quiet

Allocate(th) ==
    /\ stack[th] # <<>> /\ Top(th).op = "share" /\ Top(th).at = "draw"
    /\ Top(th).try < MaxTries
    /\ LET f == Top(th)
           c == FakeShared(f.type, f.text, f.try)
       IN  \/ /\ c = f.text
              /\ Continue(th, NextTry(f))
              /\ UNCHANGED <<table, shared, answers>>
           \/ /\ c # f.text /\ Inserts(f.type, f.text, c)
              /\ table' = table \cup {Row(f.type, f.text, c)}
              /\ Remember(th, f, c) /\ Return(th, c)
           \/ /\ c # f.text /\ ~Inserts(f.type, f.text, c)
              /\ \E r \in Existing(f.type, f.text) : Remember(th, f, r.sur) /\ Return(th, r.sur)
              /\ UNCHANGED table
           \/ /\ c # f.text /\ ~Inserts(f.type, f.text, c)
              /\ Existing(f.type, f.text) = {}
              /\ Continue(th, NextTry(f))
              /\ UNCHANGED <<table, shared, answers>>
    /\ Quiet

NoneLeft(th) ==
    /\ stack[th] # <<>> /\ Top(th).op = "share" /\ Top(th).at = "draw"
    /\ Top(th).try = MaxTries
    /\ Refuse(th)
    /\ UNCHANGED <<table, shared>> /\ Quiet

----------------------------------------------------------------------------
(* What happens around the calls. *)

\* The vault cannot be read or written.
VaultFails(th) ==
    /\ stack[th] # <<>> /\ Top(th).at \in {"enter", "draw"}
    /\ changes < MaxChanges /\ changes' = changes + 1
    /\ Refuse(th)
    /\ UNCHANGED <<table, shared, revealed, today, open, ever, calls>>

Rule(x) ==
    /\ changes < MaxChanges /\ changes' = changes + 1
    /\ revealed' = IF x \in revealed THEN revealed \ {x} ELSE revealed \cup {x}
    /\ open' = [th \in Threads |-> open[th] \cup revealed']
    /\ ever' = ever \cup revealed'
    /\ UNCHANGED <<table, shared, stack, today, answers, calls>>

Midnight ==
    /\ today + 1 \in Days /\ today' = today + 1
    /\ UNCHANGED <<table, shared, stack, revealed, answers, open, ever, calls, changes>>

\* A process restarts: its calls and its memory are gone, the vault stays.
Restart(p) ==
    /\ changes < MaxChanges /\ changes' = changes + 1
    /\ shared' = [shared EXCEPT ![p] = {}]
    /\ stack' = [th \in Threads |-> IF Owner[th] = p THEN <<>> ELSE stack[th]]
    /\ UNCHANGED <<table, revealed, today, answers, open, ever, calls>>

Init ==
    /\ table = {} /\ shared = [p \in Procs |-> {}] /\ stack = [th \in Threads |-> <<>>]
    /\ revealed = {} /\ today \in Days
    /\ answers = {} /\ open = [th \in Threads |-> {}] /\ ever = {}
    /\ calls = 0 /\ changes = 0

Run(th) ==
    \/ Enter(th) \/ AskPart(th) \/ DrawsItself(th) \/ Bind(th) \/ Wait(th)
    \/ Exhausted(th) \/ Lookup(th) \/ Allocate(th) \/ NoneLeft(th)

Next ==
    \/ \E th \in Threads : Call(th) \/ Run(th) \/ VaultFails(th)
    \/ \E x \in Revealable : Rule(x)
    \/ \E p \in Procs : Restart(p)
    \/ Midnight

Spec == Init /\ [][Next]_vars

----------------------------------------------------------------------------
(* Properties. *)

RowType(r) == r.real.k \in DOMAIN Fields /\ r.sur.k \in DOMAIN Fields

\* Every variable has its type, and no call has been told more than it asked for.
TypeOK ==
    /\ \A r \in table : RowType(r)
    /\ \A p \in Procs : \A m \in shared[p] : RowType(m) /\ m.type \in Shareds
    /\ \A th \in Threads : \A i \in DOMAIN stack[th] :
          LET f == stack[th][i]
          IN  /\ f.op \in {"value", "share"} /\ f.at \in {"enter", "draw", "wait"}
              /\ f.try \in 0..MaxTries /\ f.same \in 0..f.try
              /\ (f.op = "share" \/ f.at = "enter") => f.names = <<>>
              /\ f.at = "draw" /\ f.op = "value"
                     => Len(f.names) <= Len(AskedFor(f.type, f.text))
              /\ f.at = "wait" => Len(f.names) = 1
    /\ revealed \subseteq ever /\ \A th \in Threads : revealed \subseteq open[th] \cup ever
    /\ calls \in 0..MaxCalls /\ changes \in 0..MaxChanges /\ today \in Days

\* What a value of a kind shares with others, and with which: an empty name if it
\* shares nothing.
Group(kind, x) == CASE kind \in {"host", "email"} -> "_ZONE"
                    [] kind = "ip" \/ (kind = "net" /\ x.len = "shared") -> "_SUBNET"
                    [] kind = "repo" -> "_REPO_ORG"
                    [] kind = "image" -> "_REGISTRY"
                    [] OTHER -> "none"
Attribute(kind, x) == CASE kind = "host" -> Name(Zone(x.labels), FALSE)
                        [] kind = "email" -> Name(x.domain, FALSE)
                        [] kind \in {"ip", "net"} -> Subnet(x)
                        [] kind = "repo" -> Word(x.org)
                        [] kind = "image" -> Name(x.registry, FALSE)
CoMembers == {r \in table : Group(r.type, r.real) # "none"}

\* The attribute is itself a value that has a substitute.
Namesake(r) == Current(Attribute(r.type, r.real)) # {}

\* Two values have their attribute in common exactly when their substitutes have.
KeptTogether(r, q) ==
    Group(r.type, r.real) = Group(q.type, q.real)
        => (Attribute(r.type, r.real) = Attribute(q.type, q.real)
                <=> Attribute(r.type, r.sur) = Attribute(q.type, q.sur))

\* Hosts and addresses of mail of one zone, addresses and networks of one subnet,
\* repositories of one organisation, images of one registry keep that in common
\* under their substitutes, and two that had nothing in common do not get it:
\* whatever threads allocate at once, collide, restart or are told again, but for
\* an attribute whose text is also a value of its own.
CoMembership ==
    \A r, q \in CoMembers : ~Namesake(r) /\ ~Namesake(q) => KeptTogether(r, q)

CONSTANTS Sensitive, SecretAtoms   \* the pieces that tell something, and passwords

Opened(texts) == UNION {Atoms(x) : x \in texts}
Left(x, out)  == Atoms(x) \cap Atoms(out) \cap Sensitive
SameDate(x, out) == /\ x.k = "dates" /\ out.k = "dates"
                    /\ \E i \in DOMAIN x.items : x.items[i].o = out.items[i].o

\* A rule revealed the value, which goes out as it was written.
Granted(a) == a.out = a.text /\ a.type \notin SecretTypes /\ Stored(a.type, a.text) \in ever

\* The words that the draws without a look at the value pick for it at some attempt.
ByChance(x) ==
    LET tries == 0..(MaxTries - 1)
    IN  CASE x.k = "phrase" ->
                {DrawnWord(x, i, t) : i \in {j \in DOMAIN x.words :
                                              x.words[j].kind \notin {"common", "family"}},
                                     t \in tries}
          [] x.k = "email" -> {LastName(Lower(x), t) : t \in tries}
          [] x.k = "image" -> {RegistryHost(Name(x.registry, FALSE), t) : t \in tries}
          [] OTHER -> {}

\* What an answer carries of the value it replaces tells nothing, unless a rule
\* revealed it at some time: users, projects, hosts, ports that are names, logins,
\* parameters, words and dates do not go out, in a piece of a value or in a whole one.
\* A word may stay only where the code draws without a look at the value, and only
\* because the lexicon gave it back: NoWordByChance says that this happens.
NothingRealLeft ==
    \A a \in answers :
        \/ Granted(a)
        \/ /\ Left(a.text, a.out) \subseteq Opened(ever) \cup ByChance(a.text)
           /\ ~SameDate(a.text, a.out)

\* What is sent in place of a value can be restored, and so can each of its
\* pieces alone: the model may compose another path or URL from them.
EveryPieceRestores ==
    \A a \in answers :
        a.out # a.text /\ a.out # REFUSED /\ a.type \notin SecretTypes
            => /\ \E r \in table : r.sur = a.out /\ r.real = Stored(a.type, a.text)
               /\ \A y \in Inside(a.out) \ Inside(a.text) :
                     \E r \in table :
                         /\ r.sur = y /\ r.type \notin Shareds
                         /\ r.real \in Inside(a.text) \cup {Lower(z) : z \in Inside(a.text)}

\* No password enters the vault, from which it would be restored, and none goes
\* out, even one that the allow-list or a rule would let through, or one that is
\* the login of a URL, unless a rule reveals that URL.
SecretsStaySecret ==
    /\ \A r \in table : Atoms(r.real) \cap SecretAtoms = {}
    /\ \A a \in answers : Atoms(a.out) \cap SecretAtoms = {} \/ Granted(a)

\* With dates = cote_du_present a date named on a day stays on its side of that
\* day, unless its side has no other date.
SideKept ==
    [][\A r \in table' \ table :
          r.type = "date" /\ SidedDates
            => LET d == r.real.items[1]
                   e == r.sur.items[1]
                   now == Now(d.g, today)
               IN  d.g = "yearday" \/ Narrow(d, today) \/ (d.o <= now <=> e.o <= now)]_vars

\* A call nests at most three deep: a URL, its host, the zone of that host.
Shallow == \A th \in Threads : Len(stack[th]) <= 3

\* A frame that has gone on is in a later phase, at a later attempt, or has been
\* told more; it is for the same text. A stack is ahead of another when, from the
\* outermost frame in, the first that differs has gone on or is a new one.
Phase == [enter |-> 0, draw |-> 1, wait |-> 2]
Further(f, g) ==
    /\ g.op = f.op /\ g.type = f.type /\ g.text = f.text
    /\ \/ Phase[f.at] < Phase[g.at]
       \/ f.at = g.at /\ f.try < g.try
       \/ f.at = g.at /\ f.try = g.try /\ Len(f.names) < Len(g.names)
Ahead(s, r) ==
    \E j \in 0..Len(s) :
        /\ j < Len(r) /\ \A i \in 0..(j - 1) : s[Len(s) - i] = r[Len(r) - i]
        /\ j = Len(s) \/ Further(s[Len(s) - j], r[Len(r) - j])

\* Each step of substitute_value ends the call or brings it strictly ahead, and
\* nothing that another thread does, no restart, rule or midnight takes a call
\* back: it only goes on by its own steps, or ends. Attempts, what a frame asks for
\* and the depth being bounded, a call cannot try again for ever.
EachCallGoesOn ==
    [][\A th \in Threads :
          /\ Run(th) => stack'[th] = <<>> \/ Ahead(stack[th], stack'[th])
          /\ stack[th] # <<>> /\ ~Run(th) => stack'[th] \in {<<>>, stack[th]}]_vars

\* (violated) Two writings of one thing can both be replaced: a call is refused
\* only by the vault.
EveryWritingIsNamed ==
    \A th \in Threads : stack[th] # <<>> => ~(Top(th).try = MaxTries /\ Top(th).same < MaxTries)

\* (violated) "Meme attribut reel, toujours le meme substitut": whatever else is named.
SharedAlways == \A r, q \in CoMembers : KeptTogether(r, q)

\* (violated) No draw gives a value back one of its own words.
NoWordByChance ==
    \A a \in answers : Granted(a) \/ Left(a.text, a.out) \subseteq Opened(ever)

\* (violated) A rule that reveals a URL, whose canonical form has no login, does not
\* let its login out.
LoginsStay == \A a \in answers : Atoms(a.out) \cap SecretAtoms = {}

\* (violated) Once the rule that revealed a value is withdrawn, no call that
\* begins afterwards lets it out.
ClosedAgain ==
    \A a \in answers : Left(a.text, a.out) \subseteq Opened(a.open)

\* (violated) Two dates of one scope keep their order.
ChronologyKept ==
    \A r, q \in table :
        r.type = "date" /\ q.type = "date"
            => LET d == r.real.items[1] e == q.real.items[1]
                   u == r.sur.items[1]  v == q.sur.items[1]
               IN  d.g = e.g /\ d.o < e.o /\ u.o >= d.o /\ v.o >= e.o => u.o <= v.o
=============================================================================
