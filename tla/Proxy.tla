------------------------------- MODULE Proxy -------------------------------
(***************************************************************************)
(* One exchange from end to end, in every process that serves the scope:   *)
(* ProxyState and the handlers of proxy/app.py, Pseudonymizer (pipeline.py)*)
(* and substitute_value (surrogates/engine.py), over the vault as Mapping  *)
(* promises it.  The leaves of a request are walked in order by a thread of*)
(* its own; each carries one value.  The rules and the answers are files   *)
(* the operator changes from another process at any time, as is the vault. *)
(***************************************************************************)
EXTENDS Mapping, Naturals, Sequences, FiniteSets

CONSTANTS Procs, Proxies,   \* serving processes; those that run proxy/app.py
          Requests,         \* requests, and retries of them
          Served,           \* Served[q]: the process q arrives at
          Carries,          \* Carries[q]: the values in its leaves, in order
          Streamed,         \* the requests with "stream": true
          Candidates,       \* Candidates[r]: what the generator yields for r
          Chosen,           \* the substitutes the operator may pick
          Blocking,         \* reglage("arbitrage") = "bloquant"
          CacheSize,        \* cache_size
          MaxTurns,         \* bound: actions of the operator and crashes
          REVEAL, ANON      \* the two decisions

ASSUME ProxyAssumption ==
    /\ Proxies \subseteq Procs
    /\ Served \in [Requests -> Procs]
    /\ Carries \in [Requests -> Seq(Reals)]
    /\ Candidates \in [Reals -> Seq(Surrs \cup Reals)]
    /\ \A r \in Reals : \A k \in 1..Len(Candidates[r]) :
          Candidates[r][k] # r => Candidates[r][k] \in Surrs
    /\ Chosen \subseteq Surrs
    /\ Blocking \in BOOLEAN
    /\ CacheSize \in Nat /\ MaxTurns \in Nat
    /\ NONE \notin Reals \cup Surrs \cup {REVEAL, ANON}
    /\ REVEAL # ANON

\* The operator never picks a value as its own substitute: neither the command
\* line nor rebind refuses it, and the value would then go out in clear.
ASSUME ChoiceAssumption == Chosen \cap Reals = {}

VARIABLES req,      \* req[q]: where its handler is, and what it holds
          sent,     \* the requests forwarded upstream
          version,  \* version[p]: Vault.version
          memo,     \* memo[p]: ProxyState._incoming
          cache,    \* cache[p]: Pseudonymizer._cache
          rule,     \* rule[r]: what the layers decide for r
          answer,   \* answer[r]: what reponses-message.jsonl decides for r
          asked,    \* the values with a question in en-attente.jsonl
          vu,       \* vu[p]: Policy._vu
          turns,    \* operator actions and crashes so far
          granted,  \* history: values revealable at some time of a process's
                    \* life, or of a request's
          judged    \* history: values decided on, or waited for in vain

server == <<req, sent, version, memo, cache, vu>>
files == <<rule, answer, asked>>
history == <<granted, judged>>
vars == <<mapVars, server, files, turns, history>>

Decisions == {REVEAL, ANON}
Walking == {"walk", "decide", "name", "bind", "ask", "wait", "store"}
Ended == {"refused", "done", "dead"}
NoView == [s \in Surrs |-> NONE]

ReqInit == [at |-> "new", out |-> <<>>, named |-> NONE, attempt |-> 0,
            ruled |-> FALSE, version |-> 0, view |-> NoView]

\* Policy.decide for r: the answer to the current message before any rule.
Decision(a, ru, r) == IF a[r] # NONE THEN a[r] ELSE ru[r]
Decided(r) == Decision(answer, rule, r)

Revealable(a, ru) == {r \in Reals : Decision(a, ru, r) = REVEAL}

ProxyInit ==
    /\ Init
    /\ req = [q \in Requests |-> ReqInit]
    /\ sent = {}
    /\ version = [p \in Procs |-> 0]
    /\ memo = [p \in Procs |-> [version |-> NONE, view |-> NoView]]
    /\ cache = [p \in Procs |-> [r \in Reals |-> NONE]]
    /\ vu = [p \in Procs |-> {}]
    /\ rule = [r \in Reals |-> NONE]
    /\ answer = [r \in Reals |-> NONE]
    /\ asked = {}
    /\ turns = 0
    /\ granted = [x \in Procs \cup Requests |-> {}]
    /\ judged = {}

\* The value of the leaf the walk of q has come to, in state x of its handler.
Leaf(q, x) == Carries[q][Len(x.out) + 1]
Value(q) == Leaf(q, req[q])
MoreLeaves(q) == Len(req[q].out) < Len(Carries[q])

At(q, at) == req[q].at = at
Goto(q, at) == req' = [req EXCEPT ![q].at = at]
GotoWith(q, at, o) == req' = [req EXCEPT ![q].at = at, ![q].named = o]

\* History: what the files make revealable from here on, to the processes, the
\* requests under way and those that open, and what they decide.
Permit(a, ru, opening) ==
    /\ granted' = [x \in Procs \cup Requests |->
                     IF x \in Procs \cup opening \/ req[x].at \notin Ended \cup {"new"}
                     THEN granted[x] \cup Revealable(a, ru) ELSE granted[x]]
    /\ judged' = judged \cup {r \in Reals : Decision(a, ru, r) # NONE}

----------------------------------------------------------------------------
(* _pseudonymize: the walk of the request. *)

\* A request arrives.  The proxy throws away the answers to the last message;
\* the forward process does not, and walks one request at a time.
Open(q) ==
    LET p == Served[q] IN
    /\ At(q, "new")
    /\ p \notin Proxies => \A q2 \in Requests :
          Served[q2] = p => req[q2].at \notin Walking
    /\ Goto(q, "walk")
    /\ answer' = IF p \in Proxies THEN [r \in Reals |-> NONE] ELSE answer
    /\ Permit(answer', rule, {q})
    /\ UNCHANGED <<mapVars, sent, version, memo, cache, vu, rule, asked, turns>>

\* (mutant) a missing entry is taken for a hit.
CacheHitAlways(q) ==
    /\ At(q, "walk") /\ MoreLeaves(q)
    /\ req' = [req EXCEPT ![q].out = Append(@, cache[Served[q]][Value(q)])]
    /\ UNCHANGED <<mapVars, sent, version, memo, cache, vu, files, turns, history>>

CacheHit(q) ==
    /\ At(q, "walk") /\ MoreLeaves(q)
    /\ cache[Served[q]][Value(q)] # NONE
    /\ req' = [req EXCEPT ![q].out = Append(@, cache[Served[q]][Value(q)])]
    /\ UNCHANGED <<mapVars, sent, version, memo, cache, vu, files, turns, history>>

Detect(q) ==
    /\ At(q, "walk") /\ MoreLeaves(q)
    /\ cache[Served[q]][Value(q)] = NONE
    /\ Goto(q, "decide")
    /\ UNCHANGED <<mapVars, sent, version, memo, cache, vu, files, turns, history>>

\* DetectionUnavailable: 503.
DetectFails(q) ==
    /\ At(q, "walk") /\ MoreLeaves(q)
    /\ cache[Served[q]][Value(q)] = NONE
    /\ Goto(q, "refused")
    /\ UNCHANGED <<mapVars, sent, version, memo, cache, vu, files, turns, history>>

\* policy.decide(...)
Decide(q) ==
    /\ At(q, "decide")
    /\ IF Decided(Value(q)) = REVEAL
       THEN GotoWith(q, "store", Value(q))
       ELSE req' = [req EXCEPT ![q].at = "name",
                               ![q].ruled = Decided(Value(q)) # NONE]
    /\ UNCHANGED <<mapVars, sent, version, memo, cache, vu, files, turns, history>>

\* known = vault.get_surrogate(...)
Known(q) ==
    /\ At(q, "name")
    /\ current[Value(q)] # NONE
    /\ GotoWith(q, "store", current[Value(q)])
    /\ UNCHANGED <<mapVars, sent, version, memo, cache, vu, files, turns, history>>

\* No surrogate under this type; one the operator chose may be filed under
\* another type.
Unknown(q) ==
    /\ At(q, "name")
    /\ current[Value(q)] \in Chosen \cup {NONE}
    /\ req' = [req EXCEPT ![q].at = "bind", ![q].attempt = 1]
    /\ UNCHANGED <<mapVars, sent, version, memo, cache, vu, files, turns, history>>

\* (mutant) a new row leaves Vault.version as it was.
BindNewNoVersion(q) ==
    LET r == Value(q)
        c == Candidates[r][req[q].attempt]
    IN
    /\ At(q, "bind") /\ req[q].attempt <= Len(Candidates[r])
    /\ c # r
    /\ Name(r, c)
    /\ GotoWith(q, "ask", c)
    /\ UNCHANGED <<sent, version, memo, cache, vu, files, turns, history>>

\* vault.bind(...), or the vault's refusal of the candidate.
BindNew(q) ==
    LET r == Value(q)
        c == Candidates[r][req[q].attempt]
    IN
    /\ At(q, "bind") /\ req[q].attempt <= Len(Candidates[r])
    /\ c # r
    /\ Name(r, c)
    /\ version' = [version EXCEPT ![Served[q]] = @ + 1]
    /\ GotoWith(q, "ask", c)
    /\ UNCHANGED <<sent, memo, cache, vu, files, turns, history>>

\* (mutant) answers the candidate the vault refused.
BindExistingItsOwn(q) ==
    LET r == Value(q) IN
    /\ At(q, "bind") /\ req[q].attempt <= Len(Candidates[r])
    /\ Candidates[r][req[q].attempt] # r
    /\ current[r] # NONE
    /\ GotoWith(q, "ask", Candidates[r][req[q].attempt])
    /\ UNCHANGED <<mapVars, sent, version, memo, cache, vu, files, turns, history>>

BindExisting(q) ==
    LET r == Value(q) IN
    /\ At(q, "bind") /\ req[q].attempt <= Len(Candidates[r])
    /\ Candidates[r][req[q].attempt] # r
    /\ current[r] # NONE
    /\ GotoWith(q, "ask", current[r])
    /\ UNCHANGED <<mapVars, sent, version, memo, cache, vu, files, turns, history>>

\* (mutant) the same candidate is tried again.
NextCandidateSame(q) ==
    LET r == Value(q)
        k == req[q].attempt
    IN
    /\ At(q, "bind") /\ k <= Len(Candidates[r])
    /\ \/ Candidates[r][k] = r
       \/ Candidates[r][k] # r /\ current[r] = NONE /\ ~Free(Candidates[r][k])
    /\ UNCHANGED vars

\* The candidate is the value itself, or SurrogateConflict.
NextCandidate(q) ==
    LET r == Value(q)
        k == req[q].attempt
    IN
    /\ At(q, "bind") /\ k <= Len(Candidates[r])
    /\ \/ Candidates[r][k] = r
       \/ Candidates[r][k] # r /\ current[r] = NONE /\ ~Free(Candidates[r][k])
    /\ req' = [req EXCEPT ![q].attempt = k + 1]
    /\ UNCHANGED <<mapVars, sent, version, memo, cache, vu, files, turns, history>>

\* Every candidate was the value itself: there is nothing in it to hide.
NothingToHide(r) == \A k \in 1..Len(Candidates[r]) : Candidates[r][k] = r

\* MAX_ATTEMPTS is reached: SurrogateCollisionError unless all were identities.
NoCandidateLeft(q) ==
    LET r == Value(q) IN
    /\ At(q, "bind") /\ req[q].attempt > Len(Candidates[r])
    /\ IF NothingToHide(r) THEN GotoWith(q, "store", r) ELSE Goto(q, "refused")
    /\ UNCHANGED <<mapVars, sent, version, memo, cache, vu, files, turns, history>>

\* VaultUnavailableError: 503.
VaultFails(q) ==
    /\ At(q, "name") \/ At(q, "bind")
    /\ Goto(q, "refused")
    /\ UNCHANGED <<mapVars, sent, version, memo, cache, vu, files, turns, history>>

----------------------------------------------------------------------------
(* en_attente and attendre_decision. *)

\* The question is written once per process; writing it may fail (OSError).
Ask(q) ==
    LET p == Served[q]
        r == Value(q)
    IN
    /\ At(q, "ask")
    /\ IF req[q].ruled
       THEN Goto(q, "store") /\ UNCHANGED <<vu, asked>>
       ELSE /\ Goto(q, IF Blocking THEN "wait" ELSE "store")
            /\ vu' = [vu EXCEPT ![p] = @ \cup {r}]
            /\ asked' \in IF r \in vu[p] THEN {asked} ELSE {asked, asked \cup {r}}
    /\ UNCHANGED <<mapVars, sent, version, memo, cache, rule, answer, turns, history>>

WaitDecided(q) ==
    LET r == Value(q) IN
    /\ At(q, "wait")
    /\ Decided(r) # NONE
    /\ GotoWith(q, "store", IF Decided(r) = REVEAL THEN r ELSE req[q].named)
    /\ UNCHANGED <<mapVars, sent, version, memo, cache, vu, files, turns, history>>

\* (mutant) a deadline that passes is taken for a consent.
WaitExpiresOpen(q) ==
    /\ At(q, "wait")
    /\ GotoWith(q, "store", Value(q))
    /\ judged' = judged \cup {Value(q)}
    /\ UNCHANGED <<mapVars, sent, version, memo, cache, vu, files, turns, granted>>

WaitExpires(q) ==
    /\ At(q, "wait")
    /\ Goto(q, "store")
    /\ judged' = judged \cup {Value(q)}
    /\ UNCHANGED <<mapVars, sent, version, memo, cache, vu, files, turns, granted>>

\* Every way _cache can shrink to CacheSize, the entry just written last to go.
Evicted(c, r) ==
    LET held == {x \in Reals : c[x] # NONE}
        kept == {K \in SUBSET held :
                   /\ Cardinality(K) = IF Cardinality(held) <= CacheSize
                                       THEN Cardinality(held) ELSE CacheSize
                   /\ CacheSize > 0 => r \in K}
    IN {[x \in Reals |-> IF x \in K THEN c[x] ELSE NONE] : K \in kept}

\* The output enters the cache and the safe body.
Store(q) ==
    LET p == Served[q]
        r == Value(q)
    IN
    /\ At(q, "store")
    /\ \E c \in Evicted([cache[p] EXCEPT ![r] = req[q].named], r) :
          cache' = [cache EXCEPT ![p] = c]
    /\ req' = [req EXCEPT ![q].at = "walk", ![q].named = NONE,
                          ![q].out = Append(@, req[q].named)]
    /\ UNCHANGED <<mapVars, sent, version, memo, vu, files, turns, history>>

----------------------------------------------------------------------------
(* messages, _stream: the upstream call, and incoming() before it for a    *)
(* stream, after it otherwise.                                             *)

Walked(q) ==
    /\ At(q, "walk") /\ ~MoreLeaves(q)
    /\ Goto(q, IF q \in Streamed THEN "version" ELSE "send")
    /\ UNCHANGED <<mapVars, sent, version, memo, cache, vu, files, turns, history>>

Send(q) ==
    /\ At(q, "send")
    /\ sent' = sent \cup {q}
    /\ Goto(q, IF q \in Streamed THEN "restore" ELSE "await")
    /\ UNCHANGED <<mapVars, version, memo, cache, vu, files, turns, history>>

\* The answer, or httpx.HTTPError (502).
Await(q) ==
    /\ At(q, "await")
    /\ Goto(q, "version") \/ Goto(q, "done")
    /\ UNCHANGED <<mapVars, sent, version, memo, cache, vu, files, turns, history>>

AfterView(q) == IF q \in Streamed THEN "send" ELSE "restore"

\* incoming(), first half: version = vault.version, and the memo if it is of
\* that version.  It runs on the event loop, never twice at once.
ReadVersion(q) ==
    LET p == Served[q] IN
    /\ At(q, "version")
    /\ \A q2 \in Requests : Served[q2] = p => ~At(q2, "view")
    /\ req' = IF memo[p].version = version[p]
              THEN [req EXCEPT ![q].at = AfterView(q), ![q].view = memo[p].view]
              ELSE [req EXCEPT ![q].at = "view", ![q].version = version[p]]
    /\ UNCHANGED <<mapVars, sent, version, memo, cache, vu, files, turns, history>>

\* incoming(), second half: the view of the vault, under the version read first.
ReadView(q) ==
    LET p == Served[q] IN
    /\ At(q, "view")
    /\ memo' = [memo EXCEPT ![p] = [version |-> req[q].version, view |-> meaning]]
    /\ req' = [req EXCEPT ![q].at = AfterView(q), ![q].view = meaning]
    /\ UNCHANGED <<mapVars, sent, version, cache, vu, files, turns, history>>

\* The answer is given back to the client with its surrogates resolved.
Restore(q) ==
    /\ At(q, "restore")
    /\ Goto(q, "done")
    /\ UNCHANGED <<mapVars, sent, version, memo, cache, vu, files, turns, history>>

----------------------------------------------------------------------------
(* The operator, from another process, and crashes. *)

Turn == turns < MaxTurns /\ turns' = turns + 1

\* definir, retirer: a rule is set or removed.
Rule(r, d) ==
    /\ Turn
    /\ rule[r] # d
    /\ rule' = [rule EXCEPT ![r] = d]
    /\ Permit(answer, rule', {})
    /\ UNCHANGED <<mapVars, server, answer, asked>>

\* repondre_pour_le_message: appended, the last one counts.
AnswerMessage(r, d) ==
    /\ Turn
    /\ answer[r] # d
    /\ answer' = [answer EXCEPT ![r] = d]
    /\ Permit(answer', rule, {})
    /\ UNCHANGED <<mapVars, server, rule, asked>>

\* substituer: rebind, which does nothing when r already owns s.
Substitute(r, s) ==
    /\ Turn
    /\ Name(r, s) \/ Rename(r, s)
    /\ judged' = judged \cup {r}
    /\ UNCHANGED <<server, files, granted>>

\* A serving process dies with its requests and is started again; the ones
\* that had ended belong to its former life too.
Restart(p) ==
    /\ Turn
    /\ req' = [q \in Requests |->
                 IF Served[q] = p /\ req[q].at # "new"
                 THEN [req[q] EXCEPT !.at = "dead"] ELSE req[q]]
    /\ version' = [version EXCEPT ![p] = 0]
    /\ memo' = [memo EXCEPT ![p] = [version |-> NONE, view |-> NoView]]
    /\ cache' = [cache EXCEPT ![p] = [r \in Reals |-> NONE]]
    /\ vu' = [vu EXCEPT ![p] = {}]
    /\ granted' = [granted EXCEPT ![p] = Revealable(answer, rule)]
    /\ UNCHANGED <<mapVars, sent, files, judged>>

----------------------------------------------------------------------------

Serve(q) ==
    \/ CacheHit(q) \/ Detect(q)
    \/ Decide(q) \/ Known(q) \/ Unknown(q)
    \/ BindNew(q) \/ BindExisting(q) \/ NextCandidate(q) \/ NoCandidateLeft(q)
    \/ Ask(q) \/ WaitDecided(q) \/ WaitExpires(q)
    \/ Store(q) \/ Walked(q)
    \/ Send(q) \/ Await(q)
    \/ ReadVersion(q) \/ ReadView(q) \/ Restore(q)

Fail(q) == DetectFails(q) \/ VaultFails(q)

Operate ==
    \/ \E r \in Reals :
        \/ \E d \in Decisions \cup {NONE} : Rule(r, d)
        \/ \E d \in Decisions : AnswerMessage(r, d)
        \/ \E s \in Chosen : Substitute(r, s)
    \/ \E p \in Procs : Restart(p)

\* Nothing is left to do: every request has ended.
Quiet == (\A q \in Requests : req[q].at \in Ended) /\ UNCHANGED vars

ProxyNext ==
    (\E q \in Requests : Open(q) \/ Serve(q) \/ Fail(q)) \/ Operate \/ Quiet

ProxySpec == ProxyInit /\ [][ProxyNext]_vars

\* Threads and the event loop are scheduled, a wait has a deadline
\* (delai_arbitrage) and the upstream client a timeout.  Nothing makes a
\* detector or a vault fail.
FairProxySpec == ProxySpec /\ \A q \in Requests : WF_vars(Serve(q))

----------------------------------------------------------------------------
(* Properties. *)

Outputs == Surrs \cup Reals

Views == [Surrs -> Reals \cup {NONE}]

ReqType ==
    [at : {"new", "send", "await", "version", "view", "restore"} \cup Walking \cup Ended,
     out : Seq(Outputs), named : Outputs \cup {NONE}, attempt : Nat,
     ruled : BOOLEAN, version : Nat, view : Views]

MappingOK == meaning \in Views /\ current \in [Reals -> Surrs \cup {NONE}]

\* x is a state the handler of q may be in.
RequestOK(q, x) ==
    /\ x \in ReqType
    /\ Len(x.out) <= Len(Carries[q])
    /\ x.at = "new" => x.out = <<>>
    /\ x.at \in Walking \ {"walk"} => Len(x.out) < Len(Carries[q])
    /\ x.at \in {"ask", "wait", "store"} => x.named # NONE
    /\ x.at = "bind" => x.attempt \in 1..(Len(Candidates[Leaf(q, x)]) + 1)

ServerOK ==
    /\ version \in [Procs -> Nat]
    /\ memo \in [Procs -> [version : Nat \cup {NONE}, view : Views]]
    /\ cache \in [Procs -> [Reals -> Outputs \cup {NONE}]]
    /\ vu \in [Procs -> SUBSET Reals]
    /\ sent \subseteq Requests

FilesOK ==
    /\ rule \in [Reals -> Decisions \cup {NONE}]
    /\ answer \in [Reals -> Decisions \cup {NONE}]
    /\ asked \subseteq Reals

\* Every variable has its type: what a handler holds, the vault as it sees it,
\* the files, and the walk never runs past the leaves of its request.
TypeOK ==
    /\ MappingOK /\ ServerOK /\ FilesOK
    /\ req \in [Requests -> ReqType]
    /\ \A q \in Requests : RequestOK(q, req[q])

\* The pairs <<value, output>> of the walk of q so far.
Pairs(q) == {<<Carries[q][i], req[q].out[i]>> : i \in 1..Len(req[q].out)}

\* Whatever leaves under another name can be restored: the vault gives its
\* surrogate the meaning of the value it stands for, also when it comes from
\* the cache, from another process's race, or from an operator's rename since.
SentHasItsMeaning ==
    \A q \in Requests : \A x \in Pairs(q) :
        x[2] # x[1] => x[2] \in Surrs /\ meaning[x[2]] = x[1]

\* A value goes out in clear only if the policy allowed it at some time since
\* the process started: neither a detector that fails, a vault that fails, a
\* deadline that passes nor a candidate that is taken ever reveals it.
NoClearWithoutPermission ==
    \A q \in Requests : req[q].at # "dead" =>
        \A x \in Pairs(q) :
            x[2] = x[1] => NothingToHide(x[1]) \/ x[1] \in granted[Served[q]]

\* A reveal dies with what it was granted for: a value goes out in clear only
\* if the policy allowed it at some time since its request began.
RevealedDuringRequest ==
    \A q \in Requests : req[q].at # "dead" =>
        \A x \in Pairs(q) :
            x[2] = x[1] => NothingToHide(x[1]) \/ x[1] \in granted[q]

\* The view an answer is restored with resolves every surrogate its request
\* sent ("vue coffre à jour").
OwnRestorable ==
    \A q \in sent : req[q].at = "restore" =>
        \A x \in Pairs(q) : x[2] # x[1] => req[q].view[x[2]] = x[1]

\* "rien de nouveau ne part sans qu'un humain l'ait vu": in blocking mode a value
\* leaves under its surrogate only once it was decided on or waited for in vain.
NothingNewUnseen ==
    \A q \in sent : req[q].at # "dead" =>
        \A x \in Pairs(q) : x[2] # x[1] => x[1] \in judged

\* Every request that arrives ends: answered, refused, or dead with its process.
EveryRequestEnds ==
    \A q \in Requests : req[q].at # "new" ~> req[q].at \in Ended
=============================================================================
