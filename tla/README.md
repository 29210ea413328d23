# Verification of doublure

doublure (the package `anonproxy`) stands between a coding agent and the API of
its model. What leaves goes out with every sensitive value replaced by a
plausible surrogate; what comes back is restored before the agent sees it. The
correspondence is kept in a vault, the choice of what may leave in clear in a
policy, and an operator may answer questions while requests wait.

This directory holds TLA+ models of that machinery, TLC configurations that
check them, and proofs of the most important facts for every size of the system.

## 1. Inventory

| Part | Source | State | Operations | Hard because |
|---|---|---|---|---|
| vault | `src/src/anonproxy/vault.py` | the table `mapping`, one lock and one `version` per process | `bind`, `rebind`, `get_surrogate`, `get_real`, `view` | several processes on one file; a renaming is a read and then a transaction; sealed values are tied to their row |
| proxy | `proxy/app.py` | memoized restoring view, HTTP client | `_pseudonymize`, `messages`, `_stream`, `count_tokens`, `incoming` | requests walk in threads, views are read on the event loop, the vault changes under both |
| pipeline | `pipeline.py` | cache of texts | `to_surrogate` | the cache outlives the decision it was filled under |
| engine | `surrogates/engine.py` | a memory of shared attributes per process | `substitute_value`, `_canonical_shared`, `transform` | candidates that collide, attributes shared by several values, values made of values, a wait in the middle, failures at each call |
| policy | `policy.py`, `go/internal/policy/policy.go` | three layer files, the answers to the message, a cache under (mtime, size) | `decide`, `definir`, `retirer`, `repondre_pour_le_message`, `debut_message`, `en_attente`, `attendre_decision` | written by other processes without a lock, read in several system calls |
| streamed answer | `anthropic_walker.py` | one buffer per block | `SSERewriter.feed`, `close` | the upstream cuts surrogates anywhere and may misbehave |
| walks of the bodies | `anthropic_walker.py` | flags handed down | `walk_request`, `walk_response`, `_resolve_tool_args` | which field is text, protocol or signed, at any depth, and the same in three walks |
| generators, dates | `surrogates/engine.py`, `dates.py`, `canonical.py` | none | `_candidate`, `_shift` | a composed value keeps some parts and must not keep others |
| spans, overlap | `pii/spans.py`, `pii/client.py`, `surrogates/overlap.py` | none | `merge_fragments`, `spans_inventaire`, `resolve_overlaps` | overlapping, fragmented, misjudged detections |
| a text on its way out | `detect.py`, `pipeline.py`, `services/anonshield` | spans of one text | `detect`, `transform` | long texts sent in pieces, offsets that move |
| forward proxy | `forward/proxy.py`, `policy.py`, `jsonrpc.py`, `ca.py` | one exchange per connection | read, verdict, relay, rewrite MCP bodies | framing, 100-continue, interim answers, timeouts |
| control service | `go/cmd/anonproxy-control` | hub of clients, fingerprint of the directory | decide, settings, events, watch | lossy and unordered push |
| extension | `extension/extension.js` | last frame received | show, answer | takes a frame for the state |
| command line | `scripts/anonproxy_policy.py` | none | definir, retirer, arbitrer, substituer | another process than the proxy |
| hook guard | `hooks/pretooluse_guard.py`, `go/internal/guard` | none | verdict on a shell command | two implementations that must agree |
| detectors and services | `detect.py`, `pii/*`, `services/*` | none | detect | may fail or be slow |

How they interact: a request enters the proxy (or the forward process), its
leaves pass one after the other through the pipeline, which asks the detectors
for spans and the engine for a surrogate of each; the engine asks the policy
first, then the vault, and asks the operator through two files of the policy
directory. The answer is restored with a view of the vault. The command line and
the control service are other processes that write the same policy directory
and, for a renaming, the same vault. No lock is shared between processes: what
is atomic is a SQL transaction or a file operation.

What makes each part correct:

- vault: a surrogate keeps its meaning for ever, two values never share one, a
  value always has one once it has had one, each sealed value opens;
- exchange: what leaves is restorable by the vault, nothing leaves in clear
  without a permission, the answer is restored with a view that has what was
  sent, every request ends;
- policy: a secret is never revealed, a reveal has a source in force, what
  cannot be read opens nothing;
- stream: cuts do not show, and all is shown before the stop;
- forward exchange: an answer is one of its own request, whole, and the last
  word on it; no connection ends in silence and every exchange ends; two parties
  that keep their word are served;
- engine: values that share an attribute share its substitute and no others do
  (unless the text of the attribute is itself a value that has one), nothing real
  is left in a substitute, every piece of it restores, a secret leaves as a
  reference only unless a rule reveals the URL it is in, a date stays on its side
  of the present;
- text: what is replaced never overlaps, a lower class takes nothing from a
  higher one, the rewritten text is whole, what was certain to be seen does not
  leave, whole or by half;
- walks: what was restored in an answer is substituted when it comes back, and
  an exemption is open only where the protocol has it.

`PROJECT.json` lists every component with its status, and the hazards of the
code at the lines where they bite.

## 2. Modules

| Module | Models |
|---|---|
| `Mapping` | what the vault promises for one scope: the abstract specification |
| `VaultTable` | the rows, the uniqueness constraints, the reads and the UPDATE of `rebind` |
| `Vault` | processes that run `bind` and `rebind`, statement by statement, fail and restart |
| `Proxy` | an exchange end to end, over `Mapping`, in several processes |
| `Policy` | `decide` against writers of the layers, file operation by file operation |
| `Stream` | `_TextBuffer` and `SSERewriter` |
| `Forward` | one client connection of the forward proxy, its tunnel or its exchanges |
| `Dates` | how far a date moves, and in what range |
| `Texts` | the kinds of values, their canonical forms, what a substitute must share with them |
| `Candidates` | the generators: what a value asks of others and its candidate at an attempt |
| `Engine` | `substitute_value` and the shared attributes, in threads of several processes |
| `Overlap` | `resolve_overlaps`, span by span |
| `Spans` | what is done to the spans of a text before they are arbitrated |
| `Outgoing` | one text from the detectors to the rewritten text |
| `Walk` | one path down a body, in the walks of the request and of the answer it repeats |
| `MCVault`, `MCProxy`, `MCPolicy`, `MCStream`, `MCForward`, `MCEngine`, `MCOutgoing`, `MCWalk` | instances for TLC |
| `VaultProofs`, `ProxyProofs`, `PolicyProofs`, `ForwardProofs`, `StreamProofs`, `EngineProofs`, `OutgoingProofs`, `WalkProofs` | theorems |

`Candidates` extends `Texts` and `Dates`, `Engine` extends `Candidates`;
`Spans` extends `Overlap` and `Outgoing` extends `Spans`. `Proxy` extends `Mapping`: the exchange uses the vault by its promise, and
`Vault` is shown to implement that promise, so the state of the exchange need
not hold the table. Operators marked `(mutant)` are plausible slips in the code,
one for each property, that each property is shown to catch; no action uses them.

### Vault

`rows` is the table of one scope. `hist` is the surrogate written in a
historical type `_ancien:<surrogate>:<type>`, so a row is current when `hist` is
`NONE` and its type is not an internal one. `op[p]` is the call that holds the
lock of process `p` and the statement it comes to next; `version[p]` is
`Vault.version`, which only counts the writes of that process. `Bind` is the
INSERT; when a constraint refuses it, `BindTyped` and `BindAny` are the two reads
that look for what is there. `RebindFree`, `RebindTaken` and `RebindAlready` are
the three outcomes of the owner check, `RebindRead` reads the rows to demote and
`RebindWrite` is the transaction. `WriteFails` is `sqlite3.Error`. Encryption is
modelled by what it does: a value sealed under one `Aad` opens under that one
only. Index keys are HMACs, equal exactly when their inputs are.

### Exchange

`req[q]` is where the handler of `q` is and what it holds; a retry is another
request. The steps follow the calls of `to_surrogate` and `substitute_value`:
cache, detection, decision, `get_surrogate`, candidates, `bind`, question, wait,
store. `rule` and `answer` are what the files decide for a value, `asked` the
file of questions, `vu` the memory of what was asked. `granted` and `judged` are
history variables: what the files have revealed since each process and each
request began, and what was decided on or waited for in vain. The operator
(`Rule`, `AnswerMessage`, `Substitute`) and crashes (`Restart`) may come between
any two steps. The forward process is an element of `Procs` outside `Proxies`:
it never calls `debut_message` and walks one request at a time, on its loop.

Abstractions: a leaf carries one value (several values in one text are several
leaves that share a cache entry, which only makes hits rarer); `decide` is one
step here, since `Policy` studies its steps; a restoring view is the set of
meanings, since `View` and the promise agree; `Candidates` is a finite list per
value, possibly containing the value itself or a surrogate taken by another.
`Unknown` covers a surrogate the operator chose, which the command line files
under the raw type while the engine looks under the canonical one.

### Policy

`file[l]` is what layer `l` holds, or `TORN` when it is cut to nothing or ends
with the tail of another text. `stamp[l]` stands for (mtime, size); every write
takes a new one, an assumption the code makes too and hedges for its own writes
only. `call[t]` is a `decide` under way: D4, the answers read anew for each
granularity, a stat and maybe a read per layer, then the rules. A writer loads a
layer, truncates it and writes it, and may die in between; it is the command
line or the control service, whose `Set` does the same. `accepted`, `revealed`
and `open` are history variables.

### Stream

`text[i]` and `json[i]` are the accumulators of block `i`, `shown[i]` what the
client has received, per kind, each restored surrogate as one token. `given` is
what the upstream has sent since the block was last settled and `due` what the
settled part should have shown. `Resolve` is what the regular expression does:
leftmost, then longest. The upstream may skip a start, repeat one, stop a block
that is not open, mix text and arguments on an index, end or break at any point.

### Forward exchange

`at` is where the task of one client connection is: the verdict on the CONNECT,
then `_relayer` or the loop of `_inspecter` and the steps of `_echange`. `inbox`
and `wire` are the units the client and the upstream have written and the proxy
has not read: a head, a piece of a body, its end, or what no framing announces.
Each unit has a `shape`, what a reader takes it for if it reads it as a head, so
a piece of a body can pass for an answer exactly when the framing is misread.
`ex` holds the locals of `_echange`, `heard` is what the client was told. A
client or an upstream either keeps its word (`honest`: it sends what its head
announces and in time) or may at any moment send something else, fall silent or
leave; either may also stop reading (`deaf`): `drain()` has no delay, so a write to
a client is followed by a place of its own (`Waits`), which the task leaves when the
client takes what it was told (`Taken`), or with an error when it is gone
(`WriteFails`). What fits the buffers is taken at once. In a tunnel either party
may end its side or reset the connection (`Reset`); a direction whose source is
reset is shut without the units received and not yet read (`Shut`). A delay
passes only if the party it waits for is silent or is itself waiting for the
proxy. One request at a time: an agent does not send the next before the last
word on the one before. What a rewriting does to a body is left out; it may
fail. A host name is its labels, widest first, and an address a single label.
The `200` of an inspected CONNECT and the handshake that follows are one step;
if the client leaves during them the upstream connection opened for the check
is left to the garbage collector, which no property speaks of.

### Engine

`stack[th]` is the call under way in thread `th`, the deepest first: a URL asks
for the substitutes of its host and login, a host for that of its zone, and a
frame keeps in `names` what it was told. `table` is the vault with the types of
its rows, by the promise of `Mapping`; `shared[p]` the memory of shared
attributes of a process. `LeftAsItIs` holds the early returns of
`substitute_value` in their order. The candidate loop is one action per attempt,
`same` counts the attempts that gave the value itself, and a candidate that is
taken, or that another thread took since, goes to the next. A shared attribute
is looked up in memory, in the vault, then allocated. Rules are given and
withdrawn (`revealed`), days pass (`today`) and processes restart between any
two steps. A value is a record of the pieces the code cuts it into, and the word
drawn from a lexicon is a constant operator `Draw`: nothing is assumed of it but
its determinism, which is what the keyed hash gives. `ever` and `open` are
history: what was revealed at some time, and during a call.

The operator is asked about what `bind` answers, a new surrogate or the one it found
(`Bound`). Not every word is redrawn until it is none of the value's: `_combo` does
it, while the numbers and words of an address, the first names of a person, the last
name of an address of mail and the first label of a registry are drawn plainly.

Three exceptions are part of what the properties say, because the code has them. A
plain draw may give a value one of its own words back: `NothingRealLeft` excepts it
(`ByChance`), and `MCEngineChance.cfg` shows that it happens.
`bind` answers with any row of the value, whatever its type (`vault.py:367-368`),
so an attribute whose text is also a value of its own may be given the substitute
of that value by one call and its own by another: `CoMembership` excepts it. And
a rule reveals a URL by its canonical form, which has no login, so the URL leaves
with its login: `SecretsStaySecret` excepts it.

### A text on its way out

`world` is a text, the spans that the infrastructure recognizers would report in
it and the fragments of the personal-data ones. `Detect` asks the service piece
by piece: it sees what lies whole in the piece, and of an entity that is cut it
reports any part or nothing. `DetectPersonal` puts the fragments together and
judges them, `Check` refuses the spans that cannot be used, `Resolve` adds the
inventory and takes the spans one after the other (`Take`, `Cut`, `Keep` of
`Overlap`), `Write` rewrites from the end. `out` is the text as items, each with
what put it there, so that a letter written twice or lost shows. A detector or a
substitution that fails refuses the text.

### Walks of the bodies

A behaviour goes down one path of a body. `ctx[w]` is the set of flags that walk
`w` has handed down, `verdict[w]` what it does of the string it came to and
`keys[w]` whether it renamed the last key. From the content of an assistant
message on, the path is walked by the request, by `walk_response` and by the
rewriter of the stream, which is how that content was restored a turn earlier.
`position` is history: what the protocol has at this place, from the root, and
not from the names of the keys. A value is an object, a list or a string that
does or does not have the shape its key asks for. The rewriter lets a delta of an
unknown type, and arguments that are not JSON, through as they came (`Passthrough`):
the client then sees the surrogates, which the next request sends back as they are.
`EchoAgrees` names these cases (`LeftAsTheyCame`), with the block that claims a
signature below an answer. What `Fate` says was compared
with what the Python walker does on random paths of bodies built from them.

## 3. Runs

| Run | Instance | States | Shows |
|---|---|---|---|
| `vault` | 2 processes, 2 values, 3 surrogates, 2 entity types, 1 internal type | 0.6 M | all vault properties and the refinement of `Mapping` |
| `proxy_shared` | proxy and forward process, 2 requests that share a value, one substitute the operator may choose, 2 operator actions or crashes | 2.3 M | what leaves has its meaning; no clear value without permission |
| `proxy_alone` | one process, 2 requests, 1 action or crash, fairness | 0.3 M | answers are restorable; every request ends |
| `policy` | 2 layers, 2 granularities, a host and a password, 2 calls, 2 writers, 2 changes | 2.8 M | secrets stay shut; a reveal has a source |
| `stream` | 3 surrogates over 3 letters, chunks of up to 3 letters, 6 in all | 0.7 M | cuts do not show; all is shown by the stop |
| `forward` | 1 connection, 2 requests, 7 heads a client and 9 an upstream may send, 1 interim answer, a destination per verdict, fairness | 0.62 M | answers are own, whole, last; ends are named; exchanges end unless a party stops reading; honest parties are served; tunnels deliver |
| `engine` | a thread of each of two processes, two calls over 32 values, a change of rule, day or process, 4 attempts | 0.8 M | attributes are shared as they were; nothing real is left; pieces restore; secrets leave as references; dates keep their side |
| `outgoing` | 5 texts of 11 to 25 characters, pieces of at most 12, up to 4 + 4 spans | 97 k | kept pieces are disjoint; classes are respected; the text is whole; nothing certain to be seen leaves; parts of one entity leave together |
| `walk` | 26 keys and 5 types, one or two of each class the code makes; no bound on the depth | 5.6 k | the three walks agree, but where an answer is left as it came; exemptions are in place |

The bounds keep the interesting cases. Three surrogates for two values let a
value be renamed and the former surrogate be wanted by the other. In the
exchange `r1` and `r2` compete for the candidate `s1`, the generator proposes a
value for itself, `r3` has only itself as a candidate, the cache is smaller than
what the requests carry, and two operator actions are enough to grant and
revoke. In the policy a class rule covers the password and both values have two
granularities, so an answer, a near and a far rule may disagree. In the stream
one surrogate begins another and a third begins with the letter that another
ends on. In the forward
exchange the second request is there for what the first may leave behind, the
upstream can send one interim answer more than `MaxInterim` (8 in the code), and
the only look of a piece is the most dangerous one, a whole answer. In the engine every
lexicon begins alike, so that names collide, one word drawn is the very name it
replaces, and the first network proposed is the real one; two calls are enough
for one to be told what the other allocated or took. In the texts an entity lies
across each cut, one piece has a line end to move to and one has not, and the
spans nest, cross and touch with every rank of class, priority and score. A walk
needs no bound: its flags and positions are finite, so every depth is covered.
Named bounds: `MaxTries` (64 in the code), `MaxCalls`, `MaxChanges`, `Shifts`,
`Threshold` and `Reach` (the detector's limit and its overlap of 256),
`Exchanges`, `MaxWire`, `TunnelUnits`, `MaxTurns`, `MaxWrites`, `MaxChunk`, `MaxLetters`, and the
length of `Candidates` for `MAX_ATTEMPTS` (64 in the code).

Deadlock is not checked where the system stops by design: `forward`, `engine`,
`outgoing` and `walk` end with the connection, the calls, the text or the path.

Symmetry is used for processes, values and surrogates in the vault, and for
threads and writers in the policy; never in a run with a liveness property.

Fairness (`FairProxySpec`) is weak and per request, on the steps of its handler
only: threads and the event loop are scheduled, `attendre_decision` has a
deadline and the HTTP client a timeout. In `Forward` it is on the task of the
connection and its timers, which the event loop runs, and on the sends of a
party that keeps its word, which is what keeping it means. Nothing obliges a detector or a vault to
fail, an operator to act or a process to crash.

### Where the code disagrees with what it says

Three runs show one each:

| Run | What the code says | What it does |
|---|---|---|
| `proxy_revoked` | an answer "meurt avec lui", a removed rule closes "au prochain appel" | the cache of texts goes on sending the value in clear |
| `inventory_covered` | what the inventory holds is ours whatever a model notices | a span of a public class over a token of ours leaves it in clear |
| `walk_forged` | the exemption of the protocol "n'est plus forgeable" from the result of a tool | a key named `tools` in that result opens it again for what lies below |

The other counterexamples met while modelling have a configuration of their own;
each is found by `tlc -config <configuration> <module>` in this directory:

| Configuration | Module | Property | What happens |
|---|---|---|---|
| `MCProxyRestore.cfg` | `MCProxy` | `OwnRestorable` | the version the restoring view is memoized under does not see another process's renaming, though the view is said to be "à jour" |
| `MCProxyUnseen.cfg` | `MCProxy` | `NothingNewUnseen` | "rien de nouveau ne part sans qu'un humain l'ait vu passer", and a concurrent request sends the surrogate at once |
| `MCPolicyTorn.cfg` | `MCPolicy` | `UnreadableOpensNothing` | a layer being rewritten reads as empty and loses the `anonymiser` that kept a value hidden |
| `MCPolicyLost.cfg` | `MCPolicy` | `LostAnswerOpensNothing` | the answer `anonymiser` that is thrown away uncovers the `reveler` under it |
| `MCVaultChoice.cfg` | `MCVault` | `ChoiceTakesEffect` | renaming back to a former surrogate answers success and changes nothing |
| `MCEngineTwins.cfg` | `MCEngine` | `EveryWritingIsNamed` | two writings of one path draw the same substitute at every attempt: the second is refused, each time |
| `MCEngineNamesake.cfg` | `MCEngine` | `SharedAlways` | "même attribut réel → toujours le même substitut" (`engine.py:649`), but an organisation that is also a value of its own gets the substitute of that value for one repository and another one for the next |
| `MCEngineLogin.cfg` | `MCEngine` | `LoginsStay` | a rule that reveals a URL, named without its login, lets the login out |
| `MCEngineClosed.cfg` | `MCEngine` | `ClosedAgain` | a URL named while its host was revealed keeps the host in clear after the rule is withdrawn |
| `MCEngineChance.cfg` | `MCEngine` | `NoWordByChance` | the first names of a person and the words of an address are drawn without a look at the value (`engine.py:403-433`, `engine.py:1244-1248`): the lexicon may give a real word back, in a substitute that is accepted because another word differs |
| `MCOutgoingHalf.cfg` | `MCOutgoing` | `NoHalfAnywhere` | `merge_fragments` joins fragments that follow one another in its order: one of another type between two parts of a name keeps them apart, and the uncertain part stays in clear beside the substitute of the other, which `client.py:50-54` calls a leak |
| `MCOutgoingCut.cfg` | `MCOutgoing` | `BothPartsHidden` | an address cut in two by a line number loses the part that is too short to be judged |

`OwnRestorable` holds for a process alone on its vault (`proxy_alone`) and fails
as soon as another one renames: the memo is sound under an assumption the
deployment does not meet.

## 4. Proofs

All theorems hold for any number of processes, requests, values, layers,
threads and writers, under the named assumptions of the modules, which say that
sentinels are not values, that the constants have their types, and, in `Proxy`,
that the operator never picks a value as its own substitute
(`ChoiceAssumption`; neither the command line nor `rebind` refuses it).

- `VaultProofs`. The inductive invariant adds to the types and to the checked
  invariants that the table obeys the three constraints and that what a call has
  read is still accounted for: `rebind` read at most one row, and that row is in
  the table as it was or demoted since by another process. Without it the UPDATE
  could reseal a row for a name it no longer has. From it: `TypeCorrect`, `EverySealOpens`, `AnswersAreRight`, and the
  action properties `MeaningPermanent` and `NamedForEver`.
  `VaultImplementsMapping`: the table read as maps of
  surrogates to values and back implements `Mapping`. A successful INSERT is
  `Name` or `Reserve`, the transaction of `rebind` is `Rename` or `Name`, every
  other step stutters. The maps use CHOOSE, so the lemmas first show that the
  constraints make the choice unique.
- `ProxyProofs`. `RestorableByTheVault` needs to know that the cache, the
  surrogate a handler holds and the current names all have their meaning, and
  that meanings never change once given. `ClearOnlyIfPermitted` needs that a
  value in the cache or in a handler's hands in clear was granted to the
  process, and that what the files reveal now is always granted. The cache
  forces both to be about the life of the process, not of the request: the
  stronger statement is the one `proxy_revoked` refutes.
  `AloneRestores` has a hypothesis of its own, `Alone`: one process, no
  substitute chosen by the operator, and a sentinel that is no version. Then
  every naming moves the version of the process, so that what is memoized under
  the version of today is the vault of today (`MemoTrue`), and a handler that
  has its view has one that resolves all it carries (`ViewTrue`). Without the
  hypothesis `MCProxyRestore.cfg` refutes the property.
- `PolicyProofs`. A cached layer is right as long as its stamp is that of the
  file (`CacheTrue`), even though the file is read after the stat: if it changed
  in between, the stamp kept is one no file will show again. With it, everything
  a call holds was revealed by an accepted rule during the call
  (`RevealsHaveASource`). `SecretsStayShut` follows from D4 being looked at
  before anything else. The order of the rules needs the greatest position in a
  set, proved from the well-foundedness of the naturals.
- `ForwardProofs`. `NoStolenAnswer`: whatever an upstream sends, for any number
  of exchanges, what the client hears as an answer is a head its own upstream
  sent as a head. The invariant says that, until the final head is read, a unit
  that was not sent as a head can only stand behind a unit the loop of the
  interim answers does not read past (`Guarded`), and that every unit under way
  belongs to the exchange; the first needs the refusal of an interim answer with
  a body, the second a new upstream for every exchange. `LastWordIsLast` and
  `NoEndInSilence`: an exchange of a client that stays has one last word,
  whatever ends it. The invariant (`InOrder`, `Named`) says that the words are
  those of the exchanges up to this one, that an exchange under way has not had
  its last, and that a client that is there has been told of the exchange that
  has just ended; every step then either says nothing and goes on, says a word
  that is not the last and goes on, or says the last and ends (`StepKinds`).
  Where the task waits for the client to take the last word of an exchange, that
  word has been said and nothing else will be (`Finishes`, `Resumes`).
  `TunnelsDeliver`: a direction of a tunnel that is shut has delivered all that
  was sent in it, or one of the two parties has reset its connection (`Piped`).
  `BodiesAreWhole`: a body is passed on with the units its
  sender announced or not at all, both ways, for bodies of any size. What is read
  is right only if what is under way is: the invariant says, of the request, that
  the client has written a prefix of its body behind its head and nothing of the
  next request (`RequestWhole`, `Coming`), which needs that a request under way
  has not been answered (`InOrder`); and of the answer, that behind a head in
  pieces the end stands where the count announced puts it (`AnswerWhole`,
  `Follows`), which needs that what the proxy reads as the head was sent as one.
- `StreamProofs`. `CutsAreInvisible`: for any surrogates and letters, what has been
  shown of a block and what is held back read as the whole text read at once.
  The lemma behind it is that a reading is decided by the letters it has: where
  the longest surrogate that starts at a place is already there, nothing that
  follows changes what is read (`ReadOff`), and what is shown ends at a place where
  the reading of the whole text stops too. From it `AllIsShownByTheStop`: when
  `message_stop` goes out nothing given is left in a buffer, of the text or of
  the arguments.
- `EngineProofs`. The values, the words drawn and the attempts are arbitrary. The
  invariant is about the stack of a call: each frame asks for what the one under
  it needs next (`Under`), and what a frame was told is what the vault holds for
  what it asked, or the value itself where that is public (`Told`, `AnswerIs`).
  It is what makes a row right when it is written (`RowOK`): its substitute
  carries the substitute of its attribute (`Settled`) and each piece of it has a
  row (`Restores`). These facts survive every step of other threads and
  processes because rows are only added (`Grows`). From it `TypeCorrect`,
  `MembersStayTogether` and `PiecesRestore`; and `SidesAreKept`, with the
  arithmetic of the shift of a date in its range. `SecretsAreKept` has an invariant
  of its own (`Kept`): the rows hold no password on either side and a substitute
  is of the kind of what it stands for (`RowClean`), because a name or an address
  told to another value is composed into its candidate; a frame that has drawn the
  value itself, and may send it as it is, holds no password (`FrameClean`). It has
  two hypotheses. `PlainFor`: what the generators write by themselves (words
  drawn, networks, internal suffixes, extensions) is no password. `Detected`: a
  password is detected as a secret, with a label that is not one, or is in the
  login of a URL or of a repository; what the allow-list and the public types let
  through holds none; and an address is detected as an address, or is the host of
  a URL. They hold of the values and of the lexicon of the instance.
  `WordsAreWithheld` says, of any set of words, that none leaves in an answer
  unless a rule has revealed a text that has it, and that no date of a value is in
  what replaces it; `NothingRealLeaves` is the case of the words that tell
  something. The words to withhold shrink when a rule is added (`Withheld`), so
  the invariant (`Held`) is about those that are left: no substitute in the vault
  has one (`RowApart`), nor has what a frame was told, even a piece that came back
  in clear because a rule let it through (`RevealedPart`); a frame that drew its
  value at every attempt may send it as it is because a candidate equal to the
  value has only words that were drawn or told (`FrameApart`, `DrawnApart`). Dates
  need that no shift is a whole turn of the range it moves in, at any granularity
  and on either side of the present (`TurnsAway`, `SidedRankAway`). The hypotheses:
  `PlainFor`, of these words; `DaysMove`, that the days a scope moves its dates by
  are no whole turn of the range of days (200 to 1200 and the attempt, of
  3 652 059, in the code); and `Usual`, that none of these words is in what the code
  leaves of a value on purpose (a common word, the name of a parameter that does
  not identify, a public tag or segment, a part of a path outside the masked ones,
  what the allow-list holds). In the instance they hold of ten of the thirteen words
  of `Sensitive`. The other three are in what the generators draw, where the theorem
  says nothing, since a draw may be redone too few times: `MCEngine.cfg` checks them
  for its values.
  Two theorems say the safety half of the end of a call, for any values and
  attempts; no run states its liveness. `CallsAreShallow`: questions nest at
  most three deep (a URL, its host, the zone of the host). `CallsGoForward`: each
  step of a call ends it or brings its stack strictly ahead (phase, attempt, what
  a frame has been told, the outermost frame first), and nothing else moves it
  but to end it. Attempts and what a frame asks for are bounded (`TypeCorrect`), so
  a call takes boundedly many steps of its own. `MCEngineTurns.cfg`, beside the
  runs, checks both on the instance of `MCEngine.cfg`.
- `OutgoingProofs`. For any text and any spans and fragments reported. Of the
  arbitration: the pieces kept are disjoint (`PiecesNeverOverlap`), every letter
  claimed is kept or still claimed (`EveryClaimIsKept`), and a letter claimed by
  a secret is kept as one, while only what nothing else claims is kept as public
  (`FirstClassWins`). The invariant says that the pieces in hand overlap neither
  each other nor what they have been cut against (`PiecesApart`), that cutting
  them lost no letter of the span (`HandCovered`), and that classes are taken in
  their order (`ClassesInOrder`), so that what takes a letter first is of no later
  class (`TakenAreCovered`). Of the whole text: `WrittenPiecesNeverOverlap` and
  `WrittenClassesRespected` carry these to the rewriting, and `TheTextLeavesWhole`
  follows the offsets from the end of the text: what is not yet written stands
  before all that has been, so that replacing it by something of another length
  moves nothing that is still to be read. `NothingCertainLeaves`: an entity no
  longer than the overlap lies whole in one of the pieces a long text is sent in,
  wherever the cuts move to find the end of a line, so it is reported
  (`Reported`); what is done to the spans before the arbitration keeps its
  letters claimed (`Spans`), and the arbitration keeps them. `EntitiesLeaveWhole`:
  two fragments of a personal entity are replaced together or left together,
  whatever their scores. The loop of `merge_fragments` is followed fragment by
  fragment: the entity in hand holds the first of the two until it holds both
  (`Together`), and entities of one type share no character (`Parted`), so that
  what is reported with a part of either is all there is of both. It supposes
  that no fragment of another type comes between them, in the order of the loop,
  and that no line number touches them (`PartsOfOne`): without the first
  `MCOutgoingHalf.cfg` refutes it, the second is what `MCOutgoingCut.cfg` is about.
- `WalkProofs`. `EchoesAgree` and `ExemptionsStay` hold at any depth and for any
  keys and types, the first with the exceptions of `LeftAsTheyCame`. Neither is
  inductive: they speak of what is done of one string, which depends on flags set levels above. The invariant adds which
  flags the request may carry at each place of the protocol (`RequestPlaced`),
  and that the walks which still go on carry the same flags but for the two that
  speak of signatures, `signe_ici` for one level in a request and
  `signe_partout` all the way down an answer (`WalksAlike`). With these the three
  walks are compared one rule of `Fate` at a time.

The assumptions on the constants are the ones the code makes. `EngineAssumption`:
what the engine is called for has a type that is not one of its internal ones
(`engine.py:475-479` refuses them) and is a text with the parts its kind has.
`WorldAssumption` and its companions in `Outgoing`: the limit of a piece is larger
than the overlap, and what is reported lies in the text.

Facts about recursive functions are proved without an induction rule: the set of
the numbers that would contradict them has a least or a greatest element, which
the well-foundedness of the naturals gives (`Least`, `Greatest`).

Only model-checked: the liveness properties `EveryRequestEnds`, `EveryExchangeEnds`
and `HonestAreServed`, out of the prover's reach; and `NothingRealLeft` where the
lexicon holds a word of a real value, as above. That the redraws of `_combo` are
then enough is a fact of the lexicon and of the number of redraws, not of any `Draw`;
where the code does not redraw, `ByChance` excepts the word.

## 5. Limits

- A stamp (mtime, size) is assumed new at every write. A file system of low
  resolution and a text of the same length could repeat one; the code knows
  (`definir` drops its own cache entry) and the model does not show it.
- Answers and rules that hold an unknown decision are ignored by the code and
  absent from the models.
- Zones, subnets and registries are `Reserve` in `Mapping` and internal types in
  `Vault`; `Engine` allocates them over the promise of the vault, whose
  statements `Vault` details: no model has both at once.
- What a recognizer sees is an assumption of `Outgoing` (what is whole in a piece,
  no longer than the overlap): statistical models are not specified.
- The shift of dates keeps the side of the present, not the order of two dates:
  two dates on each side of the end of a range may come out inverted.
- Three effects of the code that the models have and no property forbids: a
  fragment of high score beside one of low score makes both be dropped; a span
  of pure punctuation makes the request be refused; two keys of one object that
  get the same substitute refuse the body.
- A repository written with and without `.git` gets two substitutes, and an image
  with a port in its registry is not recognized as one.
- One scope at a time. Scopes share nothing but the file.
- `EveryExchangeEnds` excepts the exchanges that a party holds by not reading what
  is written to it (`Held`): `drain()` has no delay, so an upstream that does not
  read a large body (`forward/proxy.py:395`), or a client that stays and does not
  read an answer (387, 458, 461, 487), holds its exchange for ever, although the code
  says that what follows a request is bounded (`forward/proxy.py:294-295`). A tunnel
  has no delay by design, and no property says that it ends. A client head above
  64 KiB ends the connection
  without a word (`forward/proxy.py:213`), and so does a request sent after a
  204. The model has all three; the properties speak of requests that were read.
- Passthrough paths, health and counters carry nothing of a scope.

## 6. Not modelled

- The control service's push and the extension: display. What they write goes
  through the policy files, whose writers are in `Policy`.
- The hook guard: a stateless parser of shell commands, written in Python and in
  Go and compared by the repository on a fixture of decisions. Its difficulty is
  in regular expressions over text, which a model of this kind does not reach.
- The choice of the JSON-RPC fields in `forward/jsonrpc.py`, the certificates
  (`ca.py`) and the launcher: no state is shared once the process runs.
- The framing of server-sent events (`sse.py`) and of JSON: pure parsing; `Stream`
  starts from parsed events.
- The recognition of dates in their many writings, checksums of generated
  numbers, and the lexicons: `Dates` and `Candidates` start from what was read.
- Encryption, key derivation, migration and operations scripts.
