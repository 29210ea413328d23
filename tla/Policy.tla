------------------------------- MODULE Policy -------------------------------
(***************************************************************************)
(* The decision to anonymise or to reveal: decide, _charge, definir,       *)
(* retirer and the answers to the current message (policy.py), with the    *)
(* writers that live in other processes: the command line, which runs the  *)
(* same class, and the control service (go/internal/policy/policy.go).  A  *)
(* step is one system call on a file of the policy directory, since no lock*)
(* is shared between processes.                                            *)
(***************************************************************************)
EXTENDS Naturals, Sequences

CONSTANTS Threads,          \* calls of decide that may overlap in the server
          Writers,          \* processes that set and remove rules
          Portees,          \* the layers, farthest first
          Granularites,     \* the granularities, widest first
          Values,           \* the values decided on
          Cle,              \* Cle[v][g]: the key of v at granularity g
          Classe,           \* Classe[v]: the class of v
          ClassesNonRevelables,
          Forbidden,        \* the keys of those classes
          InitialLayers,    \* what the layers hold at first
          MaxWrites,        \* bound: rules set or removed, answers given
          REVELER, ANONYMISER, NONE,
          TORN  \* a file cut to nothing, or left with the tail of another text

Keys == UNION {{Cle[v][g] : g \in DOMAIN Granularites} : v \in Values}
Layers == 1..Len(Portees)
Decisions == {REVELER, ANONYMISER}
Contents == [Keys -> Decisions \cup {NONE}]
Empty == [k \in Keys |-> NONE]

ASSUME PolicyAssumption ==
    /\ Portees \in Seq(STRING)
    /\ Granularites \in Seq(STRING) /\ Granularites # <<>>
    /\ Cle \in [Values -> [DOMAIN Granularites -> Keys]]
    /\ InitialLayers \in [Layers -> Contents]
    /\ MaxWrites \in Nat
    /\ NONE \notin Decisions \cup Nat /\ TORN \notin Contents
    /\ REVELER # ANONYMISER

VARIABLES file,      \* file[l]: what the file of layer l holds
          stamp,     \* stamp[l]: (mtime, size), a new one at every change
          answers,   \* reponses-message.jsonl
          cache,     \* Policy._cache of the server
          call,      \* call[t]: the decide under way in thread t
          writer,    \* writer[w]: the rule it is writing
          writes,    \* changes so far
          accepted,  \* history: what the last complete write put in each layer
          revealed,  \* history: keys that revealed at some time of call t
          open       \* history: values open at some time of call t

vars == <<file, stamp, answers, cache, call, writer, writes, accepted, revealed, open>>
history == <<accepted, revealed, open>>

----------------------------------------------------------------------------
(* What a rule says of a value. *)

\* Where the rules that cover v are: granularity, then layer.
Covering(L, v) ==
    {x \in (DOMAIN Granularites) \X Layers : L[x[2]][Cle[v][x[1]]] # NONE}

\* "The narrowest and nearest wins", in this order.
Beats(x, y) == x[1] > y[1] \/ (x[1] = y[1] /\ x[2] >= y[2])

Winner(L, v) == CHOOSE x \in Covering(L, v) : \A y \in Covering(L, v) : Beats(x, y)

\* The granularities at which the current message has an answer for v.
Answered(A, v) == {g \in DOMAIN Granularites : A[Cle[v][g]] # NONE}

Narrowest(G) == CHOOSE g \in G : \A h \in G : g >= h

\* (mutant) no decision when nothing covers the value.
RuledNoDefault(L, v) ==
    IF Covering(L, v) # {} THEN L[Winner(L, v)[2]][Cle[v][Winner(L, v)[1]]] ELSE NONE

\* What decide makes of the layers it loaded.
Ruled(L, v) ==
    IF Covering(L, v) # {} THEN L[Winner(L, v)[2]][Cle[v][Winner(L, v)[1]]] ELSE ANONYMISER

\* (mutant) D4 is left to those who write the rules.
ShutByClassNever(v) == FALSE

\* D4, looked at before anything else.
ShutByClass(v) == Classe[v] \in ClassesNonRevelables

\* A layer as read: what cannot be read says nothing.
Readable(l) == IF file[l] = TORN THEN Empty ELSE file[l]

Revealing(c) == {k \in Keys : c[k] = REVELER}

IdleCall == [at |-> "idle", value |-> NONE, gran |-> 0, layers |-> <<>>,
             stamp |-> 0, decision |-> NONE]

IdleWriter == [at |-> "idle", layer |-> 0, content |-> Empty]

\* History: the keys that reveal, and the values they open, when A answers the
\* message and the layers hold acc.
RevealedBy(A, acc) == Revealing(A) \cup UNION {Revealing(acc[l]) : l \in Layers}

OpenedBy(A, acc) ==
    {v \in Values :
        /\ ~ShutByClass(v)
        /\ REVELER = IF Answered(A, v) = {} THEN Ruled(acc, v)
                     ELSE A[Cle[v][Narrowest(Answered(A, v))]]}

\* ... from here on, for every call.
Watch(A, acc) ==
    /\ revealed' = [t \in Threads |-> revealed[t] \cup RevealedBy(A, acc)]
    /\ open' = [t \in Threads |-> open[t] \cup OpenedBy(A, acc)]

Init ==
    /\ file = InitialLayers
    /\ stamp = [l \in Layers |-> 0]
    /\ answers = Empty
    /\ cache = [l \in Layers |-> [stamp |-> NONE, content |-> Empty]]
    /\ call = [t \in Threads |-> IdleCall]
    /\ writer = [w \in Writers |-> IdleWriter]
    /\ writes = 0
    /\ accepted = InitialLayers
    /\ revealed = [t \in Threads |-> {}]
    /\ open = [t \in Threads |-> {}]

----------------------------------------------------------------------------
(* decide *)

\* D4 first.
Begin(t, v) ==
    /\ call[t].at = "idle"
    /\ call' = [call EXCEPT ![t] =
         IF ShutByClass(v)
         THEN [IdleCall EXCEPT !.at = "done", !.value = v, !.decision = ANONYMISER]
         ELSE [IdleCall EXCEPT !.at = "reponses", !.value = v, !.gran = Len(Granularites)]]
    /\ revealed' = [revealed EXCEPT ![t] = RevealedBy(answers, accepted)]
    /\ open' = [open EXCEPT ![t] = OpenedBy(answers, accepted)]
    /\ UNCHANGED <<file, stamp, answers, cache, writer, writes, accepted>>

\* The answers to the message are read anew for each granularity, the narrowest
\* first.
ReponseDuMessage(t) ==
    LET c == call[t]
        a == answers[Cle[c.value][c.gran]]
    IN
    /\ c.at = "reponses"
    /\ call' = IF a # NONE
               THEN [call EXCEPT ![t].at = "done", ![t].decision = a]
               ELSE [call EXCEPT ![t].at = IF c.gran = 1 THEN "charge" ELSE "reponses",
                                 ![t].gran = c.gran - 1]
    /\ UNCHANGED <<file, stamp, answers, cache, writer, writes, history>>

\* (mutant) what is in the cache is never looked at again.
FreshOnceLoaded(l) == cache[l].stamp # NONE

Fresh(l) == cache[l].stamp = stamp[l]

\* _charge: the stat of the next layer, and the cache if the file is the same.
Stat(t) ==
    LET c == call[t]
        l == Len(c.layers) + 1
    IN
    /\ c.at = "charge" /\ l \in Layers
    /\ call' = IF Fresh(l)
               THEN [call EXCEPT ![t].layers = Append(@, cache[l].content)]
               ELSE [call EXCEPT ![t].at = "relit", ![t].stamp = stamp[l]]
    /\ UNCHANGED <<file, stamp, answers, cache, writer, writes, history>>

\* _relit: the file is read, later, and kept under the stamp seen before.
Relit(t) ==
    LET c == call[t]
        l == Len(c.layers) + 1
    IN
    /\ c.at = "relit"
    /\ call' = [call EXCEPT ![t].at = "charge", ![t].layers = Append(@, Readable(l))]
    /\ cache' = [cache EXCEPT ![l] = [stamp |-> c.stamp, content |-> Readable(l)]]
    /\ UNCHANGED <<file, stamp, answers, writer, writes, history>>

Resolve(t) ==
    LET c == call[t] IN
    /\ c.at = "charge" /\ Len(c.layers) = Len(Portees)
    /\ call' = [call EXCEPT ![t].at = "done",
                            ![t].decision = Ruled(c.layers, c.value)]
    /\ UNCHANGED <<file, stamp, answers, cache, writer, writes, history>>

Return(t) ==
    /\ call[t].at = "done"
    /\ call' = [call EXCEPT ![t] = IdleCall]
    /\ revealed' = [revealed EXCEPT ![t] = {}]
    /\ open' = [open EXCEPT ![t] = {}]
    /\ UNCHANGED <<file, stamp, answers, cache, writer, writes, accepted>>

----------------------------------------------------------------------------
(* definir and retirer: the layer is loaded, changed, and written back.    *)

Changing == writes < MaxWrites /\ writes' = writes + 1

Load(w, l, k, d) ==
    /\ Changing
    /\ writer[w].at = "idle"
    /\ ~(d = REVELER /\ k \in Forbidden)
    /\ d = NONE => Readable(l)[k] # NONE
    /\ writer' = [writer EXCEPT ![w] =
         [at |-> "loaded", layer |-> l, content |-> [Readable(l) EXCEPT ![k] = d]]]
    /\ UNCHANGED <<file, stamp, answers, cache, call, history>>

\* open(..., "w") and os.WriteFile first cut the file to nothing.
Truncate(w) ==
    LET l == writer[w].layer IN
    /\ writer[w].at = "loaded"
    /\ writer' = [writer EXCEPT ![w].at = "truncated"]
    /\ file' = [file EXCEPT ![l] = TORN]
    /\ stamp' = [stamp EXCEPT ![l] = @ + 1]
    /\ UNCHANGED <<answers, cache, call, writes, history>>

\* The text is written; over what another writer put there meanwhile, if any,
\* whose tail may show.
Write(w) ==
    LET l == writer[w].layer
        c == writer[w].content
    IN
    /\ writer[w].at = "truncated"
    /\ writer' = [writer EXCEPT ![w] = IdleWriter]
    /\ \E x \in (IF file[l] = TORN THEN {c} ELSE {c, TORN}) : file' = [file EXCEPT ![l] = x]
    /\ stamp' = [stamp EXCEPT ![l] = @ + 1]
    /\ accepted' = [accepted EXCEPT ![l] = c]
    /\ Watch(answers, accepted')
    /\ UNCHANGED <<answers, cache, call, writes>>

\* The writer dies before it has written.
Dies(w) ==
    /\ writer[w].at \in {"loaded", "truncated"}
    /\ writer' = [writer EXCEPT ![w] = IdleWriter]
    /\ UNCHANGED <<file, stamp, answers, cache, call, writes, history>>

----------------------------------------------------------------------------
(* repondre_pour_le_message and debut_message. *)

Repondre(k, d) ==
    /\ Changing
    /\ ~(d = REVELER /\ k \in Forbidden)
    /\ answers' = [answers EXCEPT ![k] = d]
    /\ Watch(answers', accepted)
    /\ UNCHANGED <<file, stamp, cache, call, writer, accepted>>

DebutMessage ==
    /\ answers # Empty
    /\ answers' = Empty
    /\ Watch(answers', accepted)
    /\ UNCHANGED <<file, stamp, cache, call, writer, writes, accepted>>

\* The server dies and is started again.
Restart ==
    /\ cache' = [l \in Layers |-> [stamp |-> NONE, content |-> Empty]]
    /\ call' = [t \in Threads |-> IdleCall]
    /\ revealed' = [t \in Threads |-> {}]
    /\ open' = [t \in Threads |-> {}]
    /\ UNCHANGED <<file, stamp, answers, writer, writes, accepted>>

Next ==
    \/ \E t \in Threads :
        \/ \E v \in Values : Begin(t, v)
        \/ ReponseDuMessage(t) \/ Stat(t) \/ Relit(t) \/ Resolve(t) \/ Return(t)
    \/ \E w \in Writers :
        \/ \E l \in Layers, k \in Keys, d \in Decisions \cup {NONE} : Load(w, l, k, d)
        \/ Truncate(w) \/ Write(w) \/ Dies(w)
    \/ \E k \in Keys, d \in Decisions : Repondre(k, d)
    \/ DebutMessage \/ Restart

Spec == Init /\ [][Next]_vars

----------------------------------------------------------------------------
(* Properties. *)

\* Every variable has its type, and a call never loads more layers than exist.
TypeOK ==
    /\ file \in [Layers -> Contents \cup {TORN}]
    /\ stamp \in [Layers -> Nat]
    /\ answers \in Contents
    /\ cache \in [Layers -> [stamp : Nat \cup {NONE}, content : Contents]]
    /\ call \in [Threads ->
         [at : {"idle", "reponses", "charge", "relit", "done"}, value : Values \cup {NONE},
          gran : Nat, layers : Seq(Contents), stamp : Nat,
          decision : Decisions \cup {NONE}]]
    /\ \A t \in Threads :
        /\ call[t].at # "idle" => call[t].value \in Values
        /\ call[t].at = "reponses" => call[t].gran \in DOMAIN Granularites
        /\ Len(call[t].layers) <= Len(Portees)
        /\ call[t].at = "relit" => Len(call[t].layers) < Len(Portees)
        /\ call[t].at = "done" => call[t].decision \in Decisions
    /\ writer \in [Writers -> [at : {"idle", "loaded", "truncated"},
                               layer : Layers \cup {0}, content : Contents]]

\* D4: a secret is never revealed, whatever is written in a layer or answered
\* for a message, at whatever granularity.
SecretNeverRevealed ==
    \A t \in Threads :
        call[t].at = "done" /\ Classe[call[t].value] \in ClassesNonRevelables =>
            call[t].decision = ANONYMISER

\* "retirer une règle la referme au prochain appel": a value is revealed only
\* by a rule or an answer in force at some time of the call itself, whatever
\* the cache holds and however the writes of others fall between its reads.
RevealHasASource ==
    \A t \in Threads :
        call[t].at = "done" /\ call[t].decision = REVELER =>
            \E g \in DOMAIN Granularites : Cle[call[t].value][g] \in revealed[t]

\* "Une politique illisible n'ouvre RIEN": a value is revealed only if the rules
\* and answers accepted so far reveal it at some time of the call.
UnreadableOpensNothing ==
    \A t \in Threads :
        call[t].at = "done" /\ call[t].decision = REVELER => call[t].value \in open[t]

\* "Une réponse perdue laisse la valeur anonymisée, jamais l'inverse": throwing
\* away the answers to a message opens no value.
LostAnswerOpensNothing ==
    [][DebutMessage => OpenedBy(answers', accepted) \subseteq OpenedBy(answers, accepted)]_vars
=============================================================================
