----------------------------- MODULE Candidates -----------------------------
(***************************************************************************)
(* The generators of src/src/anonproxy/surrogates/engine.py: what a value  *)
(* asks of others before it can be replaced (the attributes it shares and  *)
(* the pieces that have a substitute of their own), and its candidate at   *)
(* an attempt, given what they answered.                                   *)
(* Draw(ns, key, attempt, shift) is the word that the keyed hash picks in  *)
(* the lexicon of a namespace; DrawNet and DrawHost are its draws for      *)
(* networks and addresses.                                                 *)
(***************************************************************************)
EXTENDS Texts, SequencesExt

CONSTANTS Draw(_, _, _, _), DrawNet(_, _, _, _), DrawHost(_, _),
          Shifts,       \* redraws before a word of the value is accepted
          Spaces(_, _), \* the reserved spaces a network of a length fits in
          Public,       \* texts the allow-list holds by exact entry
          Ports,        \* the labels that are a port number
          Extensions,   \* labels that are a curated file extension
          Racines, RacinesHome,      \* first segments of a known tree
          Chemins,      \* setting: utilisateur_projet, utilisateur, complet
          Projet,       \* segments of the path of the project, <<>> unknown
          Jours,        \* days every date of the scope is moved by
          SidedDates    \* setting dates = cote_du_present

\* _combo: the first draw that takes up no word of the value.
Combo(ns, key, words, t) ==
    LET free == {s \in 0..(Shifts - 1) : Draw(ns, key, t, s) \notin words}
        s    == IF free = {} THEN Shifts - 1
                ELSE CHOOSE m \in free : \A n \in free : m <= n
    IN  Draw(ns, key, t, s)

\* The words drawn without a look at the value: the words and numbers of an address and
\* the first names of a person (_fake_address, PERSON), the last name of an address of
\* mail or the role of a service (_fake_email), the first label of a registry (gen_reg).
DrawnWord(x, i, t)  == Draw(x.words[i].kind, <<x, i>>, t, 0)
LastName(x, t)      == Draw("id-last", x, t, 0)
RegistryHost(x, t)  == Draw("registry-host", x, t, 0)

Share(attribute, x) == [op |-> "share", type |-> attribute, text |-> x]
Part(type, x) == [op |-> "value", type |-> type, text |-> x]

----------------------------------------------------------------------------
(* Paths. *)

\* The segments of a path that leave it (_segments_gardes, by its complement).
Masked(x) ==
    LET n     == Len(x.segs)
        All   == 1..n
        first == x.segs[1].labels[1]
        p     == Len(Projet)
        repository ==
            IF Projet # <<>>
            THEN IF n >= p /\ \A i \in 1..(p - 1) : x.segs[i] = Word(Projet[i])
                 THEN {p} ELSE {}
            ELSE {3}
    IN  IF Chemins = "complet" \/ ~x.abs \/ first \notin Racines
            \/ \E i \in All : x.segs[i].labels[1] \in {".", ".."}
        THEN All
        ELSE IF first \notin RacinesHome THEN All \ {1}
        ELSE All \cap ({2} \cup IF Chemins = "utilisateur" THEN {} ELSE repository)

\* _chemin_sans_identifiant.
NothingMasked(x) == x.segs = <<>> \/ Masked(x) = {}

\* The masked segments up to the i-th, and all of them in their order.
MaskedUpTo(x, i) == Cardinality(Masked(x) \cap 1..i)
MaskedInOrder(x) ==
    [j \in 1..Cardinality(Masked(x)) |-> CHOOSE i \in Masked(x) : MaskedUpTo(x, i) = j]

\* (mutant) a path is written back segment by segment from its own table of draws.
FakePathUnbound(x, t, names) ==
    [x EXCEPT !.loose = FALSE,
              !.segs = [i \in DOMAIN x.segs |->
                  IF i \in Masked(x) THEN Word(Combo("seg", x.segs[i], Atoms(x.segs[i]), t))
                  ELSE x.segs[i]]]

\* _fake_path: what stays stays, what leaves has its substitute; the attempt counts for nothing.
FakePath(x, t, names) ==
    [x EXCEPT !.loose = FALSE,
              !.segs = [i \in DOMAIN x.segs |->
                  IF i \in Masked(x) THEN names[MaskedUpTo(x, i)] ELSE x.segs[i]]]

\* _garder_extension: a curated extension goes out with the fake name.
Extension(labels) == IF Len(labels) > 1 /\ Last(labels) \in Extensions
                     THEN <<Last(labels)>> ELSE <<>>

----------------------------------------------------------------------------
(* Hosts, addresses and networks. *)

\* The longest internal suffix of a zone, kept in the fake one.
InternalPart(zone) ==
    LET ns == {n \in 1..Len(zone) : Suffix(zone, n) \in InternalSuffix}
    IN  IF ns = {} THEN <<"internal">>
        ELSE Suffix(zone, CHOOSE n \in ns : \A m \in ns : m <= n)

\* gen of _zone_for.
FakeZone(x, t) ==
    LET org == Combo("zone", x, Pieces(x.labels), t)
    IN  IF Internal(x.labels) \/ x.labels \in InternalSuffix
        THEN Name(<<org>> \o InternalPart(x.labels), FALSE)
        ELSE Name(<<org, Draw("tld", x, 0, 0)>>, FALSE)

FakeRegistry(x, t) ==
    Name(<<RegistryHost(x, t), Combo("registry", x, Pieces(x.labels), t), "io">>, FALSE)
FakeOrg(x, t)    == Word(Combo("repo-org", x, Pieces(x.labels), t))
FakeSubnet(x, t) == [x EXCEPT !.net = DrawNet(Private(x.net), x.net, 0, t)]

FakeShared(attribute, x, t) ==
    CASE attribute = "_ZONE"     -> FakeZone(x, t)
      [] attribute = "_REGISTRY" -> FakeRegistry(x, t)
      [] attribute = "_REPO_ORG" -> FakeOrg(x, t)
      [] attribute = "_SUBNET"   -> FakeSubnet(x, t)

Subnet(x) == [k |-> "ip", net |-> x.net, host |-> 0]

\* _reseau_fictif: the spaces in turn from the attempt, never the real network;
\* a network wider than every space is given back.
FakeNetwork(x, t) ==
    LET spaces == Spaces(Private(x.net), x.len)
        n      == Len(spaces)
        In(d)  == DrawNet(spaces[((t + d) % n) + 1], x.net, x.len, t)
        other  == {d \in 0..(n - 1) : In(d) # x.net}
    IN  [x EXCEPT !.bits = FALSE,
                  !.net  = IF other = {} THEN @
                           ELSE In(CHOOSE d \in other : \A e \in other : d <= e)]

\* A network long enough to be in a subnet is the fake subnet.
FakeSharedNet(x, names) == [x EXCEPT !.net = names[1].net, !.bits = FALSE]

FakeShort(w, t) == Combo("host", Word(w), {w}, t)

\* _fake_host: the short name is drawn, the zone is the one its hosts share.
FakeHost(x, t, names) ==
    Name(<<FakeShort(x.labels[1], t)>>
            \o IF Len(x.labels) = 1 THEN <<>> ELSE names[1].labels, FALSE)

\* _fake_email: of the two words of the local part, only the first avoids the value's.
FakeEmail(x, t, names) ==
    [x EXCEPT !.local  = <<Combo("local", Lower(x), Atoms(x), t), LastName(Lower(x), t)>>,
              !.domain = names[1].labels, !.cap = FALSE]

----------------------------------------------------------------------------
(* Repositories, images, URLs. *)

\* _fake_repo: the form is kept, an ssh address without "git@" loses it.
FakeRepo(x, t, names) ==
    [x EXCEPT !.org    = names[1].labels[1],
              !.name   = Combo("repo-name", Word(x.name), {x.name}, t),
              !.user   = IF x.form = "ssh" /\ x.user[1] = "git" THEN <<"git">> ELSE <<>>,
              !.form   = IF x.form = "ssh" /\ x.user[1] # "git" THEN "bare" ELSE @,
              !.suffix = x.form = "ssh" /\ x.user[1] = "git"]

\* _fake_image: a tag is kept only when it is public.
FakeImage(x, t, names) ==
    [x EXCEPT !.registry = IF @ = <<>> THEN <<>> ELSE names[1].labels,
              !.path = [i \in DOMAIN @ |-> Combo("image-part", Word(@[i]), {@[i]}, t)],
              !.tag  = [i \in DOMAIN @ |->
                           IF Word(@[i]) \in Public THEN @[i]
                           ELSE Combo("image-tag", Word(@[i]), {@[i]}, t)]]

IsPort(p) == p.k = "name" /\ p.labels[1] \in Ports

\* _secret_reference: the prefix or the label stays, the rest is derived.
SecretReference(x) ==
    [k |-> "secret", label |-> IF x.k = "secret" THEN x.label ELSE "",
     body |-> Draw("secret", x, 0, 0)]

\* The login of an authority: the name is drawn, the password derived (_fake_authority).
FakeUser(user, t) ==
    [i \in DOMAIN user |-> IF i = 1 THEN Combo("url-user", Word(user[1]), {user[1]}, t)
                           ELSE SecretReference(Word(user[i])).body]

\* (mutant) a parameter without a value is taken for a name and kept.
FakeQueryNamesKept(tail, t) ==
    [i \in DOMAIN tail |->
        [tail[i] EXCEPT
            !.value = IF @ = "" THEN @
                      ELSE Combo("url-arg", tail[i], {tail[i].name, @}, t)]]

\* _fake_query: values are drawn; a name is kept unless it looks like an identifier
\* or carries the value itself.
FakeQuery(tail, t) ==
    [i \in DOMAIN tail |->
        [tail[i] EXCEPT
            !.name  = IF tail[i].value = "" \/ tail[i].ident
                      THEN Combo("url-arg", Word(@), {@}, t) ELSE @,
            !.value = IF @ = "" THEN @
                      ELSE Combo("url-arg", tail[i], {tail[i].name, @}, t)]]

FakeUrl(x, t, names) ==
    [x EXCEPT
        !.user = FakeUser(@, t),
        !.port = IF @ = <<>> \/ IsPort(@[1]) THEN @ ELSE <<names[1]>>,
        !.host = names[Len(names)],
        !.segs = [i \in DOMAIN @ |-> IF Word(@[i]) \in Public THEN @[i]
                                     ELSE Combo("url-seg", <<i, @[i]>>, {@[i]}, t)],
        !.slash = @ /\ x.segs # <<>>,
        !.tail = FakeQuery(@, t)]

\* _fake_sans_autorite.
FakeMailto(x, t, names) ==
    [x EXCEPT !.local = Combo("mail-local", Word(@), {@}, t), !.host = names[1]]

----------------------------------------------------------------------------
(* Generic values. *)

\* _fake_address, and the person: common words stay, the rest is drawn in its kind, and
\* the name of a family alone avoids the words of the value.
FakePhrase(x, t) ==
    [x EXCEPT !.words = [i \in DOMAIN @ |->
        CASE @[i].kind = "common" -> @[i]
          [] @[i].kind = "family" -> [@[i] EXCEPT !.text = Combo("family", x, Atoms(x), t)]
          [] OTHER -> [@[i] EXCEPT !.text = DrawnWord(x, i, t)]]]

\* _fake_phone, _fake_iban, hashes, UUID, MAC: the form stays, where it is a known one.
FakeCode(x, t) ==
    [x EXCEPT !.body = Draw("code", x, t, 0), !.form = IF @ = "unknown" THEN "bare" ELSE @]

\* _fake_date: the same days for the whole scope, one more at each attempt.
FakeDates(x, t, today) ==
    [x EXCEPT !.items = Shifted(@, Jours + t, SidedDates, today)]

FakeWord(type, x, t) ==
    Name(<<Combo("generic", Stored(type, x), Atoms(x), t)>>
            \o IF type = "PATH_SEGMENT" THEN Extension(x.labels) ELSE <<>>, FALSE)

FakeGeneric(type, x, t, names, today) ==
    CASE x.k = "path"   -> FakePath(x, t, names)
      [] x.k = "url"    -> FakeUrl(x, t, names)
      [] x.k = "mailto" -> FakeMailto(x, t, names)
      [] x.k = "phrase" -> FakePhrase(x, t)
      [] x.k = "code"   -> FakeCode(x, t)
      [] x.k = "dates" /\ Readable(x.items) -> FakeDates(x, t, today)
      [] OTHER -> FakeWord(type, x, t)

----------------------------------------------------------------------------
(* What a value asks of the vault before its candidate, in the order it asks. *)
AskedFor(type, x) ==
    LET kind == Kind(type, x)
    IN  CASE kind = "host" /\ Len(x.labels) > 1 ->
                <<Share("_ZONE", Name(Zone(x.labels), FALSE))>>
          [] kind = "ip" -> <<Share("_SUBNET", Subnet(x))>>
          [] kind = "net" /\ x.len = "shared" -> <<Share("_SUBNET", Subnet(x))>>
          [] kind = "email" -> <<Share("_ZONE", Name(x.domain, FALSE))>>
          [] kind = "repo" -> <<Share("_REPO_ORG", Word(x.org))>>
          [] kind = "image" /\ x.registry # <<>> ->
                <<Share("_REGISTRY", Name(x.registry, FALSE))>>
          [] x.k = "path" -> [i \in DOMAIN MaskedInOrder(x) |->
                                Part("PATH_SEGMENT", x.segs[MaskedInOrder(x)[i]])]
          [] x.k = "url" ->
                (IF x.port = <<>> \/ IsPort(x.port[1]) THEN <<>>
                 ELSE <<Part("HOSTNAME", x.port[1])>>)
                \o <<Part(IF x.host.k = "ip" THEN "IP_ADDRESS" ELSE "HOSTNAME", x.host)>>
          [] x.k = "mailto" -> <<Part("HOSTNAME", x.host)>>
          [] OTHER -> <<>>

\* _candidate.
Candidate(type, x, t, names, today) ==
    LET kind == Kind(type, x)
    IN  CASE kind = "ip" -> [x EXCEPT !.net = names[1].net, !.host = DrawHost(x, t)]
          [] kind = "net" /\ x.len = "shared" -> FakeSharedNet(x, names)
          [] kind = "net" /\ x.len # "shared" -> FakeNetwork(x, t)
          [] kind = "host"  -> FakeHost(x, t, names)
          [] kind = "email" -> FakeEmail(x, t, names)
          [] kind = "repo"  -> FakeRepo(x, t, names)
          [] kind = "image" -> FakeImage(x, t, names)
          [] OTHER          -> FakeGeneric(type, x, t, names, today)
=============================================================================
