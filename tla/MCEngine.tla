------------------------------ MODULE MCEngine ------------------------------
(***************************************************************************)
(* A small scope for Engine.  Words: every value draws from one lexicon in *)
(* the same order, so that the second value of a namespace collides with   *)
(* the first, and the lexicon holds words of real values.                  *)
(***************************************************************************)
EXTENDS Engine

Lexicon == <<"acme", "birch", "cedar", "delta", "ember", "frost", "grove", "heath">>
Start(ns) == CASE ns \in {"zone", "repo-org", "registry"} -> 0
               [] ns \in {"host", "local", "url-seg"} -> 2
               [] OTHER -> 4
\* One registry is unlucky: each draw gives it its own name.
Unlucky == Name(<<"cedar", "grove", "io">>, FALSE)
MCDraw(ns, key, t, s) == IF key = Unlucky
                         THEN IF ns = "registry" THEN "grove" ELSE "cedar"
                         ELSE Lexicon[((Start(ns) + t + s) % Len(Lexicon)) + 1]
\* The first network drawn for a private one is the real one.
MCDrawNet(space, net, len, t) == <<"n1", "n8", "n9", "n10", "n11">>[(t % 5) + 1]
MCDrawHost(x, t) == 10 + x.host + t
MCSpaces(private, len) == IF len = "wide" THEN <<>> ELSE <<1, 2>>

MCOwner == [th \in Threads |-> IF th = "t1" THEN "proxy" ELSE "forward"]
MCSpan == [day |-> 36, month |-> 12, quarter |-> 4, yearday |-> 12]
MCDaysPer == [day |-> 1, month |-> 3, quarter |-> 9, yearday |-> 1]
MCInternalSuffix == {<<"internal">>}
Loopback == [k |-> "ip", net |-> "n127", host |-> 1]
MCPublic == {[k |-> "name", labels |-> <<"stable">>, cap |-> FALSE],
             [k |-> "name", labels |-> <<"hunter2">>, cap |-> FALSE], Loopback}
MCProjet == <<>>
MCSensitive == {"acme", "beta", "db", "web", "ada", "demo", "pay", "tenant", "n1", "n2",
                "hunter2", "reg", "ember"}

Url(user, host, port, segs, slash, tail) ==
    [k |-> "url", user |-> user, host |-> host, port |-> port, segs |-> segs,
     slash |-> slash, tail |-> tail]
Ip(net, host)  == [k |-> "ip", net |-> net, host |-> host]
Net(net, len)  == [k |-> "net", net |-> net, len |-> len, bits |-> FALSE]
Email(ws, d)   == [k |-> "email", local |-> ws, domain |-> d, cap |-> FALSE]
Repo(f, u, o, n) == [k |-> "repo", form |-> f, user |-> u, org |-> o, name |-> n,
                     suffix |-> f = "ssh"]
Image(r, p, t) == [k |-> "image", registry |-> r, path |-> p, tag |-> t]
Path(ws, loose) == [k |-> "path", abs |-> TRUE, segs |-> [i \in DOMAIN ws |-> Word(ws[i])],
                    loose |-> loose]
Date(g, o, er) == [g |-> g, o |-> o, er |-> er]
NotADate       == [g |-> "none", o |-> 0, er |-> FALSE]
Dated(items)   == [k |-> "dates", items |-> items]
Phrase(ws)     == [k |-> "phrase", words |-> ws]
Val(type, text) == [type |-> type, text |-> text]

db   == <<"db", "acme", "internal">>
web  == <<"web", "acme", "internal">>
beta == <<"db", "beta", "internal">>

DbHost == Name(db, FALSE)
Login  == <<"ada", "hunter2">>
Query  == <<[name |-> "tenant", value |-> "", ident |-> FALSE],
            [name |-> "page", value |-> "demo", ident |-> FALSE]>>
LoginUrl == Url(Login, DbHost, <<Word("tenant")>>, <<"pay">>, FALSE, Query)

\* Entities that share a zone, a subnet, an organisation or a registry, and others.
Members == {
    Val("HOSTNAME", DbHost), Val("FQDN", Name(web, TRUE)), Val("HOSTNAME", Name(beta, FALSE)),
    Val("EMAIL_ADDRESS", Email(<<"ada">>, Zone(db))),
    Val("IP_ADDRESS", Ip("n1", 5)), Val("IP_ADDRESS", Ip("n2", 5)),
    Val("IP_ADDRESS", Net("n1", "shared")), Val("IP_ADDRESS", Net("n1", "long")),
    Val("REPO", Repo("https", <<>>, "acme", "pay")), Val("REPO", Repo("short", <<>>, "acme", "web")),
    Val("CONTAINER_IMAGE", Image(<<"reg", "acme">>, <<"pay">>, <<"demo">>)),
    Val("CONTAINER_IMAGE", Image(Unlucky.labels, <<"pay">>, <<>>))}

\* Values made of others, values with a form of their own, and secrets.
Composed == {
    Val("URL", LoginUrl),
    Val("URL", Url(<<>>, Ip("n1", 5), <<Word("443")>>, <<>>, TRUE, <<>>)),
    Val("URL", Url(<<>>, Loopback, <<>>, <<>>, TRUE, <<>>)),
    Val("URL", [k |-> "mailto", local |-> "ada", host |-> Name(web, FALSE)]),
    Val("REPO", Repo("ssh", <<"ada", "hunter2">>, "acme", "pay")),
    Val("FILE_PATH", Path(<<"home", "ada", "demo", "notes">>, FALSE)),
    Val("FILE_PATH", Path(<<"etc", "tenant">>, FALSE)),
    Val("ADDRESS", Phrase(<<[kind |-> "common", text |-> "rue"], [kind |-> "word", text |-> "ada"]>>)),
    Val("PERSON", Phrase(<<[kind |-> "first", text |-> "ember"],
                           [kind |-> "family", text |-> "ada"]>>)),
    Val("PHONE_NUMBER", [k |-> "code", form |-> "fr", body |-> "tenant"]),
    Val("API_KEY", [k |-> "secret", label |-> "key", body |-> "hunter2"]),
    Val("PASSWORD_CONTEXT", Word("hunter2"))}

\* Dates: yesterday and tomorrow of the first day, the ends of the range, two dates in
\* one value, a day of no year, and a value that is not a date.
Moments == {
    Val("DATE", Dated(<<Date("day", 4, FALSE)>>)), Val("DATE", Dated(<<Date("day", 16, FALSE)>>)),
    Val("DATE", Dated(<<Date("day", 18, TRUE)>>)),
    Val("DATE", Dated(<<Date("day", 35, FALSE)>>)), Val("DATE", Dated(<<Date("month", 5, FALSE)>>)),
    Val("DATE", Dated(<<Date("day", 0, FALSE), Date("quarter", 3, FALSE)>>)),
    Val("DATE", Dated(<<Date("yearday", 7, FALSE)>>)), Val("DATE", Dated(<<NotADate>>))}

\* One path written in two ways, for MCEngineTwins.
MCTwins == {Val("FILE_PATH", Path(<<"home", "ada", "demo", "notes">>, loose)) : loose \in BOOLEAN}

\* A URL and the host in it, for MCEngineClosed.
MCHosted == {Val("URL", Url(<<>>, DbHost, <<>>, <<"pay">>, FALSE, <<>>)), Val("HOSTNAME", DbHost)}

\* An organisation that is also a word of its own, whose draws begin apart from
\* those of the other word and of the organisations, for MCEngineNamesake.
MCDrawApart(ns, key, t, s) ==
    Lexicon[(((IF ns = "generic" /\ key = Word("acme") THEN 1 ELSE 5) + t + s)
                % Len(Lexicon)) + 1]
MCNamesakes == {
    Val("ORGANIZATION", Word("beta")), Val("ORGANIZATION", Word("acme")),
    Val("REPO", Repo("https", <<>>, "acme", "pay")), Val("REPO", Repo("short", <<>>, "acme", "web"))}

\* A URL with a login and its host, for MCEngineLogin.
MCLogged == {Val("URL", LoginUrl), Val("HOSTNAME", DbHost)}

\* The URL is revealed under its canonical form, as an operator sees it.
MCRevealable == {DbHost, Word("ada"), Stored("URL", LoginUrl)}
MCValues == Members \cup Composed \cup Moments
=============================================================================
