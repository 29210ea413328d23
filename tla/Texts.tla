------------------------------- MODULE Texts -------------------------------
(***************************************************************************)
(* The values the substitution engine is called for and the substitutes it *)
(* makes, which are texts of the same kinds, and their canonical form      *)
(* (src/src/anonproxy/surrogates/canonical.py and classes.py).             *)
(*                                                                         *)
(* A text is a record: k is its kind, the other fields are the pieces the  *)
(* code cuts it into, and pieces are strings.                              *)
(*   name    a word or a host name, as its labels; cap: not in lower case, *)
(*           or with a final dot                                           *)
(*   ip, net an address (network and host number), and a network with its  *)
(*           length; bits: written with bits outside its prefix            *)
(*   email   local part, as its words, and domain                          *)
(*   url     login, host, port, path segments, final slash, query          *)
(*   mailto  local part and host                                           *)
(*   repo    form (https, ssh, short), login, forge, organisation, name,   *)
(*           suffix (whether ".git" is written)                            *)
(*   image   registry (labels, <<>> if none), path, tag (<<>> if none)     *)
(*   path    absolute or not, segments, loose: doubled or final slashes    *)
(*   dates   what the value holds: dates, or pieces that are not one       *)
(*   phrase  words, numbers and common words, of a person or an address    *)
(*   code    form and body of a hash, a telephone number, an IBAN          *)
(*   secret  label and body                                                *)
(***************************************************************************)
EXTENDS Dates, FiniteSets

CONSTANTS InternalSuffix,  \* sets of label sequences: .internal, .svc.cluster.local...
          Documentation,   \* networks reserved for documentation and benchmarks
          NotRouted        \* networks ipaddress calls private

Name(labels, cap) == [k |-> "name", labels |-> labels, cap |-> cap]
Word(w) == Name(<<w>>, FALSE)

Pieces(s) == {s[i] : i \in DOMAIN s}
IsSeq(s) == s \in Seq(Pieces(s))
Suffix(s, n) == SubSeq(s, Len(s) - n + 1, Len(s))

\* is_internal_host: ends with a dot and an internal suffix.
Internal(labels) == \E n \in 1..(Len(labels) - 1) : Suffix(labels, n) \in InternalSuffix

\* split_host: everything after the first label.
Zone(labels) == Tail(labels)

\* est_privee: ipaddress, except that a network for documentation stands for a public one.
Private(net) == net \notin Documentation /\ net \in NotRouted

----------------------------------------------------------------------------
(* The class of a type (classes.py). *)

SecretTypes == {"API_KEY", "PASSWORD_CONTEXT", "CERTIFICATE"}
PublicTypes == {"PRODUCT"}
HostTypes   == {"HOSTNAME", "FQDN", "CERT_CN"}

----------------------------------------------------------------------------
(* What canonicalize cuts off a value before it is stored. *)

\* _strip_userinfo: the login of a URL or of an ssh address; a mailto has none.
StripUserinfo(x) == IF x.k \in {"url", "repo"} THEN [x EXCEPT !.user = <<>>] ELSE x

\* The final slash of a URL without a path.
StripRootSlash(x) == IF x.k = "url" /\ x.segs = <<>> /\ x.tail = <<>>
                     THEN [x EXCEPT !.slash = FALSE] ELSE x

Normalized(type, x) ==
    IF type \in {"URL", "REPO"} THEN StripRootSlash(StripUserinfo(x)) ELSE x

\* A URL that is only a host name is that host.
BareHost(x) == x.k = "name" /\ Len(x.labels) > 1

\* The kind of a value, which is also the type of its row unless it is generic.
Kind(type, x) ==
    CASE type = "IP_ADDRESS" /\ x.k \in {"ip", "net"} -> x.k
      [] type = "EMAIL_ADDRESS" /\ x.k = "email" -> "email"
      [] type = "REPO" /\ x.k = "repo" -> "repo"
      [] type = "URL" /\ x.k = "repo" /\ x.form # "short" -> "repo"
      [] type = "URL" /\ BareHost(x) -> "host"
      [] type \in HostTypes /\ x.k = "name" -> "host"
      [] type = "CONTAINER_IMAGE" /\ x.k = "image" -> "image"
      [] type = "DATE" /\ x.k = "dates" /\ Len(x.items) = 1 /\ Readable(x.items) -> "date"
      [] OTHER -> "generic"

Key(type, x) == IF Kind(type, x) = "generic" THEN type ELSE Kind(type, x)

Lower(x) == IF "cap" \in DOMAIN x THEN [x EXCEPT !.cap = FALSE] ELSE x

\* _display_value: the form kept in the vault, in lower case where case means nothing.
Stored(type, x) ==
    IF Kind(type, x) \in {"host", "email", "repo", "image"}
    THEN Lower(Normalized(type, x)) ELSE Normalized(type, x)

----------------------------------------------------------------------------
(* The pieces of a text that may identify somebody. *)

AtomsOf(x) ==
    CASE x.k = "name"   -> Pieces(x.labels)
      [] x.k \in {"ip", "net"} -> {x.net}
      [] x.k = "email"  -> Pieces(x.local) \cup Pieces(x.domain)
      [] x.k = "mailto" -> {x.local}
      [] x.k = "url"    -> Pieces(x.user) \cup Pieces(x.segs)
                              \cup {p.name : p \in Pieces(x.tail)}
                              \cup {p.value : p \in Pieces(x.tail)}
      [] x.k = "repo"   -> Pieces(x.user) \cup {x.org, x.name}
      [] x.k = "image"  -> Pieces(x.registry) \cup Pieces(x.path) \cup Pieces(x.tag)
      [] x.k = "phrase" -> {w.text : w \in Pieces(x.words)}
      [] x.k = "code"   -> {x.body}
      [] x.k = "secret" -> {x.label, x.body}
      [] OTHER -> {}

\* The texts inside a text.
Inside(x) ==
    CASE x.k = "url"    -> {x.host} \cup Pieces(x.port)
      [] x.k = "mailto" -> {x.host}
      [] x.k = "path"   -> Pieces(x.segs)
      [] OTHER -> {}

Atoms(x) == AtomsOf(x) \cup UNION {AtomsOf(y) : y \in Inside(x)}

----------------------------------------------------------------------------
(* What a detected text is made of. *)

Fields == [name |-> {"labels", "cap"}, ip |-> {"net", "host"}, net |-> {"net", "len", "bits"},
           email |-> {"local", "domain", "cap"},
           url |-> {"user", "host", "port", "segs", "slash", "tail"},
           mailto |-> {"local", "host"},
           repo |-> {"form", "user", "org", "name", "suffix"},
           image |-> {"registry", "path", "tag"}, path |-> {"abs", "segs", "loose"},
           dates |-> {"items"}, phrase |-> {"words"}, code |-> {"form", "body"},
           secret |-> {"label", "body"}]

Proper(x) ==
    /\ x.k \in DOMAIN Fields /\ DOMAIN x = {"k"} \cup Fields[x.k]
    /\ x.k = "name"  => x.labels \in Seq(STRING) \ {<<>>}
    /\ x.k = "email" => x.domain \in Seq(STRING) \ {<<>>}
    /\ x.k = "image" => x.registry \in Seq(STRING)
    /\ x.k = "url"   => /\ IsSeq(x.port)
                        /\ \A p \in Pieces(x.tail) : DOMAIN p = {"name", "value", "ident"}
    /\ x.k = "phrase" => \A w \in Pieces(x.words) : DOMAIN w = {"kind", "text"}
    /\ x.k = "path"  => IsSeq(x.segs)
    /\ x.k = "dates" => x.items \in Seq([g : Grains \cup {"none"}, o : Nat, er : BOOLEAN])

\* A text and the texts inside it, which are names and addresses.
WellMade(x) ==
    /\ Proper(x)
    /\ \A y \in Inside(x) : Proper(y) /\ y.k \in {"name", "ip"}
=============================================================================
