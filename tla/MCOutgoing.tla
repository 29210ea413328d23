----------------------------- MODULE MCOutgoing -----------------------------
(***************************************************************************)
(* Small texts for Outgoing: one word or name per character where nothing  *)
(* depends on its letters.  "o" is a label of the inventory, "p" an entry  *)
(* of the allow-list, "r" a word for a street, "2" what dates are made of. *)
(***************************************************************************)
EXTENDS Outgoing

MCPriority(type) == CASE type \in {"CERTIFICATE", "API_KEY"} -> 1 [] type = "CREDIT_CARD" -> 2
                      [] type = "HOSTNAME" -> 7 [] type = "PERSON" -> 9 [] OTHER -> 6

S(type, from, to, score) == [type |-> type, start |-> from, end |-> to, score |-> score]
Some(set, n) == UNION {kSubset(k, set) : k \in 0..n}
WorldsOf(t, infra, n, personal, m) ==
    [text : {t}, infra : Some(infra, n), personal : Some(personal, m)]

\* Overlapping claims, a name of ours, a public word, names in fragments.
Mixed == <<"k", " ", "o", "-", "p", " ", "B", "-", "b", ",", "c">>
MixedInfra == {S("SERVICE", 2, 7, 9), S("HOSTNAME", 2, 5, 8), S("API_KEY", 4, 7, 5),
               S("HOSTNAME", 6, 11, 9), S("TOOL", 0, 1, 9), S("LOCATION", 4, 5, 9),
               S("CREDIT_CARD", 6, 9, 9), S("URL", 9, 10, 6)}
MixedPersonal == {S("PERSON", 5, 8, 9), S("PERSON", 8, 9, 3), S("PERSON", 8, 9, 8),
                  S("PERSON", 10, 11, 9), S("PERSON", 6, 14, 9)}

\* An address over two numbered lines, a date with its hour, and a number.
Lines == <<"7", " ", "r", "\n", "7", "\t", "C", " ", "2", "-", "7">>
LinesInfra == {S("HOSTNAME", 6, 7, 8), S("PORT", 4, 9, 8)}
LinesPersonal == {S("ADDRESS", 0, 7, 9), S("DATE", 7, 11, 9), S("ADDRESS", 0, 1, 9),
                  S("PERSON", 2, 7, 9)}

\* Longer than a piece: entities on every cut, a block over two cuts that begins twice,
\* a line end or none.
Cuts(c) == <<"a", "b", " ", "p", "/", "q", " ", "c", "d", c, "[", "[", " ", "e", "p", "f",
             " ", "h", "]", " ", "i", "o", "k", " ", "l">>
CutsInfra == {S("HOSTNAME", 3, 6, 8), S("HOSTNAME", 7, 9, 8), S("URL", 13, 16, 8),
              S("FILE_PATH", 10, 19, 9), S("HOSTNAME", 20, 23, 8), S("SERVICE", 0, 9, 9)}
CutsPersonal == {S("PERSON", 0, 2, 9), S("ADDRESS", 13, 25, 9)}

\* A name in three fragments, before a numbered line, and places that cross it.
Parts == <<"B", "-", "b", " ", "c", "\n", "7", "\t", "C", "d", " ", "k", " ", "l", " ", "e",
           " ", "f">>
PartsPersonal == {S("PERSON", 0, 1, 9), S("PERSON", 2, 3, 3), S("PERSON", 2, 3, 9),
                  S("PERSON", 3, 5, 3), S("PERSON", 3, 10, 9), S("ADDRESS", 0, 5, 9),
                  S("ADDRESS", 1, 2, 9), S("ADDRESS", 8, 10, 9), S("ADDRESS", 3, 3, 9)}

MCLabels == {<<"o">>}
MCAllowExact == {<<"p">>}
MCAllowTyped == {<<<<"p", "/", "q">>, "HOSTNAME">>}
MCNotCards == {<<"B", "-", "b">>}
MCStreets == {<<"r">>}

MCWorlds == WorldsOf(Mixed, MixedInfra, 4, MixedPersonal, 3)
            \cup WorldsOf(Lines, LinesInfra, 2, LinesPersonal, 3)
            \cup WorldsOf(Parts, {}, 0, PartsPersonal, 4)
            \cup UNION {WorldsOf(Cuts(c), CutsInfra, 4, CutsPersonal, 2) : c \in {"\n", " "}}

\* For MCOutgoingOurs: a product name seen where the name is ours.
MCOursWorlds == WorldsOf(Mixed, {S("SERVICE", 2, 5, 9)}, 1, {}, 0)

\* For MCOutgoingHalf: fragments of two types that overlap, or a line number between them.
MCHalfWorlds == WorldsOf(Parts, {}, 0, PartsPersonal, 4)

\* The same as NoHalfEntity of any two fragments with only links and spaces between them.
NoHalfAnywhere ==
    Sent => \A f, g \in world.personal :
                (/\ Linked(text, f, g) /\ f.start < g.start /\ f.type \notin PublicTypes
                 /\ PartReported(f, g)) => HiddenIn(f) /\ HiddenIn(g)

\* For MCOutgoingCut: an address that runs over a numbered line.
MCCutWorlds == WorldsOf(Lines, {}, 0, {S("ADDRESS", 0, 7, 9)}, 1)
=============================================================================
