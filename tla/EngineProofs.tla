---------------------------- MODULE EngineProofs ----------------------------
(***************************************************************************)
(* Proofs about Engine.tla, for any threads and processes, any values, any *)
(* draw of words and any number of attempts.  A call is a stack of calls:  *)
(* the invariant says that each frame asks for what the one under it       *)
(* needs next, and that what a frame has been told of a shared attribute   *)
(* is what the vault holds for it.                                         *)
(* A second invariant, with any set of words, says which of them a row, a  *)
(* frame and an answer may hold: passwords never, and the words that tell  *)
(* something only once a rule has revealed a text that has them.           *)
(***************************************************************************)
EXTENDS Engine, SequenceTheorems, FiniteSetTheorems, FunctionTheorems,
        WellFoundedInduction, TLAPS

----------------------------------------------------------------------------
(* Stacks. *)

\* f in the place of the first frame, f over them, and g in the place of the first
\* two when the first has returned.
Swap(s, f) == <<f>> \o Tail(s)
Push(s, f) == <<f>> \o s
Pop(s, g)  == <<g>> \o SubSeq(s, 3, Len(s))

LEMMA SeqIs == ASSUME NEW S, NEW s \in Seq(S) PROVE IsSeq(s)
<1>1. s \in [1..Len(s) -> S] /\ Len(s) \in Nat
    BY LenProperties
<1>2. s \in [1..Len(s) -> Pieces(s)]
    BY <1>1 DEF Pieces
<1> QED BY <1>1, <1>2, SeqDef DEF IsSeq

LEMMA SeqFacts ==
    ASSUME NEW s, IsSeq(s)
    PROVE  /\ Len(s) \in Nat /\ DOMAIN s = 1..Len(s)
           /\ s # <<>> => Len(s) \in Nat \ {0}
           /\ s = <<>> <=> Len(s) = 0
    BY LenProperties, EmptySeq DEF IsSeq

LEMMA Replaced ==
    ASSUME NEW s, IsSeq(s), s # <<>>, NEW f
    PROVE  /\ IsSeq(Swap(s, f)) /\ Len(Swap(s, f)) = Len(s) /\ Swap(s, f)[1] = f
           /\ \A i \in 2..Len(s) : Swap(s, f)[i] = s[i]
<1> DEFINE S == Pieces(s) \cup {f}  r == <<f>> \o Tail(s)
<1>1. s \in Seq(S) /\ <<f>> \in Seq(S) /\ Len(<<f>>) = 1 /\ <<f>>[1] = f
  <2>1. s \in Seq(S)
      BY SeqMonotonic DEF IsSeq
  <2> QED BY <2>1
<1>2. Tail(s) \in Seq(S) /\ Len(Tail(s)) = Len(s) - 1
      /\ \A i \in 1..Len(Tail(s)) : Tail(s)[i] = s[i + 1]
    BY <1>1, HeadTailProperties
<1>3. Len(s) \in Nat \ {0}
    BY SeqFacts
<1>4. /\ r \in Seq(S) /\ Len(r) = Len(s)
      /\ \A i \in 1..Len(s) : r[i] = IF i <= 1 THEN <<f>>[i] ELSE Tail(s)[i - 1]
    BY <1>1, <1>2, <1>3, ConcatProperties
<1>5. IsSeq(r)
    BY <1>4, SeqIs
<1>6. r[1] = f
    BY <1>1, <1>3, <1>4
<1>7. ASSUME NEW i \in 2..Len(s) PROVE r[i] = s[i]
    BY <1>2, <1>3, <1>4
<1> QED BY <1>4, <1>5, <1>6, <1>7 DEF Swap

LEMMA Pushed ==
    ASSUME NEW s, IsSeq(s), NEW f
    PROVE  /\ IsSeq(Push(s, f)) /\ Len(Push(s, f)) = Len(s) + 1 /\ Push(s, f)[1] = f
           /\ \A i \in 2..(Len(s) + 1) : Push(s, f)[i] = s[i - 1]
<1> DEFINE S == Pieces(s) \cup {f}  r == <<f>> \o s
<1>1. s \in Seq(S) /\ <<f>> \in Seq(S) /\ Len(<<f>>) = 1 /\ <<f>>[1] = f
  <2>1. s \in Seq(S)
      BY SeqMonotonic DEF IsSeq
  <2> QED BY <2>1
<1>2. Len(s) \in Nat
    BY SeqFacts
<1>3. /\ r \in Seq(S) /\ Len(r) = Len(s) + 1
      /\ \A i \in 1..(Len(s) + 1) : r[i] = IF i <= 1 THEN <<f>>[i] ELSE s[i - 1]
    BY <1>1, <1>2, ConcatProperties
<1>4. IsSeq(r)
    BY <1>3, SeqIs
<1> QED BY <1>1, <1>2, <1>3, <1>4 DEF Push

LEMMA Popped ==
    ASSUME NEW s, IsSeq(s), Len(s) > 1, NEW g
    PROVE  /\ IsSeq(Pop(s, g)) /\ Len(Pop(s, g)) = Len(s) - 1 /\ Pop(s, g)[1] = g
           /\ \A i \in 2..(Len(s) - 1) : Pop(s, g)[i] = s[i + 1]
<1> DEFINE S == Pieces(s) \cup {g}  t == SubSeq(s, 3, Len(s))  r == <<g>> \o t
<1>1. Len(s) \in Nat /\ DOMAIN s = 1..Len(s)
    BY SeqFacts
<1>2. \A i \in 3..Len(s) : s[i] \in S
    BY <1>1 DEF Pieces
<1>3. /\ t \in Seq(S) /\ Len(t) = Len(s) - 2
      /\ \A i \in 1..(Len(s) - 2) : t[i] = s[i + 2]
  <2>1. /\ t \in Seq(S) /\ Len(t) = IF 3 <= Len(s) THEN Len(s) - 3 + 1 ELSE 0
        /\ \A i \in 1..(Len(s) - 3 + 1) : t[i] = s[3 + i - 1]
      BY <1>1, <1>2, SubSeqProperties
  <2> QED BY <1>1, <2>1
<1>4. <<g>> \in Seq(S) /\ Len(<<g>>) = 1 /\ <<g>>[1] = g
    OBVIOUS
<1> HIDE DEF t
<1>5. /\ r \in Seq(S) /\ Len(r) = Len(s) - 1
      /\ \A i \in 1..(Len(s) - 1) : r[i] = IF i <= 1 THEN <<g>>[i] ELSE t[i - 1]
  <2>1. /\ r \in Seq(S) /\ Len(r) = Len(<<g>>) + Len(t)
        /\ \A i \in 1..(Len(<<g>>) + Len(t)) :
              r[i] = IF i <= Len(<<g>>) THEN <<g>>[i] ELSE t[i - Len(<<g>>)]
      BY <1>3, <1>4, ConcatProperties
  <2>2. Len(<<g>>) + Len(t) = Len(s) - 1
      BY <1>1, <1>3, <1>4
  <2> QED BY <1>4, <2>1, <2>2
<1>6. IsSeq(r)
    BY <1>5, SeqIs
<1>7. ASSUME NEW i \in 2..(Len(s) - 1) PROVE r[i] = s[i + 1]
    BY <1>1, <1>3, <1>5
<1>8. r[1] = g
    BY <1>1, <1>4, <1>5
<1> QED BY <1>5, <1>6, <1>7, <1>8 DEF Pop, t

\* One more name.
LEMMA Appended ==
    ASSUME NEW s, IsSeq(s), NEW e
    PROVE  /\ IsSeq(Append(s, e)) /\ Len(Append(s, e)) = Len(s) + 1
           /\ Append(s, e)[Len(s) + 1] = e
<1> DEFINE S == Pieces(s) \cup {e}
<1>1. s \in Seq(S)
    BY SeqMonotonic DEF IsSeq
<1>2. Append(s, e) \in Seq(S) /\ Len(Append(s, e)) = Len(s) + 1
      /\ Append(s, e)[Len(s) + 1] = e
    BY <1>1, SMT
<1> QED BY <1>2, SeqIs

----------------------------------------------------------------------------
(* Texts, and what they ask for. *)

LEMMA KindIs ==
    ASSUME NEW type, NEW x
    PROVE  LET kind == Kind(type, x)
           IN  /\ kind \in Kinds
               /\ kind \in {"ip", "net", "email", "repo", "image"} => x.k = kind
               /\ kind = "host" => x.k = "name"
               /\ kind = "date" => /\ x.k = "dates" /\ Len(x.items) = 1 /\ Readable(x.items)
                                   /\ type = "DATE"
    BY DEF Kind, Kinds, BareHost

\* The names and addresses inside a text.
LEMMA InsideWellMade ==
    ASSUME NEW x, WellMade(x), NEW y \in Inside(x)
    PROVE  WellMade(y) /\ y.k \in {"name", "ip"}
<1>1. Proper(y) /\ y.k \in {"name", "ip"}
    BY DEF WellMade
<1>2. Inside(y) = {}
    BY <1>1 DEF Inside
<1> QED BY <1>1, <1>2 DEF WellMade

\* The masked segments of a path are segments of it, and each has its rank.
LEMMA MaskedSegments ==
    ASSUME NEW x, IsSeq(x.segs)
    PROVE  /\ Cardinality(Masked(x)) \in Nat
           /\ \A j \in 1..Cardinality(Masked(x)) :
                 MaskedInOrder(x)[j] \in 1..Len(x.segs)
           /\ \A i \in Masked(x) : MaskedUpTo(x, i) \in 1..Cardinality(Masked(x))
<1> DEFINE M == Masked(x)  C == Cardinality(M)
           r == [i \in M |-> MaskedUpTo(x, i)]
<1>1. Len(x.segs) \in Nat
    BY SeqFacts
<1>2. M \subseteq 1..Len(x.segs)
    BY DEF Masked
<1>3. IsFiniteSet(M) /\ C \in Nat
  <2>1. IsFiniteSet(1..Len(x.segs))
      BY <1>1, FS_Interval
  <2>2. IsFiniteSet(M)
      BY <1>2, <2>1, FS_Subset
  <2> QED BY <2>2, FS_CardinalityType
<1>4. \A i \in M : IsFiniteSet(M \cap 1..i) /\ r[i] = Cardinality(M \cap 1..i)
                   /\ r[i] \in Nat /\ r[i] <= C /\ r[i] # 0
  <2> SUFFICES ASSUME NEW i \in M
               PROVE  IsFiniteSet(M \cap 1..i) /\ r[i] = Cardinality(M \cap 1..i)
                      /\ r[i] \in Nat /\ r[i] <= C /\ r[i] # 0
      OBVIOUS
  <2>1. IsFiniteSet(M \cap 1..i) /\ Cardinality(M \cap 1..i) <= C
      BY <1>3, FS_Intersection
  <2>2. r[i] = Cardinality(M \cap 1..i)
      BY DEF MaskedUpTo
  <2>3. i \in M \cap 1..i
      BY <1>1, <1>2
  <2>4. Cardinality(M \cap 1..i) \in Nat /\ Cardinality(M \cap 1..i) # 0
      BY <2>1, <2>3, FS_CardinalityType, FS_EmptySet
  <2> QED BY <2>1, <2>2, <2>4
<1> HIDE DEF r
<1>5. \A i, j \in M : i < j => r[i] # r[j]
  <2> SUFFICES ASSUME NEW i \in M, NEW j \in M, i < j, r[i] = r[j] PROVE FALSE
      OBVIOUS
  <2>1. M \cap 1..i \subseteq M \cap 1..j
      BY <1>1, <1>2
  <2>2. M \cap 1..i = M \cap 1..j
      BY <1>4, <2>1, FS_Subset
  <2>3. j \in M \cap 1..j /\ j \notin M \cap 1..i
      BY <1>1, <1>2
  <2> QED BY <2>2, <2>3
<1>6. r \in [M -> 1..C]
  <2>1. \A i \in M : r[i] \in 1..C
    <3> SUFFICES ASSUME NEW i \in M PROVE r[i] \in 1..C
        OBVIOUS
    <3>1. r[i] \in Nat /\ r[i] <= C /\ r[i] # 0 /\ C \in Nat
        BY <1>3, <1>4
    <3> HIDE DEF M, C
    <3> QED BY <3>1
  <2>2. r = [i \in M |-> r[i]]
      BY DEF r
  <2> QED BY <2>1, <2>2
<1>7. r \in Injection(M, 1..C)
  <2>1. \A i, j \in M : r[i] = r[j] => i = j
    <3> SUFFICES ASSUME NEW i \in M, NEW j \in M, r[i] = r[j] PROVE i = j
        OBVIOUS
    <3>1. i \in Int /\ j \in Int
        BY <1>1, <1>2
    <3>2. ~(i < j) /\ ~(j < i)
        BY <1>5
    <3> QED BY <3>1, <3>2
  <2> QED BY <1>6, <2>1 DEF Injection, IsInjective
<1>8. r \in Surjection(M, 1..C)
  <2>1. IsFiniteSet(1..C) /\ Cardinality(1..C) = C
      BY <1>3, FS_Interval
  <2> QED BY <1>7, <2>1, FS_Injection
<1>9. ASSUME NEW j \in 1..C PROVE MaskedInOrder(x)[j] \in 1..Len(x.segs)
  <2>1. \E i \in M : MaskedUpTo(x, i) = j
      BY <1>8 DEF Surjection, r
  <2>2. MaskedInOrder(x)[j] = CHOOSE i \in M : MaskedUpTo(x, i) = j
      BY DEF MaskedInOrder
  <2> QED BY <1>2, <2>1, <2>2
<1>10. \A i \in M : MaskedUpTo(x, i) \in 1..C
  <2>1. \A i \in M : r[i] \in 1..C
      BY <1>6
  <2> QED BY <2>1 DEF r
<1> QED BY <1>3, <1>9, <1>10

LEMMA NameIs == \A l : Name(l, FALSE).k = "name" /\ Name(l, FALSE).labels = l
    BY DEF Name

\* A value that shares an attribute asks for it, and for nothing else.
LEMMA AsksToShare ==
    ASSUME NEW type, NEW x, WellMade(x), Group(Kind(type, x), x) # "none"
    PROVE  LET kind == Kind(type, x)
           IN  /\ Attribute(kind, x) # Name(<<>>, FALSE)
                     => AskedFor(type, x) = <<Share(Group(kind, x), Attribute(kind, x))>>
               /\ Attribute(kind, x) = Name(<<>>, FALSE)
                     => AskedFor(type, x) = <<>> /\ kind \in {"host", "image"}
<1> DEFINE kind == Kind(type, x)  Empty == Name(<<>>, FALSE)
<1>1. Proper(x)
    BY DEF WellMade
<1>2. /\ kind \in {"host", "ip", "net", "email", "repo", "image"}
      /\ kind \in {"ip", "net", "email", "repo", "image"} => x.k = kind
      /\ kind = "host" => x.k = "name"
    BY KindIs DEF Group, Kinds
<1>3. CASE kind = "host"
  <2>1. x.labels \in Seq(STRING) /\ x.labels # <<>> /\ x.k = "name"
      BY <1>1, <1>2, <1>3 DEF Proper
  <2>2. Len(x.labels) \in Nat /\ (Len(x.labels) > 1 <=> Zone(x.labels) # <<>>)
    <3>1. Zone(x.labels) \in Seq(STRING) /\ Len(Zone(x.labels)) = Len(x.labels) - 1
        BY <2>1, HeadTailProperties DEF Zone
    <3>2. Len(x.labels) \in Nat /\ (Zone(x.labels) = <<>> <=> Len(Zone(x.labels)) = 0)
        BY <2>1, <3>1, LenProperties, EmptySeq
    <3> QED BY <3>1, <3>2
  <2>3. Attribute(kind, x) = Name(Zone(x.labels), FALSE) /\ Group(kind, x) = "_ZONE"
      BY <1>3 DEF Attribute, Group
  <2>4. Attribute(kind, x) = Empty <=> Zone(x.labels) = <<>>
      BY <2>3, NameIs
  <2>5. AskedFor(type, x) = IF Len(x.labels) > 1
                            THEN <<Share("_ZONE", Name(Zone(x.labels), FALSE))>> ELSE <<>>
      BY <1>3, <2>1 DEF AskedFor
  <2> QED BY <1>3, <2>2, <2>3, <2>4, <2>5
<1>4. CASE kind = "image"
  <2>1. Attribute(kind, x) = Name(x.registry, FALSE) /\ Group(kind, x) = "_REGISTRY"
      BY <1>4 DEF Attribute, Group
  <2>2. Attribute(kind, x) = Empty <=> x.registry = <<>>
      BY <2>1, NameIs
  <2>3. AskedFor(type, x) = IF x.registry # <<>>
                            THEN <<Share("_REGISTRY", Name(x.registry, FALSE))>> ELSE <<>>
      BY <1>2, <1>4 DEF AskedFor
  <2> QED BY <1>4, <2>1, <2>2, <2>3
<1>5. CASE kind = "email"
  <2>1. Attribute(kind, x) = Name(x.domain, FALSE) /\ Group(kind, x) = "_ZONE"
      BY <1>5 DEF Attribute, Group
  <2>2. x.domain # <<>>
      BY <1>1, <1>2, <1>5 DEF Proper
  <2>3. Attribute(kind, x) # Empty
      BY <2>1, <2>2 DEF Name
  <2>4. AskedFor(type, x) = <<Share("_ZONE", Name(x.domain, FALSE))>>
      BY <1>2, <1>5 DEF AskedFor
  <2> QED BY <2>1, <2>3, <2>4
<1>6. CASE kind \in {"ip", "net"}
  <2>1. Attribute(kind, x) = Subnet(x) /\ Group(kind, x) = "_SUBNET"
      BY <1>6 DEF Attribute, Group
  <2>2. Attribute(kind, x) # Empty
      BY <2>1 DEF Name, Subnet
  <2>3. kind = "net" => x.len = "shared"
      BY DEF Group
  <2>4. AskedFor(type, x) = <<Share("_SUBNET", Subnet(x))>>
      BY <1>2, <1>6, <2>3 DEF AskedFor
  <2> QED BY <2>1, <2>2, <2>4
<1>7. CASE kind = "repo"
  <2>1. Attribute(kind, x) = Word(x.org) /\ Group(kind, x) = "_REPO_ORG"
      BY <1>7 DEF Attribute, Group
  <2>2. Attribute(kind, x) # Empty
      BY <2>1 DEF Name, Word
  <2>3. AskedFor(type, x) = <<Share("_REPO_ORG", Word(x.org))>>
      BY <1>2, <1>7 DEF AskedFor
  <2> QED BY <2>1, <2>2, <2>3
<1> QED BY <1>2, <1>3, <1>4, <1>5, <1>6, <1>7

PartTypes == {"PATH_SEGMENT", "HOSTNAME", "IP_ADDRESS"}

\* Another value asks for the substitutes of its pieces only.
LEMMA AsksForParts ==
    ASSUME NEW type, NEW x, WellMade(x), Group(Kind(type, x), x) = "none"
    PROVE  /\ IsSeq(AskedFor(type, x))
           /\ \A j \in 1..Len(AskedFor(type, x)) :
                 \E t \in PartTypes, y \in Inside(x) :
                    /\ AskedFor(type, x)[j] = Part(t, y)
                    /\ x.k = "url" /\ y.k = "ip" => t = "IP_ADDRESS" \/ y \in Pieces(x.port)
           /\ x.k = "path" => Len(AskedFor(type, x)) = Cardinality(Masked(x))
           /\ x.k \in {"url", "mailto"} => Len(AskedFor(type, x)) \in Nat \ {0}
<1> DEFINE kind == Kind(type, x)
           Good(a) == \E t \in PartTypes, y \in Inside(x) :
                         /\ a = Part(t, y)
                         /\ x.k = "url" /\ y.k = "ip"
                               => t = "IP_ADDRESS" \/ y \in Pieces(x.port)
<1>1. Proper(x)
    BY DEF WellMade
<1>2. /\ kind \notin {"host", "ip", "email", "repo", "image"}
      /\ kind = "net" => x.k = "net" /\ x.len # "shared"
    BY KindIs DEF Group
<1>3. \A a : IsSeq(<<a>>) /\ Len(<<a>>) = 1 /\ <<a>>[1] = a
  <2> SUFFICES ASSUME NEW a PROVE IsSeq(<<a>>) /\ Len(<<a>>) = 1 /\ <<a>>[1] = a
      OBVIOUS
  <2>1. <<a>> \in Seq({a}) /\ Len(<<a>>) = 1 /\ <<a>>[1] = a
      OBVIOUS
  <2> QED BY <2>1, SeqIs
<1>4. IsSeq(<<>>) /\ Len(<<>>) = 0
    BY EmptySeq DEF IsSeq
<1>5. CASE x.k = "path"
  <2> DEFINE m == MaskedInOrder(x)  C == Cardinality(Masked(x))
  <2>1. IsSeq(x.segs)
      BY <1>1, <1>5 DEF Proper
  <2>2. C \in Nat /\ DOMAIN m = 1..C /\ \A j \in 1..C : m[j] \in 1..Len(x.segs)
      BY <2>1, MaskedSegments DEF MaskedInOrder
  <2>3. Inside(x) = Pieces(x.segs) /\ DOMAIN x.segs = 1..Len(x.segs)
      BY <1>5, <2>1, SeqFacts DEF Inside
  <2>4. AskedFor(type, x) = [j \in 1..C |-> Part("PATH_SEGMENT", x.segs[m[j]])]
      BY <1>2, <1>5, <2>2 DEF AskedFor
  <2> HIDE DEF m, C
  <2>5. \A j \in 1..C : Good(Part("PATH_SEGMENT", x.segs[m[j]]))
    <3> SUFFICES ASSUME NEW j \in 1..C PROVE Good(Part("PATH_SEGMENT", x.segs[m[j]]))
        OBVIOUS
    <3> DEFINE y == x.segs[m[j]]
    <3>1. y \in Inside(x) /\ "PATH_SEGMENT" \in PartTypes
        BY <2>2, <2>3 DEF Pieces, PartTypes
    <3> HIDE DEF y
    <3>2. Good(Part("PATH_SEGMENT", y))
        BY <1>5, <3>1
    <3> QED BY <3>2 DEF y
  <2> DEFINE P == {Part("PATH_SEGMENT", y) : y \in Inside(x)}
  <2>6. \A j \in 1..C : Part("PATH_SEGMENT", x.segs[m[j]]) \in P
      BY <2>2, <2>3 DEF Pieces
  <2>7. AskedFor(type, x) \in Seq(P) /\ Len(AskedFor(type, x)) = C
      BY <2>2, <2>4, <2>6
  <2>8. IsSeq(AskedFor(type, x))
      BY <2>7, SeqIs
  <2>9. \A j \in 1..C : AskedFor(type, x)[j] = Part("PATH_SEGMENT", x.segs[m[j]])
      BY <2>4
  <2> QED BY <1>5, <2>5, <2>7, <2>8, <2>9 DEF C
<1>6. CASE x.k = "mailto"
  <2>1. AskedFor(type, x) = <<Part("HOSTNAME", x.host)>> /\ Good(Part("HOSTNAME", x.host))
      BY <1>2, <1>6 DEF AskedFor, Inside, PartTypes
  <2> QED BY <1>3, <1>6, <2>1
<1>7. CASE x.k = "url"
  <2> DEFINE h == Part(IF x.host.k = "ip" THEN "IP_ADDRESS" ELSE "HOSTNAME", x.host)
             p == Part("HOSTNAME", x.port[1])
  <2>1. AskedFor(type, x)
            = (IF x.port = <<>> \/ IsPort(x.port[1]) THEN <<>> ELSE <<p>>) \o <<h>>
      BY <1>2, <1>7 DEF AskedFor
  <2>2. Good(h)
      BY <1>7 DEF Inside, PartTypes
  <2>3. x.port # <<>> => Good(p)
    <3>1. IsSeq(x.port)
        BY <1>1, <1>7 DEF Proper
    <3>2. x.port # <<>> => x.port[1] \in Pieces(x.port)
        BY <3>1, SeqFacts DEF Pieces
    <3> QED BY <1>7, <3>2 DEF Inside, PartTypes
  <2> HIDE DEF h, p
  <2>4. CASE x.port = <<>> \/ IsPort(x.port[1])
    <3>1. AskedFor(type, x) = <<h>>
        BY <2>1, <2>4, ConcatEmptySeq, <1>3 DEF IsSeq
    <3> QED BY <1>3, <1>7, <2>2, <3>1
  <2>5. CASE ~(x.port = <<>> \/ IsPort(x.port[1]))
    <3>1. AskedFor(type, x) = Push(<<h>>, p)
        BY <2>1, <2>5 DEF Push
    <3>2. /\ IsSeq(Push(<<h>>, p)) /\ Len(Push(<<h>>, p)) = 2 /\ Push(<<h>>, p)[1] = p
          /\ Push(<<h>>, p)[2] = h
      <4> DEFINE s == <<h>>
      <4>1. IsSeq(s) /\ Len(s) = 1 /\ s[1] = h
          BY <1>3
      <4> HIDE DEF s
      <4>2. /\ IsSeq(Push(s, p)) /\ Len(Push(s, p)) = Len(s) + 1 /\ Push(s, p)[1] = p
            /\ \A i \in 2..(Len(s) + 1) : Push(s, p)[i] = s[i - 1]
          BY <4>1, Pushed
      <4>3. Push(s, p)[2] = s[2 - 1]
          BY <4>1, <4>2
      <4> QED BY <4>1, <4>2, <4>3 DEF s
    <3> QED BY <1>7, <2>2, <2>3, <2>5, <3>1, <3>2
  <2> QED BY <2>4, <2>5
<1>8. CASE x.k \notin {"path", "mailto", "url"}
  <2>1. AskedFor(type, x) = <<>>
      BY <1>2, <1>8 DEF AskedFor
  <2> QED BY <1>4, <1>8, <2>1
<1> QED BY <1>5, <1>6, <1>7, <1>8

----------------------------------------------------------------------------
(* What a substitute keeps. *)

LEMMA TailOfPush ==
    ASSUME NEW s, IsSeq(s), NEW f
    PROVE  Tail(Push(s, f)) = s
<1> DEFINE p == Push(s, f)  S == Pieces(s) \cup Pieces(p)
<1>1. /\ IsSeq(p) /\ Len(p) = Len(s) + 1 /\ Len(s) \in Nat
      /\ \A i \in 2..(Len(s) + 1) : p[i] = s[i - 1]
    BY Pushed, SeqFacts
<1> HIDE DEF p
<1>2. p # <<>>
    BY <1>1, EmptySeq DEF IsSeq
<1>3. s \in Seq(S) /\ p \in Seq(S)
    BY <1>1, SeqMonotonic DEF IsSeq
<1>4. Tail(p) \in Seq(S) /\ Len(Tail(p)) = Len(s)
      /\ \A i \in 1..Len(s) : Tail(p)[i] = p[i + 1]
    BY <1>1, <1>2, <1>3, HeadTailProperties
<1>5. \A i \in 1..Len(s) : Tail(p)[i] = s[i]
    BY <1>1, <1>4
<1> QED BY <1>3, <1>4, <1>5, SeqEqual DEF p

\* The texts that stand for what values share, real and fake.
Shape(group, n) ==
    CASE group \in {"_ZONE", "_REGISTRY"} ->
            n = Name(n.labels, FALSE) /\ IsSeq(n.labels) /\ n.labels # <<>>
      [] group = "_REPO_ORG" -> n = Word(n.labels[1])
      [] group = "_SUBNET" -> n = [k |-> "ip", net |-> n.net, host |-> 0]

\* A set of numbers up to a bound has a greatest one.
LEMMA Greatest ==
    ASSUME NEW b \in Nat, NEW T \in SUBSET (1..b), T # {}
    PROVE  \E n \in T : \A m \in T : m <= n
<1> DEFINE R == OpToRel(<, Nat)  U == {u \in Nat : b - u \in T}
<1>1. IsWellFoundedOn(R, Nat)
    BY NatLessThanWellFounded
<1>2. \A a, c \in Nat : a < c => <<a, c>> \in R
    BY DEF OpToRel
<1>3. U # {} /\ U \subseteq Nat
  <2>1. PICK m \in T : TRUE
      OBVIOUS
  <2>2. b - m \in Nat /\ b - (b - m) = m
      BY <2>1
  <2>3. b - m \in U
      BY <2>1, <2>2
  <2> QED BY <2>3
<1> HIDE DEF R
<1>4. PICK u \in U : \A v \in U : ~(<<v, u>> \in R)
    BY <1>1, <1>3, WFMin
<1>5. ASSUME NEW m \in T PROVE m <= b - u
  <2>1. b - m \in Nat /\ b - (b - m) = m /\ u \in Nat /\ m \in Int
      BY <1>4
  <2>2. b - m \in U
      BY <2>1
  <2>3. ~(b - m < u)
      BY <1>2, <1>4, <2>1, <2>2
  <2> QED BY <2>1, <2>3
<1>6. b - u \in T
    BY <1>4
<1> QED BY <1>5, <1>6

\* An internal part is some labels.
LEMMA InternalPartIs ==
    ASSUME NEW zone, IsSeq(zone)
    PROVE  /\ IsSeq(InternalPart(zone))
           /\ InternalPart(zone) = <<"internal">> \/ InternalPart(zone) \in InternalSuffix
<1> DEFINE ns == {n \in 1..Len(zone) : Suffix(zone, n) \in InternalSuffix}
           top == CHOOSE n \in ns : \A m \in ns : m <= n
<1>1. Len(zone) \in Nat /\ DOMAIN zone = 1..Len(zone)
    BY SeqFacts
<1>2. CASE ns = {}
  <2>1. InternalPart(zone) = <<"internal">>
      BY <1>2 DEF InternalPart
  <2>2. <<"internal">> \in Seq({"internal"})
      OBVIOUS
  <2> QED BY <2>1, <2>2, SeqIs
<1>3. CASE ns # {}
  <2>1. top \in ns
    <3>1. \E n \in ns : \A m \in ns : m <= n
      <4>1. ns \in SUBSET (1..Len(zone))
          OBVIOUS
      <4> HIDE DEF ns
      <4> QED BY <1>1, <1>3, <4>1, Greatest
    <3> QED BY <3>1
  <2>2. InternalPart(zone) = SubSeq(zone, Len(zone) - top + 1, Len(zone))
      BY <1>3 DEF InternalPart, Suffix
  <2>3. top \in 1..Len(zone) /\ InternalPart(zone) \in InternalSuffix
      BY <1>3, <2>1 DEF InternalPart
  <2> HIDE DEF top
  <2> DEFINE a == Len(zone) - top + 1
  <2>4. a \in 1..Len(zone)
      BY <1>1, <2>3
  <2>5. \A i \in a..Len(zone) : zone[i] \in Pieces(zone)
      BY <1>1, <2>4 DEF Pieces
  <2> HIDE DEF a
  <2>6. SubSeq(zone, a, Len(zone)) \in Seq(Pieces(zone))
      BY <1>1, <2>4, <2>5, SubSeqProperties
  <2> QED BY <2>2, <2>3, <2>6, SeqIs DEF a
<1> QED BY <1>2, <1>3

\* A fake attribute has the shape of the attribute.
LEMMA FakeShape ==
    ASSUME NEW group \in Shareds, NEW x, Shape(group, x), NEW t
    PROVE  Shape(group, FakeShared(group, x, t))
<1> DEFINE c == FakeShared(group, x, t)
<1>1. ASSUME NEW l, IsSeq(l), l # <<>>, group \in {"_ZONE", "_REGISTRY"}, c = Name(l, FALSE)
      PROVE  Shape(group, c)
  <2>1. c.labels = l
      BY <1>1, NameIs
  <2> QED BY <1>1, <2>1 DEF Shape
<1>2. CASE group = "_ZONE"
  <2> DEFINE org == Combo("zone", x, Pieces(x.labels), t)
  <2>1. IsSeq(x.labels)
      BY <1>2 DEF Shape
  <2>2. c = FakeZone(x, t)
      BY <1>2 DEF FakeShared
  <2>3. CASE Internal(x.labels) \/ x.labels \in InternalSuffix
    <3>1. c = Name(Push(InternalPart(x.labels), org), FALSE)
        BY <2>2, <2>3 DEF FakeZone, Push
    <3>2. IsSeq(InternalPart(x.labels))
        BY <2>1, InternalPartIs
    <3> HIDE DEF org
    <3>3. IsSeq(Push(InternalPart(x.labels), org)) /\ Len(InternalPart(x.labels)) \in Nat
          /\ Len(Push(InternalPart(x.labels), org)) = Len(InternalPart(x.labels)) + 1
        BY <3>2, Pushed, SeqFacts
    <3>4. Push(InternalPart(x.labels), org) # <<>>
        BY <3>3, EmptySeq
    <3> QED BY <1>1, <1>2, <3>1, <3>3, <3>4
  <2>4. CASE ~(Internal(x.labels) \/ x.labels \in InternalSuffix)
    <3> DEFINE tld == Draw("tld", x, 0, 0)
    <3>1. c = Name(<<org, tld>>, FALSE)
        BY <2>2, <2>4 DEF FakeZone
    <3> HIDE DEF org, tld
    <3>2. <<org, tld>> \in Seq({org, tld}) /\ Len(<<org, tld>>) = 2
        OBVIOUS
    <3>3. IsSeq(<<org, tld>>) /\ <<org, tld>> # <<>>
        BY <3>2, SeqIs, EmptySeq
    <3> QED BY <1>1, <1>2, <3>1, <3>3
  <2> QED BY <2>3, <2>4
<1>3. CASE group = "_REGISTRY"
  <2> DEFINE w == Combo("registry", x, Pieces(x.labels), t)  h == RegistryHost(x, t)
  <2>1. c = Name(<<h, w, "io">>, FALSE)
      BY <1>3 DEF FakeShared, FakeRegistry
  <2> HIDE DEF w, h
  <2>2. <<h, w, "io">> \in Seq({h, w, "io"}) /\ Len(<<h, w, "io">>) = 3
      OBVIOUS
  <2>3. IsSeq(<<h, w, "io">>) /\ <<h, w, "io">> # <<>>
      BY <2>2, SeqIs, EmptySeq
  <2> QED BY <1>1, <1>3, <2>1, <2>3
<1>4. CASE group = "_REPO_ORG"
  <2> DEFINE w == Combo("repo-org", x, Pieces(x.labels), t)
  <2>1. c = Word(w)
      BY <1>4 DEF FakeShared, FakeOrg
  <2> HIDE DEF w, c
  <2>2. c = Name(<<w>>, FALSE)
      BY <2>1 DEF Word
  <2>3. c.labels = <<w>>
      BY <2>2, NameIs
  <2>4. c.labels[1] = w
      BY <2>3
  <2>5. Shape(group, c)
      BY <1>4, <2>1, <2>4 DEF Shape
  <2> QED BY <2>5 DEF c
<1>5. CASE group = "_SUBNET"
  <2> DEFINE d == DrawNet(Private(x.net), x.net, 0, t)
  <2>1. c = [x EXCEPT !.net = d]
      BY <1>5 DEF FakeShared, FakeSubnet
  <2>2. x = [k |-> "ip", net |-> x.net, host |-> 0]
      BY <1>5 DEF Shape
  <2> HIDE DEF d, c
  <2>3. c = [k |-> "ip", net |-> d, host |-> 0]
      BY <2>1, <2>2
  <2>4. c.net = d
      BY <2>3
  <2>5. Shape(group, c)
      BY <1>5, <2>3, <2>4 DEF Shape
  <2> QED BY <2>5 DEF c
<1> QED BY <1>2, <1>3, <1>4, <1>5 DEF Shareds

\* What the engine is called for: a type that is no type of row, and a well-made text.
Legit(type, x) == type \notin Shareds \cup Kinds /\ WellMade(x)

\* The row of a value says what the value shares.
LEMMA StoredKeeps ==
    ASSUME NEW type, NEW x, Legit(type, x)
    PROVE  LET kind == Kind(type, x)  real == Stored(type, x)
           IN  /\ real.k = x.k /\ Inside(real) = Inside(x)
               /\ Key(type, x) \notin Shareds
               /\ Group(Key(type, x), real) = Group(kind, x)
               /\ Group(kind, x) # "none" => /\ Key(type, x) = kind
                                             /\ Attribute(kind, real) = Attribute(kind, x)
<1> DEFINE kind == Kind(type, x)  real == Stored(type, x)
<1>1. Proper(x)
    BY DEF Legit, WellMade
<1>2. /\ kind \in Kinds
      /\ kind \in {"ip", "net", "email", "repo", "image"} => x.k = kind
      /\ kind = "host" => x.k = "name"
    BY KindIs
<1>3. DOMAIN x = {"k"} \cup Fields[x.k] /\ x.k \in DOMAIN Fields
    BY <1>1 DEF Proper
<1>4. \A z : /\ DOMAIN Lower(z) = DOMAIN z
             /\ \A a \in DOMAIN z : a # "cap" => Lower(z)[a] = z[a]
    BY DEF Lower
<1>5. \A z : /\ DOMAIN StripUserinfo(z) = DOMAIN z
             /\ \A a \in DOMAIN z : a # "user" => StripUserinfo(z)[a] = z[a]
    BY DEF StripUserinfo
<1>6. \A z : /\ DOMAIN StripRootSlash(z) = DOMAIN z
             /\ \A a \in DOMAIN z : a # "slash" => StripRootSlash(z)[a] = z[a]
    BY DEF StripRootSlash
<1>7. /\ DOMAIN Normalized(type, x) = DOMAIN x
      /\ \A a \in DOMAIN x : a \notin {"user", "slash"} => Normalized(type, x)[a] = x[a]
    BY <1>5, <1>6 DEF Normalized
<1>8. /\ DOMAIN real = DOMAIN x
      /\ \A a \in DOMAIN x : a \notin {"user", "slash", "cap"} => real[a] = x[a]
    BY <1>4, <1>7 DEF Stored
<1>9. real.k = x.k
    BY <1>3, <1>8
<1>10. Inside(real) = Inside(x)
  <2>1. CASE x.k = "url"
      BY <1>3, <1>8, <1>9, <2>1 DEF Inside, Fields
  <2>2. CASE x.k = "mailto"
      BY <1>3, <1>8, <1>9, <2>2 DEF Inside, Fields
  <2>3. CASE x.k = "path"
      BY <1>3, <1>8, <1>9, <2>3 DEF Inside, Fields
  <2>4. CASE x.k \notin {"url", "mailto", "path"}
      BY <1>9, <2>4 DEF Inside
  <2> QED BY <2>1, <2>2, <2>3, <2>4
<1>11. kind = "generic" => Key(type, x) = type /\ type \notin Kinds
    BY DEF Key, Legit
<1>12. kind # "generic" => Key(type, x) = kind
    BY DEF Key
<1>13. Key(type, x) \notin Shareds
    BY <1>2, <1>11, <1>12 DEF Legit, Kinds, Shareds
<1>14. kind = "net" => real.len = x.len
    BY <1>2, <1>3, <1>8 DEF Fields
<1>15. Group(Key(type, x), real) = Group(kind, x)
    BY <1>2, <1>11, <1>12, <1>14 DEF Group, Kinds
<1>16. ASSUME Group(kind, x) # "none"
       PROVE  Key(type, x) = kind /\ Attribute(kind, real) = Attribute(kind, x)
  <2>1. kind \in {"host", "ip", "net", "email", "repo", "image"}
      BY <1>2, <1>16 DEF Group, Kinds
  <2>2. CASE kind = "host"
    <3>1. "labels" \in DOMAIN x
        BY <1>2, <1>3, <2>2 DEF Fields
    <3>2. real.labels = x.labels
        BY <1>8, <3>1
    <3> QED BY <1>12, <2>2, <3>2 DEF Attribute
  <2>3. CASE kind = "email"
    <3>1. "domain" \in DOMAIN x
        BY <1>2, <1>3, <2>3 DEF Fields
    <3>2. real.domain = x.domain
        BY <1>8, <3>1
    <3> QED BY <1>12, <2>3, <3>2 DEF Attribute
  <2>4. CASE kind \in {"ip", "net"}
    <3>1. "net" \in DOMAIN x
        BY <1>2, <1>3, <2>4 DEF Fields
    <3>2. real.net = x.net
        BY <1>8, <3>1
    <3> QED BY <1>12, <2>4, <3>2 DEF Attribute, Subnet
  <2>5. CASE kind = "repo"
    <3>1. "org" \in DOMAIN x
        BY <1>2, <1>3, <2>5 DEF Fields
    <3>2. real.org = x.org
        BY <1>8, <3>1
    <3> QED BY <1>12, <2>5, <3>2 DEF Attribute
  <2>6. CASE kind = "image"
    <3>1. "registry" \in DOMAIN x
        BY <1>2, <1>3, <2>6 DEF Fields
    <3>2. real.registry = x.registry
        BY <1>8, <3>1
    <3> QED BY <1>12, <2>6, <3>2 DEF Attribute
  <2> QED BY <2>1, <2>2, <2>3, <2>4, <2>5, <2>6
<1> QED BY <1>9, <1>10, <1>13, <1>15, <1>16

\* An attribute has the shape of its group.
LEMMA AttributeShape ==
    ASSUME NEW type, NEW x, WellMade(x), Group(Kind(type, x), x) # "none",
           Attribute(Kind(type, x), x) # Name(<<>>, FALSE)
    PROVE  Shape(Group(Kind(type, x), x), Attribute(Kind(type, x), x))
<1> DEFINE kind == Kind(type, x)  G == Group(kind, x)  A == Attribute(kind, x)
<1>1. Proper(x)
    BY DEF WellMade
<1>2. /\ kind \in {"host", "ip", "net", "email", "repo", "image"}
      /\ kind \in {"ip", "net", "email", "repo", "image"} => x.k = kind
      /\ kind = "host" => x.k = "name"
    BY KindIs DEF Group, Kinds
<1>3. ASSUME NEW l, l \in Seq(STRING), A = Name(l, FALSE), G \in {"_ZONE", "_REGISTRY"}
      PROVE  Shape(G, A)
  <2>1. A.labels = l
      BY <1>3, NameIs
  <2>2. l # <<>>
      BY <1>3
  <2> QED BY <1>3, <2>1, <2>2, SeqIs DEF Shape
<1>4. CASE kind = "host"
  <2>1. x.labels \in Seq(STRING) /\ x.labels # <<>>
      BY <1>1, <1>2, <1>4 DEF Proper
  <2>2. Zone(x.labels) \in Seq(STRING)
      BY <2>1, HeadTailProperties DEF Zone
  <2>3. A = Name(Zone(x.labels), FALSE) /\ G = "_ZONE"
      BY <1>4 DEF Attribute, Group
  <2> QED BY <1>3, <2>2, <2>3
<1>5. CASE kind = "email"
  <2>1. x.domain \in Seq(STRING)
      BY <1>1, <1>2, <1>5 DEF Proper
  <2>2. A = Name(x.domain, FALSE) /\ G = "_ZONE"
      BY <1>5 DEF Attribute, Group
  <2> QED BY <1>3, <2>1, <2>2
<1>6. CASE kind = "image"
  <2>1. x.registry \in Seq(STRING)
      BY <1>1, <1>2, <1>6 DEF Proper
  <2>2. A = Name(x.registry, FALSE) /\ G = "_REGISTRY"
      BY <1>6 DEF Attribute, Group
  <2> QED BY <1>3, <2>1, <2>2
<1>7. CASE kind \in {"ip", "net"}
  <2>1. A = [k |-> "ip", net |-> x.net, host |-> 0] /\ G = "_SUBNET"
      BY <1>7 DEF Attribute, Group, Subnet
  <2>2. A.net = x.net
      BY <2>1
  <2> QED BY <2>1, <2>2 DEF Shape
<1>8. CASE kind = "repo"
  <2>1. A = Word(x.org) /\ G = "_REPO_ORG"
      BY <1>8 DEF Attribute, Group
  <2>2. A = Name(<<x.org>>, FALSE)
      BY <2>1 DEF Word
  <2>3. A.labels = <<x.org>>
      BY <2>2, NameIs
  <2>4. A.labels[1] = x.org
      BY <2>3
  <2> QED BY <2>1, <2>4 DEF Shape
<1> QED BY <1>2, <1>4, <1>5, <1>6, <1>7, <1>8

\* The candidate of a value carries the substitute of the attribute, or has none
\* where the value has none.
Carries(kind, x, c, n) ==
    /\ Attribute(kind, x) = Name(<<>>, FALSE) => Attribute(kind, c) = Name(<<>>, FALSE)
    /\ Attribute(kind, x) # Name(<<>>, FALSE)
           => (Shape(Group(kind, x), n) => Attribute(kind, c) = n)
LEMMA CandidateShares ==
    ASSUME NEW type, NEW x, WellMade(x), NEW t, NEW names, NEW day,
           Group(Kind(type, x), x) # "none"
    PROVE  Carries(Kind(type, x), x, Candidate(type, x, t, names, day), names[1])
<1> DEFINE kind == Kind(type, x)  G == Group(kind, x)  A == Attribute(kind, x)
           Empty == Name(<<>>, FALSE)
<1> SUFFICES ASSUME NEW c, c = Candidate(type, x, t, names, day)
             PROVE  Carries(kind, x, c, names[1])
    OBVIOUS
<1>1. Proper(x)
    BY DEF WellMade
<1>2. /\ kind \in {"host", "ip", "net", "email", "repo", "image"}
      /\ kind \in {"ip", "net", "email", "repo", "image"} => x.k = kind
      /\ kind = "host" => x.k = "name"
    BY KindIs DEF Group, Kinds
<1>3. DOMAIN x = {"k"} \cup Fields[x.k]
    BY <1>1 DEF Proper
<1>4. CASE kind = "host"
  <2> DEFINE w == FakeShort(x.labels[1], t)
             tail == IF Len(x.labels) = 1 THEN <<>> ELSE names[1].labels
  <2>1. c = Name(Push(tail, w), FALSE)
      BY <1>4 DEF Candidate, FakeHost, Push
  <2>2. A = Name(Zone(x.labels), FALSE) /\ G = "_ZONE"
      BY <1>4 DEF Attribute, Group
  <2>3. x.labels \in Seq(STRING) /\ x.labels # <<>>
      BY <1>1, <1>2, <1>4 DEF Proper
  <2>4. A = Empty <=> Len(x.labels) = 1
    <3>1. Zone(x.labels) \in Seq(STRING) /\ Len(Zone(x.labels)) = Len(x.labels) - 1
        BY <2>3, HeadTailProperties DEF Zone
    <3>2. Len(x.labels) \in Nat /\ (Zone(x.labels) = <<>> <=> Len(Zone(x.labels)) = 0)
        BY <2>3, <3>1, LenProperties, EmptySeq
    <3>3. A = Empty <=> Zone(x.labels) = <<>>
        BY <2>2, NameIs
    <3> HIDE DEF A, Empty
    <3> QED BY <3>1, <3>2, <3>3
  <2> HIDE DEF w
  <2>5. IsSeq(tail) => Attribute(kind, c) = Name(tail, FALSE)
    <3> HIDE DEF tail
    <3>1. Attribute(kind, c) = Name(Zone(c.labels), FALSE)
        BY <1>4 DEF Attribute
    <3>2. c.labels = Push(tail, w)
        BY <2>1, NameIs
    <3> QED BY <3>1, <3>2, TailOfPush DEF Zone
  <2>6. IsSeq(<<>>)
      BY EmptySeq DEF IsSeq
  <2>7. Shape(G, names[1]) => names[1] = Name(names[1].labels, FALSE) /\ IsSeq(names[1].labels)
      BY <2>2 DEF Shape
  <2>8. A = Empty => Attribute(kind, c) = Empty
      BY <2>4, <2>5, <2>6
  <2>9. A # Empty /\ Shape(G, names[1]) => Attribute(kind, c) = names[1]
      BY <2>4, <2>5, <2>7
  <2> QED BY <2>8, <2>9 DEF Carries
<1>5. CASE kind = "email"
  <2>1. c = FakeEmail(x, t, names)
      BY <1>5 DEF Candidate
  <2>2. A = Name(x.domain, FALSE) /\ G = "_ZONE" /\ x.domain # <<>>
      BY <1>1, <1>2, <1>5 DEF Attribute, Group, Proper
  <2>3. A # Empty
      BY <2>2 DEF Name
  <2>4. c.domain = names[1].labels
    <3> DEFINE l == <<Combo("local", Lower(x), Atoms(x), t), LastName(Lower(x), t)>>
    <3>1. c = [x EXCEPT !.local = l, !.domain = names[1].labels, !.cap = FALSE]
        BY <2>1 DEF FakeEmail
    <3> HIDE DEF l
    <3>2. "domain" \in DOMAIN x
        BY <1>2, <1>3, <1>5 DEF Fields
    <3> QED BY <3>1, <3>2
  <2>5. Attribute(kind, c) = Name(c.domain, FALSE)
      BY <1>5 DEF Attribute
  <2> QED BY <2>2, <2>3, <2>4, <2>5 DEF Shape, Carries
<1>6. CASE kind = "image"
  <2>1. c = FakeImage(x, t, names)
      BY <1>6 DEF Candidate
  <2>2. A = Name(x.registry, FALSE) /\ G = "_REGISTRY"
      BY <1>6 DEF Attribute, Group
  <2>3. A = Empty <=> x.registry = <<>>
      BY <2>2, NameIs
  <2>4. c.registry = IF x.registry = <<>> THEN <<>> ELSE names[1].labels
    <3> DEFINE p == [i \in DOMAIN x.path |->
                        Combo("image-part", Word(x.path[i]), {x.path[i]}, t)]
               g == [i \in DOMAIN x.tag |->
                           IF Word(x.tag[i]) \in Public THEN x.tag[i]
                           ELSE Combo("image-tag", Word(x.tag[i]), {x.tag[i]}, t)]
    <3>1. "registry" \in DOMAIN x /\ "path" \in DOMAIN x /\ "tag" \in DOMAIN x
        BY <1>2, <1>3, <1>6 DEF Fields
    <3>2. c = [x EXCEPT !.registry = IF x.registry = <<>> THEN <<>> ELSE names[1].labels,
                        !.path = p, !.tag = g]
        BY <2>1, <3>1 DEF FakeImage
    <3> HIDE DEF p, g
    <3> QED BY <3>1, <3>2
  <2>5. Attribute(kind, c) = Name(c.registry, FALSE)
      BY <1>6 DEF Attribute
  <2> QED BY <2>2, <2>3, <2>4, <2>5 DEF Shape, Carries
<1>7. CASE kind \in {"ip", "net"}
  <2>1. A = Subnet(x) /\ G = "_SUBNET" /\ (kind = "net" => x.len = "shared")
      BY <1>7 DEF Attribute, Group
  <2>2. A # Empty
      BY <2>1 DEF Name, Subnet
  <2>3. c.net = names[1].net
    <3>1. "net" \in DOMAIN x /\ (kind = "ip" => "host" \in DOMAIN x)
        BY <1>2, <1>3, <1>7 DEF Fields
    <3>2. CASE kind = "ip"
      <4>1. c = [x EXCEPT !.net = names[1].net, !.host = DrawHost(x, t)]
          BY <3>2 DEF Candidate
      <4> QED BY <3>1, <4>1
    <3>3. CASE kind = "net"
      <4>1. x.len = "shared"
          BY <2>1, <3>3
      <4>2. c = FakeSharedNet(x, names)
          BY <3>3, <4>1 DEF Candidate
      <4> QED BY <3>1, <4>2 DEF FakeSharedNet
    <3> QED BY <1>7, <3>2, <3>3
  <2>4. Attribute(kind, c) = [k |-> "ip", net |-> c.net, host |-> 0]
      BY <1>7 DEF Attribute, Subnet
  <2> QED BY <2>1, <2>2, <2>3, <2>4 DEF Shape, Carries
<1>8. CASE kind = "repo"
  <2>1. c = FakeRepo(x, t, names)
      BY <1>8 DEF Candidate
  <2>2. A = Word(x.org) /\ G = "_REPO_ORG"
      BY <1>8 DEF Attribute, Group
  <2>3. A # Empty
      BY <2>2 DEF Name, Word
  <2>4. c.org = names[1].labels[1]
    <3> DEFINE n == Combo("repo-name", Word(x.name), {x.name}, t)
               u == IF x.form = "ssh" /\ x.user[1] = "git" THEN <<"git">> ELSE <<>>
               f == IF x.form = "ssh" /\ x.user[1] # "git" THEN "bare" ELSE x.form
               s == x.form = "ssh" /\ x.user[1] = "git"
    <3>1. "org" \in DOMAIN x /\ "form" \in DOMAIN x
        BY <1>2, <1>3, <1>8 DEF Fields
    <3>2. c = [x EXCEPT !.org = names[1].labels[1], !.name = n, !.user = u, !.form = f,
                        !.suffix = s]
        BY <2>1, <3>1 DEF FakeRepo
    <3> HIDE DEF n, u, f, s
    <3> QED BY <3>1, <3>2
  <2>5. Attribute(kind, c) = Word(c.org)
      BY <1>8 DEF Attribute
  <2> QED BY <2>2, <2>3, <2>4, <2>5 DEF Shape, Carries
<1> QED BY <1>2, <1>4, <1>5, <1>6, <1>7, <1>8

\* The texts inside a value that its candidates repeat: the segments of a path that do
\* not leave it, and a port that is a number.
Keeps(x) ==
    CASE x.k = "path" -> {x.segs[i] : i \in DOMAIN x.segs \ Masked(x)}
      [] x.k = "url" -> IF x.port = <<>> \/ IsPort(x.port[1]) THEN Pieces(x.port) ELSE {}
      [] OTHER -> {}

LEMMA KeepsInside == \A x : Keeps(x) \subseteq Inside(x)
    BY DEF Keeps, Inside, Pieces

\* A candidate is a text of some kind, whose pieces are pieces of the value that stay or
\* what the value was told.
LEMMA CandidateIs ==
    ASSUME NEW type, NEW x, WellMade(x), NEW t, NEW names, NEW day,
           IsSeq(names), Len(names) = Len(AskedFor(type, x))
    PROVE  LET c == Candidate(type, x, t, names, day)
           IN  /\ c.k \in DOMAIN Fields
               /\ \A y \in Inside(c) : y \in Keeps(x) \/ \E j \in 1..Len(names) : y = names[j]
               /\ Group(Kind(type, x), x) # "none" => Inside(c) = {}
<1> DEFINE kind == Kind(type, x)
           From(y) == y \in Keeps(x) \/ \E j \in 1..Len(names) : y = names[j]
<1> SUFFICES ASSUME NEW c, c = Candidate(type, x, t, names, day)
             PROVE  /\ c.k \in DOMAIN Fields /\ \A y \in Inside(c) : From(y)
                    /\ Group(kind, x) # "none" => Inside(c) = {}
    OBVIOUS
<1>1. Proper(x)
    BY DEF WellMade
<1>2. DOMAIN x = {"k"} \cup Fields[x.k] /\ x.k \in DOMAIN Fields
    BY <1>1 DEF Proper
<1>3. /\ kind \in Kinds
      /\ kind \in {"ip", "net", "email", "repo", "image"} => x.k = kind
      /\ kind = "host" => x.k = "name"
      /\ kind = "date" => x.k = "dates"
    BY KindIs
<1>4. ASSUME c.k = x.k \/ c.k = "name", x.k \notin {"url", "mailto", "path"}
      PROVE  c.k \in DOMAIN Fields /\ (\A y \in Inside(c) : From(y)) /\ Inside(c) = {}
  <2>1. Inside(c) = {}
      BY <1>4 DEF Inside
  <2>2. "name" \in DOMAIN Fields
      BY DEF Fields
  <2> QED BY <1>2, <1>4, <2>1, <2>2
<1>5. \A l : Name(l, FALSE).k = "name"
    BY NameIs
<1>6. CASE kind = "host"
  <2>1. c.k = "name"
      BY <1>5, <1>6 DEF Candidate, FakeHost
  <2> QED BY <1>3, <1>4, <1>6, <2>1
<1>7. CASE kind = "ip"
  <2>1. c = [x EXCEPT !.net = names[1].net, !.host = DrawHost(x, t)]
      BY <1>7 DEF Candidate
  <2>2. c.k = x.k
      BY <1>2, <2>1
  <2> QED BY <1>3, <1>4, <1>7, <2>2
<1>8. CASE kind = "net"
  <2>1. c = IF x.len = "shared" THEN FakeSharedNet(x, names) ELSE FakeNetwork(x, t)
      BY <1>8 DEF Candidate
  <2>2. FakeSharedNet(x, names).k = x.k
      BY <1>2 DEF FakeSharedNet
  <2>3. FakeNetwork(x, t).k = x.k
      BY <1>2 DEF FakeNetwork
  <2> QED BY <1>3, <1>4, <1>8, <2>1, <2>2, <2>3
<1>9. CASE kind = "email"
  <2>1. c = FakeEmail(x, t, names)
      BY <1>9 DEF Candidate
  <2>2. FakeEmail(x, t, names).k = x.k
      BY <1>2 DEF FakeEmail
  <2> QED BY <1>3, <1>4, <1>9, <2>1, <2>2
<1>10. CASE kind = "repo"
  <2>1. c = FakeRepo(x, t, names)
      BY <1>10 DEF Candidate
  <2>2. FakeRepo(x, t, names).k = x.k
      BY <1>2 DEF FakeRepo
  <2> QED BY <1>3, <1>4, <1>10, <2>1, <2>2
<1>11. CASE kind = "image"
  <2>1. c = FakeImage(x, t, names)
      BY <1>11 DEF Candidate
  <2>2. FakeImage(x, t, names).k = x.k
      BY <1>2 DEF FakeImage
  <2> QED BY <1>3, <1>4, <1>11, <2>1, <2>2
<1>12. CASE kind \in {"date", "generic"}
  <2>1. c = FakeGeneric(type, x, t, names, day)
      BY <1>12 DEF Candidate
  <2>2. Group(kind, x) = "none"
      BY <1>12 DEF Group
  <2>3. Len(names) \in Nat
      BY SeqFacts
  <2>4. CASE x.k = "path"
    <3> DEFINE s == [i \in DOMAIN x.segs |->
                        IF i \in Masked(x) THEN names[MaskedUpTo(x, i)] ELSE x.segs[i]]
    <3>1. c = [x EXCEPT !.loose = FALSE, !.segs = s]
        BY <2>1, <2>4 DEF FakeGeneric, FakePath
    <3>2. "segs" \in DOMAIN x /\ "loose" \in DOMAIN x
        BY <1>2, <2>4 DEF Fields
    <3> HIDE DEF s
    <3>3. c.k = x.k /\ c.segs = s
        BY <1>2, <3>1, <3>2
    <3>4. /\ Inside(c) = Pieces(s)
          /\ Keeps(x) = {x.segs[i] : i \in DOMAIN x.segs \ Masked(x)}
        BY <2>4, <3>3 DEF Inside, Keeps
    <3>5. IsSeq(x.segs)
        BY <1>1, <2>4 DEF Proper
    <3>6. \A i \in Masked(x) : MaskedUpTo(x, i) \in 1..Len(names)
        BY <2>2, <2>4, <3>5, MaskedSegments, AsksForParts
    <3>7. \A i \in DOMAIN x.segs : From(s[i])
      <4>1. \A i \in DOMAIN x.segs :
               s[i] = IF i \in Masked(x) THEN names[MaskedUpTo(x, i)] ELSE x.segs[i]
          BY DEF s
      <4> QED BY <3>4, <3>6, <4>1 DEF Pieces
    <3>8. DOMAIN s = DOMAIN x.segs
        BY DEF s
    <3> QED BY <1>2, <2>2, <3>3, <3>4, <3>7, <3>8 DEF Pieces
  <2>5. CASE x.k = "mailto"
    <3>1. c = FakeMailto(x, t, names)
        BY <2>1, <2>5 DEF FakeGeneric
    <3>2. "host" \in DOMAIN x
        BY <1>2, <2>5 DEF Fields
    <3>3. c.k = x.k /\ c.host = names[1]
        BY <1>2, <3>1, <3>2 DEF FakeMailto
    <3>4. Inside(c) = {names[1]}
        BY <2>5, <3>3 DEF Inside
    <3>5. 1 \in 1..Len(names)
        BY <2>2, <2>3, <2>5, AsksForParts
    <3> QED BY <1>2, <2>2, <3>3, <3>4, <3>5
  <2>6. CASE x.k = "url"
    <3> DEFINE h == names[Len(names)]
               p == IF x.port = <<>> \/ IsPort(x.port[1]) THEN x.port ELSE <<names[1]>>
               u == FakeUser(x.user, t)
               s == [i \in DOMAIN x.segs |-> IF Word(x.segs[i]) \in Public THEN x.segs[i]
                        ELSE Combo("url-seg", <<i, x.segs[i]>>, {x.segs[i]}, t)]
               b == x.slash /\ x.segs # <<>>
               q == FakeQuery(x.tail, t)
    <3>1. \A f \in Fields.url : f \in DOMAIN x
        BY <1>2, <2>6
    <3>2. {"user", "host", "port", "segs", "slash", "tail"} \subseteq DOMAIN x
        BY <3>1 DEF Fields
    <3>3. c = [x EXCEPT !.user = u, !.port = p, !.host = h, !.segs = s, !.slash = b, !.tail = q]
        BY <2>1, <2>6, <3>2 DEF FakeGeneric, FakeUrl
    <3> HIDE DEF h, p, u, s, b, q
    <3>4. c.k = x.k /\ c.host = h /\ c.port = p
        BY <1>2, <3>2, <3>3
    <3>5. /\ Inside(c) = {h} \cup Pieces(p)
          /\ Keeps(x) = IF x.port = <<>> \/ IsPort(x.port[1]) THEN Pieces(x.port) ELSE {}
        BY <2>6, <3>4 DEF Inside, Keeps
    <3>6. Len(names) \in 1..Len(names) /\ 1 \in 1..Len(names)
        BY <2>2, <2>3, <2>6, AsksForParts
    <3>7. From(h)
        BY <3>6 DEF h
    <3>8. \A y \in Pieces(p) : From(y)
      <4>1. CASE x.port = <<>> \/ IsPort(x.port[1])
          BY <3>5, <4>1 DEF p
      <4>2. CASE ~(x.port = <<>> \/ IsPort(x.port[1]))
        <5>1. p = <<names[1]>>
            BY <4>2 DEF p
        <5>2. Pieces(p) = {names[1]}
            BY <5>1 DEF Pieces
        <5> QED BY <3>6, <5>2
      <4> QED BY <4>1, <4>2
    <3> QED BY <1>2, <2>2, <3>4, <3>5, <3>7, <3>8
  <2>7. CASE x.k = "phrase"
    <3>1. c = FakePhrase(x, t)
        BY <2>1, <2>7 DEF FakeGeneric
    <3>2. c.k = x.k
        BY <1>2, <3>1 DEF FakePhrase
    <3> QED BY <1>4, <2>7, <3>2
  <2>8. CASE x.k = "code"
    <3>1. c = FakeCode(x, t)
        BY <2>1, <2>8 DEF FakeGeneric
    <3>2. c.k = x.k
        BY <1>2, <3>1 DEF FakeCode
    <3> QED BY <1>4, <2>8, <3>2
  <2>9. CASE x.k \notin {"path", "mailto", "url", "phrase", "code"}
    <3>1. c = IF x.k = "dates" /\ Readable(x.items) THEN FakeDates(x, t, day)
              ELSE FakeWord(type, x, t)
        BY <2>1, <2>9 DEF FakeGeneric
    <3>2. FakeDates(x, t, day).k = x.k
        BY <1>2 DEF FakeDates
    <3>3. FakeWord(type, x, t).k = "name"
      <4> DEFINE l == <<Combo("generic", Stored(type, x), Atoms(x), t)>>
                         \o IF type = "PATH_SEGMENT" THEN Extension(x.labels) ELSE <<>>
      <4>1. FakeWord(type, x, t) = Name(l, FALSE)
          BY DEF FakeWord
      <4> HIDE DEF l
      <4> QED BY <1>5, <4>1
    <3> QED BY <1>4, <2>9, <3>1, <3>2, <3>3
  <2> QED BY <2>4, <2>5, <2>6, <2>7, <2>8, <2>9
<1> QED BY <1>3, <1>6, <1>7, <1>8, <1>9, <1>10, <1>11, <1>12 DEF Kinds

----------------------------------------------------------------------------
(* The invariant. *)

\* A value of its own has this text.
Known(tb, real) == \E r \in tb : r.type \notin Shareds /\ r.real = real

\* This substitute stands for an attribute: it is bound to it, or to a value that has
\* the same text.
Stands(tb, type, real, sur) ==
    \E r \in tb : /\ r.real = real /\ r.sur = sur
                  /\ r.type = type \/ r.type \notin Shareds

\* What the engine answers for a value, or for an attribute, given the vault.
AnswerIs(tb, ask, out) ==
    IF ask.op = "share"
    THEN Stands(tb, ask.type, ask.text, out)
    ELSE \/ ask.type \in SecretTypes \/ out = ask.text
         \/ \E r \in tb : /\ r.type \notin Shareds /\ r.sur = out
                          /\ r.real = Stored(ask.type, ask.text)

\* The substitute carries what the vault holds for the attribute.
Settled(tb, r) ==
    LET A == Attribute(r.type, r.real)
        B == Attribute(r.type, r.sur)
    IN  /\ A = Name(<<>>, FALSE) => B = Name(<<>>, FALSE)
        /\ A # Name(<<>>, FALSE) => Row(Group(r.type, r.real), A, B) \in tb \/ Known(tb, A)

\* Each piece of the substitute restores.
Restores(tb, r) ==
    \A y \in Inside(r.sur) \ Inside(r.real) :
        \E q \in tb : /\ q.sur = y /\ q.type \notin Shareds
                      /\ q.real \in Inside(r.real) \cup {Lower(z) : z \in Inside(r.real)}

RowOK(tb, r) ==
    /\ r = Row(r.type, r.real, r.sur) /\ RowType(r)
    /\ r.type \in Shareds => Shape(r.type, r.real) /\ Shape(r.type, r.sur)
    /\ r.type \notin Shareds => Restores(tb, r)
    /\ Group(r.type, r.real) # "none" => Settled(tb, r)

TableOK(tb) ==
    /\ \A r \in tb : RowOK(tb, r)
    /\ \A r, q \in tb : r.sur = q.sur \/ (r.type = q.type /\ r.real = q.real) => r = q

MemoryOK(tb, m) ==
    /\ m = Row(m.type, m.real, m.sur) /\ RowType(m) /\ m.type \in Shareds
    /\ Stands(tb, m.type, m.real, m.sur)

FrameOK(f) ==
    /\ f = [op |-> f.op, type |-> f.type, text |-> f.text, at |-> f.at, try |-> f.try,
            same |-> f.same, names |-> f.names]
    /\ f.op \in {"value", "share"} /\ f.at \in {"enter", "draw", "wait"}
    /\ f.try \in 0..MaxTries /\ f.same \in 0..f.try /\ IsSeq(f.names)
    /\ f.op = "value" => Legit(f.type, f.text)
    /\ f.op = "share" => f.type \in Shareds /\ Shape(f.type, f.text) /\ f.at # "wait"
    /\ f.op = "share" \/ f.at = "enter" => f.names = <<>>
    /\ f.at = "draw" /\ f.op = "value" => Len(f.names) <= Len(AskedFor(f.type, f.text))
    /\ f.at = "wait" => Len(f.names) = 1

\* What a frame has been told is what the engine answers for what it asked.
Told(tb, f) ==
    /\ f.op = "value" /\ f.at = "draw"
           => \A j \in 1..Len(f.names) : AnswerIs(tb, AskedFor(f.type, f.text)[j], f.names[j])
    /\ f.at = "wait" => AnswerIs(tb, f, f.names[1])

\* g waits for f, which is what it asks for next.
Under(g, f) ==
    /\ g.op = "value" /\ g.at = "draw" /\ g.try < MaxTries
    /\ Len(g.names) < Len(AskedFor(g.type, g.text))
    /\ AskedFor(g.type, g.text)[Len(g.names) + 1]
            = [op |-> f.op, type |-> f.type, text |-> f.text]

StackOK(tb, s) ==
    /\ IsSeq(s)
    /\ \A i \in 1..Len(s) : FrameOK(s[i]) /\ Told(tb, s[i])
    /\ \A i \in 1..(Len(s) - 1) : Under(s[i + 1], s[i])
    /\ s # <<>> => s[Len(s)].op = "value"

AnswerOK(tb, a) ==
    /\ Legit(a.type, a.text)
    /\ a.out = REFUSED \/ AnswerIs(tb, Part(a.type, a.text), a.out)

Invariant ==
    /\ TableOK(table)
    /\ \A p \in Procs : \A m \in shared[p] : MemoryOK(table, m)
    /\ shared = [p \in Procs |-> shared[p]]
    /\ \A th \in Threads : StackOK(table, stack[th])
    /\ stack = [th \in Threads |-> stack[th]]
    /\ \A a \in answers : AnswerOK(table, a)
    /\ revealed \subseteq ever
    /\ calls \in 0..MaxCalls /\ changes \in 0..MaxChanges /\ today \in Days

\* The vault only grows, and what was answered stays.
LEMMA Grows ==
    ASSUME NEW tb, NEW tc, tb \subseteq tc
    PROVE  /\ \A x : Known(tb, x) => Known(tc, x)
           /\ \A ask, out : AnswerIs(tb, ask, out) => AnswerIs(tc, ask, out)
           /\ \A r : RowOK(tb, r) => RowOK(tc, r)
           /\ \A m : MemoryOK(tb, m) => MemoryOK(tc, m)
           /\ \A s : StackOK(tb, s) => StackOK(tc, s)
           /\ \A a : AnswerOK(tb, a) => AnswerOK(tc, a)
<1>1. \A x : Known(tb, x) => Known(tc, x)
    BY DEF Known
<1>2. \A ask, out : AnswerIs(tb, ask, out) => AnswerIs(tc, ask, out)
    BY DEF AnswerIs, Stands
<1>3. \A r : Restores(tb, r) => Restores(tc, r)
    BY DEF Restores
<1>4. \A r : Settled(tb, r) => Settled(tc, r)
    BY <1>1 DEF Settled
<1>5. \A r : RowOK(tb, r) => RowOK(tc, r)
    BY <1>3, <1>4 DEF RowOK
<1>6. \A m : MemoryOK(tb, m) => MemoryOK(tc, m)
    BY DEF MemoryOK, Stands
<1>7. \A f : Told(tb, f) => Told(tc, f)
    BY <1>2 DEF Told
<1>8. \A s : StackOK(tb, s) => StackOK(tc, s)
    BY <1>7 DEF StackOK
<1>9. \A a : AnswerOK(tb, a) => AnswerOK(tc, a)
    BY <1>2 DEF AnswerOK
<1> QED BY <1>1, <1>2, <1>5, <1>6, <1>8, <1>9

\* A row that breaks no constraint.
LEMMA OneRowMore ==
    ASSUME NEW tb, TableOK(tb), NEW r, RowOK(tb, r),
           \A q \in tb : q.sur # r.sur /\ ~(q.type = r.type /\ q.real = r.real)
    PROVE  TableOK(tb \cup {r})
<1>1. \A q \in tb \cup {r} : RowOK(tb \cup {r}, q)
    BY Grows DEF TableOK
<1> QED BY <1>1 DEF TableOK

LEMMA PartsOf ==
    ASSUME NEW x, WellMade(x), NEW t \in PartTypes, NEW y \in Inside(x)
    PROVE  /\ Legit(t, y) /\ t \notin SecretTypes
           /\ Stored(t, y) \in {y, Lower(y)}
<1>1. WellMade(y) /\ y.k \in {"name", "ip"}
    BY InsideWellMade
<1>2. t \notin Shareds \cup Kinds /\ t \notin SecretTypes /\ t \notin {"URL", "REPO"}
    BY DEF PartTypes, Shareds, Kinds, SecretTypes
<1>3. Normalized(t, y) = y
    BY <1>2 DEF Normalized
<1> QED BY <1>1, <1>2, <1>3 DEF Legit, Stored

\* The row of a value that has been told all it asked for.
LEMMA CandidateRow ==
    ASSUME NEW tb, TableOK(tb), NEW f, FrameOK(f), Told(tb, f), f.op = "value",
           f.at = "draw", Len(f.names) = Len(AskedFor(f.type, f.text)), NEW day
    PROVE  RowOK(tb, Row(Key(f.type, f.text), Stored(f.type, f.text),
                         Candidate(f.type, f.text, f.try, f.names, day)))
<1> DEFINE x == f.text  type == f.type  kind == Kind(type, x)  key == Key(type, x)
           real == Stored(type, x)  asks == AskedFor(type, x)  names == f.names
<1> SUFFICES ASSUME NEW c, c = Candidate(type, x, f.try, names, day)
             PROVE  RowOK(tb, Row(key, real, c))
    OBVIOUS
<1>1. Legit(type, x) /\ WellMade(x) /\ Proper(x) /\ IsSeq(names)
    BY DEF FrameOK, Legit, WellMade
<1>2. /\ real.k = x.k /\ Inside(real) = Inside(x) /\ key \notin Shareds
      /\ Group(key, real) = Group(kind, x)
      /\ Group(kind, x) # "none" => key = kind /\ Attribute(kind, real) = Attribute(kind, x)
    BY <1>1, StoredKeeps
<1>3. /\ c.k \in DOMAIN Fields
      /\ \A y \in Inside(c) : y \in Inside(x) \/ \E j \in 1..Len(names) : y = names[j]
    BY <1>1, CandidateIs, KeepsInside
<1>4. \A j \in 1..Len(names) : AnswerIs(tb, asks[j], names[j])
    BY DEF Told
<1>5. Group(kind, x) # "none" => Inside(c) = {}
    BY <1>1, CandidateIs
<1>6. Restores(tb, Row(key, real, c))
  <2> SUFFICES ASSUME NEW y \in Inside(c), y \notin Inside(x)
               PROVE  \E q \in tb : /\ q.sur = y /\ q.type \notin Shareds
                          /\ q.real \in Inside(x) \cup {Lower(z) : z \in Inside(x)}
      BY <1>2 DEF Restores, Row
  <2>1. PICK j \in 1..Len(names) : y = names[j]
      BY <1>3
  <2>2. Group(kind, x) = "none"
      BY <1>5
  <2>3. PICK t \in PartTypes, z \in Inside(x) : asks[j] = Part(t, z)
      BY <1>1, <2>2, AsksForParts
  <2>4. AnswerIs(tb, Part(t, z), y)
      BY <1>4, <2>1, <2>3
  <2>5. t \notin SecretTypes /\ Stored(t, z) \in {z, Lower(z)}
      BY <1>1, PartsOf
  <2>6. y = z \/ \E r \in tb : r.type \notin Shareds /\ r.sur = y /\ r.real = Stored(t, z)
      BY <2>4, <2>5 DEF AnswerIs, Part
  <2> QED BY <2>5, <2>6
<1>7. Group(key, real) # "none" => Settled(tb, Row(key, real, c))
  <2> DEFINE A == Attribute(kind, x)  B == Attribute(kind, c)  G == Group(kind, x)
  <2> SUFFICES ASSUME G # "none"
               PROVE  /\ A = Name(<<>>, FALSE) => B = Name(<<>>, FALSE)
                      /\ A # Name(<<>>, FALSE) => Row(G, A, B) \in tb \/ Known(tb, A)
      BY <1>2, Zenon DEF Settled, Row
  <2>1. Carries(kind, x, c, names[1])
      BY <1>1, CandidateShares
  <2>2. ASSUME A # Name(<<>>, FALSE), ~Known(tb, A) PROVE Row(G, A, B) \in tb
    <3>1. asks = <<Share(G, A)>>
        BY <1>1, <2>2, AsksToShare
    <3>2. AnswerIs(tb, Share(G, A), names[1])
        BY <1>4, <3>1
    <3>3. Row(G, A, names[1]) \in tb
        BY <2>2, <3>2 DEF AnswerIs, Share, Stands, Known, TableOK, RowOK
    <3>4. G \in Shareds
        BY DEF Group, Shareds
    <3>5. Shape(G, names[1])
        BY <3>3, <3>4 DEF TableOK, RowOK, Row
    <3>6. B = names[1]
        BY <2>1, <2>2, <3>5 DEF Carries
    <3> QED BY <3>3, <3>6
  <2> QED BY <2>1, <2>2 DEF Carries
<1>8. RowType(Row(key, real, c))
    BY <1>1, <1>2, <1>3 DEF RowType, Row, Proper
<1> QED BY <1>2, <1>6, <1>7, <1>8 DEF RowOK, Row

----------------------------------------------------------------------------
(* The frames of a call. *)

\* What a value asks for is a call of its own, which has been told nothing.
LEMMA AsksAreCalls ==
    ASSUME NEW type, NEW x, WellMade(x)
    PROVE  /\ Len(AskedFor(type, x)) \in Nat
           /\ \A j \in 1..Len(AskedFor(type, x)) :
                 LET a == AskedFor(type, x)[j]
                 IN  /\ a = [op |-> a.op, type |-> a.type, text |-> a.text]
                     /\ a.op \in {"value", "share"}
                     /\ a.op = "value" => Legit(a.type, a.text)
                     /\ a.op = "share" => a.type \in Shareds /\ Shape(a.type, a.text)
<1> DEFINE kind == Kind(type, x)  G == Group(kind, x)  A == Attribute(kind, x)
           Good(a) == /\ a = [op |-> a.op, type |-> a.type, text |-> a.text]
                      /\ a.op \in {"value", "share"}
                      /\ a.op = "value" => Legit(a.type, a.text)
                      /\ a.op = "share" => a.type \in Shareds /\ Shape(a.type, a.text)
<1>1. CASE G = "none"
  <2>1. Len(AskedFor(type, x)) \in Nat
      BY <1>1, AsksForParts, SeqFacts
  <2>2. ASSUME NEW j \in 1..Len(AskedFor(type, x)) PROVE Good(AskedFor(type, x)[j])
    <3>1. PICK t \in PartTypes, y \in Inside(x) : AskedFor(type, x)[j] = Part(t, y)
        BY <1>1, AsksForParts
    <3>2. Legit(t, y)
        BY PartsOf
    <3> QED BY <3>1, <3>2 DEF Part
  <2> QED BY <2>1, <2>2
<1>2. CASE G # "none" /\ A # Name(<<>>, FALSE)
  <2>1. AskedFor(type, x) = <<Share(G, A)>>
      BY <1>2, AsksToShare
  <2>2. Shape(G, A) /\ G \in Shareds
      BY <1>2, AttributeShape DEF Group, Shareds
  <2> HIDE DEF G, A
  <2>3. Good(Share(G, A))
      BY <2>2 DEF Share
  <2>4. Len(<<Share(G, A)>>) = 1 /\ <<Share(G, A)>>[1] = Share(G, A)
      OBVIOUS
  <2> HIDE DEF Good
  <2>5. \A j \in 1..Len(AskedFor(type, x)) : Good(AskedFor(type, x)[j])
      BY <2>1, <2>3, <2>4
  <2>6. Len(AskedFor(type, x)) \in Nat
      BY <2>1, <2>4
  <2> QED BY <2>5, <2>6 DEF Good
<1>3. CASE G # "none" /\ A = Name(<<>>, FALSE)
  <2>1. AskedFor(type, x) = <<>>
      BY <1>3, AsksToShare
  <2> QED BY <2>1
<1> QED BY <1>1, <1>2, <1>3

LEMMA FrameFields ==
    ASSUME NEW need
    PROVE  LET f == Frame(need)
           IN  /\ f.op = need.op /\ f.type = need.type /\ f.text = need.text
               /\ f.at = "enter" /\ f.try = 0 /\ f.same = 0 /\ f.names = <<>>
               /\ f = [op |-> f.op, type |-> f.type, text |-> f.text, at |-> f.at,
                       try |-> f.try, same |-> f.same, names |-> f.names]
    BY DEF Frame

\* A call begins with a frame that has been told nothing.
LEMMA NewFrame ==
    ASSUME NEW tb, NEW need, need.op \in {"value", "share"},
           need.op = "value" => Legit(need.type, need.text),
           need.op = "share" => need.type \in Shareds /\ Shape(need.type, need.text)
    PROVE  FrameOK(Frame(need)) /\ Told(tb, Frame(need))
<1> SUFFICES ASSUME NEW f, f = Frame(need) PROVE FrameOK(f) /\ Told(tb, f)
    OBVIOUS
<1>1. /\ f.op = need.op /\ f.type = need.type /\ f.text = need.text
      /\ f.at = "enter" /\ f.try = 0 /\ f.same = 0 /\ f.names = <<>>
      /\ f = [op |-> f.op, type |-> f.type, text |-> f.text, at |-> f.at,
              try |-> f.try, same |-> f.same, names |-> f.names]
    BY FrameFields
<1>2. IsSeq(<<>>) /\ 0 \in 0..MaxTries /\ 0 \in 0..0
    BY EngineAssumption, EmptySeq DEF IsSeq
<1> QED BY <1>1, <1>2 DEF FrameOK, Told

LEMMA StackFacts ==
    ASSUME NEW tb, NEW s, StackOK(tb, s), s # <<>>
    PROVE  /\ IsSeq(s) /\ Len(s) \in Nat \ {0} /\ FrameOK(s[1]) /\ Told(tb, s[1])
           /\ Len(s) = 1 => s[1].op = "value"
           /\ Len(s) # 1 => /\ Len(s) > 1 /\ FrameOK(s[2]) /\ Told(tb, s[2])
                            /\ Under(s[2], s[1])
<1>1. IsSeq(s) /\ Len(s) \in Nat \ {0}
    BY SeqFacts DEF StackOK
<1>2. \A i \in 1..Len(s) : FrameOK(s[i]) /\ Told(tb, s[i])
    BY DEF StackOK
<1>3. \A i \in 1..(Len(s) - 1) : Under(s[i + 1], s[i])
    BY DEF StackOK
<1>4. Len(s) # 1 => Len(s) > 1 /\ 1 \in 1..(Len(s) - 1) /\ 2 \in 1..Len(s)
    BY <1>1
<1>5. Len(s) # 1 => Under(s[1 + 1], s[1])
    BY <1>3, <1>4
<1>6. s[Len(s)].op = "value"
    BY DEF StackOK
<1> QED BY <1>1, <1>2, <1>4, <1>5, <1>6

LEMMA SwapKeeps ==
    ASSUME NEW tb, NEW s, StackOK(tb, s), s # <<>>, NEW g, FrameOK(g), Told(tb, g),
           g.op = s[1].op, g.type = s[1].type, g.text = s[1].text
    PROVE  StackOK(tb, Swap(s, g))
<1> DEFINE r == Swap(s, g)
<1>1. IsSeq(s) /\ Len(s) \in Nat \ {0}
    BY StackFacts
<1>2. /\ IsSeq(r) /\ Len(r) = Len(s) /\ r[1] = g
      /\ \A i \in 2..Len(s) : r[i] = s[i]
    BY <1>1, Replaced
<1> HIDE DEF r
<1>3. \A i \in 1..Len(s) : FrameOK(s[i]) /\ Told(tb, s[i])
    BY DEF StackOK
<1>4. \A i \in 1..(Len(s) - 1) : Under(s[i + 1], s[i])
    BY DEF StackOK
<1>5. \A i \in 1..Len(s) : FrameOK(r[i]) /\ Told(tb, r[i])
  <2> SUFFICES ASSUME NEW i \in 1..Len(s) PROVE FrameOK(r[i]) /\ Told(tb, r[i])
      OBVIOUS
  <2>1. CASE i = 1
      BY <1>2, <2>1
  <2>2. CASE i # 1
    <3>1. i \in 2..Len(s)
        BY <1>1, <2>2
    <3> QED BY <1>2, <1>3, <3>1
  <2> QED BY <2>1, <2>2
<1>6. \A i \in 1..(Len(s) - 1) : Under(r[i + 1], r[i])
  <2> SUFFICES ASSUME NEW i \in 1..(Len(s) - 1) PROVE Under(r[i + 1], r[i])
      OBVIOUS
  <2>1. i + 1 \in 2..Len(s) /\ i \in 1..Len(s) /\ Under(s[i + 1], s[i])
      BY <1>1, <1>4
  <2>2. r[i + 1] = s[i + 1]
      BY <1>2, <2>1
  <2>3. r[i].op = s[i].op /\ r[i].type = s[i].type /\ r[i].text = s[i].text
    <3>1. CASE i = 1
        BY <1>2, <3>1
    <3>2. CASE i # 1
      <4>1. i \in 2..Len(s)
          BY <1>1, <2>1, <3>2
      <4> QED BY <1>2, <4>1
    <3> QED BY <3>1, <3>2
  <2> QED BY <2>1, <2>2, <2>3 DEF Under
<1>7. r[Len(r)].op = "value"
  <2>1. s[Len(s)].op = "value"
      BY DEF StackOK
  <2>2. CASE Len(s) = 1
      BY <1>2, <2>1, <2>2
  <2>3. CASE Len(s) # 1
    <3>1. Len(s) \in 2..Len(s)
        BY <1>1, <2>3
    <3> QED BY <1>2, <2>1, <3>1
  <2> QED BY <2>2, <2>3
<1> QED BY <1>2, <1>5, <1>6, <1>7 DEF StackOK, r

LEMMA PushKeeps ==
    ASSUME NEW tb, NEW s, StackOK(tb, s), s # <<>>, NEW f, FrameOK(f), Told(tb, f),
           Under(s[1], f)
    PROVE  StackOK(tb, Push(s, f))
<1> DEFINE r == Push(s, f)  n == Len(s)
<1>1. IsSeq(s) /\ n \in Nat \ {0}
    BY StackFacts
<1>2. /\ IsSeq(r) /\ Len(r) = n + 1 /\ r[1] = f
      /\ \A i \in 2..(n + 1) : r[i] = s[i - 1]
    BY <1>1, Pushed
<1> HIDE DEF r
<1>3. \A i \in 1..n : FrameOK(s[i]) /\ Told(tb, s[i])
    BY DEF StackOK
<1>4. \A i \in 1..(n - 1) : Under(s[i + 1], s[i])
    BY DEF StackOK
<1>5. s[n].op = "value"
    BY DEF StackOK
<1> HIDE DEF n
<1>6. \A i \in 1..(n + 1) : FrameOK(r[i]) /\ Told(tb, r[i])
  <2> SUFFICES ASSUME NEW i \in 1..(n + 1) PROVE FrameOK(r[i]) /\ Told(tb, r[i])
      OBVIOUS
  <2>1. CASE i = 1
      BY <1>2, <2>1
  <2>2. CASE i # 1
    <3>1. i \in 2..(n + 1) /\ i - 1 \in 1..n
        BY <1>1, <2>2
    <3> QED BY <1>2, <1>3, <3>1
  <2> QED BY <2>1, <2>2
<1>7. \A i \in 1..n : Under(r[i + 1], r[i])
  <2> SUFFICES ASSUME NEW i \in 1..n PROVE Under(r[i + 1], r[i])
      OBVIOUS
  <2>1. i + 1 \in 2..(n + 1) /\ (i + 1) - 1 = i
      BY <1>1
  <2>2. r[i + 1] = s[i]
      BY <1>2, <2>1
  <2>3. CASE i = 1
      BY <1>2, <2>2, <2>3
  <2>4. CASE i # 1
    <3>1. i \in 2..(n + 1) /\ i - 1 \in 1..(n - 1) /\ (i - 1) + 1 = i
        BY <1>1, <2>4
    <3>2. r[i] = s[i - 1]
        BY <1>2, <3>1
    <3>3. Under(s[(i - 1) + 1], s[i - 1])
        BY <1>4, <3>1
    <3> QED BY <2>2, <3>1, <3>2, <3>3
  <2> QED BY <2>3, <2>4
<1>8. r[n + 1].op = "value" /\ (n + 1) - 1 = n
  <2>1. n + 1 \in 2..(n + 1) /\ (n + 1) - 1 = n
      BY <1>1
  <2> QED BY <1>2, <1>5, <2>1
<1>9. StackOK(tb, r)
    BY <1>2, <1>6, <1>7, <1>8 DEF StackOK
<1> QED BY <1>9 DEF r

\* The frame under a frame is told what it answers.
LEMMA HearsWell ==
    ASSUME NEW tb, NEW f, NEW g, FrameOK(g), Told(tb, g), Under(g, f), NEW out,
           AnswerIs(tb, f, out)
    PROVE  /\ FrameOK(Hears(g, out)) /\ Told(tb, Hears(g, out))
           /\ Hears(g, out).op = g.op /\ Hears(g, out).type = g.type
           /\ Hears(g, out).text = g.text
<1> DEFINE asks == AskedFor(g.type, g.text)
<1> SUFFICES ASSUME NEW h, h = Hears(g, out)
             PROVE  /\ FrameOK(h) /\ Told(tb, h)
                    /\ h.op = g.op /\ h.type = g.type /\ h.text = g.text
    OBVIOUS
<1>1. h = [op |-> g.op, type |-> g.type, text |-> g.text, at |-> g.at, try |-> g.try,
           same |-> g.same, names |-> Append(g.names, out)]
    BY DEF Hears, FrameOK
<1>2. /\ h.op = g.op /\ h.type = g.type /\ h.text = g.text /\ h.at = g.at
      /\ h.try = g.try /\ h.same = g.same /\ h.names = Append(g.names, out)
    BY <1>1
<1>3. g.op = "value" /\ g.at = "draw" /\ Len(g.names) < Len(asks)
    BY DEF Under
<1>4. IsSeq(g.names) /\ Len(g.names) \in Nat
    BY SeqFacts DEF FrameOK
<1>5. /\ IsSeq(h.names) /\ Len(h.names) = Len(g.names) + 1
      /\ h.names[Len(g.names) + 1] = out
      /\ \A j \in 1..Len(g.names) : h.names[j] = g.names[j]
    BY <1>2, <1>4, Appended
<1>6. Len(asks) \in Nat
    BY <1>3, AsksAreCalls DEF FrameOK, Legit
<1>7. Len(h.names) <= Len(asks)
    BY <1>3, <1>4, <1>5, <1>6
<1>8. FrameOK(h)
  <2>1. h = [op |-> h.op, type |-> h.type, text |-> h.text, at |-> h.at, try |-> h.try,
             same |-> h.same, names |-> h.names]
      BY <1>1, <1>2
  <2> QED BY <1>2, <1>3, <1>5, <1>7, <2>1 DEF FrameOK
<1>9. \A j \in 1..Len(h.names) : AnswerIs(tb, asks[j], h.names[j])
  <2> SUFFICES ASSUME NEW j \in 1..Len(h.names) PROVE AnswerIs(tb, asks[j], h.names[j])
      OBVIOUS
  <2>1. CASE j \in 1..Len(g.names)
      BY <1>3, <1>5, <2>1 DEF Told
  <2>2. CASE j \notin 1..Len(g.names)
    <3>1. j = Len(g.names) + 1
        BY <1>4, <1>5, <2>2
    <3>2. asks[j] = [op |-> f.op, type |-> f.type, text |-> f.text]
        BY <3>1 DEF Under
    <3>3. asks[j].op = f.op /\ asks[j].type = f.type /\ asks[j].text = f.text
        BY <3>2
    <3> QED BY <1>5, <3>1, <3>3 DEF AnswerIs
  <2> QED BY <2>1, <2>2
<1>10. Told(tb, h)
    BY <1>2, <1>3, <1>9 DEF Told
<1> QED BY <1>2, <1>8, <1>10

LEMMA PopKeeps ==
    ASSUME NEW tb, NEW s, StackOK(tb, s), s # <<>>, Len(s) # 1, NEW out,
           AnswerIs(tb, s[1], out)
    PROVE  StackOK(tb, Pop(s, Hears(s[2], out)))
<1> DEFINE g == Hears(s[2], out)  r == Pop(s, g)  n == Len(s)
<1>1. /\ IsSeq(s) /\ n \in Nat \ {0} /\ n > 1
      /\ FrameOK(s[2]) /\ Told(tb, s[2]) /\ Under(s[2], s[1])
    BY StackFacts
<1>2. /\ FrameOK(g) /\ Told(tb, g)
      /\ g.op = s[2].op /\ g.type = s[2].type /\ g.text = s[2].text
    BY <1>1, HearsWell
<1> HIDE DEF g
<1>3. /\ IsSeq(r) /\ Len(r) = n - 1 /\ r[1] = g
      /\ \A i \in 2..(n - 1) : r[i] = s[i + 1]
    BY <1>1, Popped
<1> HIDE DEF r
<1>4. \A i \in 1..n : FrameOK(s[i]) /\ Told(tb, s[i])
    BY DEF StackOK
<1>5. \A i \in 1..(n - 1) : Under(s[i + 1], s[i])
    BY DEF StackOK
<1>6. s[n].op = "value"
    BY DEF StackOK
<1> HIDE DEF n
<1>7. \A i \in 1..(n - 1) : FrameOK(r[i]) /\ Told(tb, r[i])
  <2> SUFFICES ASSUME NEW i \in 1..(n - 1) PROVE FrameOK(r[i]) /\ Told(tb, r[i])
      OBVIOUS
  <2>1. CASE i = 1
      BY <1>2, <1>3, <2>1
  <2>2. CASE i # 1
    <3>1. i \in 2..(n - 1) /\ i + 1 \in 1..n
        BY <1>1, <2>2
    <3> QED BY <1>3, <1>4, <3>1
  <2> QED BY <2>1, <2>2
<1>8. \A i \in 1..((n - 1) - 1) : Under(r[i + 1], r[i])
  <2> SUFFICES ASSUME NEW i \in 1..((n - 1) - 1) PROVE Under(r[i + 1], r[i])
      OBVIOUS
  <2>1. i + 1 \in 2..(n - 1) /\ i + 1 \in 1..(n - 1)
      BY <1>1
  <2>2. r[i + 1] = s[(i + 1) + 1] /\ Under(s[(i + 1) + 1], s[i + 1])
      BY <1>3, <1>5, <2>1
  <2>3. r[i].op = s[i + 1].op /\ r[i].type = s[i + 1].type /\ r[i].text = s[i + 1].text
    <3>1. CASE i = 1
        BY <1>2, <1>3, <3>1
    <3>2. CASE i # 1
      <4>1. i \in 2..(n - 1)
          BY <1>1, <3>2
      <4> QED BY <1>3, <4>1
    <3> QED BY <3>1, <3>2
  <2> QED BY <2>2, <2>3 DEF Under
<1>9. r[n - 1].op = "value"
  <2>1. CASE n = 2
      BY <1>2, <1>3, <1>6, <2>1
  <2>2. CASE n # 2
    <3>1. n - 1 \in 2..(n - 1) /\ (n - 1) + 1 = n
        BY <1>1, <2>2
    <3> QED BY <1>3, <1>6, <3>1
  <2> QED BY <2>1, <2>2
<1>10. StackOK(tb, r)
    BY <1>3, <1>7, <1>8, <1>9 DEF StackOK
<1> QED BY <1>10 DEF r, g

LEMMA EmptyStack == \A tb : StackOK(tb, <<>>)
<1>1. IsSeq(<<>>) /\ Len(<<>>) = 0
    BY EmptySeq DEF IsSeq
<1>2. 1..0 = {} /\ 1..(0 - 1) = {}
    OBVIOUS
<1> QED BY <1>1, <1>2 DEF StackOK

LEMMA FirstCall ==
    ASSUME NEW tb, NEW v \in Values
    PROVE  StackOK(tb, <<Frame(Part(v.type, v.text))>>)
<1> DEFINE a == Part(v.type, v.text)  f == Frame(a)
<1>1. a.op = "value" /\ a.type = v.type /\ a.text = v.text
    BY DEF Part
<1>2. Legit(v.type, v.text)
    BY EngineAssumption DEF Legit
<1> HIDE DEF a
<1>3. FrameOK(f) /\ Told(tb, f) /\ f.op = "value"
    BY <1>1, <1>2, NewFrame, FrameFields
<1> HIDE DEF f
<1>4. <<f>> \in Seq({f}) /\ Len(<<f>>) = 1 /\ <<f>>[1] = f /\ 1..(1 - 1) = {}
    OBVIOUS
<1>5. IsSeq(<<f>>)
    BY <1>4, SeqIs
<1>6. StackOK(tb, <<f>>)
    BY <1>3, <1>4, <1>5 DEF StackOK
<1> QED BY <1>6 DEF f, a

Stacks(tb, s) == s = [th \in Threads |-> s[th]] /\ \A th \in Threads : StackOK(tb, s[th])

\* A call that goes on.
LEMMA ContinueKeeps ==
    ASSUME NEW tb, Stacks(tb, stack), NEW th \in Threads, stack[th] # <<>>,
           NEW g, FrameOK(g), Told(tb, g),
           g.op = Top(th).op, g.type = Top(th).type, g.text = Top(th).text,
           Continue(th, g)
    PROVE  Stacks(tb, stack')
<1>1. stack' = [stack EXCEPT ![th] = Swap(stack[th], g)]
    BY DEF Continue, Swap, Stacks
<1>2. StackOK(tb, Swap(stack[th], g))
    BY SwapKeeps DEF Stacks, Top
<1> HIDE DEF Continue
<1>3. \A u \in Threads : stack'[u] = IF u = th THEN Swap(stack[th], g) ELSE stack[u]
    BY <1>1 DEF Stacks
<1>4. stack' = [u \in Threads |-> stack'[u]]
    BY <1>1 DEF Stacks
<1> QED BY <1>2, <1>3, <1>4 DEF Stacks

\* A call that asks.
LEMMA AskKeeps ==
    ASSUME NEW tb, Stacks(tb, stack), NEW th \in Threads, stack[th] # <<>>,
           NEW f, FrameOK(f), Told(tb, f), Under(Top(th), f),
           stack' = [stack EXCEPT ![th] = <<f>> \o @]
    PROVE  Stacks(tb, stack')
<1>1. stack' = [stack EXCEPT ![th] = Push(stack[th], f)]
    BY DEF Push, Stacks
<1>2. StackOK(tb, Push(stack[th], f))
    BY PushKeeps DEF Stacks, Top
<1>3. \A u \in Threads : stack'[u] = IF u = th THEN Push(stack[th], f) ELSE stack[u]
    BY <1>1 DEF Stacks
<1>4. stack' = [u \in Threads |-> stack'[u]]
    BY <1>1 DEF Stacks
<1> QED BY <1>2, <1>3, <1>4 DEF Stacks

\* A call that ends, for the frame under it or for the thread.
LEMMA ReturnKeeps ==
    ASSUME NEW tb, Stacks(tb, stack), \A a \in answers : AnswerOK(tb, a),
           NEW th \in Threads, stack[th] # <<>>, NEW out, AnswerIs(tb, Top(th), out),
           Return(th, out)
    PROVE  Stacks(tb, stack') /\ \A a \in answers' : AnswerOK(tb, a)
<1> DEFINE s == stack[th]
<1>1. StackOK(tb, s)
    BY DEF Stacks
<1>2. /\ Len(s) \in Nat \ {0} /\ FrameOK(s[1])
      /\ Len(s) = 1 => s[1].op = "value"
    BY <1>1, StackFacts
<1>3. CASE Len(s) = 1
  <2>1. stack' = [stack EXCEPT ![th] = <<>>] /\ Answer(th, out)
      BY <1>3 DEF Return
  <2>2. \A u \in Threads : stack'[u] = IF u = th THEN <<>> ELSE stack[u]
      BY <2>1 DEF Stacks
  <2>3. stack' = [u \in Threads |-> stack'[u]]
      BY <2>1 DEF Stacks
  <2>4. Stacks(tb, stack')
      BY <2>2, <2>3, EmptyStack DEF Stacks
  <2>5. Whole(th) = s[1] /\ s[1] = Top(th)
      BY <1>3 DEF Whole, Last, Top
  <2>6. Legit(s[1].type, s[1].text)
      BY <1>2, <1>3 DEF FrameOK
  <2>7. AnswerIs(tb, Part(s[1].type, s[1].text), out)
      BY <1>2, <1>3, <2>5 DEF AnswerIs, Part
  <2>8. answers' = answers \cup {[type |-> s[1].type, text |-> s[1].text, out |-> out,
                                  open |-> open[th]]}
      BY <2>1, <2>5 DEF Answer
  <2>9. ASSUME NEW a \in answers' PROVE AnswerOK(tb, a)
    <3>1. CASE a \in answers
        BY <3>1
    <3>2. CASE a \notin answers
      <4>1. a.type = s[1].type /\ a.text = s[1].text /\ a.out = out
          BY <2>8, <3>2
      <4> QED BY <2>6, <2>7, <4>1 DEF AnswerOK
    <3> QED BY <3>1, <3>2
  <2> QED BY <2>4, <2>9
<1>4. CASE Len(s) # 1
  <2> DEFINE g == Hears(s[2], out)
  <2>1. stack' = [stack EXCEPT ![th] = Pop(s, g)] /\ answers' = answers
      BY <1>4 DEF Return, Pop, Stacks
  <2>2. StackOK(tb, Pop(s, g))
      BY <1>1, <1>4, PopKeeps DEF Top
  <2> HIDE DEF g
  <2>3. \A u \in Threads : stack'[u] = IF u = th THEN Pop(s, g) ELSE stack[u]
      BY <2>1 DEF Stacks
  <2>4. stack' = [u \in Threads |-> stack'[u]]
      BY <2>1 DEF Stacks
  <2> QED BY <2>1, <2>2, <2>3, <2>4 DEF Stacks
<1> QED BY <1>3, <1>4

\* An exception, which leaves every call of the thread.
LEMMA RefuseKeeps ==
    ASSUME NEW tb, Stacks(tb, stack), \A a \in answers : AnswerOK(tb, a),
           NEW th \in Threads, stack[th] # <<>>, Refuse(th)
    PROVE  Stacks(tb, stack') /\ \A a \in answers' : AnswerOK(tb, a)
<1> DEFINE s == stack[th]  w == s[Len(s)]
<1>1. StackOK(tb, s) /\ Len(s) \in 1..Len(s)
    BY StackFacts DEF Stacks
<1>2. FrameOK(w) /\ w.op = "value"
    BY <1>1 DEF StackOK
<1>3. Legit(w.type, w.text)
    BY <1>2 DEF FrameOK
<1>4. Whole(th) = w
    BY DEF Whole, Last
<1> HIDE DEF w
<1>5. stack' = [stack EXCEPT ![th] = <<>>]
    BY DEF Refuse
<1>6. answers' = answers \cup {[type |-> w.type, text |-> w.text, out |-> REFUSED,
                                open |-> open[th]]}
    BY <1>4 DEF Refuse, Answer
<1>7. \A u \in Threads : stack'[u] = IF u = th THEN <<>> ELSE stack[u]
    BY <1>5 DEF Stacks
<1>8. stack' = [u \in Threads |-> stack'[u]]
    BY <1>5 DEF Stacks
<1>9. Stacks(tb, stack')
    BY <1>7, <1>8, EmptyStack DEF Stacks
<1>10. ASSUME NEW a \in answers' PROVE AnswerOK(tb, a)
  <2>1. CASE a \in answers
      BY <2>1
  <2>2. CASE a \notin answers
    <3>1. a.type = w.type /\ a.text = w.text /\ a.out = REFUSED
        BY <1>6, <2>2
    <3> QED BY <1>3, <3>1 DEF AnswerOK
  <2> QED BY <2>1, <2>2
<1> QED BY <1>9, <1>10

LEMMA ShapeKind ==
    ASSUME NEW group \in Shareds, NEW n, Shape(group, n)
    PROVE  n.k \in DOMAIN Fields
<1>1. CASE group \in {"_ZONE", "_REGISTRY"}
  <2>1. n = Name(n.labels, FALSE)
      BY <1>1 DEF Shape
  <2>2. n.k = "name"
      BY <2>1, NameIs
  <2> QED BY <2>2 DEF Fields
<1>2. CASE group = "_REPO_ORG"
  <2>1. n = Name(<<n.labels[1]>>, FALSE)
      BY <1>2 DEF Shape, Word
  <2>2. n.k = "name"
      BY <2>1, NameIs
  <2> QED BY <2>2 DEF Fields
<1>3. CASE group = "_SUBNET"
  <2>1. n = [k |-> "ip", net |-> n.net, host |-> 0]
      BY <1>3 DEF Shape
  <2>2. n.k = "ip"
      BY <2>1
  <2> QED BY <2>2 DEF Fields
<1> QED BY <1>1, <1>2, <1>3 DEF Shareds

\* The frames a step makes of a frame.
LEMMA Moves ==
    ASSUME NEW f, FrameOK(f)
    PROVE  /\ LET g == [f EXCEPT !.at = "draw"]
              IN  f.at = "enter" => /\ FrameOK(g) /\ \A tb : Told(tb, g)
                                    /\ g.op = f.op /\ g.type = f.type /\ g.text = f.text
           /\ LET g == NextTry(f)
              IN  f.at = "draw" /\ f.try < MaxTries
                      => /\ FrameOK(g) /\ \A tb : Told(tb, g)
                         /\ g.op = f.op /\ g.type = f.type /\ g.text = f.text
           /\ LET g == [NextTry(f) EXCEPT !.same = @ + 1]
              IN  f.at = "draw" /\ f.try < MaxTries
                      => /\ FrameOK(g) /\ \A tb : Told(tb, g)
                         /\ g.op = f.op /\ g.type = f.type /\ g.text = f.text
<1>1. f = [op |-> f.op, type |-> f.type, text |-> f.text, at |-> f.at, try |-> f.try,
           same |-> f.same, names |-> f.names]
    BY DEF FrameOK
<1>2. IsSeq(<<>>) /\ Len(<<>>) = 0 /\ 1..0 = {}
    BY EmptySeq DEF IsSeq
<1>3. f.op = "value" => Len(AskedFor(f.type, f.text)) \in Nat
    BY AsksAreCalls DEF FrameOK, Legit
<1>4. MaxTries \in Nat \ {0} /\ f.try \in 0..MaxTries /\ f.same \in 0..f.try
    BY EngineAssumption DEF FrameOK
<1>5. ASSUME f.at = "enter", NEW g, g = [f EXCEPT !.at = "draw"]
      PROVE  /\ FrameOK(g) /\ \A tb : Told(tb, g)
             /\ g.op = f.op /\ g.type = f.type /\ g.text = f.text
  <2>1. g = [op |-> f.op, type |-> f.type, text |-> f.text, at |-> "draw", try |-> f.try,
             same |-> f.same, names |-> f.names]
      BY <1>1, <1>5
  <2>2. /\ g.op = f.op /\ g.type = f.type /\ g.text = f.text /\ g.at = "draw"
        /\ g.try = f.try /\ g.same = f.same /\ g.names = f.names /\ f.names = <<>>
      BY <1>5, <2>1 DEF FrameOK
  <2>3. FrameOK(g)
      BY <1>2, <1>3, <2>1, <2>2 DEF FrameOK
  <2>4. \A tb : Told(tb, g)
      BY <1>2, <2>2 DEF Told
  <2> QED BY <2>2, <2>3, <2>4
<1>6. ASSUME f.at = "draw", f.try < MaxTries, NEW n \in {f.same, f.same + 1},
             NEW g, g = [op |-> f.op, type |-> f.type, text |-> f.text, at |-> f.at,
                         try |-> f.try + 1, same |-> n, names |-> <<>>]
      PROVE  /\ FrameOK(g) /\ \A tb : Told(tb, g)
             /\ g.op = f.op /\ g.type = f.type /\ g.text = f.text
  <2>1. /\ g.op = f.op /\ g.type = f.type /\ g.text = f.text /\ g.at = "draw"
        /\ g.try = f.try + 1 /\ g.same = n /\ g.names = <<>>
      BY <1>6
  <2>2. g.try \in 0..MaxTries /\ g.same \in 0..g.try
      BY <1>4, <1>6, <2>1
  <2>3. FrameOK(g)
      BY <1>2, <1>3, <1>6, <2>1, <2>2 DEF FrameOK
  <2>4. \A tb : Told(tb, g)
      BY <1>2, <2>1 DEF Told
  <2> QED BY <2>1, <2>3, <2>4
<1>7. NextTry(f) = [op |-> f.op, type |-> f.type, text |-> f.text, at |-> f.at,
                    try |-> f.try + 1, same |-> f.same, names |-> <<>>]
  <2> DEFINE t == f.try + 1  e == <<>>
  <2>1. "try" \in DOMAIN f
      BY <1>1
  <2>2. NextTry(f) = [f EXCEPT !.try = t, !.names = e]
      BY <2>1 DEF NextTry
  <2> HIDE DEF t, e
  <2>3. NextTry(f) = [op |-> f.op, type |-> f.type, text |-> f.text, at |-> f.at,
                      try |-> t, same |-> f.same, names |-> e]
      BY <1>1, <2>2
  <2> QED BY <2>3 DEF t, e
<1>8. [NextTry(f) EXCEPT !.same = @ + 1]
        = [op |-> f.op, type |-> f.type, text |-> f.text, at |-> f.at,
           try |-> f.try + 1, same |-> f.same + 1, names |-> <<>>]
    BY <1>7
<1>9. f.at = "draw" /\ f.try < MaxTries
        => /\ FrameOK(NextTry(f)) /\ \A tb : Told(tb, NextTry(f))
           /\ NextTry(f).op = f.op /\ NextTry(f).type = f.type /\ NextTry(f).text = f.text
    BY <1>6, <1>7
<1>10. ASSUME f.at = "draw", f.try < MaxTries, NEW g, g = [NextTry(f) EXCEPT !.same = @ + 1]
       PROVE  /\ FrameOK(g) /\ \A tb : Told(tb, g)
              /\ g.op = f.op /\ g.type = f.type /\ g.text = f.text
    BY <1>6, <1>8, <1>10
<1> QED BY <1>5, <1>9, <1>10

\* The frame of a value that waits for the operator.
LEMMA Waits ==
    ASSUME NEW f, FrameOK(f), NEW n
    PROVE  [f EXCEPT !.at = "wait", !.names = n]
              = [op |-> f.op, type |-> f.type, text |-> f.text, at |-> "wait", try |-> f.try,
                 same |-> f.same, names |-> n]
<1>1. f = [op |-> f.op, type |-> f.type, text |-> f.text, at |-> f.at, try |-> f.try,
           same |-> f.same, names |-> f.names]
    BY DEF FrameOK
<1>2. ASSUME NEW w PROVE [f EXCEPT !.at = w, !.names = n]
              = [op |-> f.op, type |-> f.type, text |-> f.text, at |-> w, try |-> f.try,
                 same |-> f.same, names |-> n]
  <2>1. "at" \in DOMAIN f /\ "names" \in DOMAIN f
      BY <1>1
  <2> SUFFICES ASSUME NEW g, g = [f EXCEPT !.at = w, !.names = n]
               PROVE  g = [op |-> f.op, type |-> f.type, text |-> f.text, at |-> w,
                           try |-> f.try, same |-> f.same, names |-> n]
      OBVIOUS
  <2> QED BY <1>1, <2>1
<1> QED BY <1>2

\* What a step of a call leaves to show: the vault only grows.
LEMMA InvariantIs ==
    ASSUME Invariant
    PROVE  /\ TableOK(table) /\ Stacks(table, stack)
           /\ \A a \in answers : AnswerOK(table, a)
    BY DEF Invariant, Stacks

\* A step of a call that adds nothing to the vault nor to the memory.
LEMMA OnlyTheCall ==
    ASSUME Invariant, UNCHANGED <<table, shared>>, Quiet, Stacks(table, stack'),
           \A a \in answers' : AnswerOK(table, a)
    PROVE  Invariant'
    BY DEF Invariant, Quiet, Stacks

----------------------------------------------------------------------------
(* Each step keeps the invariant. *)

LEMMA TopIs ==
    ASSUME Invariant, NEW th \in Threads, stack[th] # <<>>
    PROVE  FrameOK(Top(th)) /\ Told(table, Top(th))
    BY StackFacts DEF Invariant, Top

\* A call begins, goes on, asks or ends and nothing else changes.
LEMMA CallKeeps ==
    ASSUME Invariant, NEW th \in Threads, Call(th)
    PROVE  Invariant'
<1>1. PICK v \in Values :
          stack' = [stack EXCEPT ![th] = <<Frame(Part(v.type, v.text))>>]
    BY DEF Call
<1> DEFINE s == <<Frame(Part(v.type, v.text))>>
<1>2. StackOK(table, s)
    BY FirstCall
<1>3. stack' = [stack EXCEPT ![th] = s]
    BY <1>1
<1> HIDE DEF s
<1>4. \A u \in Threads : stack'[u] = IF u = th THEN s ELSE stack[u]
    BY <1>3 DEF Invariant
<1>5. stack' = [u \in Threads |-> stack'[u]]
    BY <1>3 DEF Invariant
<1>6. Stacks(table, stack')
    BY <1>2, <1>4, <1>5, InvariantIs DEF Stacks
<1>7. calls' \in 0..MaxCalls
    BY EngineAssumption DEF Call, Invariant
<1> QED BY <1>6, <1>7 DEF Invariant, Call, Stacks

LEMMA EnterKeeps ==
    ASSUME Invariant, NEW th \in Threads, Enter(th)
    PROVE  Invariant'
<1> DEFINE f == Top(th)  known == RowOf(Key(f.type, f.text), Stored(f.type, f.text))
<1>1. /\ stack[th] # <<>> /\ f.op = "value" /\ f.at = "enter"
      /\ UNCHANGED <<table, shared>> /\ Quiet
    BY DEF Enter
<1>2. FrameOK(f) /\ Told(table, f) /\ Legit(f.type, f.text)
    BY <1>1, TopIs DEF FrameOK
<1>3. /\ Stacks(table, stack) /\ \A a \in answers : AnswerOK(table, a)
    BY InvariantIs
<1>4. ASSUME NEW out, AnswerIs(table, f, out), Return(th, out) PROVE Invariant'
    BY <1>1, <1>3, <1>4, ReturnKeeps, OnlyTheCall
<1>5. CASE LeftAsItIs(f) /\ Return(th, f.text)
  <2>1. AnswerIs(table, f, f.text)
      BY <1>1 DEF AnswerIs
  <2> QED BY <1>4, <1>5, <2>1
<1>6. CASE f.type \in SecretTypes /\ Return(th, SecretReference(f.text))
  <2>1. AnswerIs(table, f, SecretReference(f.text))
      BY <1>1, <1>6 DEF AnswerIs
  <2> QED BY <1>4, <1>6, <2>1
<1>7. ASSUME NEW r \in known, Return(th, r.sur) PROVE Invariant'
  <2>1. r \in table /\ r.type = Key(f.type, f.text) /\ r.real = Stored(f.type, f.text)
      BY <1>7 DEF RowOf
  <2>2. r.type \notin Shareds
      BY <1>2, <2>1, StoredKeeps
  <2>3. AnswerIs(table, f, r.sur)
      BY <1>1, <2>1, <2>2 DEF AnswerIs
  <2> QED BY <1>4, <1>7, <2>3
<1>8. CASE Continue(th, [f EXCEPT !.at = "draw"]) /\ UNCHANGED answers
  <2>1. LET g == [f EXCEPT !.at = "draw"]
        IN  /\ FrameOK(g) /\ Told(table, g)
            /\ g.op = f.op /\ g.type = f.type /\ g.text = f.text
      BY <1>1, <1>2, Moves
  <2>2. Stacks(table, stack')
      BY <1>1, <1>3, <1>8, <2>1, ContinueKeeps
  <2> QED BY <1>1, <1>3, <1>8, <2>2, OnlyTheCall
<1> QED BY <1>5, <1>6, <1>7, <1>8 DEF Enter

LEMMA AskPartKeeps ==
    ASSUME Invariant, NEW th \in Threads, AskPart(th)
    PROVE  Invariant'
<1> DEFINE f == Top(th)  asks == AskedFor(f.type, f.text)  a == asks[Len(f.names) + 1]
           g == Frame(a)
<1>1. /\ stack[th] # <<>> /\ f.op = "value" /\ f.at = "draw" /\ f.try < MaxTries
      /\ Len(f.names) < Len(asks)
      /\ stack' = [stack EXCEPT ![th] = <<g>> \o @]
      /\ UNCHANGED <<table, shared, answers>> /\ Quiet
    BY DEF AskPart
<1>2. FrameOK(f) /\ WellMade(f.text) /\ Len(f.names) \in Nat
    BY <1>1, TopIs, SeqFacts DEF FrameOK, Legit
<1>3. Len(asks) \in Nat
    BY <1>2, AsksAreCalls
<1>4. Len(f.names) + 1 \in 1..Len(asks)
    BY <1>1, <1>2, <1>3
<1>5. /\ a = [op |-> a.op, type |-> a.type, text |-> a.text]
      /\ a.op \in {"value", "share"}
      /\ a.op = "value" => Legit(a.type, a.text)
      /\ a.op = "share" => a.type \in Shareds /\ Shape(a.type, a.text)
    BY <1>2, <1>4, AsksAreCalls
<1>6. FrameOK(g) /\ Told(table, g)
    BY <1>5, NewFrame
<1>7. g.op = a.op /\ g.type = a.type /\ g.text = a.text
    BY FrameFields
<1>8. Under(f, g)
    BY <1>1, <1>5, <1>7 DEF Under
<1> HIDE DEF g
<1>9. Stacks(table, stack')
    BY <1>1, <1>6, <1>8, InvariantIs, AskKeeps
<1> QED BY <1>1, <1>9, InvariantIs, OnlyTheCall

LEMMA DrawsItselfKeeps ==
    ASSUME Invariant, NEW th \in Threads, DrawsItself(th)
    PROVE  Invariant'
<1> DEFINE f == Top(th)  g == [NextTry(f) EXCEPT !.same = @ + 1]
<1>1. /\ stack[th] # <<>> /\ f.at = "draw" /\ f.try < MaxTries /\ Continue(th, g)
      /\ UNCHANGED <<table, shared, answers>> /\ Quiet
    BY DEF DrawsItself, Ready
<1>2. FrameOK(f)
    BY <1>1, TopIs
<1>3. /\ FrameOK(g) /\ Told(table, g) /\ g.op = f.op /\ g.type = f.type /\ g.text = f.text
    BY <1>1, <1>2, Moves
<1> HIDE DEF g
<1>4. Stacks(table, stack')
    BY <1>1, <1>3, InvariantIs, ContinueKeeps
<1> QED BY <1>1, <1>4, InvariantIs, OnlyTheCall

LEMMA WaitKeeps ==
    ASSUME Invariant, NEW th \in Threads, Wait(th)
    PROVE  Invariant'
<1> DEFINE f == Top(th)
<1>1. /\ stack[th] # <<>> /\ f.at = "wait" /\ UNCHANGED <<table, shared>> /\ Quiet
    BY DEF Wait
<1>2. FrameOK(f) /\ Told(table, f)
    BY <1>1, TopIs
<1>3. PICK out \in {f.text, f.names[1]} : Return(th, out)
    BY DEF Wait
<1>4. AnswerIs(table, f, f.names[1])
    BY <1>1, <1>2 DEF Told
<1>5. f.op # "share"
    BY <1>1, <1>2 DEF FrameOK
<1>6. AnswerIs(table, f, out)
    BY <1>3, <1>4, <1>5 DEF AnswerIs
<1> QED BY <1>1, <1>3, <1>6, InvariantIs, ReturnKeeps, OnlyTheCall

LEMMA ExhaustedKeeps ==
    ASSUME Invariant, NEW th \in Threads, Exhausted(th)
    PROVE  Invariant'
<1> DEFINE f == Top(th)
<1>1. /\ stack[th] # <<>> /\ f.op = "value" /\ UNCHANGED <<table, shared>> /\ Quiet
      /\ Return(th, f.text) \/ Refuse(th)
    BY DEF Exhausted
<1>2. AnswerIs(table, f, f.text)
    BY <1>1 DEF AnswerIs
<1>3. CASE Return(th, f.text)
    BY <1>1, <1>2, <1>3, InvariantIs, ReturnKeeps, OnlyTheCall
<1>4. CASE Refuse(th)
    BY <1>1, <1>4, InvariantIs, RefuseKeeps, OnlyTheCall
<1> QED BY <1>1, <1>3, <1>4

LEMMA RefusalsKeep ==
    ASSUME Invariant, NEW th \in Threads, NoneLeft(th) \/ VaultFails(th)
    PROVE  Invariant'
<1>1. stack[th] # <<>> /\ Refuse(th) /\ UNCHANGED <<table, shared>>
    BY DEF NoneLeft, VaultFails
<1>2. Stacks(table, stack') /\ \A a \in answers' : AnswerOK(table, a)
    BY <1>1, InvariantIs, RefuseKeeps
<1>3. CASE NoneLeft(th)
    BY <1>1, <1>2, <1>3, OnlyTheCall DEF NoneLeft
<1>4. CASE VaultFails(th)
  <2>1. changes' \in 0..MaxChanges
      BY <1>4, EngineAssumption DEF VaultFails, Invariant
  <2> QED BY <1>1, <1>2, <1>4, <2>1 DEF VaultFails, Invariant, Stacks
<1> QED BY <1>3, <1>4

LEMMA AroundKeeps ==
    ASSUME Invariant,
           \/ \E x \in Revealable : Rule(x)
           \/ \E p \in Procs : Restart(p)
           \/ Midnight
    PROVE  Invariant'
<1>1. CASE \E x \in Revealable : Rule(x)
  <2>1. /\ changes' \in 0..MaxChanges /\ revealed' \subseteq ever'
        /\ UNCHANGED <<table, shared, stack, today, answers, calls>>
      BY <1>1, EngineAssumption DEF Rule, Invariant
  <2> QED BY <2>1 DEF Invariant
<1>2. ASSUME NEW p \in Procs, Restart(p) PROVE Invariant'
  <2>1. /\ changes' \in 0..MaxChanges
        /\ UNCHANGED <<table, revealed, today, answers, open, ever, calls>>
      BY <1>2, EngineAssumption DEF Restart, Invariant
  <2>2. stack' = [th \in Threads |-> IF Owner[th] = p THEN <<>> ELSE stack[th]]
      BY <1>2 DEF Restart
  <2>3. Stacks(table, stack')
      BY <2>2, InvariantIs, EmptyStack DEF Stacks
  <2>4. /\ shared' = [q \in Procs |-> shared'[q]]
        /\ \A q \in Procs : shared'[q] = IF q = p THEN {} ELSE shared[q]
      BY <1>2 DEF Restart, Invariant
  <2>5. \A q \in Procs : \A m \in shared'[q] : MemoryOK(table, m)
      BY <2>4 DEF Invariant
  <2> QED BY <2>1, <2>3, <2>4, <2>5 DEF Invariant, Stacks
<1>3. CASE Midnight
    BY <1>3 DEF Midnight, Invariant
<1> QED BY <1>1, <1>2, <1>3

\* A step of a call that adds one row.
LEMMA TheCallNames ==
    ASSUME Invariant, NEW r, table' = table \cup {r}, TableOK(table'),
           \A p \in Procs : \A m \in shared'[p] : MemoryOK(table', m),
           shared' = [p \in Procs |-> shared'[p]], Quiet, Stacks(table', stack'),
           \A a \in answers' : AnswerOK(table', a)
    PROVE  Invariant'
    BY DEF Invariant, Quiet, Stacks

\* What bind answered ends the call, or is kept for the time of the question.
LEMMA BoundIs ==
    ASSUME NEW th \in Threads, NEW f, NEW out, Bound(th, f, out)
    PROVE  \/ Return(th, out)
           \/ Continue(th, [f EXCEPT !.at = "wait", !.names = <<out>>]) /\ UNCHANGED answers
    BY DEF Bound

LEMMA BoundKeeps ==
    ASSUME NEW tb, Stacks(tb, stack), \A a \in answers : AnswerOK(tb, a),
           NEW th \in Threads, stack[th] # <<>>, FrameOK(Top(th)),
           Top(th).op = "value", Top(th).at = "draw",
           NEW out, AnswerIs(tb, Top(th), out), Bound(th, Top(th), out)
    PROVE  Stacks(tb, stack') /\ \A a \in answers' : AnswerOK(tb, a)
<1> DEFINE f == Top(th)
<1>1. FrameOK(f)
    OBVIOUS
<1>2. CASE Return(th, out)
    BY <1>2, ReturnKeeps
<1>3. CASE Continue(th, [f EXCEPT !.at = "wait", !.names = <<out>>]) /\ UNCHANGED answers
  <2> DEFINE n == <<out>>  g == [f EXCEPT !.at = "wait", !.names = n]
  <2>1. n \in Seq({out}) /\ Len(n) = 1 /\ n[1] = out
      OBVIOUS
  <2>2. IsSeq(n)
      BY <2>1, SeqIs
  <2> HIDE DEF n
  <2>3. g = [op |-> f.op, type |-> f.type, text |-> f.text, at |-> "wait", try |-> f.try,
             same |-> f.same, names |-> n]
    <3> HIDE DEF f
    <3> QED BY <1>1, Waits
  <2> HIDE DEF g
  <2>4. /\ g.op = f.op /\ g.type = f.type /\ g.text = f.text /\ g.at = "wait"
        /\ g.try = f.try /\ g.same = f.same /\ g.names = n
      BY <2>3
  <2>5. FrameOK(g)
      BY <1>1, <2>1, <2>2, <2>3, <2>4 DEF FrameOK
  <2>6. AnswerIs(tb, g, g.names[1])
      BY <2>1, <2>4 DEF AnswerIs
  <2>7. Told(tb, g)
      BY <2>4, <2>6 DEF Told
  <2>8. Continue(th, g)
      BY <1>3 DEF g, n
  <2>9. Stacks(tb, stack')
      BY <2>4, <2>5, <2>7, <2>8, ContinueKeeps
  <2> QED BY <1>3, <2>9
<1> QED BY <1>2, <1>3, BoundIs

LEMMA BindKeeps ==
    ASSUME Invariant, NEW th \in Threads, Bind(th)
    PROVE  Invariant'
<1> DEFINE f == Top(th)  type == Key(f.type, f.text)  real == Stored(f.type, f.text)
           c == Drawn(th)  r == Row(type, real, c)
<1>1. /\ stack[th] # <<>> /\ f.op = "value" /\ f.at = "draw" /\ f.try < MaxTries
      /\ Len(f.names) = Len(AskedFor(f.type, f.text))
      /\ UNCHANGED shared /\ Quiet
    BY DEF Bind, Ready
<1>2. FrameOK(f) /\ Told(table, f) /\ Legit(f.type, f.text)
    BY <1>1, TopIs DEF FrameOK
<1>3. type \notin Shareds
    BY <1>2, StoredKeeps
<1>4. TableOK(table) /\ Stacks(table, stack) /\ \A a \in answers : AnswerOK(table, a)
    BY InvariantIs
<1>5. RowOK(table, r)
    BY <1>1, <1>2, <1>4, CandidateRow DEF Drawn
<1>6. ASSUME Inserts(type, real, c), table' = table \cup {r}, Bound(th, f, c)
      PROVE  Invariant'
  <2>1. \A q \in table : q.sur # c /\ ~(q.type = type /\ q.real = real)
      BY <1>6 DEF Inserts, Taken, RowOf
  <2>2. r.type = type /\ r.real = real /\ r.sur = c
      BY DEF Row
  <2>3. TableOK(table')
      BY <1>4, <1>5, <1>6, <2>1, <2>2, OneRowMore
  <2>4. AnswerIs(table', f, c)
      BY <1>1, <1>3, <1>6, <2>2 DEF AnswerIs
  <2>5. /\ Stacks(table', stack) /\ \A a \in answers : AnswerOK(table', a)
        /\ \A p \in Procs : \A m \in shared[p] : MemoryOK(table', m)
      BY <1>4, <1>6, Grows DEF Stacks, Invariant
  <2> HIDE DEF c, r
  <2>6. Stacks(table', stack') /\ \A a \in answers' : AnswerOK(table', a)
      BY <1>1, <1>2, <1>6, <2>4, <2>5, BoundKeeps
  <2> QED BY <1>1, <1>6, <2>3, <2>5, <2>6, TheCallNames DEF Invariant
<1>7. ASSUME NEW q \in Existing(type, real), Bound(th, f, q.sur), UNCHANGED table
      PROVE  Invariant'
  <2>1. q \in table /\ q.type \notin Shareds /\ q.real = real
      BY <1>3, <1>7 DEF Existing, RowOf, Current
  <2>2. AnswerIs(table, f, q.sur)
      BY <1>1, <2>1 DEF AnswerIs
  <2>3. Stacks(table, stack') /\ \A a \in answers' : AnswerOK(table, a)
      BY <1>1, <1>2, <1>4, <1>7, <2>2, BoundKeeps
  <2> QED BY <1>1, <1>7, <2>3, OnlyTheCall
<1>8. ASSUME Continue(th, NextTry(f)), UNCHANGED <<table, answers>> PROVE Invariant'
  <2>1. /\ FrameOK(NextTry(f)) /\ Told(table, NextTry(f)) /\ NextTry(f).op = f.op
        /\ NextTry(f).type = f.type /\ NextTry(f).text = f.text
      BY <1>1, <1>2, Moves
  <2>2. Stacks(table, stack')
      BY <1>1, <1>4, <1>8, <2>1, ContinueKeeps
  <2> QED BY <1>1, <1>4, <1>8, <2>2, OnlyTheCall
<1> HIDE DEF c
<1> QED BY <1>6, <1>7, <1>8 DEF Bind, c

\* What a process remembers is what the vault held, or could not hold.
LEMMA RememberKeeps ==
    ASSUME NEW tb, shared = [p \in Procs |-> shared[p]],
           \A p \in Procs : \A m \in shared[p] : MemoryOK(tb, m),
           NEW th \in Threads, NEW f, NEW sur, Remember(th, f, sur),
           f.type \in Shareds, Shape(f.type, f.text), sur.k \in DOMAIN Fields,
           Stands(tb, f.type, f.text, sur)
    PROVE  /\ shared' = [p \in Procs |-> shared'[p]]
           /\ \A p \in Procs : \A m \in shared'[p] : MemoryOK(tb, m)
<1> DEFINE n == Row(f.type, f.text, sur)  o == Owner[th]
<1>1. /\ n = Row(n.type, n.real, n.sur) /\ n.type = f.type /\ n.real = f.text /\ n.sur = sur
    BY DEF Row
<1>2. MemoryOK(tb, n)
    BY <1>1, ShapeKind DEF MemoryOK, RowType
<1>3. o \in Procs
    BY DEF Procs
<1>4. shared' = [shared EXCEPT ![o] = shared[o] \cup {n}]
    BY DEF Remember
<1> HIDE DEF n, o
<1>5. \A p \in Procs : shared'[p] = IF p = o THEN shared[o] \cup {n} ELSE shared[p]
    BY <1>3, <1>4
<1>6. shared' = [p \in Procs |-> shared'[p]]
    BY <1>4
<1> QED BY <1>2, <1>3, <1>5, <1>6

LEMMA LookupKeeps ==
    ASSUME Invariant, NEW th \in Threads, Lookup(th)
    PROVE  Invariant'
<1> DEFINE f == Top(th)
<1>1. /\ stack[th] # <<>> /\ f.op = "share" /\ f.at = "enter"
      /\ UNCHANGED table /\ Quiet
    BY DEF Lookup
<1>2. FrameOK(f) /\ f.type \in Shareds /\ Shape(f.type, f.text)
    BY <1>1, TopIs DEF FrameOK
<1>3. TableOK(table) /\ Stacks(table, stack) /\ \A a \in answers : AnswerOK(table, a)
    BY InvariantIs
<1>4. ASSUME NEW m \in Memory(th, f), Return(th, m.sur), UNCHANGED shared
      PROVE  Invariant'
  <2>1. Owner[th] \in Procs
      BY DEF Procs
  <2>2. MemoryOK(table, m) /\ m.type = f.type /\ m.real = f.text
      BY <1>4, <2>1 DEF Memory, Invariant
  <2>3. AnswerIs(table, f, m.sur)
      BY <1>1, <2>2 DEF AnswerIs, MemoryOK
  <2>4. Stacks(table, stack') /\ \A a \in answers' : AnswerOK(table, a)
      BY <1>1, <1>3, <1>4, <2>3, ReturnKeeps
  <2> QED BY <1>1, <1>4, <2>4, OnlyTheCall
<1>5. ASSUME NEW r \in RowOf(f.type, f.text), Return(th, r.sur), Remember(th, f, r.sur)
      PROVE  Invariant'
  <2>1. r \in table /\ r.type = f.type /\ r.real = f.text /\ RowOK(table, r)
      BY <1>3, <1>5 DEF RowOf, TableOK
  <2>2. Stands(table, f.type, f.text, r.sur) /\ r.sur.k \in DOMAIN Fields
      BY <2>1 DEF RowOK, RowType, Stands
  <2>3. AnswerIs(table, f, r.sur)
      BY <1>1, <2>2 DEF AnswerIs
  <2>4. Stacks(table, stack') /\ \A a \in answers' : AnswerOK(table, a)
      BY <1>1, <1>3, <1>5, <2>3, ReturnKeeps
  <2>5. /\ shared' = [p \in Procs |-> shared'[p]]
        /\ \A p \in Procs : \A m \in shared'[p] : MemoryOK(table, m)
      BY <1>2, <1>5, <2>2, RememberKeeps DEF Invariant
  <2> QED BY <1>1, <2>4, <2>5 DEF Invariant, Quiet, Stacks
<1>6. ASSUME Continue(th, [f EXCEPT !.at = "draw"]), UNCHANGED <<shared, answers>>
      PROVE  Invariant'
  <2>1. LET g == [f EXCEPT !.at = "draw"]
        IN  /\ FrameOK(g) /\ Told(table, g)
            /\ g.op = f.op /\ g.type = f.type /\ g.text = f.text
      BY <1>1, <1>2, Moves
  <2>2. Stacks(table, stack')
      BY <1>1, <1>3, <1>6, <2>1, ContinueKeeps
  <2> QED BY <1>1, <1>3, <1>6, <2>2, OnlyTheCall
<1> QED BY <1>4, <1>5, <1>6 DEF Lookup

LEMMA AllocateKeeps ==
    ASSUME Invariant, NEW th \in Threads, Allocate(th)
    PROVE  Invariant'
<1> DEFINE f == Top(th)  c == FakeShared(f.type, f.text, f.try)  r == Row(f.type, f.text, c)
<1>1. /\ stack[th] # <<>> /\ f.op = "share" /\ f.at = "draw" /\ f.try < MaxTries /\ Quiet
    BY DEF Allocate
<1>2. FrameOK(f) /\ f.type \in Shareds /\ Shape(f.type, f.text)
    BY <1>1, TopIs DEF FrameOK
<1>3. TableOK(table) /\ Stacks(table, stack) /\ \A a \in answers : AnswerOK(table, a)
    BY InvariantIs
<1>4. Shape(f.type, c) /\ c.k \in DOMAIN Fields
    BY <1>2, FakeShape, ShapeKind
<1>5. ASSUME Inserts(f.type, f.text, c), table' = table \cup {r}, Remember(th, f, c),
             Return(th, c)
      PROVE  Invariant'
  <2> HIDE DEF c
  <2>1. r = Row(r.type, r.real, r.sur) /\ r.type = f.type /\ r.real = f.text /\ r.sur = c
      BY DEF Row
  <2>2. Group(r.type, r.real) = "none"
      BY <1>2, <2>1 DEF Group, Shareds
  <2>3. f.text.k \in DOMAIN Fields
      BY <1>2, ShapeKind
  <2> HIDE DEF r
  <2>4. RowOK(table, r)
      BY <1>2, <1>4, <2>1, <2>2, <2>3 DEF RowOK, RowType
  <2>5. \A q \in table : q.sur # c /\ ~(q.type = f.type /\ q.real = f.text)
      BY <1>5 DEF Inserts, Taken, RowOf
  <2>6. TableOK(table')
      BY <1>3, <1>5, <2>1, <2>4, <2>5, OneRowMore
  <2>7. Stands(table', f.type, f.text, c)
      BY <1>5, <2>1 DEF Stands
  <2>8. AnswerIs(table', f, c)
      BY <1>1, <2>7 DEF AnswerIs
  <2>9. /\ Stacks(table', stack) /\ \A a \in answers : AnswerOK(table', a)
        /\ \A p \in Procs : \A m \in shared[p] : MemoryOK(table', m)
      BY <1>3, <1>5, Grows DEF Stacks, Invariant
  <2>10. Stacks(table', stack') /\ \A a \in answers' : AnswerOK(table', a)
      BY <1>1, <1>5, <2>8, <2>9, ReturnKeeps
  <2>11. shared = [p \in Procs |-> shared[p]]
      BY DEF Invariant
  <2>12. /\ shared' = [p \in Procs |-> shared'[p]]
         /\ \A p \in Procs : \A m \in shared'[p] : MemoryOK(table', m)
      BY <1>2, <1>4, <1>5, <2>7, <2>9, <2>11, RememberKeeps
  <2> QED BY <1>1, <1>5, <2>6, <2>10, <2>12, TheCallNames
<1>6. ASSUME NEW q \in Existing(f.type, f.text), Remember(th, f, q.sur), Return(th, q.sur),
             UNCHANGED table
      PROVE  Invariant'
  <2>1. q \in table /\ RowOK(table, q)
      BY <1>3, <1>6 DEF Existing, RowOf, Current, TableOK
  <2>2. Stands(table, f.type, f.text, q.sur)
      BY <1>6, <2>1 DEF Existing, RowOf, Current, Stands
  <2>3. AnswerIs(table, f, q.sur)
      BY <1>1, <2>2 DEF AnswerIs
  <2>4. Stacks(table, stack') /\ \A a \in answers' : AnswerOK(table, a)
      BY <1>1, <1>3, <1>6, <2>3, ReturnKeeps
  <2>5. q.sur.k \in DOMAIN Fields
      BY <2>1 DEF RowOK, RowType
  <2>6. /\ shared' = [p \in Procs |-> shared'[p]]
        /\ \A p \in Procs : \A m \in shared'[p] : MemoryOK(table, m)
      BY <1>2, <1>6, <2>2, <2>5, RememberKeeps DEF Invariant
  <2> QED BY <1>1, <1>6, <2>4, <2>6 DEF Invariant, Quiet, Stacks
<1>7. ASSUME Continue(th, NextTry(f)), UNCHANGED <<table, shared, answers>> PROVE Invariant'
  <2>1. /\ FrameOK(NextTry(f)) /\ Told(table, NextTry(f)) /\ NextTry(f).op = f.op
        /\ NextTry(f).type = f.type /\ NextTry(f).text = f.text
      BY <1>1, <1>2, Moves
  <2>2. Stacks(table, stack')
      BY <1>1, <1>3, <1>7, <2>1, ContinueKeeps
  <2> QED BY <1>1, <1>3, <1>7, <2>2, OnlyTheCall
<1> HIDE DEF c
<1> QED BY <1>1, <1>5, <1>6, <1>7 DEF Allocate, c

\* What the calls in progress, the memory of the processes and the vault hold together,
\* whatever is called, revealed, refused or restarted, and in which order
\* (substitute_value, _alloc_shared, Vault.bind).
THEOREM InvariantHolds == Spec => []Invariant
<1>1. Init => Invariant
  <2> SUFFICES ASSUME Init PROVE Invariant
      OBVIOUS
  <2>1. TableOK({})
      BY DEF TableOK
  <2>2. \A th \in Threads : stack[th] = <<>>
      BY DEF Init
  <2>3. \A th \in Threads : StackOK(table, stack[th])
      BY <2>2, EmptyStack
  <2> QED BY <2>1, <2>3, EngineAssumption DEF Init, Invariant
<1>2. Invariant /\ [Next]_vars => Invariant'
  <2> SUFFICES ASSUME Invariant, [Next]_vars PROVE Invariant'
      OBVIOUS
  <2>1. CASE UNCHANGED vars
      BY <2>1 DEF Invariant, vars
  <2>2. ASSUME NEW th \in Threads, Call(th) \/ Run(th) \/ VaultFails(th) PROVE Invariant'
      BY <2>2, CallKeeps, EnterKeeps, AskPartKeeps, DrawsItselfKeeps, BindKeeps, WaitKeeps,
         ExhaustedKeeps, LookupKeeps, AllocateKeeps, RefusalsKeep DEF Run
  <2>3. CASE \/ \E x \in Revealable : Rule(x)
             \/ \E p \in Procs : Restart(p)
             \/ Midnight
      BY <2>3, AroundKeeps
  <2> QED BY <2>1, <2>2, <2>3 DEF Next
<1> QED BY <1>1, <1>2, PTL DEF Spec

----------------------------------------------------------------------------
(* What follows. *)

\* Every variable of the engine keeps its type, a call is never told more than it
\* asked for, and no row or memory holds anything but a text.
THEOREM TypeCorrect == Spec => []TypeOK
<1>1. Invariant => TypeOK
  <2> SUFFICES ASSUME Invariant PROVE TypeOK
      OBVIOUS
  <2>1. \A r \in table : RowType(r)
      BY DEF Invariant, TableOK, RowOK
  <2>2. \A p \in Procs : \A m \in shared[p] : RowType(m) /\ m.type \in Shareds
      BY DEF Invariant, MemoryOK
  <2>3. ASSUME NEW th \in Threads, NEW i \in DOMAIN stack[th]
        PROVE  FrameOK(stack[th][i])
    <3>1. StackOK(table, stack[th])
        BY DEF Invariant
    <3>2. DOMAIN stack[th] = 1..Len(stack[th])
        BY <3>1, SeqFacts DEF StackOK
    <3> QED BY <2>3, <3>1, <3>2 DEF StackOK
  <2>4. \A f : FrameOK(f) =>
               /\ f.op \in {"value", "share"} /\ f.at \in {"enter", "draw", "wait"}
               /\ f.try \in 0..MaxTries /\ f.same \in 0..f.try
               /\ (f.op = "share" \/ f.at = "enter") => f.names = <<>>
               /\ f.at = "draw" /\ f.op = "value"
                      => Len(f.names) <= Len(AskedFor(f.type, f.text))
               /\ f.at = "wait" => Len(f.names) = 1
      BY DEF FrameOK
  <2> QED BY <2>1, <2>2, <2>3, <2>4 DEF TypeOK, Invariant
<1> QED BY <1>1, InvariantHolds, PTL

\* Two values that share a zone, a subnet, an organisation or a registry keep it
\* in common under their substitutes, and two that do not do not get it, for any
\* threads and processes, any draws and any order (_alloc_shared, _canonical_shared):
\* but for an attribute whose text is also a value of its own.
THEOREM MembersStayTogether == Spec => []CoMembership
<1>1. Invariant => CoMembership
  <2> SUFFICES ASSUME Invariant, NEW r \in CoMembers, NEW q \in CoMembers,
                      ~Namesake(r), ~Namesake(q),
                      Group(r.type, r.real) = Group(q.type, q.real)
               PROVE  Attribute(r.type, r.real) = Attribute(q.type, q.real)
                      <=> Attribute(r.type, r.sur) = Attribute(q.type, q.sur)
      BY DEF CoMembership, KeptTogether
  <2> DEFINE G == Group(r.type, r.real)  Empty == Name(<<>>, FALSE)
             A(p) == Attribute(p.type, p.real)  B(p) == Attribute(p.type, p.sur)
  <2>1. TableOK(table) /\ r \in table /\ q \in table
      BY DEF Invariant, CoMembers
  <2>2. G # "none" /\ G \in Shareds
      BY DEF CoMembers, Group, Shareds
  <2>3. ~Known(table, A(r)) /\ ~Known(table, A(q))
      BY DEF Namesake, Current, Known
  <2>4. /\ A(r) = Empty => B(r) = Empty
        /\ A(r) # Empty => Row(G, A(r), B(r)) \in table
      BY <2>1, <2>2, <2>3 DEF TableOK, RowOK, Settled
  <2>5. /\ A(q) = Empty => B(q) = Empty
        /\ A(q) # Empty => Row(G, A(q), B(q)) \in table
      BY <2>1, <2>2, <2>3 DEF TableOK, RowOK, Settled
  <2>6. ASSUME NEW a, NEW b, Row(G, a, b) \in table PROVE b # Empty
    <3>1. Shape(G, b)
        BY <2>1, <2>2, <2>6 DEF TableOK, RowOK, Row
    <3>2. b.k = "name" => b.labels # <<>>
      <4>1. CASE G \in {"_ZONE", "_REGISTRY"}
          BY <3>1, <4>1 DEF Shape
      <4>2. CASE G = "_REPO_ORG"
        <5>1. PICK w : b = Word(w)
            BY <3>1, <4>2 DEF Shape
        <5>2. b.labels = <<w>>
            BY <5>1 DEF Word, Name
        <5>3. <<w>> # <<>>
            OBVIOUS
        <5> QED BY <5>2, <5>3
      <4>3. CASE G = "_SUBNET"
        <5>1. b = [k |-> "ip", net |-> b.net, host |-> 0]
            BY <3>1, <4>3 DEF Shape
        <5>2. b.k = "ip"
            BY <5>1
        <5> QED BY <5>2
      <4> QED BY <2>2, <4>1, <4>2, <4>3 DEF Shareds
    <3>3. Empty.k = "name" /\ Empty.labels = <<>>
        BY DEF Name
    <3> QED BY <3>2, <3>3
  <2>7. ASSUME NEW a, NEW b, NEW d, NEW e, Row(G, a, b) \in table, Row(G, d, e) \in table
        PROVE  a = d <=> b = e
      BY <2>1, <2>7 DEF TableOK, Row
  <2> HIDE DEF A, B, G, Empty
  <2>8. A(r) = A(q) <=> B(r) = B(q)
      BY <2>4, <2>5, <2>6, <2>7
  <2> QED BY <2>8 DEF A, B
<1> QED BY <1>1, InvariantHolds, PTL

\* What is sent in place of a value can be restored, and so can each of its
\* pieces: the row is in the vault when the answer is (substitute_value, Vault.bind).
THEOREM PiecesRestore == Spec => []EveryPieceRestores
<1>1. Invariant => EveryPieceRestores
  <2> SUFFICES ASSUME Invariant, NEW a \in answers, a.out # a.text, a.out # REFUSED,
                      a.type \notin SecretTypes
               PROVE  /\ \E r \in table : r.sur = a.out /\ r.real = Stored(a.type, a.text)
                      /\ \A y \in Inside(a.out) \ Inside(a.text) :
                            \E r \in table :
                               /\ r.sur = y /\ r.type \notin Shareds
                               /\ r.real \in Inside(a.text)
                                             \cup {Lower(z) : z \in Inside(a.text)}
      BY DEF EveryPieceRestores
  <2>1. Legit(a.type, a.text) /\ AnswerIs(table, Part(a.type, a.text), a.out)
      BY DEF Invariant, AnswerOK
  <2>2. PICK r \in table : /\ r.type \notin Shareds /\ r.sur = a.out
                           /\ r.real = Stored(a.type, a.text)
      BY <2>1 DEF AnswerIs, Part
  <2>3. Inside(r.real) = Inside(a.text)
      BY <2>1, <2>2, StoredKeeps
  <2>4. Restores(table, r)
      BY <2>2 DEF Invariant, TableOK, RowOK
  <2> QED BY <2>2, <2>3, <2>4 DEF Restores
<1> QED BY <1>1, InvariantHolds, PTL

\* A date moved within its side of the present stays on it.
LEMMA TurnsInside ==
    ASSUME NEW low \in Int, NEW high \in Int, low <= high, NEW o \in Int, NEW step \in Int
    PROVE  Turn(o, low, high, step) \in low..high
<1> DEFINE a == o - low + step  n == high - low + 1
<1>1. a \in Int /\ n \in Nat \ {0}
    OBVIOUS
<1> HIDE DEF a
<1>2. ASSUME NEW m \in Nat \ {0} PROVE a % m \in 0..(m - 1)
    BY <1>1, <1>2
<1>3. a % n \in 0..(n - 1)
    BY <1>1, <1>2
<1> SUFFICES low + (a % n) \in low..high
    BY DEF Turn, a
<1> QED BY <1>3

LEMMA DateSideKept ==
    ASSUME NEW d, d.g \in Grains, d.o \in Nat, NEW days \in Nat, NEW day \in Nat,
           d.g # "yearday", ~Narrow(d, day)
    PROVE  d.o <= Now(d.g, day) <=> SidedRank(d, days, day) <= Now(d.g, day)
<1> DEFINE now == Now(d.g, day)  low == Low(d.o, now)  high == High(d.g, d.o, now)
           s == Signed(Step(d.g, days), d.o <= now, high - low + 1)
<1>1. DaysPer[d.g] \in Nat \ {0} /\ Span[d.g] \in Nat \ {0, 1}
    BY DatesAssumption
<1>2. ASSUME NEW a \in Int, NEW m \in Nat \ {0} PROVE a \div m \in Int /\ a % m \in Int
    BY <1>2
<1>3. now \in Int
    BY <1>1, <1>2 DEF Now
<1>4. Step(d.g, days) \in Int
  <2> DEFINE p == DaysPer[d.g]  r == ((2 * days + p) \div (2 * p)) % Span[d.g]
  <2>1. p \in Nat \ {0} /\ 2 * days + p \in Int /\ 2 * p \in Nat \ {0}
      BY <1>1
  <2>2. (2 * days + p) \div (2 * p) \in Int
      BY <1>2, <2>1
  <2>3. r \in Int
      BY <1>1, <1>2, <2>2
  <2> HIDE DEF r
  <2>4. Step(d.g, days) = IF d.g = "day" THEN days ELSE IF r = 0 THEN 1 ELSE r
      BY DEF Step, r
  <2> QED BY <2>3, <2>4
<1> HIDE DEF now
<1>5. low \in Int /\ high \in Int /\ high - low >= 1
    BY <1>1, <1>3 DEF Narrow, Low, High, now
<1>6. s \in Int
  <2>1. ASSUME NEW k \in Int, NEW past, NEW n \in Int, n >= 2 PROVE Signed(k, past, n) \in Int
    <3> DEFINE b == IF n < 2 \/ k % (n - 1) = 0 THEN 1 ELSE k % (n - 1)
    <3>1. n - 1 \in Nat \ {0}
        BY <2>1
    <3>2. k % (n - 1) \in Int
        BY <1>2, <2>1, <3>1
    <3>3. b \in Int
        BY <3>2
    <3> HIDE DEF b
    <3>4. Signed(k, past, n) = IF past THEN -b ELSE b
        BY DEF Signed, b
    <3> QED BY <3>3, <3>4
  <2> HIDE DEF low, high
  <2>2. high - low + 1 \in Int /\ high - low + 1 >= 2
      BY <1>5
  <2> QED BY <1>4, <2>1, <2>2
<1>7. SidedRank(d, days, day) = Turn(d.o, low, high, s)
    BY DEF SidedRank, now
<1> HIDE DEF low, high, s
<1>8. Turn(d.o, low, high, s) \in low..high
  <2>1. low <= high
      BY <1>5
  <2> SUFFICES ASSUME NEW o \in Int, o = d.o PROVE Turn(o, low, high, s) \in low..high
      OBVIOUS
  <2> QED BY <1>5, <1>6, <2>1, TurnsInside
<1>9. d.o <= now => high = now
    BY DEF high, High
<1>10. ~(d.o <= now) => low = now + 1
    BY DEF low, Low
<1> QED BY <1>3, <1>5, <1>7, <1>8, <1>9, <1>10 DEF now

\* The row of a date that has a substitute.
LEMMA DateRow ==
    ASSUME NEW type, NEW x, Legit(type, x), Key(type, x) = "date",
           NEW t \in Nat, NEW names, NEW day \in Nat, SidedDates
    PROVE  LET d == Stored(type, x).items[1]
               e == Candidate(type, x, t, names, day).items[1]
               now == Now(d.g, day)
           IN  d.g = "yearday" \/ Narrow(d, day) \/ (d.o <= now <=> e.o <= now)
<1> DEFINE d == x.items[1]
<1>1. Kind(type, x) = "date"
    BY DEF Key, Legit, Kinds
<1>2. type = "DATE" /\ x.k = "dates" /\ Len(x.items) = 1 /\ Readable(x.items)
    BY <1>1 DEF Kind
<1>3. Stored(type, x) = x
    BY <1>1, <1>2 DEF Stored, Normalized
<1>4. x.items \in Seq([g : Grains \cup {"none"}, o : Nat, er : BOOLEAN])
    BY <1>2 DEF Legit, WellMade, Proper
<1>5. /\ DOMAIN x.items = {1} /\ d \in [g : Grains \cup {"none"}, o : Nat, er : BOOLEAN]
      /\ d.g \in Grains
  <2>1. DOMAIN x.items = 1..1
      BY <1>2, <1>4
  <2>2. 1..1 = {1} /\ 1 \in 1..1
      OBVIOUS
  <2>3. d \in [g : Grains \cup {"none"}, o : Nat, er : BOOLEAN]
    <3>1. ASSUME NEW S, NEW q \in Seq(S), Len(q) = 1 PROVE q[1] \in S
        BY <3>1
    <3> QED BY <1>2, <1>4, <3>1
  <2>4. d.g \in Grains
      BY <1>2, <2>1, <2>2 DEF Readable
  <2> HIDE DEF d
  <2> QED BY <2>1, <2>2, <2>3, <2>4
<1>6. Candidate(type, x, t, names, day) = FakeDates(x, t, day)
    BY <1>1, <1>2 DEF Candidate, FakeGeneric
<1>7. FakeDates(x, t, day).items = Shifted(x.items, Jours + t, SidedDates, day)
    BY <1>2 DEF FakeDates, Legit, WellMade, Proper, Fields
<1> SUFFICES ASSUME d.g # "yearday", ~Narrow(d, day)
             PROVE  d.o <= Now(d.g, day)
                        <=> Shifted(x.items, Jours + t, SidedDates, day)[1].o <= Now(d.g, day)
  <2> DEFINE e == Candidate(type, x, t, names, day).items[1]
             w == Shifted(x.items, Jours + t, SidedDates, day)[1]
  <2>1. e = w
      BY <1>6, <1>7
  <2>2. Stored(type, x).items[1] = d
      BY <1>3
  <2> HIDE DEF e, w, d
  <2>3. ASSUME d.g # "yearday" /\ ~Narrow(d, day)
                  => (d.o <= Now(d.g, day) <=> w.o <= Now(d.g, day))
        PROVE  d.g = "yearday" \/ Narrow(d, day)
                  \/ (d.o <= Now(d.g, day) <=> e.o <= Now(d.g, day))
      BY <2>1, <2>3
  <2> QED BY <2>2, <2>3 DEF e, w, d
<1>8. Shifted(x.items, Jours + t, SidedDates, day)[1]
         = Written(d, SidedRank(d, Jours + t, day))
    BY <1>5 DEF Shifted
<1>9. ASSUME NEW o PROVE Written(d, o).o = o
    BY <1>5 DEF Written
<1>10. Jours + t \in Nat
    BY EngineAssumption
<1> HIDE DEF d
<1>11. d.o \in Nat
    BY <1>5
<1>12. ASSUME NEW n \in Nat
       PROVE  d.o <= Now(d.g, day) <=> SidedRank(d, n, day) <= Now(d.g, day)
    BY <1>5, <1>11, <1>12, DateSideKept
<1>13. d.o <= Now(d.g, day) <=> SidedRank(d, Jours + t, day) <= Now(d.g, day)
    BY <1>10, <1>12
<1>14. Shifted(x.items, Jours + t, SidedDates, day)[1].o = SidedRank(d, Jours + t, day)
    BY <1>8, <1>9
<1> QED BY <1>13, <1>14

\* With dates = cote_du_present no date is bound to one of the other side of the day
\* of its draw, unless its side has no other (dates._cote, engine's candidate of a date).
THEOREM SidesAreKept == Spec => SideKept
<1> DEFINE P(r) == r.type = "date" /\ SidedDates
                      => LET d == r.real.items[1]
                             e == r.sur.items[1]
                             now == Now(d.g, today)
                         IN  d.g = "yearday" \/ Narrow(d, today)
                                \/ (d.o <= now <=> e.o <= now)
           A == \A r \in table' \ table : P(r)
<1>1. ASSUME Invariant, [Next]_vars PROVE A
  <2> SUFFICES ASSUME NEW r \in table', r \notin table PROVE P(r)
      OBVIOUS
  <2>1. CASE UNCHANGED table
      BY <2>1
  <2>2. ASSUME NEW th \in Threads, Bind(th) PROVE P(r)
    <3> DEFINE f == Top(th)
    <3>1. r \in table \/ r = Row(Key(f.type, f.text), Stored(f.type, f.text), Drawn(th))
        BY <2>2 DEF Bind
    <3>2. stack[th] # <<>> /\ f.op = "value"
        BY <2>2 DEF Bind, Ready
    <3>3. FrameOK(f)
        BY <3>2, <1>1, TopIs, InvariantIs
    <3>4. Legit(f.type, f.text) /\ f.try \in Nat
        BY <3>2, <3>3, EngineAssumption DEF FrameOK
    <3>5. today \in Nat
        BY <1>1, EngineAssumption DEF Invariant
    <3> QED BY <3>1, <3>4, <3>5, DateRow DEF Row, Drawn
  <2>3. ASSUME NEW th \in Threads, Allocate(th) PROVE P(r)
    <3> DEFINE f == Top(th)
    <3>1. \E c : r = Row(f.type, f.text, c)
        BY <2>3 DEF Allocate
    <3>2. stack[th] # <<>> /\ f.op = "share"
        BY <2>3 DEF Allocate
    <3>3. FrameOK(f)
        BY <3>2, <1>1, TopIs, InvariantIs
    <3> QED BY <3>1, <3>2, <3>3 DEF FrameOK, Row, Shareds
  <2>4. ASSUME NEW th \in Threads, ~Bind(th), ~Allocate(th),
               Call(th) \/ Run(th) \/ VaultFails(th)
        PROVE  UNCHANGED table
      BY <2>4 DEF Call, Run, VaultFails, Enter, AskPart, DrawsItself, Wait, Exhausted,
                  Lookup, NoneLeft
  <2>5. ASSUME \/ \E x \in Revealable : Rule(x)
               \/ \E p \in Procs : Restart(p)
               \/ Midnight
        PROVE  UNCHANGED table
      BY <2>5 DEF Rule, Restart, Midnight
  <2> QED BY <1>1, <2>1, <2>2, <2>3, <2>4, <2>5 DEF Next, vars
<1>2. Invariant /\ [Next]_vars => [A]_vars
    BY <1>1
<1> QED BY <1>2, InvariantHolds, PTL DEF Spec, SideKept

----------------------------------------------------------------------------
(* The frames of the threads, when one of them goes on, asks, or ends. *)

\* Each frame of a stack is a frame of another one, or this one.
FramesOf(r, s, g) == \A i \in 1..Len(r) : r[i] = g \/ \E j \in 1..Len(s) : r[i] = s[j]

\* Only the stack of one thread changes.
LEMMA OneStack ==
    ASSUME Stacks(table, stack), NEW th \in Threads, NEW r, stack' = [stack EXCEPT ![th] = r],
           NEW g, FramesOf(r, stack[th], g)
    PROVE  \A u \in Threads : FramesOf(stack'[u], stack[u], g)
<1> SUFFICES ASSUME NEW u \in Threads PROVE FramesOf(stack'[u], stack[u], g)
    OBVIOUS
<1>1. stack'[u] = IF u = th THEN r ELSE stack[u]
    BY DEF Stacks
<1>2. FramesOf(stack[u], stack[u], g)
    BY DEF FramesOf
<1>3. CASE u = th
  <2>1. stack'[u] = r /\ stack[u] = stack[th]
      BY <1>1, <1>3
  <2> QED BY <2>1
<1>4. CASE u # th
  <2>1. stack'[u] = stack[u]
      BY <1>1, <1>4
  <2> QED BY <1>2, <2>1
<1> QED BY <1>3, <1>4

LEMMA ContinueFrames ==
    ASSUME Stacks(table, stack), NEW th \in Threads, stack[th] # <<>>, NEW g, Continue(th, g)
    PROVE  \A u \in Threads : FramesOf(stack'[u], stack[u], g)
<1> DEFINE s == stack[th]  r == Swap(s, g)
<1>1. stack' = [stack EXCEPT ![th] = r]
    BY DEF Continue, Swap, Stacks
<1>2. IsSeq(s)
    BY DEF Stacks, StackOK
<1>3. /\ Len(r) = Len(s) /\ Len(s) \in Nat /\ r[1] = g
      /\ \A i \in 2..Len(s) : r[i] = s[i]
    BY <1>2, Replaced, SeqFacts
<1> HIDE DEF s, r
<1>4. FramesOf(r, s, g)
  <2> SUFFICES ASSUME NEW i \in 1..Len(r), i # 1 PROVE i \in 1..Len(s) /\ r[i] = s[i]
      BY <1>3 DEF FramesOf
  <2> QED BY <1>3
<1> QED BY <1>1, <1>4, OneStack DEF s

LEMMA AskingFrames ==
    ASSUME Stacks(table, stack), NEW th \in Threads, NEW g,
           stack' = [stack EXCEPT ![th] = <<g>> \o @]
    PROVE  \A u \in Threads : FramesOf(stack'[u], stack[u], g)
<1> DEFINE s == stack[th]  r == Push(s, g)
<1>1. stack' = [stack EXCEPT ![th] = r]
    BY DEF Push, Stacks
<1>2. IsSeq(s)
    BY DEF Stacks, StackOK
<1>3. /\ Len(r) = Len(s) + 1 /\ Len(s) \in Nat /\ r[1] = g
      /\ \A i \in 2..(Len(s) + 1) : r[i] = s[i - 1]
    BY <1>2, Pushed, SeqFacts
<1> HIDE DEF s, r
<1>4. FramesOf(r, s, g)
  <2> SUFFICES ASSUME NEW i \in 1..Len(r), i # 1 PROVE i - 1 \in 1..Len(s) /\ r[i] = s[i - 1]
      BY <1>3 DEF FramesOf
  <2> QED BY <1>3
<1> QED BY <1>1, <1>4, OneStack DEF s

LEMMA EmptyFrames ==
    ASSUME Stacks(table, stack), NEW th \in Threads, stack' = [stack EXCEPT ![th] = <<>>], NEW g
    PROVE  \A u \in Threads : FramesOf(stack'[u], stack[u], g)
<1>1. FramesOf(<<>>, stack[th], g)
  <2>1. Len(<<>>) = 0 /\ 1..0 = {}
      OBVIOUS
  <2> QED BY <2>1 DEF FramesOf
<1> QED BY <1>1, OneStack

\* A call that ends is an answer, or is heard by the frame that asked.
LEMMA ReturnFrames ==
    ASSUME Stacks(table, stack), NEW th \in Threads, stack[th] # <<>>, NEW out, Return(th, out)
    PROVE  LET f == Top(th)
               g == stack[th][2]
               h == Hears(g, out)
           IN  \/ /\ Len(stack[th]) = 1 /\ f.op = "value"
                  /\ \A u \in Threads : FramesOf(stack'[u], stack[u], f)
                  /\ answers' = answers \cup {[type |-> f.type, text |-> f.text, out |-> out,
                                               open |-> open[th]]}
               \/ /\ Len(stack[th]) > 1 /\ FrameOK(g) /\ Under(g, f)
                  /\ \A u \in Threads : FramesOf(stack'[u], stack[u], h)
                  /\ h.op = g.op /\ h.type = g.type /\ h.text = g.text /\ h.at = g.at
                  /\ h.same = g.same /\ h.names = Append(g.names, out)
                  /\ UNCHANGED answers
<1> DEFINE s == stack[th]
<1>1. StackOK(table, s)
    BY DEF Stacks
<1>2. /\ IsSeq(s) /\ Len(s) \in Nat \ {0} /\ (Len(s) = 1 => s[1].op = "value")
      /\ Len(s) # 1 => Len(s) > 1 /\ FrameOK(s[2]) /\ Under(s[2], s[1])
    BY <1>1, StackFacts
<1>3. CASE Len(s) = 1
  <2>1. stack' = [stack EXCEPT ![th] = <<>>] /\ Answer(th, out)
      BY <1>3 DEF Return
  <2>2. Whole(th) = Top(th)
      BY <1>3 DEF Whole, Last, Top
  <2>3. answers' = answers \cup {[type |-> Top(th).type, text |-> Top(th).text, out |-> out,
                                  open |-> open[th]]}
      BY <2>1, <2>2 DEF Answer
  <2>4. \A u \in Threads : FramesOf(stack'[u], stack[u], Top(th))
      BY <2>1, EmptyFrames
  <2> QED BY <1>2, <1>3, <2>3, <2>4 DEF Top
<1>4. CASE Len(s) # 1
  <2> DEFINE g == s[2]  h == Hears(g, out)  r == Pop(s, h)  n == Append(g.names, out)
  <2>1. stack' = [stack EXCEPT ![th] = r] /\ UNCHANGED answers
      BY <1>4 DEF Return, Pop, Stacks
  <2>2. h = [g EXCEPT !.names = n]
      BY DEF Hears
  <2>3. g = [op |-> g.op, type |-> g.type, text |-> g.text, at |-> g.at,
             try |-> g.try, same |-> g.same, names |-> g.names]
      BY <1>2, <1>4 DEF FrameOK
  <2>4. /\ h.op = g.op /\ h.type = g.type /\ h.text = g.text /\ h.at = g.at
        /\ h.same = g.same /\ h.names = n
    <3> HIDE DEF h, g, n
    <3> QED BY <2>2, <2>3
  <2>5. /\ Len(r) = Len(s) - 1 /\ r[1] = h
        /\ \A i \in 2..(Len(s) - 1) : r[i] = s[i + 1]
      BY <1>2, <1>4, Popped
  <2>6. \A u \in Threads : FramesOf(stack'[u], stack[u], h)
    <3> HIDE DEF h, r
    <3>1. FramesOf(r, s, h)
      <4> HIDE DEF s
      <4> SUFFICES ASSUME NEW i \in 1..Len(r), i # 1
                   PROVE  i + 1 \in 1..Len(s) /\ r[i] = s[i + 1]
          BY <2>5 DEF FramesOf
      <4> QED BY <1>2, <2>5
    <3> QED BY <2>1, <3>1, OneStack
  <2>7. Len(s) > 1 /\ FrameOK(g) /\ Under(g, s[1])
      BY <1>2, <1>4
  <2> HIDE DEF h
  <2> QED BY <2>1, <2>4, <2>6, <2>7 DEF h, Top
<1> QED BY <1>3, <1>4

----------------------------------------------------------------------------
(* The words of a text, and what a candidate keeps of them. *)

\* None of the pieces of a text is one of some words.
Spares(W, x) == Atoms(x) \cap W = {}

\* What the generators write by themselves is none of them.
PlainFor(W) ==
    /\ \A ns, key, t, s : Draw(ns, key, t, s) \notin W
    /\ \A private, net, len, t : DrawNet(private, net, len, t) \notin W
    /\ {"", "git", "internal", "io"} \cap W = {}
    /\ \A l \in InternalSuffix : Pieces(l) \cap W = {}
    /\ Extensions \cap W = {}

\* The pieces of its own that a value keeps in its candidates: public segments and tags,
\* the names of parameters, common words, and a network wider than every space.
Leftover(x) ==
    CASE x.k = "url"    -> {w \in Pieces(x.segs) : Word(w) \in Public}
                              \cup {p.name : p \in {q \in Pieces(x.tail) :
                                                        q.value # "" /\ ~q.ident}}
      [] x.k = "image"  -> {w \in Pieces(x.tag) : Word(w) \in Public}
      [] x.k = "phrase" -> {w.text : w \in {v \in Pieces(x.words) : v.kind = "common"}}
      [] x.k = "net"    -> IF Len(Spaces(Private(x.net), x.len)) \in Nat \ {0}
                              THEN {} ELSE {x.net}
      [] OTHER -> {}

\* What a value keeps in its candidates is none of some words.
Free(W, x) == Leftover(x) \cap W = {} /\ \A y \in Keeps(x) : Spares(W, y)

\* An address is detected as one, and inside a value it is the host of a URL.
Addressed(type, x) ==
    /\ x.k = "ip" => type = "IP_ADDRESS"
    /\ x.k = "url" => \A y \in Pieces(x.port) : y.k = "name"
    /\ x.k \in {"path", "mailto"} => \A y \in Inside(x) : y.k = "name"

LEMMA SparesIs ==
    ASSUME NEW W, NEW x
    PROVE  /\ Spares(W, x) <=> /\ AtomsOf(x) \cap W = {}
                           /\ \A y \in Inside(x) : AtomsOf(y) \cap W = {}
           /\ Inside(x) = {} => (Spares(W, x) <=> AtomsOf(x) \cap W = {})
    BY DEF Spares, Atoms

LEMMA SparesInside ==
    ASSUME NEW W, NEW x, WellMade(x), NEW y \in Inside(x)
    PROVE  /\ Spares(W, y) <=> AtomsOf(y) \cap W = {}
           /\ Spares(W, x) => Spares(W, y)
<1>1. y.k \in {"name", "ip"}
    BY InsideWellMade
<1>2. Inside(y) = {}
    BY <1>1 DEF Inside
<1> QED BY <1>2, SparesIs

LEMMA SparesName ==
    ASSUME NEW W, NEW x, x.k = "name"
    PROVE  Spares(W, x) <=> Pieces(x.labels) \cap W = {}
<1>1. Inside(x) = {} /\ AtomsOf(x) = Pieces(x.labels)
    BY DEF Inside, AtomsOf
<1> QED BY <1>1, SparesIs

LEMMA SparesAddress ==
    ASSUME NEW W, NEW x, x.k \in {"ip", "net"}
    PROVE  Spares(W, x) <=> x.net \notin W
<1>1. Inside(x) = {} /\ AtomsOf(x) = {x.net}
    BY DEF Inside, AtomsOf
<1> QED BY <1>1, SparesIs

\* The pieces of a text do not depend on how it was written.
LEMMA LowerAtoms ==
    ASSUME NEW x, Proper(x)
    PROVE  /\ Lower(x).k = x.k /\ AtomsOf(Lower(x)) = AtomsOf(x) /\ Inside(Lower(x)) = Inside(x)
           /\ x.k = "name" => Lower(x).labels = x.labels
<1>1. DOMAIN x = {"k"} \cup Fields[x.k] /\ x.k \in DOMAIN Fields
    BY DEF Proper
<1>2. CASE x.k \notin {"name", "email"}
  <2>1. "cap" \notin DOMAIN x
      BY <1>1, <1>2 DEF Fields
  <2> QED BY <1>2, <2>1 DEF Lower
<1>3. CASE x.k \in {"name", "email"}
  <2>1. "cap" \in DOMAIN x
      BY <1>1, <1>3 DEF Fields
  <2>2. Lower(x) = [x EXCEPT !.cap = FALSE]
      BY <2>1 DEF Lower
  <2>3. Lower(x).k = x.k
      BY <1>1, <2>2
  <2>4. CASE x.k = "name"
    <3>1. "labels" \in DOMAIN x
        BY <1>1, <2>4 DEF Fields
    <3>2. Lower(x).labels = x.labels
        BY <2>2, <3>1
    <3> QED BY <2>3, <2>4, <3>2 DEF AtomsOf, Inside
  <2>5. CASE x.k = "email"
    <3>1. "local" \in DOMAIN x /\ "domain" \in DOMAIN x
        BY <1>1, <2>5 DEF Fields
    <3>2. Lower(x).local = x.local /\ Lower(x).domain = x.domain
        BY <2>2, <3>1
    <3> QED BY <2>3, <2>5, <3>2 DEF AtomsOf, Inside
  <2> QED BY <1>3, <2>4, <2>5
<1> QED BY <1>2, <1>3

\* What is stored of a value leaves out its login and nothing else.
LEMMA StoredPieces ==
    ASSUME NEW type, NEW x, Legit(type, x)
    PROVE  LET real == Stored(type, x)
           IN  /\ x.k \notin {"url", "repo"} => AtomsOf(real) = AtomsOf(x)
               /\ x.k = "url" => /\ real.segs = x.segs /\ real.tail = x.tail
                                 /\ type \in {"URL", "REPO"} => real.user = <<>>
               /\ x.k = "repo" => real.org = x.org /\ real.name = x.name
               /\ type \notin {"URL", "REPO"} => AtomsOf(real) = AtomsOf(x)
<1> DEFINE real == Stored(type, x)  n == Normalized(type, x)
<1>1. Proper(x) /\ DOMAIN x = {"k"} \cup Fields[x.k] /\ x.k \in DOMAIN Fields
    BY DEF Legit, WellMade, Proper
<1>2. real = n \/ real = Lower(n)
    BY DEF Stored
<1>3. x.k \notin {"url", "repo"} \/ type \notin {"URL", "REPO"} => n = x
    BY DEF Normalized, StripUserinfo, StripRootSlash
<1>4. x.k \notin {"url", "repo"} \/ type \notin {"URL", "REPO"} => AtomsOf(real) = AtomsOf(x)
    BY <1>1, <1>2, <1>3, LowerAtoms
<1>5. CASE x.k = "url"
  <2> DEFINE u == StripUserinfo(x)
  <2>1. "k" \in DOMAIN x /\ \A a \in {"user", "segs", "tail", "slash"} : a \in DOMAIN x
      BY <1>1, <1>5 DEF Fields
  <2>2. u = [x EXCEPT !.user = <<>>]
      BY <1>5 DEF StripUserinfo
  <2>3. /\ u.k = "url" /\ u.user = <<>> /\ u.segs = x.segs /\ u.tail = x.tail
        /\ DOMAIN u = DOMAIN x
      BY <1>5, <2>1, <2>2
  <2> HIDE DEF u
  <2>4. StripRootSlash(u) = u \/ StripRootSlash(u) = [u EXCEPT !.slash = FALSE]
      BY DEF StripRootSlash
  <2>5. /\ StripRootSlash(u).segs = x.segs /\ StripRootSlash(u).tail = x.tail
        /\ StripRootSlash(u).user = <<>> /\ StripRootSlash(u).k = "url"
        /\ DOMAIN StripRootSlash(u) = DOMAIN x
      BY <2>1, <2>3, <2>4
  <2>6. n = IF type \in {"URL", "REPO"} THEN StripRootSlash(u) ELSE x
      BY DEF Normalized, u
  <2>7. /\ n.segs = x.segs /\ n.tail = x.tail /\ DOMAIN n = DOMAIN x
        /\ type \in {"URL", "REPO"} => n.user = <<>>
      BY <2>5, <2>6
  <2>8. "cap" \notin DOMAIN x
      BY <1>1, <1>5 DEF Fields
  <2>9. real = n
      BY <1>2, <2>7, <2>8 DEF Lower
  <2> QED BY <1>4, <1>5, <2>7, <2>9
<1>6. CASE x.k = "repo"
  <2> DEFINE u == StripUserinfo(x)
  <2>1. {"k", "user", "org", "name"} \subseteq DOMAIN x
      BY <1>1, <1>6 DEF Fields
  <2>2. u = [x EXCEPT !.user = <<>>]
      BY <1>6 DEF StripUserinfo
  <2>3. u.k = "repo" /\ u.org = x.org /\ u.name = x.name /\ DOMAIN u = DOMAIN x
      BY <1>6, <2>1, <2>2
  <2> HIDE DEF u
  <2>4. n = IF type \in {"URL", "REPO"} THEN u ELSE x
      BY <2>3 DEF Normalized, u, StripRootSlash
  <2>5. "cap" \notin DOMAIN n /\ n.org = x.org /\ n.name = x.name
      BY <1>1, <1>6, <2>3, <2>4 DEF Fields
  <2>6. real = n
      BY <1>2, <2>5 DEF Lower
  <2> QED BY <1>4, <1>6, <2>5, <2>6
<1> QED BY <1>4, <1>5, <1>6

\* A substitute is of the kind of what it stands for, where another may ask for it.
Alike(r) ==
    /\ r.real.k = "ip" => r.sur.k = "ip"
    /\ r.real.k = "name" => /\ r.sur.k = "name" /\ IsSeq(r.sur.labels)
                            /\ r.sur.labels # <<>>
    /\ r.type \notin Shareds \ {"_REPO_ORG"}
           => \A w : r.real = Word(w) => r.sur.labels[1] # w

LEMMA ComboPlain ==
    ASSUME NEW W, PlainFor(W)
    PROVE  \A ns, key, words, t : Combo(ns, key, words, t) \notin W
    BY DEF PlainFor, Combo

LEMMA PushPieces ==
    ASSUME NEW s, IsSeq(s), NEW f
    PROVE  Pieces(Push(s, f)) = {f} \cup Pieces(s)
<1> DEFINE p == Push(s, f)  n == Len(s)
<1>1. /\ IsSeq(p) /\ Len(p) = n + 1 /\ p[1] = f
      /\ \A i \in 2..(n + 1) : p[i] = s[i - 1]
    BY Pushed
<1>2. n \in Nat /\ DOMAIN s = 1..n /\ DOMAIN p = 1..(n + 1)
    BY <1>1, SeqFacts
<1> HIDE DEF p, n
<1>3. ASSUME NEW i \in DOMAIN p PROVE p[i] \in {f} \cup Pieces(s)
  <2>1. CASE i = 1
      BY <1>1, <2>1
  <2>2. CASE i # 1
    <3>1. i \in 2..(n + 1) /\ i - 1 \in 1..n
        BY <1>2, <2>2
    <3> QED BY <1>1, <1>2, <3>1 DEF Pieces
  <2> QED BY <2>1, <2>2
<1>4. ASSUME NEW i \in DOMAIN s PROVE s[i] \in Pieces(p)
  <2>1. i + 1 \in 2..(n + 1) /\ (i + 1) - 1 = i /\ i + 1 \in DOMAIN p
      BY <1>2
  <2>2. p[i + 1] = s[i]
      BY <1>1, <2>1
  <2> QED BY <2>1, <2>2 DEF Pieces
<1>5. f \in Pieces(p)
  <2>1. 1 \in DOMAIN p
      BY <1>2
  <2> QED BY <1>1, <2>1 DEF Pieces
<1>6. Pieces(p) = {f} \cup Pieces(s)
    BY <1>3, <1>4, <1>5 DEF Pieces
<1> QED BY <1>6 DEF p

LEMMA Singles ==
    /\ \A w : Pieces(<<w>>) = {w} /\ IsSeq(<<w>>) /\ <<w>> # <<>>
    /\ \A v, w : Pieces(<<v, w>>) = {v, w}
    /\ \A u, v, w : Pieces(<<u, v, w>>) = {u, v, w}
    /\ Pieces(<<>>) = {} /\ IsSeq(<<>>)
<1>1. ASSUME NEW w PROVE Pieces(<<w>>) = {w} /\ IsSeq(<<w>>) /\ <<w>> # <<>>
  <2>1. <<w>> \in Seq({w}) /\ DOMAIN <<w>> = {1} /\ <<w>>[1] = w
      OBVIOUS
  <2>2. IsSeq(<<w>>)
      BY <2>1, SeqIs
  <2> QED BY <2>1, <2>2 DEF Pieces
<1>2. ASSUME NEW v, NEW w PROVE Pieces(<<v, w>>) = {v, w}
  <2>1. DOMAIN <<v, w>> = {1, 2} /\ <<v, w>>[1] = v /\ <<v, w>>[2] = w
      OBVIOUS
  <2> QED BY <2>1 DEF Pieces
<1>3. ASSUME NEW u, NEW v, NEW w PROVE Pieces(<<u, v, w>>) = {u, v, w}
  <2>1. /\ DOMAIN <<u, v, w>> = {1, 2, 3}
        /\ <<u, v, w>>[1] = u /\ <<u, v, w>>[2] = v /\ <<u, v, w>>[3] = w
      OBVIOUS
  <2> QED BY <2>1 DEF Pieces
<1>4. Pieces(<<>>) = {} /\ IsSeq(<<>>)
    BY EmptySeq DEF IsSeq, Pieces
<1> QED BY <1>1, <1>2, <1>3, <1>4

\* A fake attribute is drawn.
LEMMA SharedSpares ==
    ASSUME NEW W, PlainFor(W), NEW group \in Shareds, NEW x, Shape(group, x), NEW t
    PROVE  Spares(W, FakeShared(group, x, t))
<1> DEFINE c == FakeShared(group, x, t)
<1>1. ASSUME NEW l, Pieces(l) \cap W = {}, NEW n, n = Name(l, FALSE) PROVE Spares(W, n)
  <2>1. n.k = "name" /\ n.labels = l
      BY <1>1, NameIs
  <2> QED BY <1>1, <2>1, SparesName
<1>2. CASE group = "_ZONE"
  <2> DEFINE org == Combo("zone", x, Pieces(x.labels), t)
  <2>1. IsSeq(x.labels) /\ c = FakeZone(x, t) /\ org \notin W
      BY <1>2, ComboPlain DEF Shape, FakeShared
  <2>2. CASE Internal(x.labels) \/ x.labels \in InternalSuffix
    <3> DEFINE part == InternalPart(x.labels)
    <3>1. c = Name(Push(part, org), FALSE)
        BY <2>1, <2>2 DEF FakeZone, Push
    <3>2. IsSeq(part) /\ (part = <<"internal">> \/ part \in InternalSuffix)
        BY <2>1, InternalPartIs
    <3>3. Pieces(part) \cap W = {}
      <4> HIDE DEF part
      <4>1. CASE part = <<"internal">>
        <5>1. Pieces(part) = {"internal"} /\ "internal" \notin W
            BY <4>1, Singles DEF PlainFor
        <5> QED BY <5>1
      <4>2. CASE part \in InternalSuffix
          BY <4>2 DEF PlainFor
      <4> QED BY <3>2, <4>1, <4>2
    <3>4. Pieces(Push(part, org)) = {org} \cup Pieces(part)
        BY <3>2, PushPieces
    <3> HIDE DEF c, org, part
    <3>5. Pieces(Push(part, org)) \cap W = {}
        BY <2>1, <3>3, <3>4
    <3>6. Spares(W, c)
        BY <1>1, <3>1, <3>5
    <3> QED BY <3>6 DEF c
  <2>3. CASE ~(Internal(x.labels) \/ x.labels \in InternalSuffix)
    <3> DEFINE tld == Draw("tld", x, 0, 0)
    <3>1. c = Name(<<org, tld>>, FALSE) /\ tld \notin W
        BY <2>1, <2>3 DEF FakeZone, PlainFor
    <3> HIDE DEF c, org, tld
    <3>2. Pieces(<<org, tld>>) \cap W = {}
        BY <2>1, <3>1, Singles
    <3>3. Spares(W, c)
        BY <1>1, <3>1, <3>2
    <3> QED BY <3>3 DEF c
  <2> QED BY <2>2, <2>3
<1>3. CASE group = "_REGISTRY"
  <2> DEFINE w == Combo("registry", x, Pieces(x.labels), t)  h == RegistryHost(x, t)
  <2>1. c = Name(<<h, w, "io">>, FALSE) /\ h \notin W /\ w \notin W /\ "io" \notin W
    <3>1. h \notin W /\ "io" \notin W
        BY DEF RegistryHost, PlainFor
    <3>2. w \notin W
        BY ComboPlain
    <3> QED BY <1>3, <3>1, <3>2 DEF FakeShared, FakeRegistry
  <2> HIDE DEF c, w, h
  <2>2. Pieces(<<h, w, "io">>) \cap W = {}
      BY <2>1, Singles
  <2>3. Spares(W, c)
      BY <1>1, <2>1, <2>2
  <2> QED BY <2>3 DEF c
<1>4. CASE group = "_REPO_ORG"
  <2> DEFINE w == Combo("repo-org", x, Pieces(x.labels), t)
  <2>1. c = Name(<<w>>, FALSE) /\ w \notin W
      BY <1>4, ComboPlain DEF FakeShared, FakeOrg, Word
  <2> HIDE DEF c, w
  <2>2. Pieces(<<w>>) \cap W = {}
      BY <2>1, Singles
  <2>3. Spares(W, c)
      BY <1>1, <2>1, <2>2
  <2> QED BY <2>3 DEF c
<1>5. CASE group = "_SUBNET"
  <2> DEFINE d == DrawNet(Private(x.net), x.net, 0, t)
  <2>1. c = [x EXCEPT !.net = d] /\ d \notin W
      BY <1>5 DEF FakeShared, FakeSubnet, PlainFor
  <2>2. x = [k |-> "ip", net |-> x.net, host |-> 0]
      BY <1>5 DEF Shape
  <2> HIDE DEF d, c
  <2>3. c.k = "ip" /\ c.net = d
      BY <2>1, <2>2
  <2>4. Spares(W, c)
    <3>1. c.k \in {"ip", "net"} /\ c.net \notin W
        BY <2>1, <2>3
    <3> QED BY <3>1, SparesAddress
  <2> QED BY <2>4 DEF c
<1> QED BY <1>2, <1>3, <1>4, <1>5 DEF Shareds

\* The substitute of an attribute is another text, of its kind.
LEMMA SharedAlike ==
    ASSUME NEW group \in Shareds, NEW x, Shape(group, x), NEW t, FakeShared(group, x, t) # x
    PROVE  Alike(Row(group, x, FakeShared(group, x, t)))
<1> SUFFICES ASSUME NEW c, c = FakeShared(group, x, t) PROVE Alike(Row(group, x, c))
    OBVIOUS
<1>1. Shape(group, c) /\ c # x
    BY FakeShape
<1> DEFINE r == Row(group, x, c)
<1>2. r.type = group /\ r.real = x /\ r.sur = c
    BY DEF Row
<1> HIDE DEF r
<1>3. ASSUME group \in {"_ZONE", "_REGISTRY"} PROVE Alike(r)
  <2>1. \A n : Shape(group, n) => n.k = "name" /\ IsSeq(n.labels) /\ n.labels # <<>>
    <3>1. \A n : Shape(group, n) => n = Name(n.labels, FALSE) /\ IsSeq(n.labels)
                                      /\ n.labels # <<>>
        BY <1>3 DEF Shape
    <3>2. ASSUME NEW n, NEW l, n = Name(l, FALSE) PROVE n.k = "name"
        BY <3>2, NameIs
    <3> QED BY <3>1, <3>2
  <2> QED BY <1>1, <1>2, <1>3, <2>1 DEF Alike, Shareds
<1>4. ASSUME group = "_REPO_ORG" PROVE Alike(r)
  <2>1. c = Name(<<c.labels[1]>>, FALSE) /\ x = Name(<<x.labels[1]>>, FALSE)
      BY <1>1, <1>4 DEF Shape, Word
  <2>2. c.k = "name" /\ IsSeq(c.labels) /\ c.labels # <<>> /\ x.k = "name"
    <3>1. ASSUME NEW n, NEW w, n = Name(<<w>>, FALSE)
          PROVE  n.k = "name" /\ n.labels = <<w>>
        BY <3>1, NameIs
    <3> DEFINE w == c.labels[1]
    <3>2. c.labels = <<w>>
        BY <2>1, <3>1
    <3>3. IsSeq(<<w>>) /\ <<w>> # <<>>
      <4> HIDE DEF w
      <4> QED BY Singles
    <3> HIDE DEF w
    <3> QED BY <2>1, <3>1, <3>2, <3>3
  <2>3. \A w : x = Word(w) => c.labels[1] # w
      BY <1>1, <2>1 DEF Word
  <2> QED BY <1>2, <2>2, <2>3 DEF Alike
<1>5. ASSUME group = "_SUBNET" PROVE Alike(r)
  <2>1. /\ c = [k |-> "ip", net |-> c.net, host |-> 0]
        /\ x = [k |-> "ip", net |-> x.net, host |-> 0]
      BY <1>1, <1>5 DEF Shape
  <2>2. c.k = "ip" /\ x.k = "ip"
      BY <2>1
  <2> QED BY <1>2, <1>5, <2>2 DEF Alike, Shareds
<1>6. Alike(r)
    BY <1>3, <1>4, <1>5 DEF Shareds
<1> QED BY <1>6 DEF r

\* A value that has one of the words and is stored without has it in its login.
LEMMA StoredSpares ==
    ASSUME NEW W, NEW type, NEW x, Legit(type, x), Spares(W, Stored(type, x))
    PROVE  /\ \A y \in Inside(x) : Spares(W, y)
           /\ x.k \notin {"url", "repo"} \/ type \notin {"URL", "REPO"} => Spares(W, x)
           /\ x.k = "url" => /\ Pieces(x.segs) \cap W = {}
                             /\ \A p \in Pieces(x.tail) : p.name \notin W
                             /\ Pieces(x.user) = {} => Spares(W, x)
<1> DEFINE real == Stored(type, x)
<1>1. /\ real.k = x.k /\ Inside(real) = Inside(x)
      /\ AtomsOf(real) \cap W = {}
      /\ \A y \in Inside(x) : AtomsOf(y) \cap W = {}
    BY StoredKeeps, SparesIs
<1>2. /\ x.k \notin {"url", "repo"} => AtomsOf(real) = AtomsOf(x)
      /\ x.k = "url" => real.segs = x.segs /\ real.tail = x.tail
      /\ type \notin {"URL", "REPO"} => AtomsOf(real) = AtomsOf(x)
    BY StoredPieces
<1> HIDE DEF real
<1>3. \A y \in Inside(x) : Spares(W, y)
  <2>1. WellMade(x)
      BY DEF Legit
  <2> QED BY <1>1, <2>1, SparesInside
<1>4. x.k \notin {"url", "repo"} \/ type \notin {"URL", "REPO"} => Spares(W, x)
    BY <1>1, <1>2, SparesIs
<1>5. ASSUME x.k = "url"
      PROVE  /\ Pieces(x.segs) \cap W = {}
             /\ \A p \in Pieces(x.tail) : p.name \notin W
             /\ Pieces(x.user) = {} => Spares(W, x)
  <2>1. AtomsOf(real) = Pieces(real.user) \cup Pieces(x.segs)
                           \cup {p.name : p \in Pieces(x.tail)}
                           \cup {p.value : p \in Pieces(x.tail)}
      BY <1>1, <1>2, <1>5 DEF AtomsOf
  <2>2. AtomsOf(x) = Pieces(x.user) \cup Pieces(x.segs)
                           \cup {p.name : p \in Pieces(x.tail)}
                           \cup {p.value : p \in Pieces(x.tail)}
      BY <1>5 DEF AtomsOf
  <2>3. Pieces(x.user) = {} => AtomsOf(x) \cap W = {}
      BY <1>1, <2>1, <2>2
  <2>4. Pieces(x.user) = {} => Spares(W, x)
      BY <1>1, <2>3, SparesIs
  <2> QED BY <1>1, <2>1, <2>4
<1> QED BY <1>3, <1>4, <1>5

\* A value stored without a word keeps none of it.
LEMMA FreeWhenStored ==
    ASSUME NEW W, NEW type, NEW x, Legit(type, x), Spares(W, Stored(type, x))
    PROVE  Free(W, x)
<1>1. \A y \in Keeps(x) : Spares(W, y)
    BY StoredSpares, KeepsInside
<1>2. CASE x.k = "url"
  <2>1. Leftover(x) \subseteq Pieces(x.segs) \cup {p.name : p \in Pieces(x.tail)}
      BY <1>2 DEF Leftover
  <2>2. /\ Pieces(x.segs) \cap W = {}
        /\ \A p \in Pieces(x.tail) : p.name \notin W
      BY <1>2, StoredSpares
  <2> QED BY <1>1, <2>1, <2>2 DEF Free
<1>3. CASE x.k \in {"image", "phrase", "net"}
  <2>1. AtomsOf(x) \cap W = {}
      BY <1>3, StoredSpares, SparesIs
  <2>2. Leftover(x) \subseteq AtomsOf(x)
      BY <1>3 DEF Leftover, AtomsOf
  <2> QED BY <1>1, <2>1, <2>2 DEF Free
<1>4. CASE x.k \notin {"url", "image", "phrase", "net"}
    BY <1>1, <1>4 DEF Free, Leftover
<1> QED BY <1>2, <1>3, <1>4

\* What a value has been told is of the kind it asked for.
ToldIs(type, x, names) ==
    LET kind == Kind(type, x)
    IN  /\ Group(kind, x) \in {"_ZONE", "_REGISTRY", "_REPO_ORG"}
               /\ Attribute(kind, x) # Name(<<>>, FALSE)
               => /\ 1 \in 1..Len(names) /\ names[1].k = "name" /\ IsSeq(names[1].labels)
                  /\ names[1].labels # <<>>
        /\ Group(kind, x) = "_SUBNET" => 1 \in 1..Len(names) /\ names[1].k = "ip"
        /\ kind = "repo" => names[1].labels[1] # x.org

\* What a value has been told has none of some words.
Heard(W, names) == \A j \in 1..Len(names) : Spares(W, names[j])

LEMMA NamesAre ==
    ASSUME NEW tb, \A r \in tb : Alike(r), NEW f, FrameOK(f), Told(tb, f),
           f.op = "value", f.at = "draw", Len(f.names) = Len(AskedFor(f.type, f.text))
    PROVE  ToldIs(f.type, f.text, f.names)
<1> DEFINE x == f.text  type == f.type  kind == Kind(type, x)  G == Group(kind, x)
           A == Attribute(kind, x)  asks == AskedFor(type, x)  names == f.names
           Empty == Name(<<>>, FALSE)
<1>1. Legit(type, x) /\ WellMade(x) /\ Proper(x)
    BY DEF FrameOK, Legit, WellMade
<1>2. \A j \in 1..Len(names) : AnswerIs(tb, asks[j], names[j])
    BY DEF Told
<1>3. CASE G = "none"
    BY <1>3 DEF Group, ToldIs
<1>4. CASE G # "none" /\ A = Empty
  <2>1. kind \in {"host", "image"}
      BY <1>1, <1>4, AsksToShare
  <2>2. G # "_SUBNET"
      BY <2>1 DEF Group
  <2> QED BY <1>4, <2>1, <2>2 DEF ToldIs
<1>5. CASE G # "none" /\ A # Empty
  <2> DEFINE n == names[1]
  <2>1. asks = <<Share(G, A)>>
      BY <1>1, <1>5, AsksToShare
  <2>2. Len(names) = 1 /\ AnswerIs(tb, Share(G, A), n)
    <3>1. Len(asks) = 1 /\ asks[1] = Share(G, A)
        BY <2>1
    <3> QED BY <1>2, <3>1
  <2>3. PICK r \in tb : r.real = A /\ r.sur = n /\ (r.type = G \/ r.type \notin Shareds)
      BY <2>2 DEF AnswerIs, Share, Stands
  <2>4. Alike(r)
      BY <2>3
  <2>5. G \in {"_ZONE", "_REGISTRY", "_REPO_ORG"} => A.k = "name"
    <3>1. ASSUME NEW l PROVE Name(l, FALSE).k = "name"
        BY NameIs
    <3>2. kind \in {"host", "email", "repo", "image"} => \E l : A = Name(l, FALSE)
        BY DEF Attribute, Word
    <3>3. G \in {"_ZONE", "_REGISTRY", "_REPO_ORG"}
            => kind \in {"host", "email", "repo", "image"}
        BY DEF Group
    <3> HIDE DEF A, G, kind
    <3> QED BY <3>1, <3>2, <3>3
  <2>6. G = "_SUBNET" => A.k = "ip"
    <3>1. G = "_SUBNET" => A = Subnet(x)
        BY DEF Group, Attribute
    <3>2. Subnet(x).k = "ip"
        BY DEF Subnet
    <3> HIDE DEF A, G, kind
    <3> QED BY <3>1, <3>2
  <2>7. kind = "repo" => G = "_REPO_ORG" /\ A = Word(x.org)
      BY DEF Group, Attribute
  <2> HIDE DEF A, G, kind, n
  <2>8. G \in {"_ZONE", "_REGISTRY", "_REPO_ORG"}
            => n.k = "name" /\ IsSeq(n.labels) /\ n.labels # <<>>
      BY <2>3, <2>4, <2>5 DEF Alike
  <2>9. G = "_SUBNET" => n.k = "ip"
      BY <2>3, <2>4, <2>6 DEF Alike
  <2>10. kind = "repo" => n.labels[1] # x.org
      BY <2>3, <2>4, <2>7 DEF Alike
  <2>11. 1 \in 1..Len(names)
      BY <2>2
  <2> QED BY <2>8, <2>9, <2>10, <2>11 DEF ToldIs, n, kind, G, A
<1> QED BY <1>3, <1>4, <1>5

\* A host without a domain shares no zone.
LEMMA LonelyHost ==
    ASSUME NEW x, x.labels \in Seq(STRING), x.labels # <<>>
    PROVE  Attribute("host", x) = Name(<<>>, FALSE) <=> Len(x.labels) = 1
<1> DEFINE z == Zone(x.labels)
<1>1. z \in Seq(STRING) /\ Len(z) = Len(x.labels) - 1
    BY HeadTailProperties DEF Zone
<1>2. Len(x.labels) \in Nat /\ (z = <<>> <=> Len(z) = 0)
    BY <1>1, LenProperties, EmptySeq
<1>3. Attribute("host", x) = Name(z, FALSE)
    BY DEF Attribute
<1> HIDE DEF z
<1>4. ASSUME NEW l, Name(l, FALSE) = Name(<<>>, FALSE) PROVE l = <<>>
  <2> DEFINE n == Name(l, FALSE)  e == Name(<<>>, FALSE)
  <2>1. n.labels = l /\ e.labels = <<>>
      BY NameIs
  <2> QED BY <1>4, <2>1
<1>5. Attribute("host", x) = Name(<<>>, FALSE) <=> z = <<>>
    BY <1>3, <1>4
<1>6. z = <<>> <=> Len(x.labels) = 1
    BY <1>1, <1>2
<1> QED BY <1>5, <1>6, Zenon

\* The candidate of a value that shares something.
LEMMA MemberSpares ==
    ASSUME NEW W, PlainFor(W), NEW type, NEW x, Legit(type, x), Free(W, x),
           NEW t, NEW names, NEW day, ToldIs(type, x, names), Heard(W, names),
           Kind(type, x) \in {"host", "ip", "net", "email", "repo", "image"}
    PROVE  Spares(W, Candidate(type, x, t, names, day))
<1> DEFINE kind == Kind(type, x)  n == names[1]
<1> SUFFICES ASSUME NEW c, c = Candidate(type, x, t, names, day) PROVE Spares(W, c)
    OBVIOUS
<1>1. Proper(x) /\ DOMAIN x = {"k"} \cup Fields[x.k]
    BY DEF Legit, WellMade, Proper
<1>2. /\ kind \in {"ip", "net", "email", "repo", "image"} => x.k = kind
      /\ kind = "host" => x.k = "name"
    BY KindIs
<1>3. Leftover(x) \cap W = {} /\ (1 \in 1..Len(names) => Spares(W, n))
    BY DEF Free, Heard
<1>4. \A ns, key, words, s : Combo(ns, key, words, s) \notin W
    BY ComboPlain
<1>5. CASE kind = "host"
  <2> DEFINE w == FakeShort(x.labels[1], t)
             tail == IF Len(x.labels) = 1 THEN <<>> ELSE n.labels
  <2>1. c = Name(Push(tail, w), FALSE)
      BY <1>5 DEF Candidate, FakeHost, Push
  <2>2. w \notin W
      BY <1>4 DEF FakeShort
  <2>3. x.labels \in Seq(STRING) /\ x.labels # <<>>
      BY <1>1, <1>2, <1>5 DEF Proper
  <2>4. Len(x.labels) # 1 => Attribute(kind, x) # Name(<<>>, FALSE)
      BY <1>5, <2>3, LonelyHost
  <2>5. Group(kind, x) = "_ZONE"
      BY <1>5 DEF Group
  <2>6. IsSeq(tail) /\ Pieces(tail) \cap W = {}
    <3>1. CASE Len(x.labels) = 1
        BY <3>1, Singles
    <3>2. CASE Len(x.labels) # 1
      <4>1. Spares(W, n) /\ n.k = "name" /\ IsSeq(n.labels)
          BY <1>3, <2>4, <2>5, <3>2 DEF ToldIs
      <4> QED BY <3>2, <4>1, SparesName
    <3> QED BY <3>1, <3>2
  <2> HIDE DEF tail, w
  <2>7. Pieces(Push(tail, w)) \cap W = {}
      BY <2>2, <2>6, PushPieces
  <2>8. c.k = "name" /\ c.labels = Push(tail, w)
      BY <2>1, NameIs
  <2> QED BY <2>7, <2>8, SparesName
<1>6. CASE kind = "ip"
  <2> DEFINE d == DrawHost(x, t)
  <2>1. c = [x EXCEPT !.net = n.net, !.host = d]
      BY <1>6 DEF Candidate
  <2>2. "net" \in DOMAIN x
      BY <1>1, <1>2, <1>6 DEF Fields
  <2> HIDE DEF n, d
  <2>3. c.k = "ip" /\ c.net = n.net
      BY <1>1, <1>2, <1>6, <2>1, <2>2
  <2>4. Spares(W, n) /\ n.k = "ip"
      BY <1>3, <1>6 DEF ToldIs, Group, n
  <2>5. n.net \notin W
      BY <2>4, SparesAddress
  <2>6. c.k \in {"ip", "net"} /\ c.net \notin W
      BY <2>3, <2>5
  <2> QED BY <2>6, SparesAddress
<1>7. CASE kind = "net"
  <2>1. "net" \in DOMAIN x /\ "bits" \in DOMAIN x /\ x.k = "net"
      BY <1>1, <1>2, <1>7 DEF Fields
  <2>2. \E m : m \notin W /\ c = [x EXCEPT !.net = m, !.bits = FALSE]
    <3>1. CASE x.len = "shared"
      <4>1. c = [x EXCEPT !.net = n.net, !.bits = FALSE]
          BY <1>7, <3>1 DEF Candidate, FakeSharedNet
      <4>2. Spares(W, n) /\ n.k = "ip"
          BY <1>3, <1>7, <3>1 DEF ToldIs, Group
      <4>3. n.net \notin W
          BY <4>2, SparesAddress
      <4> QED BY <4>1, <4>3
    <3>2. CASE x.len # "shared"
      <4> DEFINE spaces == Spaces(Private(x.net), x.len)
                 In(d) == DrawNet(spaces[((t + d) % Len(spaces)) + 1], x.net, x.len, t)
                 other == {d \in 0..(Len(spaces) - 1) : In(d) # x.net}
                 m == IF other = {} THEN x.net
                      ELSE In(CHOOSE d \in other : \A e \in other : d <= e)
      <4>1. c = FakeNetwork(x, t)
          BY <1>7, <3>2 DEF Candidate
      <4>2. FakeNetwork(x, t) = [x EXCEPT !.bits = FALSE, !.net = m]
          BY <2>1 DEF FakeNetwork
      <4>3. Len(spaces) \notin Nat \ {0} => x.net \notin W
          BY <1>3, <2>1 DEF Leftover
      <4>4. m \notin W
        <5>1. CASE other = {}
          <6>1. ASSUME Len(spaces) \in Nat \ {0} PROVE x.net \notin W
            <7>1. 0 \in 0..(Len(spaces) - 1)
                BY <6>1
            <7>2. In(0) = x.net
                BY <5>1, <7>1
            <7> QED BY <7>2 DEF PlainFor
          <6> QED BY <4>3, <5>1, <6>1
        <5>2. CASE other # {}
            BY <5>2 DEF PlainFor
        <5> QED BY <5>1, <5>2
      <4> HIDE DEF m
      <4>5. [x EXCEPT !.bits = FALSE, !.net = m] = [x EXCEPT !.net = m, !.bits = FALSE]
          BY <2>1
      <4> QED BY <4>1, <4>2, <4>4, <4>5
    <3> QED BY <3>1, <3>2
  <2>3. PICK m : m \notin W /\ c = [x EXCEPT !.net = m, !.bits = FALSE]
      BY <2>2
  <2>4. c.k = "net" /\ c.net = m
      BY <1>1, <2>1, <2>3
  <2>5. c.k \in {"ip", "net"} /\ c.net \notin W
      BY <2>3, <2>4
  <2> QED BY <2>5, SparesAddress
<1>8. CASE kind = "email"
  <2> DEFINE m == Combo("local", Lower(x), Atoms(x), t)  e == LastName(Lower(x), t)
             l == <<m, e>>
  <2>1. c = [x EXCEPT !.local = l, !.domain = n.labels, !.cap = FALSE]
      BY <1>8 DEF Candidate, FakeEmail
  <2>2. Pieces(l) \cap W = {}
    <3>1. m \notin W
        BY <1>4
    <3>2. e \notin W
        BY DEF LastName, PlainFor
    <3> HIDE DEF m, e
    <3> QED BY <3>1, <3>2, Singles
  <2>3. Spares(W, n) /\ n.k = "name"
    <3>1. x.domain # <<>>
        BY <1>1, <1>2, <1>8 DEF Proper
    <3>2. Attribute(kind, x) # Name(<<>>, FALSE) /\ Group(kind, x) = "_ZONE"
        BY <1>8, <3>1 DEF Attribute, Name, Group
    <3> QED BY <1>3, <3>2 DEF ToldIs
  <2>4. "local" \in DOMAIN x /\ "domain" \in DOMAIN x
      BY <1>1, <1>2, <1>8 DEF Fields
  <2> HIDE DEF l, n
  <2>5. c.k = "email" /\ c.local = l /\ c.domain = n.labels
      BY <1>1, <1>2, <1>8, <2>1, <2>4
  <2>6. AtomsOf(c) = Pieces(l) \cup Pieces(n.labels) /\ Inside(c) = {}
      BY <2>5 DEF AtomsOf, Inside
  <2>7. Pieces(n.labels) \cap W = {}
      BY <2>3, SparesName
  <2> QED BY <2>2, <2>6, <2>7, SparesIs
<1>9. CASE kind = "repo"
  <2> DEFINE o == n.labels[1]
             m == Combo("repo-name", Word(x.name), {x.name}, t)
             u == IF x.form = "ssh" /\ x.user[1] = "git" THEN <<"git">> ELSE <<>>
             g == IF x.form = "ssh" /\ x.user[1] # "git" THEN "bare" ELSE x.form
             s == x.form = "ssh" /\ x.user[1] = "git"
  <2>1. {"org", "name", "user", "form", "suffix"} \subseteq DOMAIN x
      BY <1>1, <1>2, <1>9 DEF Fields
  <2>2. c = [x EXCEPT !.org = o, !.name = m, !.user = u, !.form = g, !.suffix = s]
      BY <1>9, <2>1 DEF Candidate, FakeRepo
  <2>3. m \notin W
      BY <1>4
  <2>4. Pieces(u) \subseteq {"git"} /\ "git" \notin W
      BY Singles DEF PlainFor
  <2>5. Spares(W, n) /\ n.k = "name" /\ IsSeq(n.labels) /\ n.labels # <<>>
    <3>1. Attribute(kind, x) # Name(<<>>, FALSE) /\ Group(kind, x) = "_REPO_ORG"
        BY <1>9, Singles DEF Attribute, Word, Name, Group
    <3> QED BY <1>3, <3>1 DEF ToldIs
  <2>6. o \notin W
    <3>1. 1 \in DOMAIN n.labels
      <4>1. DOMAIN n.labels = 1..Len(n.labels) /\ Len(n.labels) \in Nat \ {0}
          BY <2>5, SeqFacts
      <4> QED BY <4>1
    <3> QED BY <2>5, <3>1, SparesName DEF Pieces
  <2> HIDE DEF o, m, u, g, s
  <2>7. c.k = "repo" /\ c.org = o /\ c.name = m /\ c.user = u
      BY <1>1, <1>2, <1>9, <2>1, <2>2
  <2>8. AtomsOf(c) = Pieces(u) \cup {o, m} /\ Inside(c) = {}
      BY <2>7 DEF AtomsOf, Inside
  <2> QED BY <2>3, <2>4, <2>6, <2>8, SparesIs
<1>10. CASE kind = "image"
  <2> DEFINE r == IF x.registry = <<>> THEN <<>> ELSE n.labels
             p == [i \in DOMAIN x.path |->
                      Combo("image-part", Word(x.path[i]), {x.path[i]}, t)]
             g == [i \in DOMAIN x.tag |->
                      IF Word(x.tag[i]) \in Public THEN x.tag[i]
                      ELSE Combo("image-tag", Word(x.tag[i]), {x.tag[i]}, t)]
  <2>1. {"registry", "path", "tag"} \subseteq DOMAIN x /\ x.k = "image"
      BY <1>1, <1>2, <1>10 DEF Fields
  <2>2. c = [x EXCEPT !.registry = r, !.path = p, !.tag = g]
      BY <1>10, <2>1 DEF Candidate, FakeImage
  <2>3. \A w \in Pieces(x.tag) : Word(w) \in Public => w \notin W
      BY <1>3, <2>1 DEF Leftover
  <2>4. Pieces(p) \cap W = {}
    <3>1. DOMAIN p = DOMAIN x.path /\ \A i \in DOMAIN x.path : p[i] \notin W
        BY <1>4
    <3> HIDE DEF p
    <3> QED BY <3>1 DEF Pieces
  <2>5. Pieces(g) \cap W = {}
    <3>1. \A i \in DOMAIN x.tag : Word(x.tag[i]) \in Public => x.tag[i] \notin W
        BY <2>3 DEF Pieces
    <3>2. \A i \in DOMAIN x.tag : g[i] \notin W
        BY <1>4, <3>1
    <3>3. DOMAIN g = DOMAIN x.tag
        OBVIOUS
    <3> HIDE DEF g
    <3> QED BY <3>2, <3>3 DEF Pieces
  <2>6. Pieces(r) \cap W = {}
    <3>1. CASE x.registry = <<>>
        BY <3>1, Singles
    <3>2. CASE x.registry # <<>>
      <4>1. Attribute(kind, x) # Name(<<>>, FALSE) /\ Group(kind, x) = "_REGISTRY"
          BY <1>10, <3>2 DEF Attribute, Name, Group
      <4>2. Spares(W, n) /\ n.k = "name"
          BY <1>3, <4>1 DEF ToldIs
      <4> QED BY <3>2, <4>2, SparesName
    <3> QED BY <3>1, <3>2
  <2> HIDE DEF r, p, g
  <2>7. c.k = "image" /\ c.registry = r /\ c.path = p /\ c.tag = g
      BY <1>1, <2>1, <2>2
  <2>8. AtomsOf(c) = Pieces(r) \cup Pieces(p) \cup Pieces(g) /\ Inside(c) = {}
      BY <2>7 DEF AtomsOf, Inside
  <2> QED BY <2>4, <2>5, <2>6, <2>8, SparesIs
<1> QED BY <1>5, <1>6, <1>7, <1>8, <1>9, <1>10

\* The word in place of a value that has no form of its own.
LEMMA WordIs ==
    ASSUME NEW type, NEW x, NEW t
    PROVE  LET c == FakeWord(type, x, t)
           IN  /\ c.k = "name" /\ IsSeq(c.labels) /\ c.labels # <<>>
               /\ type # "PATH_SEGMENT" \/ Len(x.labels) = 1 => \E w : c = Word(w)
               /\ \A W : PlainFor(W) => Spares(W, c)
<1> DEFINE w == Combo("generic", Stored(type, x), Atoms(x), t)
           e == IF type = "PATH_SEGMENT" THEN Extension(x.labels) ELSE <<>>
<1> SUFFICES ASSUME NEW c, c = FakeWord(type, x, t)
             PROVE  /\ c.k = "name" /\ IsSeq(c.labels) /\ c.labels # <<>>
                    /\ type # "PATH_SEGMENT" \/ Len(x.labels) = 1 => \E v : c = Word(v)
                    /\ \A W : PlainFor(W) => Spares(W, c)
    OBVIOUS
<1>1. c = Name(Push(e, w), FALSE)
    BY DEF FakeWord, Push
<1>2. \A W : PlainFor(W) => w \notin W
    BY ComboPlain
<1>3. e = <<>> \/ (e = <<Last(x.labels)>> /\ Last(x.labels) \in Extensions)
    BY DEF Extension
<1>4. type # "PATH_SEGMENT" \/ Len(x.labels) = 1 => e = <<>>
  <2>1. CASE Len(x.labels) = 1
    <3>1. ~(Len(x.labels) > 1)
        BY <2>1
    <3> QED BY <3>1 DEF Extension
  <2>2. CASE type # "PATH_SEGMENT"
      BY <2>2
  <2> QED BY <2>1, <2>2
<1> HIDE DEF e, w
<1>5. /\ IsSeq(e) /\ Pieces(e) \subseteq Extensions
  <2>1. CASE e = <<>>
      BY <2>1, Singles
  <2>2. CASE e # <<>>
    <3> DEFINE l == Last(x.labels)
    <3>1. e = <<l>> /\ l \in Extensions
        BY <1>3, <2>2
    <3> HIDE DEF l
    <3> QED BY <3>1, Singles
  <2> QED BY <2>1, <2>2
<1>6. c.k = "name" /\ c.labels = Push(e, w)
    BY <1>1, NameIs
<1>7. IsSeq(Push(e, w)) /\ Push(e, w)[1] = w /\ Len(Push(e, w)) = Len(e) + 1 /\ Len(e) \in Nat
    BY <1>5, Pushed, SeqFacts
<1>8. Push(e, w) # <<>>
    BY <1>7, EmptySeq
<1>9. ASSUME NEW W, PlainFor(W) PROVE Spares(W, c)
  <2>1. Pieces(Push(e, w)) = {w} \cup Pieces(e)
      BY <1>5, PushPieces
  <2>2. Extensions \cap W = {} /\ w \notin W
      BY <1>2, <1>9 DEF PlainFor
  <2>3. Pieces(c.labels) \cap W = {}
      BY <1>5, <1>6, <2>1, <2>2
  <2> QED BY <1>6, <2>3, SparesName
<1>10. e = <<>> => c = Word(w)
  <2>1. Push(<<>>, w) = <<w>>
    <3>1. <<w>> \in Seq({w})
        OBVIOUS
    <3> QED BY <3>1, ConcatEmptySeq DEF Push
  <2> QED BY <1>1, <2>1 DEF Word
<1> QED BY <1>4, <1>6, <1>7, <1>8, <1>9, <1>10

\* The candidate of another value: a drawn word, or its form with drawn pieces and
\* with the substitutes of the texts inside it.
LEMMA ComposedSpares ==
    ASSUME NEW W, PlainFor(W), NEW type, NEW x, Legit(type, x), Free(W, x),
           NEW t, NEW names, NEW day, IsSeq(names), Len(names) = Len(AskedFor(type, x)),
           Heard(W, names), Kind(type, x) \in {"date", "generic"}
    PROVE  Spares(W, Candidate(type, x, t, names, day))
<1> SUFFICES ASSUME NEW c, c = Candidate(type, x, t, names, day) PROVE Spares(W, c)
    OBVIOUS
<1>1. WellMade(x) /\ Proper(x) /\ DOMAIN x = {"k"} \cup Fields[x.k]
    BY DEF Legit, WellMade, Proper
<1>2. c = FakeGeneric(type, x, t, names, day)
    BY DEF Candidate
<1>3. ASSUME AtomsOf(c) \cap W = {} PROVE Spares(W, c)
  <2>1. \A y \in Inside(c) : y \in Keeps(x) \/ \E j \in 1..Len(names) : y = names[j]
      BY <1>1, CandidateIs
  <2>2. \A y \in Keeps(x) : Spares(W, y)
      BY DEF Free
  <2>3. \A j \in 1..Len(names) : Spares(W, names[j])
      BY DEF Heard
  <2>4. \A y \in Inside(c) : Spares(W, y)
      BY <2>1, <2>2, <2>3
  <2>5. \A y \in Inside(c) : AtomsOf(y) \cap W = {}
      BY <2>4, SparesIs
  <2> QED BY <1>3, <2>5, SparesIs
<1>4. \A ns, key, words, s : Combo(ns, key, words, s) \notin W
    BY ComboPlain
<1>5. CASE x.k = "path"
  <2> DEFINE s == [i \in DOMAIN x.segs |->
                      IF i \in Masked(x) THEN names[MaskedUpTo(x, i)] ELSE x.segs[i]]
  <2>1. c = [x EXCEPT !.loose = FALSE, !.segs = s]
      BY <1>2, <1>5 DEF FakeGeneric, FakePath
  <2> HIDE DEF s
  <2>2. c.k = "path"
      BY <1>1, <1>5, <2>1
  <2>3. AtomsOf(c) = {}
      BY <2>2 DEF AtomsOf
  <2> QED BY <1>3, <2>3
<1>6. CASE x.k = "mailto"
  <2> DEFINE l == Combo("mail-local", Word(x.local), {x.local}, t)  h == names[1]
  <2>1. {"local", "host"} \subseteq DOMAIN x
      BY <1>1, <1>6 DEF Fields
  <2>2. c = [x EXCEPT !.local = l, !.host = h]
      BY <1>2, <1>6, <2>1 DEF FakeGeneric, FakeMailto
  <2>3. l \notin W
      BY <1>4
  <2> HIDE DEF l, h
  <2>4. c.k = "mailto" /\ c.local = l
      BY <1>1, <1>6, <2>1, <2>2
  <2>5. AtomsOf(c) = {l}
      BY <2>4 DEF AtomsOf
  <2> QED BY <1>3, <2>3, <2>5
<1>7. CASE x.k = "url"
  <2> DEFINE h == names[Len(names)]
             p == IF x.port = <<>> \/ IsPort(x.port[1]) THEN x.port ELSE <<names[1]>>
             u == FakeUser(x.user, t)
             s == [i \in DOMAIN x.segs |-> IF Word(x.segs[i]) \in Public THEN x.segs[i]
                      ELSE Combo("url-seg", <<i, x.segs[i]>>, {x.segs[i]}, t)]
             b == x.slash /\ x.segs # <<>>
             q == FakeQuery(x.tail, t)
  <2>1. {"user", "host", "port", "segs", "slash", "tail"} \subseteq DOMAIN x
      BY <1>1, <1>7 DEF Fields
  <2>2. c = [x EXCEPT !.user = u, !.port = p, !.host = h, !.segs = s, !.slash = b, !.tail = q]
      BY <1>2, <1>7, <2>1 DEF FakeGeneric, FakeUrl
  <2>3. /\ \A w \in Pieces(x.segs) : Word(w) \in Public => w \notin W
        /\ \A a \in Pieces(x.tail) : a.value # "" /\ ~a.ident => a.name \notin W
      BY <1>7 DEF Free, Leftover
  <2>4. Pieces(u) \cap W = {}
    <3>1. DOMAIN u = DOMAIN x.user
        BY DEF FakeUser
    <3>2. ASSUME NEW i \in DOMAIN x.user PROVE u[i] \notin W
      <4>1. \A y : SecretReference(y).body \notin W
          BY DEF SecretReference, PlainFor
      <4>2. u[i] = IF i = 1 THEN Combo("url-user", Word(x.user[1]), {x.user[1]}, t)
                   ELSE SecretReference(Word(x.user[i])).body
          BY <3>2 DEF FakeUser
      <4> QED BY <1>4, <4>1, <4>2
    <3> HIDE DEF u
    <3> QED BY <3>1, <3>2 DEF Pieces
  <2>5. Pieces(s) \cap W = {}
    <3>1. \A i \in DOMAIN x.segs : Word(x.segs[i]) \in Public => x.segs[i] \notin W
        BY <2>3 DEF Pieces
    <3>2. \A i \in DOMAIN x.segs : s[i] \notin W
        BY <1>4, <3>1
    <3>3. DOMAIN s = DOMAIN x.segs
        OBVIOUS
    <3> HIDE DEF s
    <3> QED BY <3>2, <3>3 DEF Pieces
  <2>6. \A a \in Pieces(q) : a.name \notin W /\ a.value \notin W
    <3>1. DOMAIN q = DOMAIN x.tail
        BY DEF FakeQuery
    <3>2. "" \notin W
        BY DEF PlainFor
    <3>3. ASSUME NEW i \in DOMAIN x.tail
          PROVE  q[i].name \notin W /\ q[i].value \notin W
      <4> DEFINE a == x.tail[i]
                 n == IF a.value = "" \/ a.ident
                      THEN Combo("url-arg", Word(a.name), {a.name}, t) ELSE a.name
                 v == IF a.value = "" THEN a.value
                      ELSE Combo("url-arg", a, {a.name, a.value}, t)
      <4>1. a \in Pieces(x.tail)
          BY <3>3 DEF Pieces
      <4>2. /\ DOMAIN a = {"name", "value", "ident"}
            /\ a.value # "" /\ ~a.ident => a.name \notin W
          BY <1>1, <1>7, <2>3, <4>1 DEF Proper
      <4>3. q[i] = [a EXCEPT !.name = n, !.value = v]
          BY <3>3, <4>2 DEF FakeQuery
      <4>4. n \notin W /\ v \notin W
          BY <1>4, <3>2, <4>2
      <4> HIDE DEF a, n, v
      <4>5. q[i].name = n /\ q[i].value = v
          BY <4>2, <4>3
      <4> QED BY <4>4, <4>5
    <3> HIDE DEF q
    <3> QED BY <3>1, <3>3 DEF Pieces
  <2> HIDE DEF h, p, u, s, b, q
  <2>7. c.k = "url" /\ c.user = u /\ c.segs = s /\ c.tail = q
      BY <1>1, <1>7, <2>1, <2>2
  <2>8. AtomsOf(c) = Pieces(u) \cup Pieces(s) \cup {a.name : a \in Pieces(q)}
                        \cup {a.value : a \in Pieces(q)}
      BY <2>7 DEF AtomsOf
  <2>9. AtomsOf(c) \cap W = {}
      BY <2>4, <2>5, <2>6, <2>8
  <2> QED BY <1>3, <2>9
<1>8. CASE x.k = "phrase"
  <2> DEFINE New(i) == IF x.words[i].kind = "family" THEN Combo("family", x, Atoms(x), t)
                       ELSE DrawnWord(x, i, t)
             s == [i \in DOMAIN x.words |->
                     CASE x.words[i].kind = "common" -> x.words[i]
                       [] x.words[i].kind = "family" ->
                            [x.words[i] EXCEPT !.text = Combo("family", x, Atoms(x), t)]
                       [] OTHER -> [x.words[i] EXCEPT !.text = DrawnWord(x, i, t)]]
  <2>1. "words" \in DOMAIN x
      BY <1>1, <1>8 DEF Fields
  <2>2. c = [x EXCEPT !.words = s]
      BY <1>2, <1>8, <2>1 DEF FakeGeneric, FakePhrase
  <2>3. \A i \in DOMAIN x.words : x.words[i].kind = "common" => x.words[i].text \notin W
    <3>1. Leftover(x) = {w.text : w \in {v \in Pieces(x.words) : v.kind = "common"}}
        BY <1>8 DEF Leftover
    <3> QED BY <3>1 DEF Free, Pieces
  <2>4. \A i \in DOMAIN x.words : "text" \in DOMAIN x.words[i]
      BY <1>1, <1>8 DEF Proper, Pieces
  <2>5. ASSUME NEW i \in DOMAIN x.words PROVE s[i].text \notin W
    <3>1. New(i) \notin W
        BY <1>4 DEF DrawnWord, PlainFor
    <3>2. s[i] = IF x.words[i].kind = "common" THEN x.words[i]
                 ELSE [x.words[i] EXCEPT !.text = New(i)]
        OBVIOUS
    <3> HIDE DEF s, New
    <3> QED BY <2>3, <2>4, <2>5, <3>1, <3>2
  <2>6. DOMAIN s = DOMAIN x.words
      OBVIOUS
  <2> HIDE DEF s
  <2>7. c.k = "phrase" /\ c.words = s
      BY <1>1, <1>8, <2>1, <2>2
  <2>8. AtomsOf(c) = {w.text : w \in Pieces(s)}
      BY <2>7 DEF AtomsOf
  <2>9. AtomsOf(c) \cap W = {}
      BY <2>6, <2>8, <2>5 DEF Pieces
  <2> QED BY <1>3, <2>9
<1>9. CASE x.k = "code"
  <2> DEFINE d == Draw("code", x, t, 0)  g == IF x.form = "unknown" THEN "bare" ELSE x.form
  <2>1. {"body", "form"} \subseteq DOMAIN x
      BY <1>1, <1>9 DEF Fields
  <2>2. c = [x EXCEPT !.body = d, !.form = g]
      BY <1>2, <1>9, <2>1 DEF FakeGeneric, FakeCode
  <2>3. d \notin W
      BY DEF PlainFor
  <2> HIDE DEF d, g
  <2>4. c.k = "code" /\ c.body = d
      BY <1>1, <1>9, <2>1, <2>2
  <2>5. AtomsOf(c) = {d}
      BY <2>4 DEF AtomsOf
  <2> QED BY <1>3, <2>3, <2>5
<1>10. CASE x.k \notin {"path", "mailto", "url", "phrase", "code"}
  <2>1. c = IF x.k = "dates" /\ Readable(x.items) THEN FakeDates(x, t, day)
            ELSE FakeWord(type, x, t)
      BY <1>2, <1>10 DEF FakeGeneric
  <2>2. CASE x.k = "dates" /\ Readable(x.items)
    <3>1. c.k = "dates"
        BY <1>1, <2>1, <2>2 DEF FakeDates
    <3>2. AtomsOf(c) = {}
        BY <3>1 DEF AtomsOf
    <3> QED BY <1>3, <3>2
  <2>3. CASE ~(x.k = "dates" /\ Readable(x.items))
      BY <2>1, <2>3, WordIs
  <2> QED BY <2>2, <2>3
<1> QED BY <1>5, <1>6, <1>7, <1>8, <1>9, <1>10

LEMMA CandidateSpares ==
    ASSUME NEW W, PlainFor(W), NEW type, NEW x, Legit(type, x), Free(W, x),
           NEW t, NEW names, NEW day, IsSeq(names), Len(names) = Len(AskedFor(type, x)),
           ToldIs(type, x, names), Heard(W, names)
    PROVE  Spares(W, Candidate(type, x, t, names, day))
    BY KindIs, MemberSpares, ComposedSpares DEF Kinds

\* The candidate of a name is a name, of one label where the name has one.
LEMMA NameCandidate ==
    ASSUME NEW type, NEW x, Legit(type, x), NEW t, NEW names, NEW day,
           ToldIs(type, x, names), x.k = "name"
    PROVE  LET c == Candidate(type, x, t, names, day)
           IN  /\ c.k = "name" /\ IsSeq(c.labels) /\ c.labels # <<>>
               /\ Len(x.labels) = 1 => \E w : c = Word(w)
<1> DEFINE kind == Kind(type, x)  n == names[1]
<1> SUFFICES ASSUME NEW c, c = Candidate(type, x, t, names, day)
             PROVE  /\ c.k = "name" /\ IsSeq(c.labels) /\ c.labels # <<>>
                    /\ Len(x.labels) = 1 => \E w : c = Word(w)
    OBVIOUS
<1>1. kind \in {"host", "generic"}
    BY KindIs DEF Kinds
<1>2. x.labels \in Seq(STRING) /\ x.labels # <<>>
    BY DEF Legit, WellMade, Proper
<1>3. CASE kind = "host"
  <2> DEFINE w == FakeShort(x.labels[1], t)
             tail == IF Len(x.labels) = 1 THEN <<>> ELSE n.labels
  <2>1. c = Name(Push(tail, w), FALSE)
      BY <1>3 DEF Candidate, FakeHost, Push
  <2>2. Len(x.labels) # 1 => IsSeq(n.labels)
    <3>1. Group(kind, x) = "_ZONE"
        BY <1>3 DEF Group
    <3>2. Len(x.labels) # 1 => Attribute(kind, x) # Name(<<>>, FALSE)
        BY <1>2, <1>3, LonelyHost
    <3> QED BY <3>1, <3>2 DEF ToldIs
  <2>3. IsSeq(tail) /\ (Len(x.labels) = 1 => tail = <<>>)
      BY <2>2, Singles
  <2> HIDE DEF tail, w
  <2>4. c.k = "name" /\ c.labels = Push(tail, w)
      BY <2>1, NameIs
  <2>5. IsSeq(Push(tail, w)) /\ Len(Push(tail, w)) = Len(tail) + 1 /\ Len(tail) \in Nat
      BY <2>3, Pushed, SeqFacts
  <2>6. Push(tail, w) # <<>>
      BY <2>5, EmptySeq
  <2>7. tail = <<>> => c = Word(w)
    <3>1. <<w>> \in Seq({w})
        OBVIOUS
    <3>2. Push(<<>>, w) = <<w>>
        BY <3>1, ConcatEmptySeq DEF Push
    <3> QED BY <2>1, <3>2 DEF Word
  <2> QED BY <2>3, <2>4, <2>5, <2>6, <2>7
<1>4. CASE kind = "generic"
  <2>1. c = FakeWord(type, x, t)
      BY <1>4 DEF Candidate, FakeGeneric
  <2> QED BY <2>1, WordIs
<1> QED BY <1>1, <1>3, <1>4

\* The substitute of a value is another text, of its kind.
LEMMA ValueAlike ==
    ASSUME NEW type, NEW x, Legit(type, x), Addressed(type, x), NEW t, NEW names, NEW day,
           ToldIs(type, x, names), Candidate(type, x, t, names, day) # Stored(type, x)
    PROVE  Alike(Row(Key(type, x), Stored(type, x), Candidate(type, x, t, names, day)))
<1> DEFINE key == Key(type, x)  real == Stored(type, x)
<1> SUFFICES ASSUME NEW c, c = Candidate(type, x, t, names, day)
             PROVE  Alike(Row(key, real, c))
    OBVIOUS
<1> DEFINE r == Row(key, real, c)
<1>1. r.type = key /\ r.real = real /\ r.sur = c
    BY DEF Row
<1>2. real.k = x.k /\ key \notin Shareds /\ c # real
    BY StoredKeeps
<1>3. x.k = "ip" => c.k = "ip"
  <2> DEFINE m == names[1].net  d == DrawHost(x, t)
  <2> SUFFICES ASSUME x.k = "ip" PROVE c.k = "ip"
      OBVIOUS
  <2>1. Kind(type, x) = "ip"
      BY DEF Addressed, Kind
  <2>2. c = [x EXCEPT !.net = m, !.host = d]
      BY <2>1 DEF Candidate
  <2>3. DOMAIN x = {"k"} \cup Fields[x.k]
      BY DEF Legit, WellMade, Proper
  <2> HIDE DEF m, d
  <2> QED BY <2>2, <2>3
<1>4. x.k = "name" => /\ c.k = "name" /\ IsSeq(c.labels) /\ c.labels # <<>>
                      /\ Len(x.labels) = 1 => \E w : c = Word(w)
    BY NameCandidate
<1>5. ASSUME NEW w, real = Word(w) PROVE c.labels[1] # w
  <2>1. real.k = "name" /\ real.labels = <<w>>
      BY <1>5, NameIs DEF Word
  <2>2. x.k = "name"
      BY <1>2, <2>1
  <2>3. real.labels = x.labels
    <3>1. Proper(x)
        BY DEF Legit, WellMade
    <3>2. Normalized(type, x) = x
        BY <2>2 DEF Normalized, StripUserinfo, StripRootSlash
    <3>3. real = x \/ real = Lower(x)
        BY <3>2 DEF Stored
    <3> QED BY <2>2, <3>1, <3>3, LowerAtoms
  <2>4. Len(x.labels) = 1
    <3>1. Len(<<w>>) = 1
        OBVIOUS
    <3> QED BY <2>1, <2>3, <3>1
  <2>5. PICK v : c = Word(v)
      BY <1>4, <2>2, <2>4
  <2>6. c.labels = <<v>>
      BY <2>5, NameIs DEF Word
  <2>7. v # w
      BY <1>2, <1>5, <2>5
  <2> QED BY <2>6, <2>7
<1> HIDE DEF r, key, real
<1>6. Alike(r)
    BY <1>1, <1>2, <1>3, <1>4, <1>5 DEF Alike
<1> QED BY <1>6 DEF r, key, real

\* A value whose candidate is the value itself has none of the words, even in a login.
LEMMA ItselfSpares ==
    ASSUME NEW W, PlainFor(W), NEW type, NEW x, Legit(type, x), Free(W, x),
           NEW t, NEW names, NEW day, IsSeq(names), Len(names) = Len(AskedFor(type, x)),
           ToldIs(type, x, names), Heard(W, names),
           Candidate(type, x, t, names, day) \in {x, Stored(type, x)}
    PROVE  Spares(W, x)
<1> DEFINE kind == Kind(type, x)  real == Stored(type, x)
<1> SUFFICES ASSUME NEW c, c = Candidate(type, x, t, names, day), c = real PROVE Spares(W, x)
    BY CandidateSpares
<1>3. Spares(W, real)
    BY CandidateSpares
<1>1. DOMAIN x = {"k"} \cup Fields[x.k] /\ Proper(x)
    BY DEF Legit, WellMade, Proper
<1>2. real.k = x.k
    BY StoredKeeps
<1>4. CASE x.k \notin {"url", "repo"} \/ type \notin {"URL", "REPO"}
    BY <1>4, <1>3, StoredSpares
<1>5. CASE x.k = "url" /\ type \in {"URL", "REPO"}
  <2> DEFINE h == names[Len(names)]
             p == IF x.port = <<>> \/ IsPort(x.port[1]) THEN x.port ELSE <<names[1]>>
             u == FakeUser(x.user, t)
             s == [i \in DOMAIN x.segs |-> IF Word(x.segs[i]) \in Public THEN x.segs[i]
                      ELSE Combo("url-seg", <<i, x.segs[i]>>, {x.segs[i]}, t)]
             b == x.slash /\ x.segs # <<>>
             q == FakeQuery(x.tail, t)
  <2>1. {"user", "host", "port", "segs", "slash", "tail"} \subseteq DOMAIN x
      BY <1>1, <1>5 DEF Fields
  <2>2. kind = "generic"
      BY <1>5 DEF Kind, BareHost, HostTypes
  <2>3. c = FakeUrl(x, t, names)
      BY <1>5, <2>2 DEF Candidate, FakeGeneric
  <2>4. c = [x EXCEPT !.user = u, !.port = p, !.host = h, !.segs = s, !.slash = b, !.tail = q]
      BY <2>1, <2>3 DEF FakeUrl
  <2>5. DOMAIN u = DOMAIN x.user
      BY DEF FakeUser
  <2> HIDE DEF h, p, u, s, b, q
  <2>6. c.user = u
      BY <2>1, <2>4
  <2>7. real.user = <<>>
      BY <1>5, StoredPieces
  <2>8. DOMAIN x.user = {}
      BY <2>5, <2>6, <2>7
  <2>9. Pieces(x.user) = {}
      BY <2>8 DEF Pieces
  <2> QED BY <1>5, <1>3, <2>9, StoredSpares
<1>6. CASE x.k = "repo" /\ type \in {"URL", "REPO"}
  <2>1. CASE kind = "repo"
    <3> DEFINE o == names[1].labels[1]
               m == Combo("repo-name", Word(x.name), {x.name}, t)
               u == IF x.form = "ssh" /\ x.user[1] = "git" THEN <<"git">> ELSE <<>>
               g == IF x.form = "ssh" /\ x.user[1] # "git" THEN "bare" ELSE x.form
               s == x.form = "ssh" /\ x.user[1] = "git"
    <3>1. {"org", "name", "user", "form", "suffix"} \subseteq DOMAIN x
        BY <1>1, <1>6 DEF Fields
    <3>2. c = [x EXCEPT !.org = o, !.name = m, !.user = u, !.form = g, !.suffix = s]
        BY <2>1, <3>1 DEF Candidate, FakeRepo
    <3>3. o # x.org
        BY <2>1 DEF ToldIs
    <3>4. real.org = x.org
        BY <1>6, StoredPieces
    <3> HIDE DEF o, m, u, g, s, real
    <3>5. c.org = o
        BY <3>1, <3>2
    <3> QED BY <3>3, <3>4, <3>5
  <2>2. CASE kind # "repo"
    <3>1. kind = "generic"
        BY <1>6, <2>2 DEF Kind, BareHost, HostTypes
    <3>2. c = FakeWord(type, x, t)
        BY <1>6, <3>1 DEF Candidate, FakeGeneric
    <3>3. c.k = "name"
        BY <3>2, WordIs
    <3> QED BY <1>2, <1>6, <3>3
  <2> QED BY <2>1, <2>2
<1> QED BY <1>4, <1>5, <1>6

----------------------------------------------------------------------------
(* Secrets stay. *)

\* None of the pieces of a text is a password.
Clean(x) == Spares(SecretAtoms, x)

\* A password is detected as a secret, whose label is not one, or is in the login of
\* a URL; a value with a password in it is neither a public text nor of a public type.
Detected(type, x) ==
    IF type \in SecretTypes THEN x.k = "secret" => x.label \notin SecretAtoms
    ELSE /\ Addressed(type, x) /\ Clean(Stored(type, x))
         /\ x \in Public \/ type \in PublicTypes => Clean(x)

RowClean(r) == Clean(r.real) /\ Clean(r.sur) /\ Alike(r)
FrameClean(f) ==
    /\ f.op = "share" => Clean(f.text)
    /\ f.op = "value" => /\ Detected(f.type, f.text)
                         /\ f.type \in SecretTypes => f.at = "enter"
                         /\ f.same > 0 => Clean(f.text)
                         /\ f.at = "wait" => Clean(f.names[1])
FramesClean(s) == \A i \in 1..Len(s) : FrameClean(s[i])

\* An answer holds no password, or is a value that was revealed.
AnswerClean(opened, a) ==
    \/ Clean(a.out)
    \/ a.out = a.text /\ a.type \notin SecretTypes /\ Stored(a.type, a.text) \in opened

Kept ==
    /\ \A r \in table : RowClean(r)
    /\ \A th \in Threads : FramesClean(stack[th])
    /\ \A a \in answers : AnswerClean(ever, a)

\* What a value has been told holds no password.
LEMMA NamesClean ==
    ASSUME NEW tb, \A r \in tb : RowClean(r), NEW f, FrameOK(f), Told(tb, f),
           f.op = "value", f.at = "draw", Len(f.names) = Len(AskedFor(f.type, f.text)),
           Clean(Stored(f.type, f.text))
    PROVE  Heard(SecretAtoms, f.names)
<1> DEFINE x == f.text  type == f.type  kind == Kind(type, x)  G == Group(kind, x)
           A == Attribute(kind, x)  asks == AskedFor(type, x)  names == f.names
<1>1. Legit(type, x) /\ WellMade(x)
    BY DEF FrameOK, Legit
<1> SUFFICES ASSUME NEW j \in 1..Len(names) PROVE Clean(names[j])
    BY DEF Heard, Clean
<1>2. AnswerIs(tb, asks[j], names[j])
    BY DEF Told
<1>3. CASE G = "none"
  <2>1. PICK t \in PartTypes, y \in Inside(x) : asks[j] = Part(t, y)
      BY <1>1, <1>3, AsksForParts
  <2>2. t \notin SecretTypes
      BY DEF PartTypes, SecretTypes
  <2>3. names[j] = y \/ \E r \in tb : r.sur = names[j]
      BY <1>2, <2>1, <2>2 DEF AnswerIs, Part
  <2>4. Clean(y)
      BY <1>1, StoredSpares DEF Clean
  <2> QED BY <2>3, <2>4 DEF RowClean
<1>4. CASE G # "none"
  <2>1. asks = <<>> \/ asks = <<Share(G, A)>>
      BY <1>1, <1>4, AsksToShare
  <2>2. asks[j] = Share(G, A)
    <3>1. Len(<<>>) = 0 /\ 1..0 = {}
        OBVIOUS
    <3>2. Len(<<Share(G, A)>>) = 1 /\ <<Share(G, A)>>[1] = Share(G, A)
        OBVIOUS
    <3> HIDE DEF G, A
    <3> QED BY <2>1, <3>1, <3>2
  <2>3. AnswerIs(tb, Share(G, A), names[j])
      BY <1>2, <2>2
  <2>4. \E r \in tb : r.sur = names[j]
      BY <2>3 DEF AnswerIs, Share, Stands
  <2> QED BY <2>4 DEF RowClean
<1> QED BY <1>3, <1>4

\* What is asked of a clean value is clean.
LEMMA AttributeClean ==
    ASSUME NEW type, NEW x, Legit(type, x), Clean(Stored(type, x)),
           Group(Kind(type, x), x) # "none"
    PROVE  Clean(Attribute(Kind(type, x), x))
<1> DEFINE kind == Kind(type, x)  A == Attribute(kind, x)
<1>1. Proper(x)
    BY DEF Legit, WellMade
<1>2. /\ kind \in {"host", "ip", "net", "email", "repo", "image"}
      /\ kind \in {"ip", "net", "email", "repo", "image"} => x.k = kind
      /\ kind = "host" => x.k = "name"
    BY KindIs DEF Group, Kinds
<1>3. x.k \notin {"url", "repo"} => AtomsOf(x) \cap SecretAtoms = {}
    BY StoredSpares, SparesIs DEF Clean
<1>4. ASSUME NEW l, Pieces(l) \cap SecretAtoms = {} PROVE Clean(Name(l, FALSE))
  <2>1. Name(l, FALSE).k = "name" /\ Name(l, FALSE).labels = l
      BY NameIs
  <2> QED BY <1>4, <2>1, SparesName DEF Clean
<1>5. CASE kind = "host"
  <2> DEFINE z == Zone(x.labels)
  <2>1. x.labels \in Seq(STRING) /\ x.labels # <<>>
      BY <1>1, <1>2, <1>5 DEF Proper
  <2>2. /\ z \in Seq(STRING) /\ Len(z) = Len(x.labels) - 1
        /\ \A i \in 1..Len(z) : z[i] = x.labels[i + 1]
      BY <2>1, HeadTailProperties DEF Zone
  <2>3. Len(x.labels) \in Nat /\ DOMAIN x.labels = 1..Len(x.labels) /\ DOMAIN z = 1..Len(z)
      BY <2>1, <2>2
  <2>4. Pieces(z) \subseteq Pieces(x.labels)
    <3> SUFFICES ASSUME NEW i \in DOMAIN z PROVE z[i] \in Pieces(x.labels)
        BY DEF Pieces
    <3> HIDE DEF z
    <3>1. i + 1 \in DOMAIN x.labels /\ z[i] = x.labels[i + 1]
        BY <2>2, <2>3
    <3> QED BY <3>1 DEF Pieces
  <2>5. AtomsOf(x) = Pieces(x.labels)
      BY <1>2, <1>5 DEF AtomsOf
  <2>6. A = Name(z, FALSE)
      BY <1>5 DEF Attribute
  <2>7. Pieces(z) \cap SecretAtoms = {}
      BY <1>2, <1>3, <1>5, <2>4, <2>5
  <2> QED BY <1>4, <2>6, <2>7
<1>6. CASE kind = "email"
  <2>1. AtomsOf(x) = Pieces(x.local) \cup Pieces(x.domain)
      BY <1>2, <1>6 DEF AtomsOf
  <2>2. Pieces(x.domain) \cap SecretAtoms = {}
      BY <1>2, <1>3, <1>6, <2>1
  <2>3. A = Name(x.domain, FALSE)
      BY <1>6 DEF Attribute
  <2> QED BY <1>4, <2>2, <2>3
<1>7. CASE kind \in {"ip", "net"}
  <2>1. AtomsOf(x) = {x.net}
      BY <1>2, <1>7 DEF AtomsOf
  <2>2. A = [k |-> "ip", net |-> x.net, host |-> 0]
      BY <1>7 DEF Attribute, Subnet
  <2>3. A.k \in {"ip", "net"} /\ A.net \notin SecretAtoms
      BY <1>2, <1>3, <1>7, <2>1, <2>2
  <2> QED BY <2>3, SparesAddress DEF Clean
<1>8. CASE kind = "repo"
  <2> DEFINE real == Stored(type, x)
  <2>1. real.k = "repo" /\ real.org = x.org
      BY <1>2, <1>8, StoredKeeps, StoredPieces
  <2>2. AtomsOf(real) \cap SecretAtoms = {}
      BY SparesIs DEF Clean
  <2> HIDE DEF real
  <2>3. AtomsOf(real) = Pieces(real.user) \cup {real.org, real.name}
      BY <2>1 DEF AtomsOf
  <2>4. Pieces(<<x.org>>) \cap SecretAtoms = {}
    <3> DEFINE o == x.org
    <3>1. o \notin SecretAtoms
        BY <2>1, <2>2, <2>3
    <3> HIDE DEF o
    <3>2. Pieces(<<o>>) \cap SecretAtoms = {}
        BY <3>1, Singles
    <3> QED BY <3>2 DEF o
  <2>5. A = Name(<<x.org>>, FALSE)
      BY <1>8 DEF Attribute, Word
  <2> QED BY <1>4, <2>4, <2>5
<1>9. CASE kind = "image"
  <2>1. AtomsOf(x) = Pieces(x.registry) \cup Pieces(x.path) \cup Pieces(x.tag)
      BY <1>2, <1>9 DEF AtomsOf
  <2>2. Pieces(x.registry) \cap SecretAtoms = {}
      BY <1>2, <1>3, <1>9, <2>1
  <2>3. A = Name(x.registry, FALSE)
      BY <1>9 DEF Attribute
  <2> QED BY <1>4, <2>2, <2>3
<1> QED BY <1>2, <1>5, <1>6, <1>7, <1>8, <1>9

LEMMA PartClean ==
    ASSUME NEW type, NEW x, Legit(type, x), Clean(Stored(type, x)), Addressed(type, x),
           NEW j \in 1..Len(AskedFor(type, x)), Group(Kind(type, x), x) = "none"
    PROVE  \E t, y : AskedFor(type, x)[j] = Part(t, y) /\ t \notin SecretTypes /\ Detected(t, y)
<1>1. WellMade(x)
    BY DEF Legit
<1>2. PICK t \in PartTypes, y \in Inside(x) :
          /\ AskedFor(type, x)[j] = Part(t, y)
          /\ x.k = "url" /\ y.k = "ip" => t = "IP_ADDRESS" \/ y \in Pieces(x.port)
    BY <1>1, AsksForParts
<1>3. /\ Legit(t, y) /\ t \notin SecretTypes /\ WellMade(y) /\ y.k \in {"name", "ip"}
      /\ t \notin {"URL", "REPO"}
    BY <1>1, PartsOf, InsideWellMade DEF PartTypes
<1>4. x.k \in {"path", "mailto", "url"}
    BY DEF Inside
<1>5. y.k = "ip" => t = "IP_ADDRESS"
    BY <1>2, <1>4 DEF Addressed
<1>6. Addressed(t, y)
    BY <1>3, <1>5 DEF Addressed
<1>7. Clean(y)
    BY StoredSpares DEF Clean
<1>8. Clean(Stored(t, y))
    BY <1>3, <1>7, StoredPieces, StoredKeeps, SparesIs DEF Clean
<1>9. Detected(t, y)
    BY <1>3, <1>6, <1>7, <1>8 DEF Detected
<1> QED BY <1>2, <1>3, <1>9

\* What a value asks for, as a call.
LEMMA AskClean ==
    ASSUME NEW type, NEW x, Legit(type, x), type \notin SecretTypes, Detected(type, x),
           NEW j \in 1..Len(AskedFor(type, x))
    PROVE  FrameClean(Frame(AskedFor(type, x)[j]))
<1> DEFINE kind == Kind(type, x)  G == Group(kind, x)  A == Attribute(kind, x)
           a == AskedFor(type, x)[j]
<1>1. WellMade(x) /\ Addressed(type, x) /\ Clean(Stored(type, x))
    BY DEF Legit, Detected
<1>2. CASE G = "none"
  <2>1. PICK t, y : a = Part(t, y) /\ t \notin SecretTypes /\ Detected(t, y)
      BY <1>1, <1>2, PartClean
  <2> HIDE DEF a
  <2>2. a.op = "value" /\ a.type = t /\ a.text = y
      BY <2>1 DEF Part
  <2> DEFINE f == Frame(a)
  <2>3. f.op = "value" /\ f.type = t /\ f.text = y /\ f.at = "enter" /\ f.same = 0
      BY <2>2, FrameFields
  <2> HIDE DEF f
  <2>4. FrameClean(f)
      BY <2>1, <2>3 DEF FrameClean
  <2> QED BY <2>4 DEF f, a
<1>3. CASE G # "none"
  <2>1. A # Name(<<>>, FALSE) /\ AskedFor(type, x) = <<Share(G, A)>>
    <3>1. AskedFor(type, x) = <<>> => 1..Len(AskedFor(type, x)) = {}
        OBVIOUS
    <3> QED BY <1>1, <1>3, <3>1, AsksToShare
  <2>2. Clean(A)
      BY <1>1, <1>3, AttributeClean
  <2> HIDE DEF A, G
  <2>3. a = Share(G, A)
    <3>1. Len(<<Share(G, A)>>) = 1 /\ <<Share(G, A)>>[1] = Share(G, A)
        OBVIOUS
    <3>2. j = 1
        BY <2>1, <3>1
    <3> QED BY <2>1, <3>1, <3>2
  <2> HIDE DEF a
  <2>4. a.op = "share" /\ a.text = A
      BY <2>3 DEF Share
  <2>5. FrameClean(Frame(a))
      BY <2>2, <2>4, FrameFields DEF FrameClean
  <2> QED BY <2>5 DEF a
<1> QED BY <1>2, <1>3

\* The frames after a step are frames before it, but for a clean one.
LEMMA FramesStayClean ==
    ASSUME \A u \in Threads : FramesClean(stack[u]), NEW g, FrameClean(g),
           \A u \in Threads : FramesOf(stack'[u], stack[u], g)
    PROVE  \A u \in Threads : FramesClean(stack'[u])
    BY DEF FramesClean, FramesOf

LEMMA EmptyClean ==
    ASSUME Stacks(table, stack), \A u \in Threads : FramesClean(stack[u]),
           NEW th \in Threads, stack' = [stack EXCEPT ![th] = <<>>]
    PROVE  \A u \in Threads : FramesClean(stack'[u])
<1>1. \A u \in Threads : stack'[u] = IF u = th THEN <<>> ELSE stack[u]
    BY DEF Stacks
<1>2. FramesClean(<<>>)
  <2>1. Len(<<>>) = 0 /\ 1..0 = {}
      OBVIOUS
  <2> QED BY <2>1 DEF FramesClean
<1> QED BY <1>1, <1>2

\* The frame that hears an answer is as clean as it was, whatever it hears.
LEMMA ReturnClean ==
    ASSUME Stacks(table, stack), \A u \in Threads : FramesClean(stack[u]),
           \A a \in answers : AnswerClean(ever, a),
           NEW th \in Threads, stack[th] # <<>>, NEW out, Return(th, out),
           Len(stack[th]) = 1
               => AnswerClean(ever, [type |-> Top(th).type, text |-> Top(th).text, out |-> out,
                                     open |-> open[th]])
    PROVE  /\ \A u \in Threads : FramesClean(stack'[u])
           /\ \A a \in answers' : AnswerClean(ever, a)
<1> DEFINE f == Top(th)  g == stack[th][2]  h == Hears(g, out)
           a == [type |-> f.type, text |-> f.text, out |-> out, open |-> open[th]]
<1>1. IsSeq(stack[th]) /\ Len(stack[th]) \in Nat \ {0}
    BY StackFacts DEF Stacks
<1>2. CASE /\ Len(stack[th]) = 1 /\ answers' = answers \cup {a}
           /\ \A u \in Threads : FramesOf(stack'[u], stack[u], f)
  <2>1. FrameClean(f) /\ AnswerClean(ever, a)
      BY <1>1, <1>2 DEF FramesClean, Top
  <2> HIDE DEF f, a
  <2> QED BY <1>2, <2>1, FramesStayClean
<1>3. CASE /\ Len(stack[th]) > 1 /\ Under(g, f)
           /\ \A u \in Threads : FramesOf(stack'[u], stack[u], h)
           /\ h.op = g.op /\ h.type = g.type /\ h.text = g.text /\ h.at = g.at
           /\ h.same = g.same /\ UNCHANGED answers
  <2>1. 2 \in 1..Len(stack[th])
      BY <1>1, <1>3
  <2>2. FrameClean(g) /\ g.at = "draw"
      BY <1>3, <2>1 DEF FramesClean, Under
  <2> HIDE DEF g, h
  <2>3. FrameClean(h)
      BY <1>3, <2>2 DEF FrameClean
  <2> QED BY <1>3, <2>3, FramesStayClean
<1> QED BY <1>2, <1>3, ReturnFrames

LEMMA RefuseClean ==
    ASSUME Stacks(table, stack), \A u \in Threads : FramesClean(stack[u]),
           \A a \in answers : AnswerClean(ever, a), NEW th \in Threads, Refuse(th)
    PROVE  /\ \A u \in Threads : FramesClean(stack'[u])
           /\ \A a \in answers' : AnswerClean(ever, a)
<1>1. stack' = [stack EXCEPT ![th] = <<>>] /\ Answer(th, REFUSED)
    BY DEF Refuse
<1>2. Clean(REFUSED)
  <2>1. REFUSED.k = "refused"
      BY DEF REFUSED
  <2>2. AtomsOf(REFUSED) = {} /\ Inside(REFUSED) = {}
      BY <2>1 DEF AtomsOf, Inside
  <2> QED BY <2>2, SparesIs DEF Clean
<1>3. \A a \in answers' : a \in answers \/ a.out = REFUSED
    BY <1>1 DEF Answer
<1> QED BY <1>1, <1>2, <1>3, EmptyClean DEF AnswerClean

----------------------------------------------------------------------------
(* Each step keeps the secrets. *)

\* What the frame of a value that draws has been told.
LEMMA DrawingClean ==
    ASSUME Invariant, Kept, NEW th \in Threads, Ready(th)
    PROVE  LET f == Top(th)
           IN  /\ Legit(f.type, f.text) /\ f.type \notin SecretTypes
               /\ Detected(f.type, f.text) /\ IsSeq(f.names)
               /\ Clean(Stored(f.type, f.text)) /\ Addressed(f.type, f.text)
               /\ Len(f.names) = Len(AskedFor(f.type, f.text))
               /\ ToldIs(f.type, f.text, f.names) /\ Heard(SecretAtoms, f.names)
               /\ Free(SecretAtoms, f.text)
<1> DEFINE f == Top(th)
<1>1. /\ stack[th] # <<>> /\ f.op = "value" /\ f.at = "draw"
      /\ Len(f.names) = Len(AskedFor(f.type, f.text))
    BY DEF Ready
<1>2. FrameOK(f) /\ Told(table, f)
    BY <1>1, TopIs
<1>3. FrameClean(f)
    BY <1>1, InvariantIs, StackFacts DEF Kept, FramesClean, Stacks, Top
<1>4. /\ f.type \notin SecretTypes /\ Detected(f.type, f.text)
      /\ Clean(Stored(f.type, f.text)) /\ Addressed(f.type, f.text)
    BY <1>1, <1>3 DEF FrameClean, Detected
<1>5. Heard(SecretAtoms, f.names)
    BY <1>1, <1>2, <1>4, NamesClean DEF Kept
<1>6. ToldIs(f.type, f.text, f.names)
    BY <1>1, <1>2, NamesAre DEF Kept, RowClean
<1>7. Free(SecretAtoms, f.text)
    BY <1>1, <1>2, <1>4, FreeWhenStored DEF FrameOK, Clean
<1> QED BY <1>1, <1>2, <1>4, <1>5, <1>6, <1>7 DEF FrameOK

LEMMA TopClean ==
    ASSUME Invariant, Kept, NEW th \in Threads, stack[th] # <<>>
    PROVE  /\ FrameOK(Top(th)) /\ FrameClean(Top(th)) /\ Told(table, Top(th))
           /\ Stacks(table, stack) /\ \A u \in Threads : FramesClean(stack[u])
           /\ \A a \in answers : AnswerClean(ever, a)
<1>1. FrameClean(Top(th))
    BY InvariantIs, StackFacts DEF Kept, FramesClean, Stacks, Top
<1> QED BY <1>1, TopIs, InvariantIs DEF Kept

LEMMA CallClean ==
    ASSUME \A v \in Values : Detected(v.type, v.text), Invariant, Kept,
           NEW th \in Threads, Call(th)
    PROVE  Kept'
<1>1. PICK v \in Values :
          stack' = [stack EXCEPT ![th] = <<Frame(Part(v.type, v.text))>>]
    BY DEF Call
<1> DEFINE f == Frame(Part(v.type, v.text))  s == <<f>>
<1>2. f.op = "value" /\ f.type = v.type /\ f.text = v.text /\ f.at = "enter" /\ f.same = 0
    BY FrameFields DEF Part
<1> HIDE DEF f
<1>3. FrameClean(f)
    BY <1>2 DEF FrameClean
<1>4. FramesClean(s)
  <2>1. Len(s) = 1 /\ s[1] = f
      OBVIOUS
  <2> QED BY <1>3, <2>1 DEF FramesClean
<1>5. stack' = [stack EXCEPT ![th] = s]
    BY <1>1 DEF f
<1> HIDE DEF s
<1>6. \A u \in Threads : stack'[u] = IF u = th THEN s ELSE stack[u]
    BY <1>5 DEF Invariant
<1> QED BY <1>4, <1>6 DEF Kept, Call

\* A step that adds no row and reveals nothing.
LEMMA OnlyClean ==
    ASSUME Kept, UNCHANGED <<table, ever>>, \A u \in Threads : FramesClean(stack'[u]),
           \A a \in answers' : AnswerClean(ever, a)
    PROVE  Kept'
    BY DEF Kept

\* A call ends with what holds no password, or asked it of itself.
LEMMA EndsClean ==
    ASSUME Invariant, Kept, UNCHANGED <<table, ever>>, NEW th \in Threads, stack[th] # <<>>,
           NEW out, Return(th, out),
           LET f == Top(th)
           IN  \/ Clean(out)
               \/ f.op = "share"
               \/ out = f.text /\ f.type \notin SecretTypes /\ Stored(f.type, f.text) \in ever
    PROVE  Kept'
<1> DEFINE f == Top(th)
           a == [type |-> f.type, text |-> f.text, out |-> out, open |-> open[th]]
<1>1. /\ Stacks(table, stack) /\ \A u \in Threads : FramesClean(stack[u])
      /\ \A b \in answers : AnswerClean(ever, b)
    BY TopClean
<1>2. Len(stack[th]) = 1 => f.op = "value"
    BY <1>1, StackFacts DEF Stacks, Top
<1>3. a.type = f.type /\ a.text = f.text /\ a.out = out
    OBVIOUS
<1>4. Len(stack[th]) = 1 => AnswerClean(ever, a)
  <2> HIDE DEF a
  <2>1. f.op = "value" => f.op # "share"
      OBVIOUS
  <2> QED BY <1>2, <1>3, <2>1 DEF AnswerClean
<1>5. /\ \A u \in Threads : FramesClean(stack'[u])
      /\ \A b \in answers' : AnswerClean(ever, b)
    BY <1>1, <1>4, ReturnClean
<1> QED BY <1>5, OnlyClean

\* What the next attempt of a frame keeps of it.
LEMMA MovesClean ==
    ASSUME NEW f, FrameOK(f), FrameClean(f)
    PROVE  /\ f.type \notin SecretTypes \/ f.op = "share"
                  => FrameClean([f EXCEPT !.at = "draw"])
           /\ f.at # "wait" => FrameClean(NextTry(f))
           /\ f.at = "draw" /\ Clean(f.text) => FrameClean([NextTry(f) EXCEPT !.same = @ + 1])
<1>1. f = [op |-> f.op, type |-> f.type, text |-> f.text, at |-> f.at, try |-> f.try,
           same |-> f.same, names |-> f.names]
    BY DEF FrameOK
<1>2. ASSUME NEW w, NEW t, NEW n, NEW l, NEW g,
             g = [op |-> f.op, type |-> f.type, text |-> f.text, at |-> w, try |-> t,
                  same |-> n, names |-> l],
             w # "wait", f.op = "value" /\ f.type \in SecretTypes => w = "enter",
             n > 0 => f.same > 0 \/ Clean(f.text)
      PROVE  FrameClean(g)
  <2>1. g.op = f.op /\ g.type = f.type /\ g.text = f.text /\ g.at = w /\ g.same = n
      BY <1>2
  <2> QED BY <1>2, <2>1 DEF FrameClean
<1>3. [f EXCEPT !.at = "draw"] = [op |-> f.op, type |-> f.type, text |-> f.text, at |-> "draw",
                                  try |-> f.try, same |-> f.same, names |-> f.names]
    BY <1>1
<1>4. NextTry(f) = [op |-> f.op, type |-> f.type, text |-> f.text, at |-> f.at,
                    try |-> f.try + 1, same |-> f.same, names |-> <<>>]
  <2> DEFINE t == f.try + 1  e == <<>>
  <2>1. "try" \in DOMAIN f
      BY <1>1
  <2>2. NextTry(f) = [f EXCEPT !.try = t, !.names = e]
      BY <2>1 DEF NextTry
  <2> HIDE DEF t, e
  <2>3. NextTry(f) = [op |-> f.op, type |-> f.type, text |-> f.text, at |-> f.at,
                      try |-> t, same |-> f.same, names |-> e]
      BY <1>1, <2>2
  <2> QED BY <2>3 DEF t, e
<1>5. [NextTry(f) EXCEPT !.same = @ + 1]
        = [op |-> f.op, type |-> f.type, text |-> f.text, at |-> f.at,
           try |-> f.try + 1, same |-> f.same + 1, names |-> <<>>]
    BY <1>4
<1>6. f.type \notin SecretTypes \/ f.op = "share" => FrameClean([f EXCEPT !.at = "draw"])
  <2> SUFFICES ASSUME f.type \notin SecretTypes \/ f.op = "share"
               PROVE  FrameClean([f EXCEPT !.at = "draw"])
      OBVIOUS
  <2>1. f.op = "value" /\ f.type \in SecretTypes => "draw" = "enter"
      OBVIOUS
  <2>2. "draw" # "wait"
      OBVIOUS
  <2> QED BY <1>2, <1>3, <2>1, <2>2
<1>7. f.at # "wait" => FrameClean(NextTry(f))
  <2>1. f.op = "value" /\ f.type \in SecretTypes => f.at = "enter"
      BY DEF FrameClean
  <2> QED BY <1>2, <1>4, <2>1
<1>8. f.at = "draw" /\ Clean(f.text) => FrameClean([NextTry(f) EXCEPT !.same = @ + 1])
  <2>1. f.op = "value" /\ f.type \in SecretTypes => f.at = "enter"
      BY DEF FrameClean
  <2>2. f.at = "draw" => f.at # "wait"
      OBVIOUS
  <2> QED BY <1>2, <1>5, <2>1, <2>2
<1> QED BY <1>6, <1>7, <1>8

LEMMA EnterClean ==
    ASSUME PlainFor(SecretAtoms), Invariant, Kept, NEW th \in Threads, Enter(th)
    PROVE  Kept'
<1> DEFINE f == Top(th)  known == RowOf(Key(f.type, f.text), Stored(f.type, f.text))
<1>1. /\ stack[th] # <<>> /\ f.op = "value" /\ f.at = "enter"
      /\ UNCHANGED <<table, shared, ever>>
    BY DEF Enter, Quiet
<1>2. /\ FrameOK(f) /\ FrameClean(f) /\ Stacks(table, stack)
      /\ \A u \in Threads : FramesClean(stack[u])
      /\ \A a \in answers : AnswerClean(ever, a)
    BY <1>1, TopClean
<1>3. Legit(f.type, f.text) /\ Detected(f.type, f.text)
    BY <1>1, <1>2 DEF FrameOK, FrameClean
<1>4. CASE LeftAsItIs(f) /\ Return(th, f.text)
  <2>1. \/ Clean(f.text)
        \/ f.type \notin SecretTypes /\ Stored(f.type, f.text) \in ever
    <3>1. CASE f.type \in PublicTypes
      <4>1. f.type \notin SecretTypes
          BY <3>1 DEF PublicTypes, SecretTypes
      <4> QED BY <1>3, <3>1, <4>1 DEF Detected
    <3>2. CASE f.type \in {"FILE_PATH", "USER_PATH"} /\ f.text.k = "path"
      <4>1. f.type \notin SecretTypes
          BY <3>2 DEF SecretTypes
      <4>2. Clean(Stored(f.type, f.text))
          BY <1>3, <4>1 DEF Detected
      <4> QED BY <1>3, <3>2, <4>2, StoredSpares DEF Clean
    <3>3. f.text.k # "blank"
        BY <1>3 DEF Legit, WellMade, Proper, Fields
    <3>4. CASE /\ f.type \notin SecretTypes
               /\ f.text \in Public \/ Stored(f.type, f.text) \in revealed
      <4>1. CASE f.text \in Public
          BY <1>3, <3>4, <4>1 DEF Detected
      <4>2. CASE Stored(f.type, f.text) \in revealed
          BY <3>4, <4>2 DEF Invariant
      <4> QED BY <3>4, <4>1, <4>2
    <3> QED BY <1>4, <3>1, <3>2, <3>3, <3>4 DEF LeftAsItIs, NothingToHide
  <2> QED BY <1>1, <1>4, <2>1, EndsClean
<1>5. CASE f.type \in SecretTypes /\ Return(th, SecretReference(f.text))
  <2> DEFINE l == IF f.text.k = "secret" THEN f.text.label ELSE ""
             b == Draw("secret", f.text, 0, 0)
             c == [k |-> "secret", label |-> l, body |-> b]
  <2>1. l \notin SecretAtoms /\ b \notin SecretAtoms
      BY <1>3, <1>5 DEF Detected, PlainFor
  <2>2. SecretReference(f.text) = c
      BY DEF SecretReference
  <2> HIDE DEF l, b
  <2>3. c.k = "secret" /\ c.label = l /\ c.body = b
      OBVIOUS
  <2> HIDE DEF c
  <2>4. AtomsOf(c) = {l, b} /\ Inside(c) = {}
      BY <2>3 DEF AtomsOf, Inside
  <2>5. Clean(c)
      BY <2>1, <2>4, SparesIs DEF Clean
  <2> QED BY <1>1, <1>5, <2>2, <2>5, EndsClean
<1>6. ASSUME NEW r \in known, Return(th, r.sur) PROVE Kept'
  <2>1. Clean(r.sur)
      BY <1>6 DEF RowOf, Kept, RowClean
  <2> QED BY <1>1, <1>6, <2>1, EndsClean
<1>7. CASE /\ f.type \notin SecretTypes /\ Continue(th, [f EXCEPT !.at = "draw"])
           /\ UNCHANGED answers
  <2>1. FrameClean([f EXCEPT !.at = "draw"])
      BY <1>2, <1>7, MovesClean
  <2>2. \A u \in Threads : FramesClean(stack'[u])
      BY <1>1, <1>2, <1>7, <2>1, ContinueFrames, FramesStayClean
  <2> QED BY <1>1, <1>2, <1>7, <2>2, OnlyClean
<1> QED BY <1>4, <1>5, <1>6, <1>7 DEF Enter

LEMMA AskPartClean ==
    ASSUME Invariant, Kept, NEW th \in Threads, AskPart(th)
    PROVE  Kept'
<1> DEFINE f == Top(th)  j == Len(f.names) + 1  g == Frame(AskedFor(f.type, f.text)[j])
<1>1. /\ stack[th] # <<>> /\ f.op = "value" /\ f.at = "draw"
      /\ Len(f.names) < Len(AskedFor(f.type, f.text))
      /\ stack' = [stack EXCEPT ![th] = <<g>> \o @]
      /\ UNCHANGED <<table, answers, ever>>
    BY DEF AskPart, Quiet
<1>2. /\ FrameOK(f) /\ FrameClean(f) /\ Stacks(table, stack)
      /\ \A u \in Threads : FramesClean(stack[u])
      /\ \A a \in answers : AnswerClean(ever, a)
    BY <1>1, TopClean
<1>3. Legit(f.type, f.text) /\ Detected(f.type, f.text) /\ f.type \notin SecretTypes
    BY <1>1, <1>2 DEF FrameOK, FrameClean
<1>4. j \in 1..Len(AskedFor(f.type, f.text))
  <2>1. Len(f.names) \in Nat
      BY <1>2, SeqFacts DEF FrameOK
  <2>2. Len(AskedFor(f.type, f.text)) \in Nat
      BY <1>3, AsksAreCalls DEF Legit
  <2> QED BY <1>1, <2>1, <2>2
<1>5. FrameClean(g)
    BY <1>3, <1>4, AskClean
<1> HIDE DEF g
<1>6. \A u \in Threads : FramesClean(stack'[u])
    BY <1>1, <1>2, <1>5, AskingFrames, FramesStayClean
<1> QED BY <1>1, <1>2, <1>6, OnlyClean

\* The attempts that drew the value itself are counted, and only a value without a
\* password does it.
LEMMA DrawsItselfClean ==
    ASSUME PlainFor(SecretAtoms), Invariant, Kept, NEW th \in Threads, DrawsItself(th)
    PROVE  Kept'
<1> DEFINE f == Top(th)  g == [NextTry(f) EXCEPT !.same = @ + 1]
<1>1. /\ stack[th] # <<>> /\ f.at = "draw" /\ Ready(th) /\ Itself(f, Drawn(th))
      /\ Continue(th, g) /\ UNCHANGED <<table, answers, ever>>
    BY DEF DrawsItself, Ready, Quiet
<1>2. /\ FrameOK(f) /\ FrameClean(f) /\ Stacks(table, stack)
      /\ \A u \in Threads : FramesClean(stack[u])
      /\ \A a \in answers : AnswerClean(ever, a)
    BY <1>1, TopClean
<1>3. Drawn(th) \in {f.text, Stored(f.type, f.text)}
    BY <1>1 DEF Itself
<1>4. Clean(f.text)
    BY <1>1, <1>3, DrawingClean, ItselfSpares DEF Drawn, Clean
<1>5. FrameClean(g)
    BY <1>1, <1>2, <1>4, MovesClean
<1> HIDE DEF g
<1>6. \A u \in Threads : FramesClean(stack'[u])
    BY <1>1, <1>2, <1>5, ContinueFrames, FramesStayClean
<1> QED BY <1>1, <1>2, <1>6, OnlyClean

LEMMA WaitClean ==
    ASSUME Invariant, Kept, NEW th \in Threads, Wait(th)
    PROVE  Kept'
<1> DEFINE f == Top(th)
<1>1. /\ stack[th] # <<>> /\ f.at = "wait" /\ UNCHANGED <<table, ever>>
      /\ \/ Stored(f.type, f.text) \in revealed /\ Return(th, f.text)
         \/ Return(th, f.names[1])
    BY DEF Wait, Quiet
<1>2. FrameOK(f) /\ FrameClean(f)
    BY <1>1, TopClean
<1>3. f.op = "value"
    BY <1>1, <1>2 DEF FrameOK
<1>4. f.type \notin SecretTypes /\ Clean(f.names[1])
    BY <1>1, <1>2, <1>3 DEF FrameClean
<1>5. revealed \subseteq ever
    BY DEF Invariant
<1> QED BY <1>1, <1>4, <1>5, EndsClean

LEMMA ExhaustedClean ==
    ASSUME Invariant, Kept, NEW th \in Threads, Exhausted(th)
    PROVE  Kept'
<1> DEFINE f == Top(th)
<1>1. /\ stack[th] # <<>> /\ f.op = "value" /\ UNCHANGED <<table, ever>>
      /\ (f.same = MaxTries /\ Return(th, f.text)) \/ Refuse(th)
    BY DEF Exhausted, Quiet
<1>2. /\ FrameClean(f) /\ Stacks(table, stack)
      /\ \A u \in Threads : FramesClean(stack[u])
      /\ \A a \in answers : AnswerClean(ever, a)
    BY <1>1, TopClean
<1>3. CASE f.same = MaxTries /\ Return(th, f.text)
  <2>1. Clean(f.text)
    <3>1. f.same > 0
        BY <1>3, EngineAssumption
    <3> QED BY <1>1, <1>2, <3>1 DEF FrameClean
  <2> QED BY <1>1, <1>3, <2>1, EndsClean
<1>4. CASE Refuse(th)
  <2>1. /\ \A u \in Threads : FramesClean(stack'[u])
        /\ \A a \in answers' : AnswerClean(ever, a)
      BY <1>2, <1>4, RefuseClean
  <2> QED BY <1>1, <2>1, OnlyClean
<1> QED BY <1>1, <1>3, <1>4

LEMMA BoundClean ==
    ASSUME Invariant, Kept, NEW th \in Threads, stack[th] # <<>>, Top(th).op = "value",
           Top(th).at = "draw", Top(th).type \notin SecretTypes,
           NEW out, Clean(out), Bound(th, Top(th), out)
    PROVE  /\ \A u \in Threads : FramesClean(stack'[u])
           /\ \A a \in answers' : AnswerClean(ever, a)
<1> DEFINE f == Top(th)
<1>1. /\ FrameOK(f) /\ FrameClean(f) /\ Stacks(table, stack)
      /\ \A u \in Threads : FramesClean(stack[u])
      /\ \A a \in answers : AnswerClean(ever, a)
    BY TopClean
<1>2. CASE Return(th, out)
  <2> DEFINE a == [type |-> f.type, text |-> f.text, out |-> out, open |-> open[th]]
  <2>1. a.out = out
      OBVIOUS
  <2>2. AnswerClean(ever, a)
    <3> HIDE DEF a
    <3> QED BY <2>1 DEF AnswerClean
  <2> QED BY <1>1, <1>2, <2>2, ReturnClean
<1>3. CASE Continue(th, [f EXCEPT !.at = "wait", !.names = <<out>>]) /\ UNCHANGED answers
  <2> DEFINE n == <<out>>  g == [f EXCEPT !.at = "wait", !.names = n]
  <2>1. n[1] = out
      OBVIOUS
  <2> HIDE DEF n
  <2>2. g = [op |-> f.op, type |-> f.type, text |-> f.text, at |-> "wait",
             try |-> f.try, same |-> f.same, names |-> n]
    <3> HIDE DEF f
    <3> QED BY <1>1, Waits
  <2> HIDE DEF g
  <2>3. /\ g.op = f.op /\ g.type = f.type /\ g.text = f.text /\ g.at = "wait"
        /\ g.same = f.same /\ g.names = n
      BY <2>2
  <2>4. FrameClean(g)
      BY <1>1, <2>1, <2>3 DEF FrameClean
  <2>5. Continue(th, g)
      BY <1>3 DEF g, n
  <2> QED BY <1>1, <1>3, <2>4, <2>5, ContinueFrames, FramesStayClean
<1> QED BY <1>2, <1>3, BoundIs

LEMMA BindClean ==
    ASSUME PlainFor(SecretAtoms), Invariant, Kept, NEW th \in Threads, Bind(th)
    PROVE  Kept'
<1> DEFINE f == Top(th)  type == Key(f.type, f.text)  real == Stored(f.type, f.text)
           c == Drawn(th)  r == Row(type, real, c)
<1>1. /\ stack[th] # <<>> /\ f.op = "value" /\ f.at = "draw" /\ Ready(th)
      /\ ~Itself(f, c) /\ UNCHANGED ever
    BY DEF Bind, Ready, Quiet
<1>2. /\ FrameOK(f) /\ FrameClean(f) /\ Stacks(table, stack)
      /\ \A u \in Threads : FramesClean(stack[u])
      /\ \A a \in answers : AnswerClean(ever, a)
    BY <1>1, TopClean
<1>3. f.type \notin SecretTypes /\ Detected(f.type, f.text)
    BY <1>1, DrawingClean
<1>4. Clean(c)
    BY <1>1, DrawingClean, CandidateSpares DEF Drawn, Clean
<1>5. RowClean(r)
  <2>1. c # real
      BY <1>1 DEF Itself
  <2>2. Alike(r)
      BY <1>1, <2>1, DrawingClean, ValueAlike DEF Drawn
  <2>3. r.sur = c /\ r.real = real
      BY DEF Row
  <2>4. Clean(real)
      BY <1>1, DrawingClean
  <2> HIDE DEF r, c, real
  <2> QED BY <1>4, <2>2, <2>3, <2>4 DEF RowClean
<1>6. ASSUME table' = table \cup {r}, Bound(th, f, c)
      PROVE  Kept'
  <2> HIDE DEF c, r
  <2>1. /\ \A u \in Threads : FramesClean(stack'[u])
        /\ \A a \in answers' : AnswerClean(ever, a)
      BY <1>1, <1>3, <1>4, <1>6, BoundClean
  <2> QED BY <1>1, <1>5, <1>6, <2>1 DEF Kept
<1>7. ASSUME NEW q \in Existing(type, real), Bound(th, f, q.sur), UNCHANGED table
      PROVE  Kept'
  <2>1. Clean(q.sur)
      BY <1>7 DEF Existing, RowOf, Current, Kept, RowClean
  <2>2. /\ \A u \in Threads : FramesClean(stack'[u])
        /\ \A a \in answers' : AnswerClean(ever, a)
      BY <1>1, <1>3, <1>7, <2>1, BoundClean
  <2> QED BY <1>1, <1>7, <2>2 DEF Kept
<1>8. ASSUME Continue(th, NextTry(f)), UNCHANGED <<table, answers>> PROVE Kept'
  <2>1. FrameClean(NextTry(f))
      BY <1>1, <1>2, MovesClean
  <2>2. \A u \in Threads : FramesClean(stack'[u])
      BY <1>1, <1>2, <1>8, <2>1, ContinueFrames, FramesStayClean
  <2> QED BY <1>1, <1>2, <1>8, <2>2, OnlyClean
<1> HIDE DEF c
<1> QED BY <1>6, <1>7, <1>8 DEF Bind, c

\* What a frame that asked for an attribute is told is not an answer of a call.
LEMMA LookupClean ==
    ASSUME Invariant, Kept, NEW th \in Threads, Lookup(th)
    PROVE  Kept'
<1> DEFINE f == Top(th)
<1>1. /\ stack[th] # <<>> /\ f.op = "share" /\ UNCHANGED <<table, ever>>
    BY DEF Lookup, Quiet
<1>2. ASSUME NEW out, Return(th, out) PROVE Kept'
    BY <1>1, <1>2, EndsClean
<1>3. CASE Continue(th, [f EXCEPT !.at = "draw"]) /\ UNCHANGED answers
  <2>1. /\ FrameOK(f) /\ FrameClean(f) /\ Stacks(table, stack)
        /\ \A u \in Threads : FramesClean(stack[u])
        /\ \A a \in answers : AnswerClean(ever, a)
      BY <1>1, TopClean
  <2>2. FrameClean([f EXCEPT !.at = "draw"])
      BY <1>1, <2>1, MovesClean
  <2>3. \A u \in Threads : FramesClean(stack'[u])
      BY <1>1, <1>3, <2>1, <2>2, ContinueFrames, FramesStayClean
  <2> QED BY <1>1, <1>3, <2>1, <2>3, OnlyClean
<1> QED BY <1>2, <1>3 DEF Lookup

LEMMA AllocateClean ==
    ASSUME PlainFor(SecretAtoms), Invariant, Kept, NEW th \in Threads, Allocate(th)
    PROVE  Kept'
<1> DEFINE f == Top(th)  c == FakeShared(f.type, f.text, f.try)  r == Row(f.type, f.text, c)
<1>1. /\ stack[th] # <<>> /\ f.op = "share" /\ f.at = "draw" /\ UNCHANGED ever
    BY DEF Allocate, Quiet
<1>2. /\ FrameOK(f) /\ FrameClean(f) /\ Stacks(table, stack)
      /\ \A u \in Threads : FramesClean(stack[u])
      /\ \A a \in answers : AnswerClean(ever, a)
    BY <1>1, TopClean
<1>3. ASSUME c # f.text, table' = table \cup {r}, Return(th, c) PROVE Kept'
  <2>1. f.type \in Shareds /\ Shape(f.type, f.text) /\ Clean(f.text)
      BY <1>1, <1>2 DEF FrameOK, FrameClean
  <2>2. RowClean(r)
    <3>1. Alike(r) /\ Clean(c)
        BY <1>3, <2>1, SharedAlike, SharedSpares DEF Clean
    <3>2. r.real = f.text /\ r.sur = c
        BY DEF Row
    <3> HIDE DEF r, c
    <3> QED BY <2>1, <3>1, <3>2 DEF RowClean
  <2>3. Len(stack[th]) = 1 => f.op = "value"
      BY <1>1, <1>2, StackFacts DEF Stacks, Top
  <2>4. /\ \A u \in Threads : FramesClean(stack'[u])
        /\ \A a \in answers' : AnswerClean(ever, a)
      BY <1>1, <1>2, <1>3, <2>3, ReturnClean
  <2> HIDE DEF r
  <2> QED BY <1>1, <1>3, <2>2, <2>4 DEF Kept
<1>4. ASSUME NEW out, Return(th, out), UNCHANGED table PROVE Kept'
    BY <1>1, <1>4, EndsClean
<1>5. CASE Continue(th, NextTry(f)) /\ UNCHANGED <<table, answers>>
  <2>1. FrameClean(NextTry(f))
      BY <1>1, <1>2, MovesClean
  <2>2. \A u \in Threads : FramesClean(stack'[u])
      BY <1>1, <1>2, <1>5, <2>1, ContinueFrames, FramesStayClean
  <2> QED BY <1>1, <1>2, <1>5, <2>2, OnlyClean
<1> HIDE DEF c
<1> QED BY <1>3, <1>4, <1>5 DEF Allocate, c

LEMMA RefusalsClean ==
    ASSUME Invariant, Kept, NEW th \in Threads, NoneLeft(th) \/ VaultFails(th)
    PROVE  Kept'
<1>1. stack[th] # <<>> /\ Refuse(th) /\ UNCHANGED <<table, ever>>
    BY DEF NoneLeft, VaultFails, Quiet
<1>2. /\ \A u \in Threads : FramesClean(stack'[u])
      /\ \A a \in answers' : AnswerClean(ever, a)
    BY <1>1, TopClean, RefuseClean
<1> QED BY <1>1, <1>2, OnlyClean

LEMMA AroundClean ==
    ASSUME Invariant, Kept,
           \/ \E x \in Revealable : Rule(x)
           \/ \E p \in Procs : Restart(p)
           \/ Midnight
    PROVE  Kept'
<1>1. CASE \E x \in Revealable : Rule(x)
  <2>1. ever \subseteq ever' /\ UNCHANGED <<table, stack, answers>>
      BY <1>1 DEF Rule
  <2>2. \A a : AnswerClean(ever, a) => AnswerClean(ever', a)
      BY <2>1 DEF AnswerClean
  <2> QED BY <2>1, <2>2 DEF Kept
<1>2. ASSUME NEW p \in Procs, Restart(p) PROVE Kept'
  <2>1. /\ stack' = [th \in Threads |-> IF Owner[th] = p THEN <<>> ELSE stack[th]]
        /\ UNCHANGED <<table, answers, ever>>
      BY <1>2 DEF Restart
  <2>2. FramesClean(<<>>)
    <3>1. Len(<<>>) = 0 /\ 1..0 = {}
        OBVIOUS
    <3> QED BY <3>1 DEF FramesClean
  <2> QED BY <2>1, <2>2 DEF Kept
<1>3. CASE Midnight
    BY <1>3 DEF Midnight, Kept
<1> QED BY <1>1, <1>2, <1>3

\* No password is written to the vault, and none leaves in an answer unless a rule has
\* revealed the value it is in, at whatever step of the call and whatever the other
\* threads bind (substitute_value, Vault.bind, attendre_decision).  The hypotheses: no
\* word of the lexicons is a password, and a value with a password in it is detected as
\* a secret or as what carries one in its login.
THEOREM SecretsAreKept ==
    PlainFor(SecretAtoms) /\ (\A v \in Values : Detected(v.type, v.text))
        => (Spec => []SecretsStaySecret)
<1> SUFFICES ASSUME PlainFor(SecretAtoms), \A v \in Values : Detected(v.type, v.text)
             PROVE  Spec => []SecretsStaySecret
    OBVIOUS
<1>1. Init => Kept
  <2>1. FramesClean(<<>>)
    <3>1. Len(<<>>) = 0 /\ 1..0 = {}
        OBVIOUS
    <3> QED BY <3>1 DEF FramesClean
  <2> QED BY <2>1 DEF Init, Kept
<1>2. ASSUME Kept, Invariant, [Next]_vars PROVE Kept'
  <2>1. ASSUME NEW th \in Threads, Call(th) \/ Run(th) \/ VaultFails(th) PROVE Kept'
      BY <1>2, <2>1, CallClean, EnterClean, AskPartClean, DrawsItselfClean, BindClean,
         WaitClean, ExhaustedClean, LookupClean, AllocateClean, RefusalsClean DEF Run
  <2>2. CASE \/ \E x \in Revealable : Rule(x)
             \/ \E p \in Procs : Restart(p)
             \/ Midnight
      BY <1>2, <2>2, AroundClean
  <2>3. CASE UNCHANGED vars
      BY <1>2, <2>3 DEF vars, Kept
  <2> QED BY <1>2, <2>1, <2>2, <2>3 DEF Next
<1>3. Kept => SecretsStaySecret
    BY DEF Kept, SecretsStaySecret, RowClean, AnswerClean, Clean, Spares, Granted
<1>4. Kept /\ Invariant /\ [Next]_vars => Kept'
    BY <1>2
<1> QED BY <1>1, <1>3, <1>4, InvariantHolds, PTL DEF Spec

----------------------------------------------------------------------------
(* Dates move. *)

\* The rank a turn comes back to is another, unless the turn is whole.
LEMMA Division ==
    ASSUME NEW a \in Int, NEW n \in Nat \ {0}
    PROVE  /\ a \div n \in Int /\ a % n \in 0..(n - 1)
           /\ a = n * (a \div n) + (a % n)
    OBVIOUS

LEMMA WholeTurns ==
    ASSUME NEW n \in Nat \ {0}, NEW k \in Int, NEW r \in 0..(n - 1), n * k = r
    PROVE  r = 0
<1>1. CASE k >= 1
  <2>1. n * k >= n
      BY <1>1
  <2> QED BY <2>1
<1>2. CASE k <= -1
  <2>1. n * k <= -n
      BY <1>2
  <2> QED BY <2>1
<1>3. CASE k = 0
    BY <1>3
<1> QED BY <1>1, <1>2, <1>3

LEMMA TurnsAway ==
    ASSUME NEW low \in Int, NEW high \in Int, low <= high, NEW o \in Int, low <= o,
           NEW step \in Int, step % (high - low + 1) # 0
    PROVE  Turn(o, low, high, step) # o
<1> DEFINE a == o - low  n == high - low + 1  q == (a + step) \div n  p == step \div n
           r == step % n
<1>1. a \in Int /\ a + step \in Int /\ n \in Nat \ {0}
    OBVIOUS
<1>2. /\ q \in Int /\ a + step = n * q + ((a + step) % n)
      /\ p \in Int /\ r \in 0..(n - 1) /\ step = n * p + r
  <2> HIDE DEF a, n
  <2> QED BY <1>1, Division
<1>3. Turn(o, low, high, step) = low + ((a + step) % n)
    BY DEF Turn
<1> SUFFICES ASSUME (a + step) % n = a PROVE FALSE
  <2> DEFINE m == (a + step) % n
  <2>1. m \in Int
    <3> HIDE DEF a, n
    <3> QED BY <1>1, Division
  <2> HIDE DEF m
  <2> QED BY <1>3, <2>1 DEF m
<1> HIDE DEF a, n, q, p, r
<1>4. n * q = n * p + r
    BY <1>1, <1>2
<1>5. n * (q - p) = n * q - n * p
    BY <1>1, <1>2
<1>6. n * (q - p) = r /\ q - p \in Int
  <2> DEFINE u == n * q  v == n * p
  <2>1. u \in Int /\ v \in Int
      BY <1>1, <1>2
  <2> HIDE DEF u, v
  <2> QED BY <1>2, <1>4, <1>5, <2>1 DEF u, v
<1>7. r = 0
    BY <1>1, <1>2, <1>6, WholeTurns
<1> QED BY <1>7 DEF r, n

LEMMA PartTurns ==
    ASSUME NEW n \in Nat \ {0}, NEW b \in 1..(n - 1)
    PROVE  b % n # 0 /\ (-b) % n # 0
<1>1. /\ b \div n \in Int /\ b = n * (b \div n) + (b % n)
      /\ (-b) \div n \in Int /\ -b = n * ((-b) \div n) + ((-b) % n)
  <2>1. b \in Int /\ -b \in Int
      OBVIOUS
  <2> QED BY <2>1, Division
<1>2. ASSUME NEW k \in Int PROVE b # n * k /\ -b # n * k
  <2>1. n * (-k) = -(n * k) /\ n * k \in Int /\ -k \in Int /\ b \in 0..(n - 1) /\ b # 0
      OBVIOUS
  <2>2. b # n * k
      BY <2>1, WholeTurns
  <2>3. b # n * (-k)
      BY <2>1, WholeTurns
  <2> QED BY <2>1, <2>2, <2>3
<1> QED BY <1>1, <1>2

\* A number of days is never a whole turn of the range of a granularity.
LEMMA StepTurns ==
    ASSUME NEW g \in Grains, NEW days \in Nat, g = "day" => days % Span["day"] # 0
    PROVE  Step(g, days) \in Nat /\ Step(g, days) % Span[g] # 0
<1>1. DaysPer[g] \in Nat \ {0} /\ Span[g] \in Nat \ {0, 1}
    BY DatesAssumption
<1> DEFINE p == DaysPer[g]  n == Span[g]  r == ((2 * days + p) \div (2 * p)) % n
<1>2. r \in 0..(n - 1)
  <2>1. 2 * days + p \in Int /\ 2 * p \in Nat \ {0}
      BY <1>1
  <2>2. (2 * days + p) \div (2 * p) \in Int
      BY <2>1, Division
  <2> QED BY <1>1, <2>2, Division
<1>3. Step(g, days) = IF g = "day" THEN days ELSE IF r = 0 THEN 1 ELSE r
    BY DEF Step
<1> HIDE DEF r, p, n
<1>4. n \in Nat \ {0} /\ n # 1
    BY <1>1 DEF n
<1>5. CASE g = "day"
    BY <1>3, <1>5
<1>6. CASE g # "day"
  <2>1. Step(g, days) \in 1..(n - 1)
      BY <1>2, <1>3, <1>4, <1>6
  <2>2. Step(g, days) % n # 0
      BY <1>4, <2>1, PartTurns
  <2> QED BY <2>1, <2>2 DEF n
<1> QED BY <1>5, <1>6

LEMMA FreeRankAway ==
    ASSUME NEW d, d.g \in Grains, d.o \in Nat, NEW days \in Nat,
           d.g = "day" => days % Span["day"] # 0
    PROVE  FreeRank(d, days) # d.o
<1> DEFINE n == Span[d.g]  s == Step(d.g, days)
<1>1. n \in Nat \ {0, 1} /\ s \in Nat /\ s % n # 0
    BY StepTurns, DatesAssumption
<1>2. FreeRank(d, days) = Turn(d.o, 0, n - 1, s)
    BY DEF FreeRank
<1> SUFFICES ASSUME NEW o \in Nat, o = d.o PROVE Turn(o, 0, n - 1, s) # o
    BY <1>2
<1> HIDE DEF n, s
<1>3. n - 1 \in Int /\ 0 <= n - 1 /\ (n - 1) - 0 + 1 = n /\ s \in Int /\ o \in Int /\ 0 <= o
    BY <1>1
<1>4. s % ((n - 1) - 0 + 1) # 0
    BY <1>1, <1>3
<1> QED BY <1>3, <1>4, TurnsAway

\* A move on one side of the present is never a whole turn of that side.
LEMMA SignedTurns ==
    ASSUME NEW k \in Int, NEW past, NEW n \in Nat \ {0, 1}
    PROVE  Signed(k, past, n) \in Int /\ Signed(k, past, n) % n # 0
<1> DEFINE b == IF n < 2 \/ k % (n - 1) = 0 THEN 1 ELSE k % (n - 1)
<1>1. n - 1 \in Nat \ {0} /\ n \in Nat \ {0}
    OBVIOUS
<1>2. k % (n - 1) \in 0..((n - 1) - 1)
    BY <1>1, Division
<1>3. b \in 1..(n - 1)
    BY <1>1, <1>2
<1>4. Signed(k, past, n) = IF past THEN -b ELSE b
    BY DEF Signed
<1> HIDE DEF b
<1>5. b % n # 0 /\ (-b) % n # 0
    BY <1>1, <1>3, PartTurns
<1> QED BY <1>3, <1>4, <1>5

LEMMA SidedRankAway ==
    ASSUME NEW d, d.g \in Grains, d.o \in Nat, NEW days \in Nat, NEW day \in Nat,
           d.g = "day" => days % Span["day"] # 0, ~Narrow(d, day)
    PROVE  SidedRank(d, days, day) # d.o
<1>1. CASE d.g = "yearday"
    BY <1>1, FreeRankAway DEF SidedRank
<1>2. CASE d.g # "yearday"
  <2> DEFINE now == Now(d.g, day)  low == Low(d.o, now)  high == High(d.g, d.o, now)
             n == high - low + 1  k == Step(d.g, days)
             s == Signed(k, d.o <= now, n)
  <2>1. SidedRank(d, days, day) = Turn(d.o, low, high, s)
      BY <1>2 DEF SidedRank
  <2>2. k \in Int
      BY StepTurns
  <2>3. now \in Int
    <3>1. DaysPer[d.g] \in Nat \ {0} /\ day \in Int
        BY DatesAssumption
    <3>2. day \div DaysPer[d.g] \in Int
        BY <3>1, Division
    <3> QED BY <3>2 DEF Now
  <2>4. Span[d.g] \in Nat
      BY DatesAssumption
  <2>5. ~(high - low < 1)
      BY <1>2 DEF Narrow
  <2> SUFFICES ASSUME NEW o \in Nat, o = d.o PROVE Turn(o, low, high, s) # o
      BY <2>1
  <2> HIDE DEF now, k
  <2>6. low \in Int /\ high \in Int /\ low <= o
      BY <2>3, <2>4 DEF Low, High
  <2> HIDE DEF low, high
  <2>7. n \in Nat \ {0, 1} /\ low <= high
      BY <2>5, <2>6
  <2>8. s \in Int /\ s % n # 0
    <3> HIDE DEF n
    <3> QED BY <2>2, <2>7, SignedTurns
  <2> HIDE DEF s
  <2> QED BY <2>6, <2>7, <2>8, TurnsAway
<1> QED BY <1>1, <1>2

\* No number of days that a scope moves its dates by is a whole turn of their range.
DaysMove == \A t \in 0..(MaxTries - 1) : (Jours + t) % Span["day"] # 0

\* A value that holds dates is stored as it is.
LEMMA StoredDates ==
    ASSUME NEW type, NEW x
    PROVE  /\ x.k = "dates" => Stored(type, x) = x
           /\ \A out : SameDate(x, out) => SameDate(Stored(type, x), out)
<1>1. x.k = "dates" => Stored(type, x) = x
  <2> SUFFICES ASSUME x.k = "dates" PROVE Stored(type, x) = x
      OBVIOUS
  <2>1. Kind(type, x) \notin {"host", "email", "repo", "image"}
      BY KindIs
  <2>2. Normalized(type, x) = x
      BY DEF Normalized, StripRootSlash, StripUserinfo
  <2> QED BY <2>1, <2>2 DEF Stored
<1> QED BY <1>1 DEF SameDate

\* No date of a value goes out in its candidates.
LEMMA DatesAway ==
    ASSUME DaysMove, NEW type, NEW x, Legit(type, x), NEW t \in 0..(MaxTries - 1),
           NEW names, NEW day \in Nat
    PROVE  ~SameDate(x, Candidate(type, x, t, names, day))
<1> SUFFICES ASSUME x.k = "dates" PROVE ~SameDate(x, Candidate(type, x, t, names, day))
    BY DEF SameDate
<1>1. Kind(type, x) \in {"date", "generic"}
    BY KindIs DEF Kinds
<1>2. CASE ~Readable(x.items)
  <2>1. Candidate(type, x, t, names, day) = FakeWord(type, x, t)
      BY <1>1, <1>2 DEF Candidate, FakeGeneric
  <2>2. Candidate(type, x, t, names, day).k = "name"
      BY <2>1, WordIs
  <2> QED BY <2>2 DEF SameDate
<1>3. CASE Readable(x.items)
  <2> DEFINE n == Jours + t  s == Shifted(x.items, n, SidedDates, day)
  <2>1. Candidate(type, x, t, names, day) = FakeDates(x, t, day)
      BY <1>1, <1>3 DEF Candidate, FakeGeneric
  <2>2. FakeDates(x, t, day).items = s
      BY DEF FakeDates, Legit, WellMade, Proper, Fields
  <2>3. n \in Nat /\ n % Span["day"] # 0
      BY EngineAssumption DEF DaysMove
  <2>4. ASSUME NEW i \in DOMAIN x.items PROVE x.items[i].o # s[i].o
    <3> DEFINE d == x.items[i]
               keepSide == SidedDates /\ \A j \in DOMAIN x.items : ~Narrow(x.items[j], day)
               o == IF keepSide THEN SidedRank(d, n, day) ELSE FreeRank(d, n)
    <3>1. d \in [g : Grains \cup {"none"}, o : Nat, er : BOOLEAN]
      <4>1. x.items \in Seq([g : Grains \cup {"none"}, o : Nat, er : BOOLEAN])
          BY DEF Legit, WellMade, Proper
      <4> DEFINE S == [g : Grains \cup {"none"}, o : Nat, er : BOOLEAN]
      <4> HIDE DEF S
      <4>2. x.items \in Seq(S)
          BY <4>1 DEF S
      <4>3. x.items[i] \in S
          BY <4>2
      <4> QED BY <4>3 DEF S
    <3>2. d.g \in Grains
        BY <1>3 DEF Readable
    <3>3. s[i] = Written(d, o)
        BY DEF Shifted
    <3>4. keepSide => ~Narrow(d, day)
        OBVIOUS
    <3> HIDE DEF s, n, d, keepSide
    <3>5. d.o \in Nat
        BY <3>1
    <3>6. o # d.o
        BY <2>3, <3>2, <3>4, <3>5, FreeRankAway, SidedRankAway
    <3> HIDE DEF o
    <3>7. Written(d, o).o = o
        BY <3>1 DEF Written
    <3> QED BY <3>3, <3>6, <3>7 DEF d
  <2> QED BY <2>1, <2>2, <2>4 DEF SameDate
<1> QED BY <1>2, <1>3

----------------------------------------------------------------------------
(* Nothing real is left. *)

\* What is still to be withheld of some words: those of no text that was revealed.
Withheld(W, opened) == W \ Opened(opened)

\* What goes out in place of a text holds none of these words and none of its dates.
Apart(V, text, out) == Spares(V, out) /\ ~SameDate(text, out)

\* What tells something is detected where the generators replace it: a text that goes
\* out as it is or of which a piece does, because the allow-list holds it or because of
\* its type, has none of these words in what stays of it; nor has the label of a secret.
Usual(W, type, x) ==
    IF type \in SecretTypes THEN x.k = "secret" => x.label \notin W
    ELSE /\ Addressed(type, x) /\ Free(W, x)
         /\ x \in Public \/ type \in PublicTypes => Spares(W, x) /\ x.k # "dates"
         /\ \A y \in Inside(x) \cap Public : Spares(W, y)

RowApart(V, r) == Alike(r) /\ Apart(V, r.real, r.sur)
FrameApart(W, V, f) ==
    /\ Heard(V, f.names)
    /\ f.op = "value" => /\ Usual(W, f.type, f.text)
                         /\ f.type \in SecretTypes => f.at = "enter"
                         /\ f.same > 0 => Apart(V, f.text, f.text)
                         /\ f.at = "wait" => Apart(V, f.text, f.names[1])
FramesApart(W, V, s) == \A i \in 1..Len(s) : FrameApart(W, V, s[i])
AnswerApart(V, opened, a) ==
    \/ a.out = a.text /\ a.type \notin SecretTypes /\ Stored(a.type, a.text) \in opened
    \/ Apart(V, a.text, a.out)

Held(W) ==
    LET V == Withheld(W, ever)
    IN  /\ \A r \in table : RowApart(V, r)
        /\ \A th \in Threads : FramesApart(W, V, stack[th])
        /\ \A a \in answers : AnswerApart(V, ever, a)

\* The fewer the words, the less there is to withhold.
LEMMA FewerWords ==
    ASSUME NEW W, NEW V \in SUBSET W
    PROVE  /\ \A x : Spares(W, x) => Spares(V, x)
           /\ \A x : Free(W, x) => Free(V, x)
           /\ PlainFor(W) => PlainFor(V)
           /\ \A text, out : Apart(W, text, out) => Apart(V, text, out)
           /\ \A names : Heard(W, names) => Heard(V, names)
           /\ \A r : RowApart(W, r) => RowApart(V, r)
           /\ \A X, f : FrameApart(X, W, f) => FrameApart(X, V, f)
           /\ \A X, s : FramesApart(X, W, s) => FramesApart(X, V, s)
<1>1. \A x : Spares(W, x) => Spares(V, x)
    BY DEF Spares
<1>2. \A x : Free(W, x) => Free(V, x)
    BY <1>1 DEF Free
<1>3. PlainFor(W) => PlainFor(V)
    BY DEF PlainFor
<1>4. \A text, out : Apart(W, text, out) => Apart(V, text, out)
    BY <1>1 DEF Apart
<1>5. \A names : Heard(W, names) => Heard(V, names)
    BY <1>1 DEF Heard
<1>6. \A r : RowApart(W, r) => RowApart(V, r)
    BY <1>4 DEF RowApart
<1>7. \A X, f : FrameApart(X, W, f) => FrameApart(X, V, f)
    BY <1>4, <1>5 DEF FrameApart
<1>8. \A X, s : FramesApart(X, W, s) => FramesApart(X, V, s)
    BY <1>7 DEF FramesApart
<1> QED BY <1>1, <1>2, <1>3, <1>4, <1>5, <1>6, <1>7, <1>8

LEMMA HeardMore ==
    ASSUME NEW V, NEW names, IsSeq(names), Heard(V, names), NEW out, Spares(V, out)
    PROVE  Heard(V, Append(names, out))
<1> DEFINE n == Append(names, out)
<1>1. /\ Len(names) \in Nat /\ Len(n) = Len(names) + 1
      /\ \A i \in 1..Len(n) : n[i] = IF i = Len(names) + 1 THEN out ELSE names[i]
    BY Appended, SeqFacts
<1> HIDE DEF n
<1> SUFFICES ASSUME NEW i \in 1..Len(n) PROVE Spares(V, n[i])
    BY DEF Heard, n
<1>2. CASE i = Len(names) + 1
    BY <1>1, <1>2
<1>3. CASE i # Len(names) + 1
  <2>1. i \in 1..Len(names)
      BY <1>1, <1>3
  <2> QED BY <1>1, <1>3, <2>1 DEF Heard
<1> QED BY <1>2, <1>3

LEMMA HeardNothing == \A V : Heard(V, <<>>)
<1>1. Len(<<>>) = 0 /\ 1..0 = {}
    OBVIOUS
<1> QED BY <1>1 DEF Heard

\* A call inside another is for a piece of its value.
LEMMA PartIs ==
    ASSUME NEW g, NEW f, FrameOK(g), Under(g, f), f.op = "value"
    PROVE  f.type \in PartTypes /\ f.text \in Inside(g.text) /\ WellMade(g.text)
<1> DEFINE type == g.type  x == g.text  asks == AskedFor(type, x)  j == Len(g.names) + 1
           G == Group(Kind(type, x), x)  A == Attribute(Kind(type, x), x)
<1>1. Legit(type, x) /\ WellMade(x)
    BY DEF FrameOK, Under, Legit
<1>2. asks[j] = [op |-> f.op, type |-> f.type, text |-> f.text]
    BY DEF Under
<1>3. j \in 1..Len(asks)
  <2>1. Len(g.names) \in Nat
      BY SeqFacts DEF FrameOK
  <2>2. Len(asks) \in Nat
      BY <1>1, AsksAreCalls DEF Legit
  <2>3. Len(g.names) < Len(asks)
      BY DEF Under
  <2> QED BY <2>1, <2>2, <2>3
<1>4. CASE G = "none"
  <2>1. PICK t \in PartTypes, y \in Inside(x) : asks[j] = Part(t, y)
      BY <1>1, <1>3, <1>4, AsksForParts
  <2> HIDE DEF asks, j
  <2>2. f.type = t /\ f.text = y
      BY <1>2, <2>1 DEF Part
  <2> QED BY <1>1, <2>2
<1>5. CASE G # "none"
  <2>1. asks = <<>> \/ asks = <<Share(G, A)>>
      BY <1>1, <1>5, AsksToShare
  <2>2. asks[j] = Share(G, A)
    <3>1. Len(<<>>) = 0 /\ 1..0 = {}
        OBVIOUS
    <3>2. Len(<<Share(G, A)>>) = 1 /\ <<Share(G, A)>>[1] = Share(G, A)
        OBVIOUS
    <3> HIDE DEF G, A, j
    <3> QED BY <1>3, <2>1, <3>1, <3>2
  <2> HIDE DEF asks, j, G, A
  <2>3. asks[j].op = "share" /\ asks[j].op = f.op
      BY <1>2, <2>2 DEF Share
  <2> QED BY <2>3
<1> QED BY <1>4, <1>5

\* A piece that a rule revealed is open whole.
LEMMA RevealedPart ==
    ASSUME NEW W, NEW opened, NEW x, WellMade(x), NEW t \in PartTypes, NEW y \in Inside(x),
           Stored(t, y) \in opened
    PROVE  Apart(Withheld(W, opened), y, y)
<1>1. Legit(t, y) /\ t \notin {"URL", "REPO"} /\ y.k \in {"name", "ip"}
    BY PartsOf, InsideWellMade DEF PartTypes
<1>2. Atoms(Stored(t, y)) = Atoms(y)
    BY <1>1, StoredPieces, StoredKeeps DEF Atoms
<1>3. Atoms(y) \subseteq Opened(opened)
    BY <1>2 DEF Opened
<1> QED BY <1>1, <1>3 DEF Apart, Spares, Withheld, SameDate

\* A text the path setting leaves alone is made of pieces that stay.
LEMMA NothingMaskedKeeps ==
    ASSUME NEW W, NEW x, WellMade(x), x.k = "path", NothingMasked(x), Free(W, x),
           NEW V \in SUBSET W
    PROVE  Apart(V, x, x)
<1>1. AtomsOf(x) = {} /\ Inside(x) = Pieces(x.segs)
    BY DEF AtomsOf, Inside
<1>2. Inside(x) \subseteq Keeps(x)
    BY <1>1 DEF NothingMasked, Keeps, Pieces
<1>3. Spares(W, x)
    BY <1>1, <1>2, SparesIs, SparesInside DEF Free
<1> QED BY <1>3 DEF Apart, Spares, SameDate

----------------------------------------------------------------------------
(* Each step withholds what it has to. *)

LEMMA TopApart ==
    ASSUME NEW W, Invariant, Held(W), NEW th \in Threads, stack[th] # <<>>
    PROVE  /\ FrameOK(Top(th)) /\ FrameApart(W, Withheld(W, ever), Top(th))
           /\ Told(table, Top(th)) /\ Stacks(table, stack)
<1>1. FrameApart(W, Withheld(W, ever), Top(th))
    BY InvariantIs, StackFacts DEF Held, FramesApart, Stacks, Top
<1> QED BY <1>1, TopIs, InvariantIs

\* The frames after a step are frames before it, but for one.
LEMMA FramesStay ==
    ASSUME NEW W, Held(W), UNCHANGED ever, NEW g, FrameApart(W, Withheld(W, ever), g),
           \A u \in Threads : FramesOf(stack'[u], stack[u], g)
    PROVE  \A u \in Threads : FramesApart(W, Withheld(W, ever), stack'[u])
    BY DEF Held, FramesApart, FramesOf

\* A step that reveals nothing.
LEMMA StepHolds ==
    ASSUME NEW W, Held(W), UNCHANGED ever,
           \A u \in Threads : FramesApart(W, Withheld(W, ever), stack'[u]),
           \A r \in table' \ table : RowApart(Withheld(W, ever), r),
           \A a \in answers' : AnswerApart(Withheld(W, ever), ever, a)
    PROVE  Held(W)'
    BY DEF Held

\* A call goes on.
LEMMA GoesOn ==
    ASSUME NEW W, Invariant, Held(W), UNCHANGED <<ever, answers>>, NEW th \in Threads,
           stack[th] # <<>>, NEW g, FrameApart(W, Withheld(W, ever), g), Continue(th, g),
           \A r \in table' \ table : RowApart(Withheld(W, ever), r)
    PROVE  Held(W)'
<1>1. \A u \in Threads : FramesOf(stack'[u], stack[u], g)
    BY ContinueFrames, InvariantIs
<1>2. \A u \in Threads : FramesApart(W, Withheld(W, ever), stack'[u])
    BY <1>1, FramesStay
<1>3. \A a \in answers' : AnswerApart(Withheld(W, ever), ever, a)
    BY DEF Held
<1> QED BY <1>2, <1>3, StepHolds

\* A call ends with what holds none of the words, or with itself when it was revealed.
LEMMA EndsApart ==
    ASSUME NEW W, Invariant, Held(W), UNCHANGED ever, NEW th \in Threads, stack[th] # <<>>,
           NEW out, Return(th, out),
           LET f == Top(th)
           IN  \/ Apart(Withheld(W, ever), f.text, out)
               \/ f.op = "share" /\ Spares(Withheld(W, ever), out)
               \/ /\ f.op = "value" /\ out = f.text /\ f.type \notin SecretTypes
                  /\ Stored(f.type, f.text) \in ever,
           \A r \in table' \ table : RowApart(Withheld(W, ever), r)
    PROVE  Held(W)'
<1> DEFINE f == Top(th)  V == Withheld(W, ever)  g == stack[th][2]  h == Hears(g, out)
           a == [type |-> f.type, text |-> f.text, out |-> out, open |-> open[th]]
<1>1. /\ Stacks(table, stack) /\ FrameOK(f) /\ FrameApart(W, V, f)
      /\ \A b \in answers : AnswerApart(V, ever, b)
    BY TopApart DEF Held
<1>2. CASE /\ Len(stack[th]) = 1 /\ f.op = "value" /\ answers' = answers \cup {a}
           /\ \A u \in Threads : FramesOf(stack'[u], stack[u], f)
  <2>1. AnswerApart(V, ever, a)
    <3>1. a.type = f.type /\ a.text = f.text /\ a.out = out
        OBVIOUS
    <3>2. f.op # "share"
        BY <1>2
    <3> HIDE DEF a, V
    <3> QED BY <3>1, <3>2 DEF AnswerApart, V
  <2>2. \A u \in Threads : FramesApart(W, V, stack'[u])
      BY <1>1, <1>2, FramesStay
  <2> HIDE DEF a, V, f
  <2>3. \A b \in answers' : AnswerApart(V, ever, b)
      BY <1>1, <1>2, <2>1
  <2> QED BY <2>2, <2>3, StepHolds DEF V
<1>3. CASE /\ Len(stack[th]) > 1 /\ FrameOK(g) /\ Under(g, f)
           /\ \A u \in Threads : FramesOf(stack'[u], stack[u], h)
           /\ h.op = g.op /\ h.type = g.type /\ h.text = g.text /\ h.at = g.at
           /\ h.same = g.same /\ h.names = Append(g.names, out)
           /\ UNCHANGED answers
  <2>1. Spares(V, out)
    <3>1. CASE /\ f.op = "value" /\ out = f.text /\ Stored(f.type, f.text) \in ever
      <4>1. f.type \in PartTypes /\ f.text \in Inside(g.text) /\ WellMade(g.text)
          BY <1>3, <3>1, PartIs
      <4> QED BY <3>1, <4>1, RevealedPart DEF Apart
    <3> QED BY <3>1 DEF Apart
  <2>2. FrameApart(W, V, g)
    <3>1. IsSeq(stack[th]) /\ Len(stack[th]) \in Nat
        BY <1>1, SeqFacts DEF Stacks, StackOK
    <3>2. 2 \in 1..Len(stack[th])
        BY <1>3, <3>1
    <3> QED BY <3>2 DEF Held, FramesApart
  <2> HIDE DEF g, h
  <2>3. Heard(V, h.names)
      BY <1>3, <2>1, <2>2, HeardMore DEF FrameApart, FrameOK
  <2>4. h.at # "wait"
      BY <1>3 DEF Under
  <2>5. FrameApart(W, V, h)
      BY <1>3, <2>2, <2>3, <2>4 DEF FrameApart
  <2>6. \A u \in Threads : FramesApart(W, V, stack'[u])
      BY <1>3, <2>5, FramesStay
  <2> QED BY <1>1, <1>3, <2>6, StepHolds
<1> QED BY <1>1, <1>2, <1>3, ReturnFrames

LEMMA RefusesApart ==
    ASSUME NEW W, Invariant, Held(W), UNCHANGED <<table, ever>>, NEW th \in Threads, Refuse(th)
    PROVE  Held(W)'
<1> DEFINE V == Withheld(W, ever)  s == [stack EXCEPT ![th] = <<>>]
<1>1. stack' = s /\ Answer(th, REFUSED)
    BY DEF Refuse
<1>2. \A g : \A u \in Threads : FramesOf(stack'[u], stack[u], g)
    BY <1>1, EmptyFrames, InvariantIs
<1>3. ASSUME NEW text PROVE Apart(V, text, REFUSED)
  <2>1. REFUSED.k = "refused"
      BY DEF REFUSED
  <2>2. AtomsOf(REFUSED) = {} /\ Inside(REFUSED) = {}
      BY <2>1 DEF AtomsOf, Inside
  <2> QED BY <2>1, <2>2, SparesIs DEF Apart, SameDate
<1>4. \A a \in answers' : a \in answers \/ a.out = REFUSED
    BY <1>1 DEF Answer
<1>5. \A a \in answers' : AnswerApart(V, ever, a)
    BY <1>3, <1>4 DEF AnswerApart, Held
<1>6. \A u \in Threads : FramesApart(W, V, stack'[u])
  <2> SUFFICES ASSUME NEW u \in Threads PROVE FramesApart(W, V, stack'[u])
      OBVIOUS
  <2>1. stack'[u] = <<>> \/ stack'[u] = stack[u]
      BY <1>1, InvariantIs DEF Stacks
  <2>2. FramesApart(W, V, <<>>)
    <3>1. Len(<<>>) = 0 /\ 1..0 = {}
        OBVIOUS
    <3> QED BY <3>1 DEF FramesApart
  <2> QED BY <2>1, <2>2 DEF Held
<1> QED BY <1>5, <1>6, StepHolds

\* A call that is to be made of a value or an attribute.
LEMMA BeginsApart ==
    ASSUME NEW W, NEW V, NEW need, need.op = "value" => Usual(W, need.type, need.text)
    PROVE  FrameApart(W, V, Frame(need))
<1> DEFINE f == Frame(need)
<1>1. /\ f.op = need.op /\ f.type = need.type /\ f.text = need.text /\ f.at = "enter"
      /\ f.same = 0 /\ f.names = <<>>
    BY FrameFields
<1> HIDE DEF f
<1>2. FrameApart(W, V, f)
    BY <1>1, HeardNothing DEF FrameApart
<1> QED BY <1>2 DEF f

LEMMA CallApart ==
    ASSUME NEW W, \A v \in Values : Usual(W, v.type, v.text), Invariant, Held(W),
           NEW th \in Threads, Call(th)
    PROVE  Held(W)'
<1> DEFINE V == Withheld(W, ever)
<1>1. PICK v \in Values :
          stack' = [stack EXCEPT ![th] = <<Frame(Part(v.type, v.text))>>]
    BY DEF Call
<1> DEFINE p == Part(v.type, v.text)  f == Frame(p)  s == <<f>>
<1>2. FrameApart(W, V, f)
  <2>1. p.type = v.type /\ p.text = v.text
      BY DEF Part
  <2> HIDE DEF p
  <2> QED BY <2>1, BeginsApart
<1> HIDE DEF f
<1>3. FramesOf(s, stack[th], f)
  <2>1. Len(s) = 1 /\ s[1] = f
      OBVIOUS
  <2> QED BY <2>1 DEF FramesOf
<1>4. stack' = [stack EXCEPT ![th] = s]
    BY <1>1 DEF f
<1> HIDE DEF s
<1>5. \A u \in Threads : FramesOf(stack'[u], stack[u], f)
    BY <1>3, <1>4, OneStack, InvariantIs
<1>6. UNCHANGED <<table, answers, ever>>
    BY DEF Call
<1>7. \A u \in Threads : FramesApart(W, V, stack'[u])
    BY <1>2, <1>5, <1>6, FramesStay
<1> QED BY <1>6, <1>7, StepHolds DEF Held

\* What the next attempt of a frame keeps of it.
LEMMA MovesApart ==
    ASSUME NEW W, NEW V, NEW f, FrameOK(f), FrameApart(W, V, f)
    PROVE  /\ f.at = "enter" /\ (f.op = "value" => f.type \notin SecretTypes)
                  => FrameApart(W, V, [f EXCEPT !.at = "draw"])
           /\ f.at = "draw" => FrameApart(W, V, NextTry(f))
           /\ f.at = "draw" /\ Apart(V, f.text, f.text)
                  => FrameApart(W, V, [NextTry(f) EXCEPT !.same = @ + 1])
<1>1. f = [op |-> f.op, type |-> f.type, text |-> f.text, at |-> f.at, try |-> f.try,
           same |-> f.same, names |-> f.names]
    BY DEF FrameOK
<1>2. ASSUME NEW t, NEW n, NEW l, NEW g,
             g = [op |-> f.op, type |-> f.type, text |-> f.text, at |-> "draw", try |-> t,
                  same |-> n, names |-> l],
             Heard(V, l), f.op = "value" => f.type \notin SecretTypes,
             n > 0 => f.same > 0 \/ Apart(V, f.text, f.text)
      PROVE  FrameApart(W, V, g)
  <2>1. g.op = f.op /\ g.type = f.type /\ g.text = f.text /\ g.at = "draw" /\ g.same = n
        /\ g.names = l
      BY <1>2
  <2> QED BY <1>2, <2>1 DEF FrameApart
<1>3. [f EXCEPT !.at = "draw"] = [op |-> f.op, type |-> f.type, text |-> f.text, at |-> "draw",
                                  try |-> f.try, same |-> f.same, names |-> f.names]
    BY <1>1
<1>4. NextTry(f) = [op |-> f.op, type |-> f.type, text |-> f.text, at |-> f.at,
                    try |-> f.try + 1, same |-> f.same, names |-> <<>>]
  <2> DEFINE t == f.try + 1  e == <<>>
  <2>1. "try" \in DOMAIN f
      BY <1>1
  <2>2. NextTry(f) = [f EXCEPT !.try = t, !.names = e]
      BY <2>1 DEF NextTry
  <2> HIDE DEF t, e
  <2>3. NextTry(f) = [op |-> f.op, type |-> f.type, text |-> f.text, at |-> f.at,
                      try |-> t, same |-> f.same, names |-> e]
      BY <1>1, <2>2
  <2> QED BY <2>3 DEF t, e
<1>5. [NextTry(f) EXCEPT !.same = @ + 1]
        = [op |-> f.op, type |-> f.type, text |-> f.text, at |-> f.at,
           try |-> f.try + 1, same |-> f.same + 1, names |-> <<>>]
    BY <1>4
<1>6. f.at = "draw" => (f.op = "value" => f.type \notin SecretTypes)
    BY DEF FrameApart
<1>7. Heard(V, f.names) /\ Heard(V, <<>>)
    BY HeardNothing DEF FrameApart
<1> QED BY <1>2, <1>3, <1>4, <1>5, <1>6, <1>7

\* What a piece of a value, or an attribute, is called with.
LEMMA AskedUsual ==
    ASSUME NEW W, NEW type, NEW x, Legit(type, x), type \notin SecretTypes, Usual(W, type, x),
           NEW j \in 1..Len(AskedFor(type, x)), AskedFor(type, x)[j].op = "value"
    PROVE  LET a == AskedFor(type, x)[j] IN Usual(W, a.type, a.text)
<1> DEFINE a == AskedFor(type, x)[j]  G == Group(Kind(type, x), x)
           A == Attribute(Kind(type, x), x)
<1>1. WellMade(x) /\ Addressed(type, x)
    BY DEF Legit, Usual
<1>2. CASE G = "none"
  <2>1. PICK t \in PartTypes, y \in Inside(x) :
          /\ a = Part(t, y)
          /\ x.k = "url" /\ y.k = "ip" => t = "IP_ADDRESS" \/ y \in Pieces(x.port)
      BY <1>1, <1>2, AsksForParts
  <2>2. Legit(t, y) /\ t \notin SecretTypes /\ y.k \in {"name", "ip"}
      BY <1>1, PartsOf, InsideWellMade
  <2>3. x.k \in {"path", "mailto", "url"}
      BY DEF Inside
  <2>4. y.k = "ip" => t = "IP_ADDRESS"
      BY <1>1, <2>1, <2>3 DEF Addressed
  <2>5. Addressed(t, y)
      BY <2>2, <2>4 DEF Addressed
  <2>6. Free(W, y)
      BY <2>2 DEF Free, Leftover, Keeps
  <2>7. Inside(y) = {} /\ t \notin PublicTypes
      BY <2>2 DEF Inside, PartTypes, PublicTypes
  <2>8. y \in Public => Spares(W, y)
      BY DEF Usual
  <2>9. Usual(W, t, y)
      BY <2>2, <2>5, <2>6, <2>7, <2>8 DEF Usual
  <2> HIDE DEF a
  <2>10. a.type = t /\ a.text = y
      BY <2>1 DEF Part
  <2> QED BY <2>9, <2>10 DEF a
<1>3. CASE G # "none"
  <2>1. AskedFor(type, x) = <<>> \/ AskedFor(type, x) = <<Share(G, A)>>
      BY <1>1, <1>3, AsksToShare
  <2>2. a = Share(G, A)
    <3>1. Len(<<>>) = 0 /\ 1..0 = {}
        OBVIOUS
    <3>2. Len(<<Share(G, A)>>) = 1 /\ <<Share(G, A)>>[1] = Share(G, A)
        OBVIOUS
    <3> HIDE DEF G, A
    <3> QED BY <2>1, <3>1, <3>2
  <2> HIDE DEF a, G, A
  <2>3. a.op = "share"
      BY <2>2 DEF Share
  <2> QED BY <2>3 DEF a
<1> QED BY <1>2, <1>3

LEMMA AskPartApart ==
    ASSUME NEW W, Invariant, Held(W), NEW th \in Threads, AskPart(th)
    PROVE  Held(W)'
<1> DEFINE f == Top(th)  V == Withheld(W, ever)  j == Len(f.names) + 1
           a == AskedFor(f.type, f.text)[j]  g == Frame(a)
<1>1. /\ stack[th] # <<>> /\ f.op = "value" /\ f.at = "draw"
      /\ Len(f.names) < Len(AskedFor(f.type, f.text))
      /\ stack' = [stack EXCEPT ![th] = <<g>> \o @]
      /\ UNCHANGED <<table, answers, ever>>
    BY DEF AskPart, Quiet
<1>2. FrameOK(f) /\ FrameApart(W, V, f) /\ Stacks(table, stack)
    BY <1>1, TopApart
<1>3. Legit(f.type, f.text) /\ Usual(W, f.type, f.text) /\ f.type \notin SecretTypes
    BY <1>1, <1>2 DEF FrameOK, FrameApart
<1>4. j \in 1..Len(AskedFor(f.type, f.text))
  <2>1. Len(f.names) \in Nat
      BY <1>2, SeqFacts DEF FrameOK
  <2>2. Len(AskedFor(f.type, f.text)) \in Nat
      BY <1>3, AsksAreCalls DEF Legit
  <2> QED BY <1>1, <2>1, <2>2
<1>5. a.op = "value" => Usual(W, a.type, a.text)
    BY <1>3, <1>4, AskedUsual
<1> HIDE DEF a
<1>6. FrameApart(W, V, g)
    BY <1>5, BeginsApart
<1> HIDE DEF g
<1>7. \A u \in Threads : FramesOf(stack'[u], stack[u], g)
    BY <1>1, <1>2, AskingFrames
<1>8. \A u \in Threads : FramesApart(W, V, stack'[u])
    BY <1>1, <1>6, <1>7, FramesStay
<1> QED BY <1>1, <1>8, StepHolds DEF Held

\* What leaves at the door of a call: a text the allow-list or a rule lets through, the
\* reference of a secret, or the substitute the vault holds.
LEMMA EnterApart ==
    ASSUME NEW W, PlainFor(W), Invariant, Held(W), NEW th \in Threads, Enter(th)
    PROVE  Held(W)'
<1> DEFINE f == Top(th)  V == Withheld(W, ever)
           known == RowOf(Key(f.type, f.text), Stored(f.type, f.text))
<1>1. /\ stack[th] # <<>> /\ f.op = "value" /\ f.at = "enter" /\ UNCHANGED <<table, ever>>
    BY DEF Enter, Quiet
<1>2. FrameOK(f) /\ FrameApart(W, V, f) /\ V \in SUBSET W
    BY <1>1, TopApart DEF Withheld
<1>3. Legit(f.type, f.text) /\ Usual(W, f.type, f.text)
    BY <1>1, <1>2 DEF FrameOK, FrameApart
<1>4. CASE LeftAsItIs(f) /\ Return(th, f.text)
  <2>1. \/ Apart(V, f.text, f.text)
        \/ f.type \notin SecretTypes /\ Stored(f.type, f.text) \in ever
    <3>1. ASSUME f.type \notin SecretTypes, f.text \in Public \/ f.type \in PublicTypes
          PROVE  Apart(V, f.text, f.text)
      <4>1. Spares(W, f.text) /\ f.text.k # "dates"
          BY <1>3, <3>1 DEF Usual
      <4> QED BY <1>2, <4>1, FewerWords DEF Apart, SameDate
    <3>2. f.type \in PublicTypes => f.type \notin SecretTypes
        BY DEF PublicTypes, SecretTypes
    <3>3. CASE /\ f.type \in {"FILE_PATH", "USER_PATH"} /\ f.text.k = "path"
               /\ NothingMasked(f.text)
      <4>1. f.type \notin SecretTypes
          BY <3>3 DEF SecretTypes
      <4>2. Free(W, f.text) /\ WellMade(f.text)
          BY <1>3, <4>1 DEF Usual, Legit
      <4> QED BY <1>2, <3>3, <4>2, NothingMaskedKeeps
    <3>4. f.text.k # "blank"
        BY <1>3 DEF Legit, WellMade, Proper, Fields
    <3>5. revealed \subseteq ever
        BY DEF Invariant
    <3> QED BY <1>4, <3>1, <3>2, <3>3, <3>4, <3>5 DEF LeftAsItIs, NothingToHide
  <2> QED BY <1>1, <1>4, <2>1, EndsApart
<1>5. CASE f.type \in SecretTypes /\ Return(th, SecretReference(f.text))
  <2> DEFINE l == IF f.text.k = "secret" THEN f.text.label ELSE ""
             b == Draw("secret", f.text, 0, 0)
             c == [k |-> "secret", label |-> l, body |-> b]
  <2>1. l \notin W /\ b \notin W
      BY <1>3, <1>5 DEF Usual, PlainFor
  <2>2. SecretReference(f.text) = c
      BY DEF SecretReference
  <2> HIDE DEF l, b
  <2>3. c.k = "secret" /\ c.label = l /\ c.body = b
      OBVIOUS
  <2> HIDE DEF c
  <2>4. AtomsOf(c) = {l, b} /\ Inside(c) = {}
      BY <2>3 DEF AtomsOf, Inside
  <2>5. Spares(W, c)
      BY <2>1, <2>4, SparesIs
  <2>6. Apart(V, f.text, c)
      BY <1>2, <2>3, <2>5, FewerWords DEF Apart, SameDate
  <2> QED BY <1>1, <1>5, <2>2, <2>6, EndsApart
<1>6. ASSUME NEW r \in known, Return(th, r.sur) PROVE Held(W)'
  <2>1. RowApart(V, r) /\ r.real = Stored(f.type, f.text)
      BY <1>6 DEF RowOf, Held
  <2>2. Apart(V, f.text, r.sur)
      BY <2>1, StoredDates DEF RowApart, Apart
  <2> QED BY <1>1, <1>6, <2>2, EndsApart
<1>7. CASE /\ f.type \notin SecretTypes /\ Continue(th, [f EXCEPT !.at = "draw"])
           /\ UNCHANGED answers
  <2>1. FrameApart(W, V, [f EXCEPT !.at = "draw"])
      BY <1>1, <1>2, <1>7, MovesApart
  <2> QED BY <1>1, <1>7, <2>1, GoesOn
<1> QED BY <1>4, <1>5, <1>6, <1>7 DEF Enter

\* The candidate of a value that has been told what it asked.
LEMMA DrawnApart ==
    ASSUME NEW W, PlainFor(W), DaysMove, Invariant, Held(W), NEW th \in Threads, Ready(th)
    PROVE  LET f == Top(th)
               V == Withheld(W, ever)
           IN  /\ FrameOK(f) /\ FrameApart(W, V, f) /\ f.type \notin SecretTypes
               /\ Apart(V, f.text, Drawn(th))
               /\ Itself(f, Drawn(th)) => Apart(V, f.text, f.text)
               /\ ~Itself(f, Drawn(th))
                     => RowApart(V, Row(Key(f.type, f.text), Stored(f.type, f.text), Drawn(th)))
<1> DEFINE f == Top(th)  V == Withheld(W, ever)  x == f.text  type == f.type
           real == Stored(type, x)  c == Candidate(type, x, f.try, f.names, today)
<1>1. /\ stack[th] # <<>> /\ f.op = "value" /\ f.at = "draw" /\ f.try < MaxTries
      /\ Len(f.names) = Len(AskedFor(type, x)) /\ c = Drawn(th)
    BY DEF Ready, Drawn
<1>2. FrameOK(f) /\ FrameApart(W, V, f) /\ Told(table, f)
    BY <1>1, TopApart
<1>3. /\ Legit(type, x) /\ type \notin SecretTypes /\ Usual(W, type, x)
      /\ IsSeq(f.names) /\ Heard(V, f.names)
    BY <1>1, <1>2 DEF FrameOK, FrameApart
<1>4. PlainFor(V) /\ Free(V, x) /\ Addressed(type, x)
  <2>1. V \in SUBSET W
      BY DEF Withheld
  <2> QED BY <1>3, <2>1, FewerWords DEF Usual
<1>5. ToldIs(type, x, f.names)
    BY <1>1, <1>2, NamesAre DEF Held, RowApart
<1>6. f.try \in 0..(MaxTries - 1) /\ today \in Nat
    BY <1>1, <1>2, EngineAssumption DEF FrameOK, Invariant
<1>7. Spares(V, c)
    BY <1>1, <1>3, <1>4, <1>5, CandidateSpares
<1>8. ~SameDate(x, c)
    BY <1>3, <1>6, DatesAway
<1>9. c \in {x, real} => Spares(V, x)
    BY <1>1, <1>3, <1>4, <1>5, ItselfSpares
<1>10. c \in {x, real} => ~SameDate(x, x)
    BY <1>8, StoredDates DEF SameDate
<1>11. c \notin {x, real} => Alike(Row(Key(type, x), real, c)) /\ ~SameDate(real, c)
  <2>1. c \notin {x, real} => Alike(Row(Key(type, x), real, c))
      BY <1>3, <1>4, <1>5, ValueAlike
  <2>2. real.k = x.k
      BY <1>3, StoredKeeps
  <2>3. ~SameDate(real, c)
      BY <1>8, <2>2, StoredDates DEF SameDate
  <2> QED BY <2>1, <2>3
<1> DEFINE r == Row(Key(type, x), real, c)
<1>12. r.real = real /\ r.sur = c
    BY DEF Row
<1> HIDE DEF r, c, real, V
<1>13. c \notin {x, real} => RowApart(V, r)
    BY <1>7, <1>11, <1>12 DEF RowApart, Apart, r
<1> QED BY <1>1, <1>2, <1>3, <1>7, <1>8, <1>9, <1>10, <1>13 DEF Itself, Apart, r, c, real, V

LEMMA DrawsItselfApart ==
    ASSUME NEW W, PlainFor(W), DaysMove, Invariant, Held(W), NEW th \in Threads, DrawsItself(th)
    PROVE  Held(W)'
<1> DEFINE f == Top(th)  V == Withheld(W, ever)  g == [NextTry(f) EXCEPT !.same = @ + 1]
<1>1. /\ stack[th] # <<>> /\ f.at = "draw" /\ Ready(th) /\ Itself(f, Drawn(th))
      /\ Continue(th, g) /\ UNCHANGED <<table, answers, ever>>
    BY DEF DrawsItself, Ready, Quiet
<1>2. FrameOK(f) /\ FrameApart(W, V, f) /\ Apart(V, f.text, f.text)
    BY <1>1, DrawnApart
<1>3. FrameApart(W, V, g)
    BY <1>1, <1>2, MovesApart
<1> HIDE DEF g
<1> QED BY <1>1, <1>3, GoesOn

LEMMA BoundApart ==
    ASSUME NEW W, Invariant, Held(W), UNCHANGED ever, NEW th \in Threads,
           stack[th] # <<>>, Top(th).op = "value", Top(th).at = "draw",
           NEW out, Apart(Withheld(W, ever), Top(th).text, out), Bound(th, Top(th), out),
           \A r \in table' \ table : RowApart(Withheld(W, ever), r)
    PROVE  Held(W)'
<1> DEFINE f == Top(th)  V == Withheld(W, ever)
<1>1. FrameOK(f) /\ FrameApart(W, V, f)
    BY TopApart
<1>2. CASE Return(th, out)
    BY <1>2, EndsApart
<1>3. CASE Continue(th, [f EXCEPT !.at = "wait", !.names = <<out>>]) /\ UNCHANGED answers
  <2> DEFINE n == <<out>>  g == [f EXCEPT !.at = "wait", !.names = n]
  <2>1. n[1] = out /\ Len(n) = 1
      OBVIOUS
  <2> HIDE DEF n
  <2>2. g = [op |-> f.op, type |-> f.type, text |-> f.text, at |-> "wait",
             try |-> f.try, same |-> f.same, names |-> n]
    <3> HIDE DEF f
    <3> QED BY <1>1, Waits
  <2> HIDE DEF g
  <2>3. /\ g.op = f.op /\ g.type = f.type /\ g.text = f.text /\ g.at = "wait"
        /\ g.same = f.same /\ g.names = n
      BY <2>2
  <2>4. Heard(V, n)
    <3> SUFFICES ASSUME NEW i \in 1..Len(n) PROVE Spares(V, n[i])
        BY DEF Heard
    <3>1. i = 1
        BY <2>1
    <3> QED BY <2>1, <3>1 DEF Apart
  <2>5. f.type \notin SecretTypes
      BY <1>1 DEF FrameApart
  <2>6. FrameApart(W, V, g)
      BY <1>1, <2>1, <2>3, <2>4, <2>5 DEF FrameApart
  <2>7. Continue(th, g)
      BY <1>3 DEF g, n
  <2> QED BY <1>3, <2>6, <2>7, GoesOn
<1> QED BY <1>2, <1>3, BoundIs

LEMMA BindApart ==
    ASSUME NEW W, PlainFor(W), DaysMove, Invariant, Held(W), NEW th \in Threads, Bind(th)
    PROVE  Held(W)'
<1> DEFINE f == Top(th)  V == Withheld(W, ever)  type == Key(f.type, f.text)
           real == Stored(f.type, f.text)  c == Drawn(th)  r == Row(type, real, c)
<1>1. /\ stack[th] # <<>> /\ f.op = "value" /\ f.at = "draw" /\ Ready(th)
      /\ ~Itself(f, c) /\ UNCHANGED ever
    BY DEF Bind, Ready, Quiet
<1>2. FrameOK(f) /\ FrameApart(W, V, f) /\ Apart(V, f.text, c) /\ RowApart(V, r)
    BY <1>1, DrawnApart
<1>3. ASSUME table' = table \cup {r}, Bound(th, f, c) PROVE Held(W)'
  <2> HIDE DEF r
  <2>1. \A q \in table' \ table : RowApart(V, q)
      BY <1>2, <1>3
  <2> QED BY <1>1, <1>2, <1>3, <2>1, BoundApart
<1>4. ASSUME NEW q \in Existing(type, real), Bound(th, f, q.sur), UNCHANGED table
      PROVE  Held(W)'
  <2>1. RowApart(V, q) /\ q.real = real
      BY <1>4 DEF Existing, RowOf, Current, Held
  <2>2. Apart(V, f.text, q.sur)
      BY <2>1, StoredDates DEF RowApart, Apart
  <2> QED BY <1>1, <1>4, <2>2, BoundApart
<1>5. ASSUME Continue(th, NextTry(f)), UNCHANGED <<table, answers>> PROVE Held(W)'
  <2>1. FrameApart(W, V, NextTry(f))
      BY <1>1, <1>2, MovesApart
  <2> QED BY <1>1, <1>5, <2>1, GoesOn
<1> HIDE DEF c
<1> QED BY <1>3, <1>4, <1>5 DEF Bind, c

LEMMA WaitApart ==
    ASSUME NEW W, Invariant, Held(W), NEW th \in Threads, Wait(th)
    PROVE  Held(W)'
<1> DEFINE f == Top(th)
<1>1. /\ stack[th] # <<>> /\ f.at = "wait" /\ UNCHANGED <<table, ever>>
      /\ \/ Stored(f.type, f.text) \in revealed /\ Return(th, f.text)
         \/ Return(th, f.names[1])
    BY DEF Wait, Quiet
<1>2. FrameOK(f) /\ FrameApart(W, Withheld(W, ever), f)
    BY <1>1, TopApart
<1>3. f.op = "value"
    BY <1>1, <1>2 DEF FrameOK
<1>4. f.type \notin SecretTypes /\ Apart(Withheld(W, ever), f.text, f.names[1])
    BY <1>1, <1>2, <1>3 DEF FrameApart
<1>5. revealed \subseteq ever
    BY DEF Invariant
<1> QED BY <1>1, <1>3, <1>4, <1>5, EndsApart

LEMMA ExhaustedApart ==
    ASSUME NEW W, Invariant, Held(W), NEW th \in Threads, Exhausted(th)
    PROVE  Held(W)'
<1> DEFINE f == Top(th)
<1>1. /\ stack[th] # <<>> /\ f.op = "value" /\ UNCHANGED <<table, ever>>
      /\ (f.same = MaxTries /\ Return(th, f.text)) \/ Refuse(th)
    BY DEF Exhausted, Quiet
<1>2. CASE f.same = MaxTries /\ Return(th, f.text)
  <2>1. f.same > 0
      BY <1>2, EngineAssumption
  <2>2. Apart(Withheld(W, ever), f.text, f.text)
      BY <1>1, <2>1, TopApart DEF FrameApart
  <2> QED BY <1>1, <1>2, <2>2, EndsApart
<1> QED BY <1>1, <1>2, RefusesApart

\* What an attribute is replaced by is drawn, or is in the vault already.
LEMMA LookupApart ==
    ASSUME NEW W, Invariant, Held(W), NEW th \in Threads, Lookup(th)
    PROVE  Held(W)'
<1> DEFINE f == Top(th)  V == Withheld(W, ever)
<1>1. /\ stack[th] # <<>> /\ f.op = "share" /\ f.at = "enter" /\ UNCHANGED <<table, ever>>
    BY DEF Lookup, Quiet
<1>2. ASSUME NEW r \in table, Return(th, r.sur) PROVE Held(W)'
  <2>1. Spares(V, r.sur)
      BY DEF Held, RowApart, Apart
  <2> QED BY <1>1, <1>2, <2>1, EndsApart
<1>3. ASSUME NEW m \in Memory(th, f), Return(th, m.sur) PROVE Held(W)'
  <2>1. MemoryOK(table, m)
      BY <1>3 DEF Memory, Invariant, Procs
  <2>2. PICK r \in table : r.sur = m.sur
      BY <2>1 DEF MemoryOK, Stands
  <2> QED BY <1>2, <1>3, <2>2
<1>4. CASE Continue(th, [f EXCEPT !.at = "draw"]) /\ UNCHANGED answers
  <2>1. FrameOK(f) /\ FrameApart(W, V, f)
      BY <1>1, TopApart
  <2>2. FrameApart(W, V, [f EXCEPT !.at = "draw"])
      BY <1>1, <2>1, MovesApart
  <2> QED BY <1>1, <1>4, <2>2, GoesOn
<1> QED BY <1>2, <1>3, <1>4 DEF Lookup, RowOf

LEMMA AllocateApart ==
    ASSUME NEW W, PlainFor(W), Invariant, Held(W), NEW th \in Threads, Allocate(th)
    PROVE  Held(W)'
<1> DEFINE f == Top(th)  V == Withheld(W, ever)  c == FakeShared(f.type, f.text, f.try)
           r == Row(f.type, f.text, c)
<1>1. /\ stack[th] # <<>> /\ f.op = "share" /\ f.at = "draw" /\ UNCHANGED ever
    BY DEF Allocate, Quiet
<1>2. FrameOK(f) /\ FrameApart(W, V, f)
    BY <1>1, TopApart
<1>3. ASSUME c # f.text, table' = table \cup {r}, Return(th, c) PROVE Held(W)'
  <2>1. f.type \in Shareds /\ Shape(f.type, f.text)
      BY <1>1, <1>2 DEF FrameOK
  <2>2. PlainFor(V)
      BY FewerWords DEF Withheld
  <2>3. Alike(r) /\ Spares(V, c)
      BY <1>3, <2>1, <2>2, SharedAlike, SharedSpares
  <2>4. f.text.k \in {"name", "ip"}
    <3>1. \/ \E l : f.text = Name(l, FALSE)
          \/ f.text = [k |-> "ip", net |-> f.text.net, host |-> 0]
        BY <2>1 DEF Shape, Shareds, Word
    <3>2. CASE \E l : f.text = Name(l, FALSE)
        BY <3>2, NameIs
    <3>3. CASE f.text = [k |-> "ip", net |-> f.text.net, host |-> 0]
        BY <3>3
    <3> QED BY <3>1, <3>2, <3>3
  <2>5. r.real = f.text /\ r.sur = c
      BY DEF Row
  <2> HIDE DEF r, c
  <2>6. RowApart(V, r)
      BY <2>3, <2>4, <2>5 DEF RowApart, Apart, SameDate
  <2>7. \A q \in table' \ table : RowApart(V, q)
      BY <1>3, <2>6
  <2> QED BY <1>1, <1>3, <2>3, <2>7, EndsApart
<1>4. ASSUME NEW q \in table, Return(th, q.sur), UNCHANGED table PROVE Held(W)'
  <2>1. Spares(V, q.sur)
      BY DEF Held, RowApart, Apart
  <2> QED BY <1>1, <1>4, <2>1, EndsApart
<1>5. CASE Continue(th, NextTry(f)) /\ UNCHANGED <<table, answers>>
  <2>1. FrameApart(W, V, NextTry(f))
      BY <1>1, <1>2, MovesApart
  <2> QED BY <1>1, <1>5, <2>1, GoesOn
<1> HIDE DEF c
<1> QED BY <1>3, <1>4, <1>5 DEF Allocate, Existing, RowOf, Current, c

LEMMA RefusalsApart ==
    ASSUME NEW W, Invariant, Held(W), NEW th \in Threads, NoneLeft(th) \/ VaultFails(th)
    PROVE  Held(W)'
<1>1. Refuse(th) /\ UNCHANGED <<table, ever>>
    BY DEF NoneLeft, VaultFails, Quiet
<1> QED BY <1>1, RefusesApart

LEMMA AroundApart ==
    ASSUME NEW W, Invariant, Held(W),
           \/ \E x \in Revealable : Rule(x)
           \/ \E p \in Procs : Restart(p)
           \/ Midnight
    PROVE  Held(W)'
<1>1. CASE \E x \in Revealable : Rule(x)
  <2> DEFINE V == Withheld(W, ever)  U == Withheld(W, ever')
  <2>1. ever \subseteq ever' /\ UNCHANGED <<table, stack, answers>>
      BY <1>1 DEF Rule
  <2>2. U \in SUBSET V
      BY <2>1 DEF Withheld, Opened
  <2> HIDE DEF U, V
  <2>3. /\ \A r : RowApart(V, r) => RowApart(U, r)
        /\ \A s : FramesApart(W, V, s) => FramesApart(W, U, s)
        /\ \A text, out : Apart(V, text, out) => Apart(U, text, out)
      BY <2>2, FewerWords
  <2>4. \A a : AnswerApart(V, ever, a) => AnswerApart(U, ever', a)
      BY <2>1, <2>3 DEF AnswerApart
  <2> QED BY <2>1, <2>3, <2>4 DEF Held, U, V
<1>2. ASSUME NEW p \in Procs, Restart(p) PROVE Held(W)'
  <2>1. /\ stack' = [th \in Threads |-> IF Owner[th] = p THEN <<>> ELSE stack[th]]
        /\ UNCHANGED <<table, answers, ever>>
      BY <1>2 DEF Restart
  <2>2. FramesApart(W, Withheld(W, ever), <<>>)
    <3>1. Len(<<>>) = 0 /\ 1..0 = {}
        OBVIOUS
    <3> QED BY <3>1 DEF FramesApart
  <2> QED BY <2>1, <2>2 DEF Held
<1>3. CASE Midnight
    BY <1>3 DEF Midnight, Held
<1> QED BY <1>1, <1>2, <1>3

LEMMA HeldAlways ==
    ASSUME NEW W, PlainFor(W), DaysMove, \A v \in Values : Usual(W, v.type, v.text)
    PROVE  /\ Init => Held(W)
           /\ Held(W) /\ Invariant /\ [Next]_vars => Held(W)'
<1>1. Init => Held(W)
  <2>1. FramesApart(W, Withheld(W, ever), <<>>)
    <3>1. Len(<<>>) = 0 /\ 1..0 = {}
        OBVIOUS
    <3> QED BY <3>1 DEF FramesApart
  <2> QED BY <2>1 DEF Init, Held
<1>2. ASSUME Held(W), Invariant, [Next]_vars PROVE Held(W)'
  <2>1. ASSUME NEW th \in Threads, Call(th) \/ Run(th) \/ VaultFails(th) PROVE Held(W)'
      BY <1>2, <2>1, CallApart, EnterApart, AskPartApart, DrawsItselfApart, BindApart,
         WaitApart, ExhaustedApart, LookupApart, AllocateApart, RefusalsApart DEF Run
  <2>2. CASE \/ \E x \in Revealable : Rule(x)
             \/ \E p \in Procs : Restart(p)
             \/ Midnight
      BY <1>2, <2>2, AroundApart
  <2>3. CASE UNCHANGED vars
      BY <1>2, <2>3 DEF vars, Held
  <2> QED BY <1>2, <2>1, <2>2, <2>3 DEF Next
<1> QED BY <1>1, <1>2

\* Whatever words are chosen, none of them goes out of the engine unless a rule revealed
\* a text that has it, nor does a date of the value that is replaced, at whatever step of
\* the call, whatever the other threads bind and whenever a rule or a day changes
\* (substitute_value, _candidate, _alloc_shared, attendre_decision).  The hypotheses: the
\* lexicons have none of the words, the days the scope moves its dates by are no whole
\* turn of their range (_DECALAGE_MIN, _DECALAGE_MAX), and the words are not in a piece
\* the settings let through as it is.
THEOREM WordsAreWithheld ==
    ASSUME NEW CONSTANT W, PlainFor(W), DaysMove, \A v \in Values : Usual(W, v.type, v.text)
    PROVE  Spec => [](\A a \in answers :
                         \/ Granted(a)
                         \/ /\ Atoms(a.out) \cap W \subseteq Opened(ever)
                            /\ ~SameDate(a.text, a.out))
<1> DEFINE Silent == \A a \in answers :
                         \/ Granted(a)
                         \/ /\ Atoms(a.out) \cap W \subseteq Opened(ever)
                            /\ ~SameDate(a.text, a.out)
<1>1. /\ Init => Held(W)
      /\ Held(W) /\ Invariant /\ [Next]_vars => Held(W)'
    BY HeldAlways
<1>2. Held(W) => Silent
    BY DEF Held, AnswerApart, Apart, Spares, Withheld, Granted
<1> QED BY <1>1, <1>2, InvariantHolds, PTL DEF Spec

\* The case of the words that tell something: no user, project, host, login, parameter,
\* word or date of a value is in what replaces it, unless a rule revealed a text that
\* has it (substitute_value).
THEOREM NothingRealLeaves ==
    PlainFor(Sensitive) /\ DaysMove /\ (\A v \in Values : Usual(Sensitive, v.type, v.text))
        => (Spec => []NothingRealLeft)
<1> SUFFICES ASSUME PlainFor(Sensitive), DaysMove,
                    \A v \in Values : Usual(Sensitive, v.type, v.text)
             PROVE  Spec => []NothingRealLeft
    OBVIOUS
<1>1. /\ Init => Held(Sensitive)
      /\ Held(Sensitive) /\ Invariant /\ [Next]_vars => Held(Sensitive)'
    BY HeldAlways
<1>2. Held(Sensitive) => NothingRealLeft
    BY DEF Held, NothingRealLeft, AnswerApart, Apart, Spares, Withheld, Granted, Left
<1> QED BY <1>1, <1>2, InvariantHolds, PTL DEF Spec

----------------------------------------------------------------------------
(* Calls go forward. *)

\* A call of substitute_value asks for a piece, and that piece for its shared
\* attribute, and nothing asks deeper: only a URL asks for something that asks in
\* turn, and a name or an address asks only for its zone or its subnet.
THEOREM CallsAreShallow == Spec => []Shallow
<1>1. Invariant => Shallow
  <2> SUFFICES ASSUME Invariant, NEW th \in Threads, ~(Len(stack[th]) <= 3) PROVE FALSE
      BY DEF Shallow
  <2> DEFINE s == stack[th]
  <2>1. StackOK(table, s)
      BY DEF Invariant
  <2>2. Len(s) \in Nat
      BY <2>1, SeqFacts DEF StackOK
  <2> HIDE DEF s
  <2>3. Len(s) > 3
      BY <2>2 DEF s
  <2>4. Under(s[2], s[1]) /\ Under(s[3], s[2]) /\ Under(s[4], s[3])
    <3>1. 1 \in 1..(Len(s) - 1) /\ 2 \in 1..(Len(s) - 1) /\ 3 \in 1..(Len(s) - 1)
        BY <2>2, <2>3
    <3>2. Under(s[1 + 1], s[1]) /\ Under(s[2 + 1], s[2]) /\ Under(s[3 + 1], s[3])
        BY <2>1, <3>1 DEF StackOK
    <3> QED BY <3>2
  <2>5. FrameOK(s[3]) /\ FrameOK(s[4])
    <3>1. 3 \in 1..Len(s) /\ 4 \in 1..Len(s)
        BY <2>2, <2>3
    <3> QED BY <2>1, <3>1 DEF StackOK
  <2>6. s[3].op = "value" /\ s[2].op = "value"
      BY <2>4 DEF Under
  <2>7. s[3].text \in Inside(s[4].text) /\ WellMade(s[4].text)
      BY <2>4, <2>5, <2>6, PartIs
  <2>8. s[3].text.k \in {"name", "ip"}
      BY <2>7, InsideWellMade
  <2>9. s[2].text \in Inside(s[3].text)
      BY <2>4, <2>5, <2>6, PartIs
  <2> QED BY <2>8, <2>9 DEF Inside
<1> QED BY <1>1, InvariantHolds, PTL

\* The steps of a frame leave it further.
LEMMA MovesForward ==
    ASSUME NEW f, FrameOK(f)
    PROVE  /\ f.at = "enter" => Further(f, [f EXCEPT !.at = "draw"])
           /\ Further(f, NextTry(f))
           /\ Further(f, [NextTry(f) EXCEPT !.same = @ + 1])
           /\ \A l : f.at = "draw" => Further(f, [f EXCEPT !.at = "wait", !.names = l])
           /\ \A out : Further(f, Hears(f, out))
<1>1. f = [op |-> f.op, type |-> f.type, text |-> f.text, at |-> f.at, try |-> f.try,
           same |-> f.same, names |-> f.names]
    BY DEF FrameOK
<1>2. ASSUME NEW w, NEW t, NEW n, NEW l, NEW g,
             g = [op |-> f.op, type |-> f.type, text |-> f.text, at |-> w, try |-> t,
                  same |-> n, names |-> l],
             \/ Phase[f.at] < Phase[w]
             \/ f.at = w /\ f.try < t
             \/ f.at = w /\ f.try = t /\ Len(f.names) < Len(l)
      PROVE  Further(f, g)
  <2>1. /\ g.op = f.op /\ g.type = f.type /\ g.text = f.text
        /\ g.at = w /\ g.try = t /\ g.names = l
      BY <1>2
  <2> QED BY <1>2, <2>1 DEF Further
<1>3. Phase["enter"] = 0 /\ Phase["draw"] = 1 /\ Phase["wait"] = 2
    BY DEF Phase
<1>4. f.try \in Nat /\ f.try < f.try + 1
  <2>1. f.try \in 0..MaxTries
      BY DEF FrameOK
  <2> QED BY <2>1, EngineAssumption
<1>5. f.at = "enter" => Further(f, [f EXCEPT !.at = "draw"])
  <2>1. [f EXCEPT !.at = "draw"]
          = [op |-> f.op, type |-> f.type, text |-> f.text, at |-> "draw",
             try |-> f.try, same |-> f.same, names |-> f.names]
      BY <1>1
  <2>2. f.at = "enter" => Phase[f.at] < Phase["draw"]
      BY <1>3
  <2> QED BY <1>2, <2>1, <2>2
<1>6. NextTry(f) = [op |-> f.op, type |-> f.type, text |-> f.text, at |-> f.at,
                    try |-> f.try + 1, same |-> f.same, names |-> <<>>]
  <2> DEFINE t == f.try + 1  e == <<>>
  <2>1. "try" \in DOMAIN f
      BY <1>1
  <2>2. NextTry(f) = [f EXCEPT !.try = t, !.names = e]
      BY <2>1 DEF NextTry
  <2> HIDE DEF t, e
  <2>3. NextTry(f) = [op |-> f.op, type |-> f.type, text |-> f.text, at |-> f.at,
                      try |-> t, same |-> f.same, names |-> e]
      BY <1>1, <2>2
  <2> QED BY <2>3 DEF t, e
<1>7. [NextTry(f) EXCEPT !.same = @ + 1]
        = [op |-> f.op, type |-> f.type, text |-> f.text, at |-> f.at,
           try |-> f.try + 1, same |-> f.same + 1, names |-> <<>>]
    BY <1>6
<1>8. ASSUME NEW l, f.at = "draw" PROVE Further(f, [f EXCEPT !.at = "wait", !.names = l])
  <2>1. [f EXCEPT !.at = "wait", !.names = l]
          = [op |-> f.op, type |-> f.type, text |-> f.text, at |-> "wait",
             try |-> f.try, same |-> f.same, names |-> l]
      BY Waits
  <2>2. Phase[f.at] < Phase["wait"]
      BY <1>3, <1>8
  <2> QED BY <1>2, <2>1, <2>2
<1>9. ASSUME NEW out PROVE Further(f, Hears(f, out))
  <2> DEFINE n == Append(f.names, out)
  <2>1. Hears(f, out) = [f EXCEPT !.names = n]
      BY DEF Hears
  <2>2. Len(f.names) < Len(n)
      BY Appended, SeqFacts DEF FrameOK
  <2> HIDE DEF n
  <2>3. Hears(f, out) = [op |-> f.op, type |-> f.type, text |-> f.text, at |-> f.at,
                         try |-> f.try, same |-> f.same, names |-> n]
      BY <1>1, <2>1
  <2> QED BY <1>2, <2>2, <2>3
<1> QED BY <1>2, <1>4, <1>5, <1>6, <1>7, <1>8, <1>9

\* So do a change at the top, a question, and an answer to the frame below.
LEMMA AheadIs ==
    ASSUME NEW s, IsSeq(s), s # <<>>
    PROVE  /\ \A g : Further(s[1], g) => Ahead(s, Swap(s, g))
           /\ \A f : Ahead(s, Push(s, f))
           /\ \A h : Len(s) > 1 /\ Further(s[2], h) => Ahead(s, Pop(s, h))
<1>1. Len(s) \in Nat \ {0}
    BY SeqFacts
<1>2. ASSUME NEW g, Further(s[1], g) PROVE Ahead(s, Swap(s, g))
  <2> DEFINE r == Swap(s, g)  n == Len(s)
  <2>1. Len(r) = n /\ r[1] = g /\ \A i \in 2..n : r[i] = s[i]
      BY Replaced
  <2> HIDE DEF r, n
  <2>2. n \in Nat \ {0}
      BY <1>1 DEF n
  <2>3. /\ n - 1 \in 0..n /\ n - 1 < n
        /\ \A i \in 0..(n - 1 - 1) : s[n - i] = r[n - i]
    <3>1. \A i \in 0..(n - 1 - 1) : n - i \in 2..n
        BY <2>2
    <3> QED BY <2>1, <2>2, <3>1
  <2>4. n - (n - 1) = 1
      BY <2>2
  <2>5. Ahead(s, r)
      BY <1>2, <2>1, <2>3, <2>4 DEF Ahead, n
  <2> QED BY <2>5 DEF r
<1>3. ASSUME NEW f PROVE Ahead(s, Push(s, f))
  <2> DEFINE r == Push(s, f)  n == Len(s)
  <2>1. Len(r) = n + 1 /\ \A i \in 2..(n + 1) : r[i] = s[i - 1]
      BY Pushed
  <2> HIDE DEF r, n
  <2>2. n \in Nat \ {0}
      BY <1>1 DEF n
  <2>3. \A i \in 0..(n - 1) : s[n - i] = r[n + 1 - i]
    <3> SUFFICES ASSUME NEW i \in 0..(n - 1) PROVE s[n - i] = r[n + 1 - i]
        OBVIOUS
    <3>1. n + 1 - i \in 2..(n + 1) /\ (n + 1 - i) - 1 = n - i
        BY <2>2
    <3> QED BY <2>1, <3>1
  <2>4. n \in 0..n /\ n < n + 1
      BY <2>2
  <2>5. Ahead(s, r)
      BY <2>1, <2>3, <2>4 DEF Ahead, n
  <2> QED BY <2>5 DEF r
<1>4. ASSUME NEW h, Len(s) > 1, Further(s[2], h) PROVE Ahead(s, Pop(s, h))
  <2> DEFINE r == Pop(s, h)  n == Len(s)
  <2>1. Len(r) = n - 1 /\ r[1] = h /\ \A i \in 2..(n - 1) : r[i] = s[i + 1]
      BY <1>4, Popped
  <2> HIDE DEF r, n
  <2>2. n \in Nat /\ n > 1
      BY <1>1, <1>4 DEF n
  <2>3. /\ n - 2 \in 0..n /\ n - 2 < n - 1
        /\ \A i \in 0..(n - 2 - 1) : s[n - i] = r[n - 1 - i]
    <3>1. ASSUME NEW i \in 0..(n - 2 - 1) PROVE s[n - i] = r[n - 1 - i]
      <4>1. n - 1 - i \in 2..(n - 1) /\ (n - 1 - i) + 1 = n - i
          BY <2>2
      <4> QED BY <2>1, <4>1
    <3> QED BY <2>2, <3>1
  <2>4. n - (n - 2) = 2 /\ (n - 1) - (n - 2) = 1
      BY <2>2
  <2>5. Ahead(s, r)
      BY <1>4, <2>1, <2>3, <2>4 DEF Ahead, n
  <2> QED BY <2>5 DEF r
<1> QED BY <1>2, <1>3, <1>4

LEMMA MovesTheCall ==
    ASSUME Invariant, NEW th \in Threads, stack[th] # <<>>,
           \/ \E g : Continue(th, g) /\ Further(Top(th), g)
           \/ \E g : stack' = [stack EXCEPT ![th] = <<g>> \o @]
           \/ \E out : Return(th, out)
           \/ Refuse(th)
    PROVE  /\ stack'[th] = <<>> \/ Ahead(stack[th], stack'[th])
           /\ \A u \in Threads \ {th} : stack'[u] = stack[u]
<1> DEFINE s == stack[th]
<1>1. stack = [u \in Threads |-> stack[u]] /\ StackOK(table, s)
    BY DEF Invariant
<1>2. IsSeq(s) /\ Len(s) \in Nat \ {0} /\ (Len(s) # 1 => Len(s) > 1 /\ FrameOK(s[2]))
    BY <1>1, StackFacts
<1>3. ASSUME NEW r, stack' = [stack EXCEPT ![th] = r]
      PROVE  stack'[th] = r /\ \A u \in Threads \ {th} : stack'[u] = stack[u]
    BY <1>1, <1>3
<1>4. ASSUME NEW g, Continue(th, g), Further(Top(th), g)
      PROVE  Ahead(s, stack'[th]) /\ \A u \in Threads \ {th} : stack'[u] = stack[u]
  <2>1. stack' = [stack EXCEPT ![th] = Swap(s, g)]
      BY <1>1, <1>4 DEF Continue, Swap
  <2>2. Ahead(s, Swap(s, g))
      BY <1>2, <1>4, AheadIs DEF Top
  <2> QED BY <1>3, <2>1, <2>2
<1>5. ASSUME NEW g, stack' = [stack EXCEPT ![th] = <<g>> \o @]
      PROVE  Ahead(s, stack'[th]) /\ \A u \in Threads \ {th} : stack'[u] = stack[u]
  <2>1. stack' = [stack EXCEPT ![th] = Push(s, g)]
      BY <1>1, <1>5 DEF Push
  <2>2. Ahead(s, Push(s, g))
      BY <1>2, AheadIs
  <2> QED BY <1>3, <2>1, <2>2
<1>6. ASSUME NEW out, Return(th, out)
      PROVE  /\ stack'[th] = <<>> \/ Ahead(s, stack'[th])
             /\ \A u \in Threads \ {th} : stack'[u] = stack[u]
  <2>1. CASE Len(s) = 1
    <3>1. stack' = [stack EXCEPT ![th] = <<>>]
        BY <1>6, <2>1 DEF Return
    <3> QED BY <1>3, <3>1
  <2>2. CASE Len(s) # 1
    <3> DEFINE h == Hears(s[2], out)
    <3>1. stack' = [stack EXCEPT ![th] = Pop(s, h)]
        BY <1>1, <1>6, <2>2 DEF Return, Pop
    <3>2. Further(s[2], h)
        BY <1>2, <2>2, MovesForward
    <3> HIDE DEF h
    <3>3. Ahead(s, Pop(s, h))
        BY <1>2, <2>2, <3>2, AheadIs
    <3> QED BY <1>3, <3>1, <3>3
  <2> QED BY <2>1, <2>2
<1>7. CASE Refuse(th)
  <2>1. stack' = [stack EXCEPT ![th] = <<>>]
      BY <1>7 DEF Refuse
  <2> QED BY <1>3, <2>1
<1> QED BY <1>4, <1>5, <1>6, <1>7

LEMMA RunsForward ==
    ASSUME Invariant, NEW th \in Threads, Run(th)
    PROVE  /\ stack[th] # <<>>
           /\ stack'[th] = <<>> \/ Ahead(stack[th], stack'[th])
           /\ \A u \in Threads \ {th} : stack'[u] = stack[u]
<1> DEFINE f == Top(th)
<1>1. stack[th] # <<>>
    BY DEF Run, Enter, AskPart, DrawsItself, Bind, Ready, Wait, Exhausted, Lookup,
           Allocate, NoneLeft
<1>2. FrameOK(f)
    BY <1>1, TopIs
<1>3. /\ f.at = "enter" => Further(f, [f EXCEPT !.at = "draw"])
      /\ Further(f, NextTry(f)) /\ Further(f, [NextTry(f) EXCEPT !.same = @ + 1])
      /\ \A l : f.at = "draw" => Further(f, [f EXCEPT !.at = "wait", !.names = l])
    BY <1>2, MovesForward
<1>4. \/ \E g : Continue(th, g) /\ Further(f, g)
      \/ \E g : stack' = [stack EXCEPT ![th] = <<g>> \o @]
      \/ \E out : Return(th, out)
      \/ Refuse(th)
  <2>1. CASE Enter(th)
    <3>1. \/ \E out : Return(th, out)
          \/ f.at = "enter" /\ Continue(th, [f EXCEPT !.at = "draw"])
        BY <2>1 DEF Enter
    <3> QED BY <1>3, <3>1
  <2>2. CASE AskPart(th)
      BY <2>2 DEF AskPart
  <2>3. CASE DrawsItself(th)
    <3>1. Continue(th, [NextTry(f) EXCEPT !.same = @ + 1])
        BY <2>3 DEF DrawsItself
    <3> QED BY <1>3, <3>1
  <2>4. CASE Bind(th)
    <3>1. f.at = "draw"
        BY <2>4 DEF Bind, Ready
    <3>2. \/ \E out : Return(th, out)
          \/ \E l : Continue(th, [f EXCEPT !.at = "wait", !.names = l])
          \/ Continue(th, NextTry(f))
        BY <2>4, BoundIs DEF Bind
    <3> QED BY <1>3, <3>1, <3>2
  <2>5. CASE Wait(th)
      BY <2>5 DEF Wait
  <2>6. CASE Exhausted(th)
      BY <2>6 DEF Exhausted
  <2>7. CASE Lookup(th)
    <3>1. \/ \E out : Return(th, out)
          \/ f.at = "enter" /\ Continue(th, [f EXCEPT !.at = "draw"])
        BY <2>7 DEF Lookup
    <3> QED BY <1>3, <3>1
  <2>8. CASE Allocate(th)
    <3>1. (\E out : Return(th, out)) \/ Continue(th, NextTry(f))
        BY <2>8 DEF Allocate
    <3> QED BY <1>3, <3>1
  <2>9. CASE NoneLeft(th)
      BY <2>9 DEF NoneLeft
  <2> QED BY <2>1, <2>2, <2>3, <2>4, <2>5, <2>6, <2>7, <2>8, <2>9 DEF Run
<1> QED BY <1>1, <1>4, MovesTheCall

\* A call never goes back: each of its steps ends it, starts the question of a
\* piece, or leaves a frame in a later phase, at a later attempt or told more; and
\* no step of another thread, a rule, a restart or the change of day moves it
\* but to end it. It is the safety half of the end of a call.
THEOREM CallsGoForward == Spec => EachCallGoesOn
<1> DEFINE A == \A th \in Threads :
                   /\ Run(th) => stack'[th] = <<>> \/ Ahead(stack[th], stack'[th])
                   /\ stack[th] # <<>> /\ ~Run(th) => stack'[th] \in {<<>>, stack[th]}
<1>1. ASSUME Invariant, [Next]_vars PROVE A
  <2> SUFFICES ASSUME NEW th \in Threads, stack[th] # <<>>, ~Run(th)
               PROVE  stack'[th] \in {<<>>, stack[th]}
      BY <1>1, RunsForward
  <2>0. stack = [u \in Threads |-> stack[u]]
      BY <1>1 DEF Invariant
  <2>1. ASSUME NEW u \in Threads, Call(u) PROVE stack'[th] \in {<<>>, stack[th]}
    <3>1. u # th
        BY <2>1 DEF Call
    <3> QED BY <2>0, <2>1, <3>1 DEF Call
  <2>2. ASSUME NEW u \in Threads, Run(u) PROVE stack'[th] \in {<<>>, stack[th]}
      BY <1>1, <2>2, RunsForward
  <2>3. ASSUME NEW u \in Threads, VaultFails(u) PROVE stack'[th] \in {<<>>, stack[th]}
      BY <2>0, <2>3 DEF VaultFails, Refuse
  <2>4. ASSUME NEW p \in Procs, Restart(p) PROVE stack'[th] \in {<<>>, stack[th]}
      BY <2>4 DEF Restart
  <2>5. CASE Midnight \/ (\E x \in Revealable : Rule(x)) \/ UNCHANGED vars
      BY <2>5 DEF Midnight, Rule, vars
  <2> QED BY <1>1, <2>1, <2>2, <2>3, <2>4, <2>5 DEF Next
<1>2. Invariant /\ [Next]_vars => [A]_vars
    BY <1>1
<1> QED BY <1>2, InvariantHolds, PTL DEF Spec, EachCallGoesOn
=============================================================================
