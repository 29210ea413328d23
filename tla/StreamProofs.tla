---------------------------- MODULE StreamProofs ----------------------------
(***************************************************************************)
(* The streamed answer, for any set of surrogates and any cutting of the   *)
(* texts.  First what a text is taken for when it is read from left to     *)
(* right: reading stops at the same places whatever comes behind, as soon  *)
(* as enough letters are known.  Then the invariant of the rewriter.       *)
(***************************************************************************)
EXTENDS Stream, WellFoundedInduction, SequenceTheorems, FiniteSetTheorems, TLAPS

----------------------------------------------------------------------------
(* Numbers. *)

\* A set of natural numbers that is not empty has a least one.
LEMMA Least ==
    ASSUME NEW T \in SUBSET Nat, T # {}
    PROVE  \E n \in T : \A m \in T : n <= m
<1> DEFINE R == OpToRel(<, Nat)
<1>1. IsWellFoundedOn(R, Nat)
  BY NatLessThanWellFounded
<1>2. \A a, b \in Nat : a < b => <<a, b>> \in R
  BY DEF OpToRel
<1> HIDE DEF R
<1>3. PICK n \in T : \A m \in T : ~(<<m, n>> \in R)
  BY <1>1, WFMin
<1>4. \A m \in T : n <= m
  <2> SUFFICES ASSUME NEW m \in T PROVE n <= m
    OBVIOUS
  <2>1. n \in Nat /\ m \in Nat
    OBVIOUS
  <2>2. m < n => <<m, n>> \in R
    BY <1>2, <2>1
  <2>3. ~(m < n)
    BY <1>3, <2>2
  <2> QED BY <2>1, <2>3
<1> QED BY <1>4

\* What holds of 0 and of the successor of each number it holds of, holds of all.
LEMMA Induction ==
    ASSUME NEW T \in SUBSET Nat, 0 \in T, \A n \in T : n + 1 \in T
    PROVE  T = Nat
<1> SUFFICES ASSUME Nat \ T # {} PROVE FALSE
  OBVIOUS
<1>1. PICK n \in Nat \ T : \A m \in Nat \ T : n <= m
  BY Least
<1>2. n # 0 /\ n - 1 \in Nat
  OBVIOUS
<1>3. n - 1 \in T
  BY <1>1, <1>2
<1> QED BY <1>3

\* A bounded one has a greatest one.
LEMMA Greatest ==
    ASSUME NEW T \in SUBSET Nat, T # {}, NEW b \in Nat, \A m \in T : m <= b
    PROVE  \E n \in T : \A m \in T : m <= n
<1> DEFINE U == {u \in Nat : b - u \in T}
<1>1. U # {}
  <2>1. PICK m \in T : TRUE
    OBVIOUS
  <2>2. b - m \in Nat /\ b - (b - m) = m
    BY <2>1
  <2>3. b - m \in U
    BY <2>1, <2>2
  <2> QED BY <2>3
<1>2. PICK u \in U : \A v \in U : u <= v
  BY <1>1, Least
<1>3. ASSUME NEW m \in T PROVE m <= b - u
  <2>1. b - m \in Nat /\ b - (b - m) = m
    OBVIOUS
  <2>2. b - m \in U
    BY <2>1
  <2>3. u <= b - m
    BY <1>2, <2>2
  <2> QED BY <2>3
<1>4. b - u \in T
  BY <1>2
<1> QED BY <1>3, <1>4

\* What holds of each number up to n as soon as it holds of the greater ones.
LEMMA Downward ==
    ASSUME NEW n \in Nat, NEW T, \A i \in 1..n : (\A j \in (i + 1)..n : j \in T) => i \in T
    PROVE  \A i \in 1..n : i \in T
<1> DEFINE U == {i \in 1..n : i \notin T}
<1> SUFFICES ASSUME U # {} PROVE FALSE
  OBVIOUS
<1>1. PICK m \in U : \A u \in U : u <= m
  <2>1. U \in SUBSET Nat /\ \A u \in U : u <= n
    OBVIOUS
  <2> HIDE DEF U
  <2> QED BY <2>1, Greatest
<1>2. \A j \in (m + 1)..n : j \in T
  <2> SUFFICES ASSUME NEW j \in (m + 1)..n, j \notin T PROVE FALSE
    OBVIOUS
  <2>1. m \in 1..n
    OBVIOUS
  <2>2. j \in U /\ m < j
    BY <2>1
  <2> QED BY <1>1, <2>1, <2>2
<1> QED BY <1>2

----------------------------------------------------------------------------
(* The pieces of a text. *)

Texts == Seq(Letters)

\* A surrogate has a letter.
LEMMA SurrogateShape ==
    \A s \in Surrogates : s \in Texts /\ Len(s) \in Nat /\ Len(s) >= 1
<1> SUFFICES ASSUME NEW s \in Surrogates PROVE s \in Texts /\ Len(s) \in Nat /\ Len(s) >= 1
  OBVIOUS
<1>1. s \in Seq(Letters) /\ s # <<>>
  BY StreamAssumption
<1>2. Len(s) \in Nat /\ Len(s) # 0
  BY <1>1, EmptySeq
<1> QED BY <1>1, <1>2 DEF Texts

\* No surrogate is longer than some number.
LEMMA Bounded == \E b \in Nat : \A s \in Surrogates : Len(s) <= b
<1>1. PICK n \in Nat : ExistsSurjection(1..n, Surrogates)
  BY StreamAssumption, FS_NatSurjection
<1>2. PICK g \in [1..n -> Surrogates] : \A x \in Surrogates : \E i \in 1..n : g[i] = x
  BY <1>1 DEF ExistsSurjection, Surjection
<1> DEFINE T == {m \in Nat : \E b \in Nat : \A i \in 1..m : i <= n => Len(g[i]) <= b}
<1>3. 0 \in T
  OBVIOUS
<1>4. ASSUME NEW m \in T PROVE m + 1 \in T
  <2>0. m \in Nat
    OBVIOUS
  <2>1. PICK b \in Nat : \A i \in 1..m : i <= n => Len(g[i]) <= b
    OBVIOUS
  <2>2. CASE m + 1 <= n
    <3>1. Len(g[m + 1]) \in Nat
      <4>1. g[m + 1] \in Surrogates
        BY <2>0, <2>2
      <4> QED BY <4>1, SurrogateShape
    <3> DEFINE c == IF b < Len(g[m + 1]) THEN Len(g[m + 1]) ELSE b
    <3>2. c \in Nat /\ b <= c /\ Len(g[m + 1]) <= c
      BY <3>1
    <3> HIDE DEF c
    <3>3. ASSUME NEW i \in 1..(m + 1), i <= n PROVE Len(g[i]) <= c
      <4>1. CASE i = m + 1
        BY <4>1, <3>2
      <4>2. CASE i # m + 1
        <5>1. i \in 1..m
          BY <2>0, <4>2
        <5>2. Len(g[i]) <= b
          BY <2>1, <3>3, <5>1
        <5>3. g[i] \in Surrogates
          BY <3>3, <5>1
        <5>4. Len(g[i]) \in Nat
          BY <5>3, SurrogateShape
        <5> QED BY <3>2, <5>2, <5>4
      <4> QED BY <4>1, <4>2
    <3> QED BY <2>0, <3>2, <3>3
  <2>3. CASE ~(m + 1 <= n)
    <3>1. ASSUME NEW i \in 1..(m + 1), i <= n PROVE Len(g[i]) <= b
      <4>1. i \in 1..m
        BY <2>0, <2>3, <3>1
      <4> QED BY <2>1, <3>1, <4>1
    <3> QED BY <2>0, <3>1
  <2> QED BY <2>2, <2>3
<1>5. n \in T
  <2>1. T \in SUBSET Nat
    OBVIOUS
  <2> HIDE DEF T
  <2>2. T = Nat
    BY <1>3, <1>4, <2>1, Induction
  <2> QED BY <2>2
<1>6. PICK b \in Nat : \A i \in 1..n : Len(g[i]) <= b
  BY <1>5
<1> QED BY <1>2, <1>6

\* The longest of surrogates that are no longer than b.
LEMMA LongestIs ==
    ASSUME NEW M \in SUBSET Surrogates, M # {}, NEW b \in Nat, \A s \in M : Len(s) <= b
    PROVE  Longest(M) \in M /\ \A s \in M : Len(s) <= Len(Longest(M))
<1> DEFINE L == {Len(s) : s \in M}
<1>1. L \in SUBSET Nat /\ L # {} /\ \A n \in L : n <= b
  BY SurrogateShape
<1>2. PICK n \in L : \A m \in L : m <= n
  <2> HIDE DEF L
  <2> QED BY <1>1, Greatest
<1>3. \E s \in M : \A u \in M : Len(u) <= Len(s)
  BY <1>2
<1> QED BY <1>3 DEF Longest

\* No surrogate is longer than what is kept.
LEMMA KeepIs == Keep \in Nat /\ \A s \in Surrogates : Len(s) <= Keep
<1>1. CASE Surrogates = {}
  BY <1>1 DEF Keep
<1>2. CASE Surrogates # {}
  <2>1. PICK b \in Nat : \A s \in Surrogates : Len(s) <= b
    BY Bounded
  <2>2. Longest(Surrogates) \in Surrogates
        /\ \A s \in Surrogates : Len(s) <= Len(Longest(Surrogates))
    BY <1>2, <2>1, LongestIs
  <2>3. Keep = Len(Longest(Surrogates))
    BY <1>2 DEF Keep
  <2> QED BY <2>2, <2>3, SurrogateShape
<1> QED BY <1>1, <1>2

\* What is found at a place of a text is there letter by letter.
LEMMA MatchIs ==
    ASSUME NEW t \in Texts, NEW i \in 1..Len(t), NEW s \in Surrogates
    PROVE  s \in MatchesAt(t, i) <=> /\ i + Len(s) - 1 <= Len(t)
                                     /\ \A k \in 1..Len(s) : s[k] = t[i + k - 1]
<1>1. s \in Seq(Letters) /\ Len(s) \in Nat /\ Len(s) >= 1 /\ Len(t) \in Nat /\ i \in Nat
      /\ i >= 1 /\ t \in Seq(Letters)
  BY SurrogateShape DEF Texts
<1> DEFINE e == i + Len(s) - 1
<1>2. e \in Int /\ i <= e /\ e - i + 1 = Len(s)
  BY <1>1
<1>3. ASSUME e <= Len(t)
      PROVE  SubSeq(t, i, e) = s <=> \A k \in 1..Len(s) : s[k] = t[i + k - 1]
  <2>1. \A j \in i..e : t[j] \in Letters
    BY <1>1, <1>2, <1>3
  <2> HIDE DEF e
  <2>2. /\ SubSeq(t, i, e) \in Seq(Letters) /\ Len(SubSeq(t, i, e)) = Len(s)
        /\ \A k \in 1..Len(s) : SubSeq(t, i, e)[k] = t[i + k - 1]
    BY <1>1, <1>2, <2>1, SubSeqProperties
  <2>3. (\A k \in 1..Len(s) : s[k] = t[i + k - 1]) => SubSeq(t, i, e) = s
    BY <1>1, <2>2, SeqEqual
  <2> QED BY <2>2, <2>3
<1> QED BY <1>3 DEF MatchesAt

\* The piece that begins at i ends there or later, in the text; it is one of those found.
LEMMA EndIs ==
    ASSUME NEW t \in Texts, NEW i \in 1..Len(t)
    PROVE  /\ EndOf(t, i) \in i..Len(t)
           /\ \A s \in MatchesAt(t, i) : i + Len(s) - 1 <= EndOf(t, i)
           /\ MatchesAt(t, i) # {} => /\ Longest(MatchesAt(t, i)) \in MatchesAt(t, i)
                                      /\ EndOf(t, i) = i + Len(Longest(MatchesAt(t, i))) - 1
<1> DEFINE M == MatchesAt(t, i)
<1>0. Len(t) \in Nat /\ i \in Nat /\ 1 <= i /\ i <= Len(t)
  BY DEF Texts
<1>1. M \in SUBSET Surrogates /\ \A s \in M : i + Len(s) - 1 <= Len(t)
  BY DEF MatchesAt
<1>2. \A s \in M : Len(s) \in Nat /\ Len(s) >= 1 /\ Len(s) <= Len(t)
  BY <1>0, <1>1, SurrogateShape
<1>3. CASE M = {}
  BY <1>0, <1>3 DEF EndOf
<1>4. CASE M # {}
  <2>1. EndOf(t, i) = i + Len(Longest(M)) - 1
    BY <1>4 DEF EndOf
  <2> HIDE DEF M
  <2>2. Longest(M) \in M /\ \A s \in M : Len(s) <= Len(Longest(M))
    BY <1>0, <1>1, <1>2, <1>4, LongestIs
  <2>3. EndOf(t, i) \in i..Len(t) /\ \A s \in M : i + Len(s) - 1 <= EndOf(t, i)
    BY <1>0, <1>1, <1>2, <2>1, <2>2
  <2> QED BY <2>1, <2>2, <2>3 DEF M
<1> QED BY <1>3, <1>4

\* The n letters of t from i on are those of u from j on.
Alike(t, i, u, j, n) ==
    /\ i + n - 1 <= Len(t) /\ j + n - 1 <= Len(u)
    /\ \A k \in 1..n : t[i + k - 1] = u[j + k - 1]

\* No surrogate is found at a place of t that goes beyond n letters.
Within(t, i, n) == \A s \in MatchesAt(t, i) : Len(s) <= n

\* Texts that are alike for long enough have the same piece.
LEMMA SamePiece ==
    ASSUME NEW t \in Texts, NEW i \in 1..Len(t), NEW u \in Texts, NEW j \in 1..Len(u),
           NEW n \in Nat, n >= 1, Alike(t, i, u, j, n), Within(t, i, n), Within(u, j, n)
    PROVE  /\ Piece(t, i) = Piece(u, j)
           /\ EndOf(t, i) - i = EndOf(u, j) - j
<1>0. Len(t) \in Nat /\ i \in Nat /\ Len(u) \in Nat /\ j \in Nat
  BY DEF Texts
<1>1. ASSUME NEW s \in Surrogates PROVE s \in MatchesAt(t, i) <=> s \in MatchesAt(u, j)
  <2>1. Len(s) \in Nat /\ Len(s) >= 1
    BY SurrogateShape
  <2>2. s \in MatchesAt(t, i) => s \in MatchesAt(u, j)
    <3> SUFFICES ASSUME s \in MatchesAt(t, i) PROVE s \in MatchesAt(u, j)
      OBVIOUS
    <3>1. Len(s) <= n /\ \A k \in 1..Len(s) : s[k] = t[i + k - 1]
      BY MatchIs DEF Within
    <3>2. j + Len(s) - 1 <= Len(u)
      BY <1>0, <2>1, <3>1 DEF Alike
    <3>3. \A k \in 1..Len(s) : s[k] = u[j + k - 1]
      BY <2>1, <3>1 DEF Alike
    <3> QED BY <3>2, <3>3, MatchIs
  <2>3. s \in MatchesAt(u, j) => s \in MatchesAt(t, i)
    <3> SUFFICES ASSUME s \in MatchesAt(u, j) PROVE s \in MatchesAt(t, i)
      OBVIOUS
    <3>1. Len(s) <= n /\ \A k \in 1..Len(s) : s[k] = u[j + k - 1]
      BY MatchIs DEF Within
    <3>2. i + Len(s) - 1 <= Len(t)
      BY <1>0, <2>1, <3>1 DEF Alike
    <3>3. \A k \in 1..Len(s) : s[k] = t[i + k - 1]
      BY <2>1, <3>1 DEF Alike
    <3> QED BY <3>2, <3>3, MatchIs
  <2> QED BY <2>2, <2>3
<1>2. MatchesAt(t, i) = MatchesAt(u, j)
  <2>1. MatchesAt(t, i) \subseteq Surrogates /\ MatchesAt(u, j) \subseteq Surrogates
    BY DEF MatchesAt
  <2> QED BY <1>1, <2>1
<1>3. Piece(t, i) = Piece(u, j)
  <2>1. MatchesAt(t, i) = {} => t[i] = u[j]
    <3>1. 1 \in 1..n
      OBVIOUS
    <3>2. t[i + 1 - 1] = u[j + 1 - 1]
      BY <3>1 DEF Alike
    <3> QED BY <1>0, <3>2
  <2> QED BY <1>2, <2>1 DEF Piece
<1>4. EndOf(t, i) - i = EndOf(u, j) - j
  <2>1. CASE MatchesAt(t, i) = {}
    BY <1>0, <1>2, <2>1 DEF EndOf
  <2>2. CASE MatchesAt(t, i) # {}
    <3>1. /\ EndOf(t, i) = i + Len(Longest(MatchesAt(t, i))) - 1
          /\ Longest(MatchesAt(t, i)) \in MatchesAt(t, i)
      BY <2>2, EndIs
    <3>2. EndOf(u, j) = j + Len(Longest(MatchesAt(t, i))) - 1
      BY <1>2, <2>2, EndIs
    <3>3. Len(Longest(MatchesAt(t, i))) \in Nat
      BY <3>1, SurrogateShape DEF MatchesAt
    <3> QED BY <1>0, <3>1, <3>2, <3>3
  <2> QED BY <2>1, <2>2
<1> QED BY <1>3, <1>4

----------------------------------------------------------------------------
(* Reading a text. *)

\* What Sub makes of t from i on when it is g for what follows.
SubFrom(t, g, i) ==
    IF i = Len(t) + 1 THEN [out |-> <<>>, ends |-> {}]
    ELSE LET rest == g[EndOf(t, i) + 1]
         IN  [out  |-> <<Piece(t, i)>> \o rest.out,
              ends |-> {EndOf(t, i)} \cup rest.ends]

\* The recursion of Sub has a solution.
LEMMA SubExists ==
    ASSUME NEW t \in Texts
    PROVE  \E g : g = [i \in 1..(Len(t) + 1) |-> SubFrom(t, g, i)]
<1> DEFINE N == Len(t) + 1
<1>0. Len(t) \in Nat /\ N \in Nat /\ N >= 1
  BY DEF Texts
<1> DEFINE Good(g, m) == \A i \in 1..N : i > N - m => g[i] = SubFrom(t, g, i)
           T == {m \in Nat : \E g : Good(g, m)}
<1>1. 0 \in T
  <2>1. Good(<<>>, 0)
    BY <1>0
  <2> QED BY <2>1
<1>2. ASSUME NEW m \in T PROVE m + 1 \in T
  <2>0. m \in Nat
    OBVIOUS
  <2>1. PICK g : Good(g, m)
    OBVIOUS
  <2> DEFINE c == N - m
             h == [i \in 1..N |-> IF i = c THEN SubFrom(t, g, i) ELSE g[i]]
  <2>2. ASSUME NEW i \in 1..N, i >= c PROVE SubFrom(t, h, i) = SubFrom(t, g, i)
    <3>1. CASE i = Len(t) + 1
      BY <3>1 DEF SubFrom
    <3>2. CASE i # Len(t) + 1
      <4>1. i \in 1..Len(t)
        BY <1>0, <3>2
      <4>2. EndOf(t, i) \in i..Len(t)
        BY <4>1, EndIs
      <4>3. EndOf(t, i) + 1 \in 1..N /\ EndOf(t, i) + 1 # c
        BY <1>0, <2>0, <2>2, <4>1, <4>2
      <4>4. h[EndOf(t, i) + 1] = g[EndOf(t, i) + 1]
        BY <4>3
      <4> HIDE DEF h
      <4> QED BY <4>4 DEF SubFrom
    <3> QED BY <3>1, <3>2
  <2>3. ASSUME NEW i \in 1..N, i > N - (m + 1) PROVE h[i] = SubFrom(t, h, i)
    <3>1. i >= c
      BY <1>0, <2>0, <2>3
    <3>2. CASE i = c
      <4>1. h[i] = SubFrom(t, g, i)
        BY <3>2
      <4> QED BY <2>2, <3>1, <4>1
    <3>3. CASE i # c
      <4>1. h[i] = g[i]
        BY <3>3
      <4>2. i > N - m
        BY <1>0, <2>0, <3>1, <3>3
      <4>3. g[i] = SubFrom(t, g, i)
        BY <2>1, <4>2
      <4> QED BY <2>2, <3>1, <4>1, <4>3
    <3> QED BY <3>2, <3>3
  <2>4. Good(h, m + 1)
    BY <2>3
  <2> HIDE DEF h, Good
  <2>5. \E f : Good(f, m + 1)
    BY <2>4
  <2> QED BY <2>0, <2>5
<1>3. N \in T
  <2>1. T \in SUBSET Nat
    OBVIOUS
  <2> HIDE DEF T
  <2>2. T = Nat
    BY <1>1, <1>2, <2>1, Induction
  <2> QED BY <1>0, <2>2
<1>4. PICK g : Good(g, N)
  BY <1>3
<1>5. \A i \in 1..N : g[i] = SubFrom(t, g, i)
  <2> SUFFICES ASSUME NEW i \in 1..N PROVE g[i] = SubFrom(t, g, i)
    OBVIOUS
  <2>1. i > N - N
    BY <1>0
  <2> QED BY <1>4, <2>1
<1> DEFINE h == [i \in 1..N |-> g[i]]
<1>6. ASSUME NEW i \in 1..N PROVE SubFrom(t, h, i) = SubFrom(t, g, i)
  <2>1. CASE i = Len(t) + 1
    BY <2>1 DEF SubFrom
  <2>2. CASE i # Len(t) + 1
    <3>1. i \in 1..Len(t)
      BY <1>0, <2>2
    <3>2. EndOf(t, i) \in i..Len(t)
      BY <3>1, EndIs
    <3>3. EndOf(t, i) + 1 \in 1..N
      BY <1>0, <3>1, <3>2
    <3>4. h[EndOf(t, i) + 1] = g[EndOf(t, i) + 1]
      BY <3>3
    <3> HIDE DEF h
    <3> QED BY <3>4 DEF SubFrom
  <2> QED BY <2>1, <2>2
<1>7. h = [i \in 1..N |-> SubFrom(t, h, i)]
  <2>1. h = [i \in 1..N |-> SubFrom(t, g, i)]
    BY <1>5
  <2>2. \A i \in 1..N : SubFrom(t, h, i) = SubFrom(t, g, i)
    BY <1>6
  <2> HIDE DEF h
  <2>3. [i \in 1..N |-> SubFrom(t, h, i)] = [i \in 1..N |-> SubFrom(t, g, i)]
    BY <2>2
  <2> QED BY <2>1, <2>3
<1> QED BY <1>7

LEMMA SubIs ==
    ASSUME NEW t \in Texts
    PROVE  Sub(t) = [i \in 1..(Len(t) + 1) |-> SubFrom(t, Sub(t), i)]
<1> DEFINE P(g) == g = [i \in 1..(Len(t) + 1) |-> SubFrom(t, g, i)]
<1>1. \E g : P(g)
  BY SubExists
<1>2. Sub(t) = CHOOSE g : P(g)
  BY DEF Sub, SubFrom
<1>3. P(Sub(t))
  <2> HIDE DEF P
  <2> QED BY <1>1, <1>2
<1> QED BY <1>3

\* What is put back from i on, and where the pieces end.
Out(t, i) == Sub(t)[i].out
To(t, i)  == Sub(t)[i].ends

Pieces == [letter : Texts] \cup [real : Surrogates]

\* One piece is read, and then the rest.
LEMMA Reads ==
    ASSUME NEW t \in Texts
    PROVE  /\ Out(t, Len(t) + 1) = <<>> /\ To(t, Len(t) + 1) = {}
           /\ \A i \in 1..Len(t) : /\ Out(t, i) = <<Piece(t, i)>> \o Out(t, EndOf(t, i) + 1)
                                   /\ To(t, i) = {EndOf(t, i)} \cup To(t, EndOf(t, i) + 1)
                                   /\ EndOf(t, i) \in i..Len(t)
<1>0. Len(t) \in Nat
  BY DEF Texts
<1>1. \A i \in 1..(Len(t) + 1) : Sub(t)[i] = SubFrom(t, Sub(t), i)
  BY SubIs
<1>2. Sub(t)[Len(t) + 1] = [out |-> <<>>, ends |-> {}]
  <2>1. Len(t) + 1 \in 1..(Len(t) + 1)
    BY <1>0
  <2>2. Sub(t)[Len(t) + 1] = SubFrom(t, Sub(t), Len(t) + 1)
    BY <1>1, <2>1
  <2> QED BY <2>2 DEF SubFrom
<1>3. ASSUME NEW i \in 1..Len(t)
      PROVE  Sub(t)[i] = [out  |-> <<Piece(t, i)>> \o Out(t, EndOf(t, i) + 1),
                          ends |-> {EndOf(t, i)} \cup To(t, EndOf(t, i) + 1)]
  <2>1. i \in 1..(Len(t) + 1) /\ i # Len(t) + 1
    BY <1>0
  <2> QED BY <1>1, <2>1 DEF SubFrom, Out, To
<1>4. ASSUME NEW i \in 1..Len(t)
      PROVE  /\ Out(t, i) = <<Piece(t, i)>> \o Out(t, EndOf(t, i) + 1)
             /\ To(t, i) = {EndOf(t, i)} \cup To(t, EndOf(t, i) + 1)
  <2> DEFINE a == <<Piece(t, i)>> \o Out(t, EndOf(t, i) + 1)
             b == {EndOf(t, i)} \cup To(t, EndOf(t, i) + 1)
  <2>1. Sub(t)[i] = [out |-> a, ends |-> b]
    BY <1>3
  <2> HIDE DEF a, b
  <2>2. Out(t, i) = a /\ To(t, i) = b
    BY <2>1 DEF Out, To
  <2> QED BY <2>2 DEF a, b
<1> QED BY <1>2, <1>4, EndIs DEF Out, To

LEMMA PieceShape ==
    ASSUME NEW t \in Texts, NEW i \in 1..Len(t)
    PROVE  Piece(t, i) \in Pieces
<1>1. CASE MatchesAt(t, i) = {}
  <2>1. t[i] \in Letters
    BY ElementOfSeq DEF Texts
  <2>2. <<t[i]>> \in Texts
    BY <2>1 DEF Texts
  <2> QED BY <1>1, <2>2 DEF Piece, Pieces
<1>2. CASE MatchesAt(t, i) # {}
  <2>1. Longest(MatchesAt(t, i)) \in Surrogates
    BY <1>2, EndIs DEF MatchesAt
  <2> QED BY <1>2, <2>1 DEF Piece, Pieces
<1> QED BY <1>1, <1>2

\* The last piece ends with the text.
LEMMA ReadShape ==
    ASSUME NEW t \in Texts
    PROVE  \A i \in 1..(Len(t) + 1) :
               /\ Out(t, i) \in Seq(Pieces)
               /\ \A e \in To(t, i) : e \in i..Len(t)
               /\ i <= Len(t) => Len(t) \in To(t, i)
<1> DEFINE N == Len(t) + 1
           T == {i \in 1..N : /\ Out(t, i) \in Seq(Pieces)
                              /\ \A e \in To(t, i) : e \in i..Len(t)
                              /\ i <= Len(t) => Len(t) \in To(t, i)}
<1>0. Len(t) \in Nat /\ N \in Nat
  BY DEF Texts
<1>1. ASSUME NEW i \in 1..N, \A j \in (i + 1)..N : j \in T PROVE i \in T
  <2>1. CASE i = Len(t) + 1
    <3>1. Out(t, i) = <<>> /\ To(t, i) = {}
      BY <2>1, Reads
    <3>2. Out(t, i) \in Seq(Pieces)
      BY <3>1, EmptySeq
    <3>3. ~(i <= Len(t))
      BY <1>0, <2>1
    <3> QED BY <3>1, <3>2, <3>3
  <2>2. CASE i # Len(t) + 1
    <3>1. i \in 1..Len(t)
      BY <1>0, <2>2
    <3> DEFINE e == EndOf(t, i)
    <3>2. /\ Out(t, i) = <<Piece(t, i)>> \o Out(t, e + 1)
          /\ To(t, i) = {e} \cup To(t, e + 1) /\ e \in i..Len(t)
      BY <3>1, Reads
    <3> HIDE DEF e
    <3>3. e + 1 \in (i + 1)..N
      BY <1>0, <3>1, <3>2
    <3>4. e + 1 \in T
      BY <1>1, <3>3
    <3>5. Out(t, i) \in Seq(Pieces)
      <4>1. <<Piece(t, i)>> \in Seq(Pieces) /\ Out(t, e + 1) \in Seq(Pieces)
        BY <3>1, <3>4, PieceShape
      <4> HIDE DEF T, N
      <4> QED BY <3>2, <4>1, ConcatProperties
    <3>6. \A f \in To(t, i) : f \in i..Len(t)
      BY <1>0, <3>1, <3>2, <3>4
    <3>7. Len(t) \in To(t, i)
      <4>1. CASE e = Len(t)
        BY <3>2, <4>1
      <4>2. CASE e # Len(t)
        <5>1. e + 1 <= Len(t)
          BY <1>0, <3>1, <3>2, <4>2
        <5> QED BY <3>2, <3>4, <5>1
      <4> QED BY <4>1, <4>2
    <3> QED BY <3>5, <3>6, <3>7
  <2> QED BY <2>1, <2>2
<1>2. \A i \in 1..N : i \in T
  <2> HIDE DEF T
  <2> QED BY <1>0, <1>1, Downward
<1> QED BY <1>2

\* What follows a place where reading stops is read from there on.
LEMMA ReadsOn ==
    ASSUME NEW t \in Texts, NEW p \in 1..Len(t)
    PROVE  \A i \in 1..(Len(t) + 1) : p \in To(t, i) => To(t, p + 1) \subseteq To(t, i)
<1> DEFINE N == Len(t) + 1
           T == {i \in 1..N : p \in To(t, i) => To(t, p + 1) \subseteq To(t, i)}
<1>0. Len(t) \in Nat /\ N \in Nat
  BY DEF Texts
<1>1. ASSUME NEW i \in 1..N, \A j \in (i + 1)..N : j \in T PROVE i \in T
  <2>1. CASE i = Len(t) + 1
    BY <2>1, Reads
  <2>2. CASE i # Len(t) + 1
    <3>1. i \in 1..Len(t)
      BY <1>0, <2>2
    <3> DEFINE e == EndOf(t, i)
    <3>2. To(t, i) = {e} \cup To(t, e + 1) /\ e \in i..Len(t)
      BY <3>1, Reads
    <3> HIDE DEF e
    <3>3. e + 1 \in (i + 1)..N
      BY <1>0, <3>1, <3>2
    <3>4. e + 1 \in T
      BY <1>1, <3>3
    <3> QED BY <3>2, <3>4
  <2> QED BY <2>1, <2>2
<1>2. \A i \in 1..N : i \in T
  <2> HIDE DEF T
  <2> QED BY <1>0, <1>1, Downward
<1> QED BY <1>2

\* The letters of a text put behind another.
LEMMA Joined ==
    ASSUME NEW a \in Texts, NEW b \in Texts
    PROVE  /\ a \o b \in Texts /\ Len(a \o b) = Len(a) + Len(b)
           /\ Len(a) \in Nat /\ Len(b) \in Nat
           /\ \A i \in 1..Len(a) : (a \o b)[i] = a[i]
           /\ \A j \in 1..Len(b) : (a \o b)[Len(a) + j] = b[j]
<1>1. a \in Seq(Letters) /\ b \in Seq(Letters) /\ Len(a) \in Nat /\ Len(b) \in Nat
  BY DEF Texts
<1>2. /\ a \o b \in Seq(Letters) /\ Len(a \o b) = Len(a) + Len(b)
      /\ \A i \in 1..Len(a) + Len(b) :
            (a \o b)[i] = IF i <= Len(a) THEN a[i] ELSE b[i - Len(a)]
  BY <1>1, ConcatProperties
<1> DEFINE c == a \o b
<1> HIDE DEF c
<1>3. \A i \in 1..Len(a) : c[i] = a[i]
  BY <1>1, <1>2 DEF c
<1>4. \A j \in 1..Len(b) : c[Len(a) + j] = b[j]
  <2> SUFFICES ASSUME NEW j \in 1..Len(b) PROVE c[Len(a) + j] = b[j]
    OBVIOUS
  <2>1. Len(a) + j \in 1..Len(a) + Len(b) /\ ~(Len(a) + j <= Len(a))
        /\ (Len(a) + j) - Len(a) = j
    BY <1>1
  <2> QED BY <1>2, <2>1 DEF c
<1> QED BY <1>1, <1>2, <1>3, <1>4 DEF c, Texts

\* A text is read alike behind another one.
LEMMA Shifted ==
    ASSUME NEW a \in Texts, NEW b \in Texts
    PROVE  \A j \in 1..(Len(b) + 1) :
               /\ Out(a \o b, Len(a) + j) = Out(b, j)
               /\ \A e \in Nat : Len(a) + e \in To(a \o b, Len(a) + j) <=> e \in To(b, j)
<1> DEFINE t == a \o b
           A == Len(a)
           N == Len(b) + 1
           T == {j \in 1..N : /\ Out(t, A + j) = Out(b, j)
                              /\ \A e \in Nat : A + e \in To(t, A + j) <=> e \in To(b, j)}
<1>0. /\ A \in Nat /\ Len(b) \in Nat /\ t \in Texts /\ Len(t) = A + Len(b) /\ N \in Nat
      /\ \A j \in 1..Len(b) : t[A + j] = b[j]
  BY Joined
<1> HIDE DEF t, A
<1>1. ASSUME NEW j \in 1..N, \A k \in (j + 1)..N : k \in T PROVE j \in T
  <2>1. CASE j = Len(b) + 1
    <3>1. A + j = Len(t) + 1
      BY <1>0, <2>1
    <3>2. Out(t, A + j) = <<>> /\ To(t, A + j) = {}
      BY <1>0, <3>1, Reads
    <3>3. Out(b, j) = <<>> /\ To(b, j) = {}
      BY <2>1, Reads
    <3> QED BY <3>2, <3>3
  <2>2. CASE j # Len(b) + 1
    <3>1. j \in 1..Len(b) /\ A + j \in 1..Len(t)
      BY <1>0, <2>2
    <3> DEFINE n == Len(b) - j + 1
               e == EndOf(b, j)
    <3>2. Alike(t, A + j, b, j, n) /\ n \in Nat /\ n >= 1
      <4>1. n \in Nat /\ n >= 1 /\ (A + j) + n - 1 <= Len(t) /\ j + n - 1 <= Len(b)
        BY <1>0, <3>1
      <4>2. \A k \in 1..n : t[A + j + k - 1] = b[j + k - 1]
        <5> SUFFICES ASSUME NEW k \in 1..n PROVE t[A + j + k - 1] = b[j + k - 1]
          OBVIOUS
        <5>1. j + k - 1 \in 1..Len(b) /\ A + (j + k - 1) = A + j + k - 1
          BY <1>0, <3>1
        <5> QED BY <1>0, <5>1
      <4> HIDE DEF n
      <4> QED BY <4>1, <4>2 DEF Alike
    <3>3. Within(t, A + j, n) /\ Within(b, j, n)
      <4>1. \A s \in MatchesAt(t, A + j) : Len(s) \in Nat /\ (A + j) + Len(s) - 1 <= Len(t)
        BY SurrogateShape DEF MatchesAt
      <4>2. \A s \in MatchesAt(b, j) : Len(s) \in Nat /\ j + Len(s) - 1 <= Len(b)
        BY SurrogateShape DEF MatchesAt
      <4>3. Within(t, A + j, n)
        BY <1>0, <3>1, <4>1 DEF Within
      <4>4. Within(b, j, n)
        BY <1>0, <3>1, <4>2 DEF Within
      <4> QED BY <4>3, <4>4
    <3> HIDE DEF n
    <3>4. Piece(t, A + j) = Piece(b, j) /\ EndOf(t, A + j) - (A + j) = e - j
      BY <1>0, <3>1, <3>2, <3>3, SamePiece
    <3>5. /\ Out(b, j) = <<Piece(b, j)>> \o Out(b, e + 1)
          /\ To(b, j) = {e} \cup To(b, e + 1) /\ e \in j..Len(b)
      BY <3>1, Reads
    <3>6. /\ Out(t, A + j) = <<Piece(t, A + j)>> \o Out(t, EndOf(t, A + j) + 1)
          /\ To(t, A + j) = {EndOf(t, A + j)} \cup To(t, EndOf(t, A + j) + 1)
          /\ EndOf(t, A + j) \in (A + j)..Len(t)
      BY <1>0, <3>1, Reads
    <3> HIDE DEF e
    <3>7. EndOf(t, A + j) = A + e /\ e + 1 \in (j + 1)..N /\ (A + e) + 1 = A + (e + 1)
      <4>1. j \in Nat /\ e \in Nat /\ e + 1 \in (j + 1)..N
        BY <1>0, <3>1, <3>5
      <4> DEFINE x == EndOf(t, A + j)
      <4>2. x \in Int /\ x - (A + j) = e - j
        BY <1>0, <3>4, <3>6
      <4> HIDE DEF x
      <4>3. x = A + e /\ (A + e) + 1 = A + (e + 1)
        BY <1>0, <4>1, <4>2
      <4> QED BY <4>1, <4>3 DEF x
    <3>8. e + 1 \in T
      BY <1>1, <3>7
    <3>9. Out(t, A + (e + 1)) = Out(b, e + 1)
      BY <3>8
    <3>10. \A f \in Nat : A + f \in To(t, A + (e + 1)) <=> f \in To(b, e + 1)
      BY <3>8
    <3>11. Out(t, A + j) = Out(b, j)
      BY <3>4, <3>5, <3>6, <3>7, <3>9
    <3>12. ASSUME NEW f \in Nat PROVE A + f \in To(t, A + j) <=> f \in To(b, j)
      <4>1. A + f = A + e <=> f = e
        BY <1>0, <3>1, <3>5
      <4> QED BY <3>5, <3>6, <3>7, <3>10, <4>1
    <3> QED BY <3>11, <3>12
  <2> QED BY <2>1, <2>2
<1>2. \A j \in 1..N : j \in T
  <2> HIDE DEF T
  <2> QED BY <1>0, <1>1, Downward
<1> QED BY <1>2 DEF t, A

\* A text that is cut where reading stops is read alike up to there.
LEMMA Shortened ==
    ASSUME NEW a \in Texts, NEW b \in Texts
    PROVE  \A i \in 1..(Len(a) + 1) :
               i = Len(a) + 1 \/ Len(a) \in To(a \o b, i) =>
                   /\ Out(a \o b, i) = Out(a, i) \o Out(a \o b, Len(a) + 1)
                   /\ \A e \in To(a \o b, i) : e <= Len(a) => e \in To(a, i)
<1> DEFINE t == a \o b
           A == Len(a)
           N == A + 1
           Stops(i) == i = N \/ A \in To(t, i)
           T == {i \in 1..N : Stops(i) => /\ Out(t, i) = Out(a, i) \o Out(t, A + 1)
                                          /\ \A e \in To(t, i) : e <= A => e \in To(a, i)}
<1>0. /\ A \in Nat /\ Len(b) \in Nat /\ t \in Texts /\ Len(t) = A + Len(b) /\ N \in Nat
      /\ A = Len(a) /\ \A i \in 1..A : t[i] = a[i]
  BY Joined
<1> HIDE DEF t, A
<1>1. ASSUME NEW i \in 1..N, \A k \in (i + 1)..N : k \in T PROVE i \in T
  <2> SUFFICES ASSUME Stops(i)
               PROVE  /\ Out(t, i) = Out(a, i) \o Out(t, A + 1)
                      /\ \A e \in To(t, i) : e <= A => e \in To(a, i)
    OBVIOUS
  <2>0. i \in Nat /\ i \in 1..(Len(t) + 1)
    BY <1>0
  <2>1. CASE i = N
    <3>1. Out(a, i) = <<>>
      BY <1>0, <2>1, Reads
    <3>2. Out(t, A + 1) \in Seq(Pieces) /\ \A e \in To(t, i) : e \in i..Len(t)
      BY <1>0, <2>0, <2>1, ReadShape
    <3>3. Out(t, i) = Out(a, i) \o Out(t, A + 1)
      BY <2>1, <3>1, <3>2, ConcatEmptySeq
    <3>4. \A e \in To(t, i) : ~(e <= A)
      BY <1>0, <2>0, <2>1, <3>2
    <3> QED BY <3>3, <3>4
  <2>2. CASE i # N
    <3>1. i \in 1..Len(t) /\ i \in 1..A /\ i \in 1..Len(a)
      BY <1>0, <2>2
    <3> DEFINE e == EndOf(t, i)
               n == A - i + 1
    <3>2. /\ Out(t, i) = <<Piece(t, i)>> \o Out(t, e + 1)
          /\ To(t, i) = {e} \cup To(t, e + 1) /\ e \in i..Len(t)
      BY <1>0, <3>1, Reads
    <3>3. A = e \/ A \in To(t, e + 1)
      BY <2>2, <3>2
    <3>4. e <= A /\ (e = A \/ e < A)
      <4>0. e \in Nat
        BY <2>0, <3>2
      <4>1. CASE A \in To(t, e + 1)
        <5>1. e + 1 \in 1..(Len(t) + 1)
          BY <1>0, <3>1, <3>2
        <5>2. A \in (e + 1)..Len(t)
          BY <1>0, <4>1, <5>1, ReadShape
        <5> QED BY <1>0, <4>0, <5>2
      <4> QED BY <1>0, <3>3, <4>0, <4>1
    <3>5. Alike(t, i, a, i, n) /\ n \in Nat /\ n >= 1
      <4>1. n \in Nat /\ n >= 1 /\ i + n - 1 <= Len(t) /\ i + n - 1 <= Len(a)
        BY <1>0, <3>1
      <4>2. \A k \in 1..n : t[i + k - 1] = a[i + k - 1]
        BY <1>0, <3>1
      <4> HIDE DEF n
      <4> QED BY <4>1, <4>2 DEF Alike
    <3>6. Within(t, i, n) /\ Within(a, i, n)
      <4>1. \A s \in MatchesAt(t, i) : Len(s) \in Nat /\ i + Len(s) - 1 <= e
        BY <1>0, <3>1, EndIs, SurrogateShape DEF MatchesAt
      <4>2. \A s \in MatchesAt(a, i) : Len(s) \in Nat /\ i + Len(s) - 1 <= Len(a)
        BY SurrogateShape DEF MatchesAt
      <4> HIDE DEF e
      <4>3. e \in Nat
        BY <1>0, <3>1, <3>2
      <4>4. Within(t, i, n)
        BY <1>0, <2>0, <3>4, <4>1, <4>3 DEF Within
      <4>5. Within(a, i, n)
        BY <1>0, <2>0, <4>2 DEF Within
      <4> QED BY <4>4, <4>5
    <3>7. Piece(t, i) = Piece(a, i) /\ e - i = EndOf(a, i) - i
      <4> HIDE DEF n
      <4> QED BY <1>0, <3>1, <3>5, <3>6, SamePiece
    <3>8. /\ Out(a, i) = <<Piece(a, i)>> \o Out(a, EndOf(a, i) + 1)
          /\ To(a, i) = {EndOf(a, i)} \cup To(a, EndOf(a, i) + 1)
          /\ EndOf(a, i) \in i..Len(a)
      BY <3>1, Reads
    <3> HIDE DEF e, n
    <3>9. EndOf(a, i) = e /\ e \in Nat /\ e + 1 \in (i + 1)..N
      BY <1>0, <2>0, <3>1, <3>2, <3>4, <3>7, <3>8
    <3>10. e + 1 \in T
      BY <1>1, <3>9
    <3>11. Stops(e + 1)
      BY <1>0, <3>3, <3>4
    <3>12. /\ Out(t, e + 1) = Out(a, e + 1) \o Out(t, A + 1)
           /\ \A f \in To(t, e + 1) : f <= A => f \in To(a, e + 1)
      BY <3>10, <3>11
    <3>13. Out(t, i) = Out(a, i) \o Out(t, A + 1)
      <4>1. /\ <<Piece(t, i)>> \in Seq(Pieces) /\ Out(a, e + 1) \in Seq(Pieces)
            /\ Out(t, A + 1) \in Seq(Pieces)
        <5>1. e + 1 \in 1..(Len(a) + 1) /\ A + 1 \in 1..(Len(t) + 1)
          BY <1>0, <3>9
        <5> QED BY <1>0, <3>1, <5>1, PieceShape, ReadShape
      <4>2. Out(t, i) = <<Piece(t, i)>> \o (Out(a, e + 1) \o Out(t, A + 1))
        BY <3>2, <3>12
      <4>3. Out(t, i) = (<<Piece(t, i)>> \o Out(a, e + 1)) \o Out(t, A + 1)
        BY <4>1, <4>2, ConcatAssociative
      <4> QED BY <3>7, <3>8, <3>9, <4>3
    <3>14. \A f \in To(t, i) : f <= A => f \in To(a, i)
      BY <3>2, <3>8, <3>9, <3>12
    <3> QED BY <3>13, <3>14
  <2> QED BY <2>1, <2>2
<1>2. \A i \in 1..N : i \in T
  <2> HIDE DEF T
  <2> QED BY <1>0, <1>1, Downward
<1> QED BY <1>2 DEF t, A

----------------------------------------------------------------------------
(* Cutting a text. *)

\* Reading stops after p letters.
Stops(p, t) == p = 0 \/ p \in Ends(t)

\* Reading a text is reading what precedes a stop, and what follows it.
LEMMA Splits ==
    ASSUME NEW a \in Texts, NEW b \in Texts, Stops(Len(a), a \o b)
    PROVE  Resolve(a \o b) = Resolve(a) \o Resolve(b)
<1>1. Len(a) \in Nat /\ Len(b) \in Nat
  BY Joined
<1>2. Out(a \o b, Len(a) + 1) = Out(b, 1)
  <2>1. 1 \in 1..(Len(b) + 1)
    BY <1>1
  <2> QED BY <2>1, Shifted
<1>3. Out(a \o b, 1) = Out(a, 1) \o Out(a \o b, Len(a) + 1)
  <2>1. 1 \in 1..(Len(a) + 1)
    BY <1>1
  <2>2. 1 = Len(a) + 1 \/ Len(a) \in To(a \o b, 1)
    BY <1>1 DEF Stops, Ends, To
  <2> QED BY <2>1, <2>2, Shortened
<1> QED BY <1>2, <1>3 DEF Resolve, Out

\* What stops reading within a text that is itself read whole stops it there too.
LEMMA StopsWithin ==
    ASSUME NEW a \in Texts, NEW b \in Texts, NEW p \in 0..Len(a),
           Stops(p, a \o b), Stops(Len(a), a \o b)
    PROVE  Stops(p, a)
<1>1. Len(a) \in Nat /\ Len(b) \in Nat
  BY Joined
<1>2. CASE p # 0
  <2>1. p \in To(a \o b, 1) /\ Len(a) \in To(a \o b, 1) /\ 1 \in 1..(Len(a) + 1)
    BY <1>1, <1>2 DEF Stops, Ends, To
  <2>2. p \in To(a, 1)
    BY <1>1, <2>1, Shortened
  <2> QED BY <2>2 DEF Stops, Ends, To
<1> QED BY <1>2 DEF Stops

\* Reading goes on from a stop.
LEMMA StopsBeyond ==
    ASSUME NEW a \in Texts, NEW b \in Texts, NEW q \in Nat,
           Stops(Len(a), a \o b), Stops(q, b)
    PROVE  Stops(Len(a) + q, a \o b)
<1>0. /\ Len(a) \in Nat /\ Len(b) \in Nat /\ a \o b \in Texts
      /\ Len(a \o b) = Len(a) + Len(b)
  BY Joined
<1>1. CASE q = 0
  <2>1. Len(a) + q = Len(a)
    BY <1>0, <1>1
  <2> QED BY <2>1
<1>2. CASE q # 0
  <2>1. 1 \in 1..(Len(b) + 1) /\ q \in To(b, 1)
    BY <1>0, <1>2 DEF Stops, Ends, To
  <2>2. Len(a) + q \in To(a \o b, Len(a) + 1)
    BY <2>1, Shifted
  <2>3. CASE Len(a) = 0
    BY <2>2, <2>3 DEF Stops, Ends, To
  <2>4. CASE Len(a) # 0
    <3>1. Len(a) \in To(a \o b, 1)
      BY <2>4 DEF Stops, Ends, To
    <3>2. Len(a) \in 1..Len(a \o b) /\ 1 \in 1..(Len(a \o b) + 1)
      BY <1>0, <2>4
    <3>3. To(a \o b, Len(a) + 1) \subseteq To(a \o b, 1)
      BY <1>0, <3>1, <3>2, ReadsOn
    <3> QED BY <2>2, <3>3 DEF Stops, Ends, To
  <2> QED BY <2>3, <2>4
<1> QED BY <1>1, <1>2

\* The least of the ends that are Keep letters or less from the end of b, from i on.
LEMMA LimitReached ==
    ASSUME NEW b \in Texts, NEW x \in Texts, NEW L \in Nat, L >= 1, L + Keep = Len(b)
    PROVE  \A i \in 1..L : \A q \in To(b, i) :
               q >= L /\ (\A e \in To(b, i) : e >= L => q <= e) => q \in To(b \o x, i)
<1> DEFINE t == b \o x
           Least_(q, i) == q >= L /\ \A e \in To(b, i) : e >= L => q <= e
           T == {i \in 1..L : \A q \in To(b, i) : Least_(q, i) => q \in To(t, i)}
<1>0. /\ Len(b) \in Nat /\ Len(x) \in Nat /\ t \in Texts /\ Len(t) = Len(b) + Len(x)
      /\ \A i \in 1..Len(b) : t[i] = b[i]
  BY Joined
<1>1. Keep \in Nat
  BY KeepIs
<1> HIDE DEF t
<1>2. ASSUME NEW i \in 1..L, \A j \in (i + 1)..L : j \in T PROVE i \in T
  <2> SUFFICES ASSUME NEW q \in To(b, i), Least_(q, i) PROVE q \in To(t, i)
    OBVIOUS
  <2>1. i \in Nat /\ i \in 1..Len(b) /\ i \in 1..Len(t) /\ i \in 1..(Len(b) + 1)
    BY <1>0, <1>1
  <2> DEFINE e == EndOf(b, i)
  <2>2. To(b, i) = {e} \cup To(b, e + 1) /\ e \in i..Len(b)
    BY <2>1, Reads
  <2>3. To(t, i) = {EndOf(t, i)} \cup To(t, EndOf(t, i) + 1) /\ EndOf(t, i) \in i..Len(t)
    BY <1>0, <2>1, Reads
  <2>4. EndOf(t, i) = e
    <3>1. CASE Keep = 0
      <4>1. \A s \in Surrogates : FALSE
        BY <3>1, KeepIs, SurrogateShape
      <4>2. MatchesAt(b, i) = {} /\ MatchesAt(t, i) = {}
        BY <4>1 DEF MatchesAt
      <4> QED BY <4>2 DEF EndOf
    <3>2. CASE Keep # 0
      <4>1. Alike(b, i, t, i, Keep)
        <5>1. i + Keep - 1 <= Len(b) /\ i + Keep - 1 <= Len(t)
          BY <1>0, <1>1, <2>1
        <5>2. \A k \in 1..Keep : b[i + k - 1] = t[i + k - 1]
          BY <1>0, <1>1, <2>1
        <5> QED BY <5>1, <5>2 DEF Alike
      <4>2. Within(b, i, Keep) /\ Within(t, i, Keep) /\ Keep >= 1
        BY <1>1, <3>2, KeepIs DEF Within, MatchesAt
      <4>3. e - i = EndOf(t, i) - i
        BY <1>0, <1>1, <2>1, <4>1, <4>2, SamePiece
      <4> DEFINE x1 == EndOf(t, i)
      <4>4. x1 \in Int /\ e \in Int /\ e - i = x1 - i
        BY <1>0, <2>1, <2>2, <2>3, <4>3
      <4> HIDE DEF x1, e
      <4>5. x1 = e
        BY <2>1, <4>4
      <4> QED BY <4>5 DEF x1
    <3> QED BY <3>1, <3>2
  <2> HIDE DEF e
  <2>5. q \in Nat /\ e \in Nat
    BY <1>0, <2>1, <2>2, ReadShape
  <2>6. CASE e >= L
    <3>1. q <= e
      BY <2>2, <2>6
    <3>2. q = e \/ q \in To(b, e + 1)
      BY <2>2
    <3>3. q \in To(b, e + 1) => q > e
      <4>1. e + 1 \in 1..(Len(b) + 1)
        BY <1>0, <2>1, <2>2
      <4>2. q \in To(b, e + 1) => q \in (e + 1)..Len(b)
        BY <4>1, ReadShape
      <4> QED BY <2>5, <4>2
    <3>4. q = e
      BY <2>5, <3>1, <3>2, <3>3
    <3> QED BY <2>3, <2>4, <3>4
  <2>7. CASE ~(e >= L)
    <3>1. e + 1 \in (i + 1)..L
      BY <2>1, <2>2, <2>5, <2>7
    <3>2. q \in To(b, e + 1)
      BY <2>2, <2>7
    <3>3. Least_(q, e + 1)
      BY <2>2
    <3>4. q \in To(t, e + 1)
      BY <1>2, <3>1, <3>2, <3>3
    <3> QED BY <2>3, <2>4, <3>4
  <2> QED BY <2>6, <2>7
<1>3. \A i \in 1..L : i \in T
  <2> HIDE DEF T
  <2> QED BY <1>2, Downward
<1> QED BY <1>3 DEF t

\* The cut is in the text, leaves Keep letters or less, and stops reading whatever follows.
LEMMA CutIs ==
    ASSUME NEW b \in Texts, NEW x \in Texts
    PROVE  /\ Cut(b) \in 0..Len(b) /\ Len(b) - Cut(b) <= Keep
           /\ Stops(Cut(b), b \o x)
<1>0. Len(b) \in Nat /\ Keep \in Nat
  BY KeepIs, Joined
<1>1. CASE Len(b) <= Keep
  BY <1>0, <1>1 DEF Cut, Stops
<1>2. CASE ~(Len(b) <= Keep)
  <2> DEFINE L == Len(b) - Keep
             past == {e \in Ends(b) : e >= L}
             q == Cut(b)
  <2>1. L \in Nat /\ L >= 1 /\ L + Keep = Len(b) /\ 1 \in 1..L /\ 1 \in 1..(Len(b) + 1)
    BY <1>0, <1>2
  <2>2. Ends(b) = To(b, 1) /\ \A e \in Ends(b) : e \in 1..Len(b)
    <3>1. Ends(b) = To(b, 1)
      BY DEF Ends, To
    <3> QED BY <2>1, <3>1, ReadShape
  <2>3. Len(b) \in past
    <3>1. 1 <= Len(b)
      BY <1>0, <1>2
    <3>2. Len(b) \in To(b, 1)
      BY <2>1, <3>1, ReadShape
    <3> QED BY <1>0, <2>2, <3>2
  <2>4. \E e \in past : \A f \in past : e <= f
    <3>1. past \in SUBSET Nat /\ past # {}
      BY <1>0, <2>2, <2>3
    <3> HIDE DEF past
    <3> QED BY <3>1, Least
  <2>5. q = CHOOSE e \in past : \A f \in past : e <= f
    BY <1>2 DEF Cut
  <2>6. q \in past /\ \A f \in past : q <= f
    <3> HIDE DEF q, past
    <3> QED BY <2>4, <2>5
  <2>7. q \in Ends(b) /\ q >= L /\ q \in 1..Len(b)
    BY <2>2, <2>6
  <2>8. q \in To(b \o x, 1)
    <3>1. q \in To(b, 1) /\ \A e \in To(b, 1) : e >= L => q <= e
      BY <2>2, <2>6
    <3> HIDE DEF q, past, L
    <3> QED BY <2>1, <2>7, <3>1, LimitReached
  <2>9. Stops(q, b \o x)
    BY <2>8 DEF Stops, Ends, To
  <2>10. Len(b) - q <= Keep
    <3> HIDE DEF q, past
    <3> QED BY <1>0, <2>7
  <2> QED BY <1>0, <2>7, <2>9, <2>10
<1> QED BY <1>1, <1>2

\* A text cut in two.
LEMMA Halves ==
    ASSUME NEW b \in Texts, NEW q \in 0..Len(b)
    PROVE  /\ SubSeq(b, 1, q) \in Texts /\ Len(SubSeq(b, 1, q)) = q
           /\ SubSeq(b, q + 1, Len(b)) \in Texts
           /\ Len(SubSeq(b, q + 1, Len(b))) = Len(b) - q
           /\ b = SubSeq(b, 1, q) \o SubSeq(b, q + 1, Len(b))
<1>0. Len(b) \in Nat /\ q \in Nat /\ q <= Len(b) /\ b \in Seq(Letters)
  BY DEF Texts
<1> DEFINE h == SubSeq(b, 1, q)
           r == SubSeq(b, q + 1, Len(b))
<1>1. /\ h \in Seq(Letters) /\ Len(h) = q /\ \A i \in 1..q : h[i] = b[i]
  <2>1. \A i \in 1..q : b[i] \in Letters
    BY <1>0
  <2> QED BY <1>0, <2>1, SubSeqProperties
<1>2. /\ r \in Seq(Letters) /\ Len(r) = Len(b) - q
      /\ \A i \in 1..(Len(b) - q) : r[i] = b[q + i]
  <2>1. \A i \in (q + 1)..Len(b) : b[i] \in Letters
    BY <1>0
  <2>2. /\ r \in Seq(Letters)
        /\ Len(r) = IF q + 1 <= Len(b) THEN Len(b) - (q + 1) + 1 ELSE 0
        /\ \A i \in 1..(Len(b) - (q + 1) + 1) : r[i] = b[(q + 1) + i - 1]
    BY <1>0, <2>1, SubSeqProperties
  <2> HIDE DEF r
  <2>3. Len(r) = Len(b) - q
    BY <1>0, <2>2
  <2>4. \A i \in 1..(Len(b) - q) : r[i] = b[q + i]
    BY <1>0, <2>2
  <2> QED BY <2>2, <2>3, <2>4
<1> HIDE DEF h, r
<1>3. /\ h \o r \in Seq(Letters) /\ Len(h \o r) = Len(b)
      /\ \A i \in 1..Len(b) : (h \o r)[i] = IF i <= q THEN h[i] ELSE r[i - q]
  BY <1>0, <1>1, <1>2, ConcatProperties
<1>4. \A i \in 1..Len(b) : b[i] = (h \o r)[i]
  <2> SUFFICES ASSUME NEW i \in 1..Len(b) PROVE b[i] = (h \o r)[i]
    OBVIOUS
  <2>1. CASE i <= q
    BY <1>0, <1>1, <1>3, <2>1
  <2>2. CASE ~(i <= q)
    <3>1. i - q \in 1..(Len(b) - q) /\ q + (i - q) = i
      BY <1>0, <2>2
    <3> QED BY <1>2, <1>3, <2>2, <3>1
  <2> QED BY <2>1, <2>2
<1>5. b = h \o r
  BY <1>0, <1>3, <1>4, SeqEqual
<1> QED BY <1>1, <1>2, <1>5 DEF h, r, Texts

----------------------------------------------------------------------------
(* The rewriter. *)

\* The letters read of a text so far, of all that was given, stop reading whatever follows.
ReadOff(pre, h, g) ==
    pre \in Texts /\ g = pre \o h /\ \A x \in Texts : Stops(Len(pre), g \o x)

LEMMA Regrouped == \A a, b, c \in Texts : (a \o b) \o c = a \o (b \o c)
<1> SUFFICES ASSUME NEW a \in Texts, NEW b \in Texts, NEW c \in Texts
             PROVE  (a \o b) \o c = a \o (b \o c)
  OBVIOUS
<1>1. a \in Seq(Letters) /\ b \in Seq(Letters) /\ c \in Seq(Letters)
  BY DEF Texts
<1> QED BY <1>1, ConcatAssociative

\* What a delta sends of the buffer, and what it keeps.
Sent(b) == SubSeq(b, 1, Cut(b))
Rest(b) == SubSeq(b, Cut(b) + 1, Len(b))

\* One more delta is read off up to its cut.
LEMMA ReadMore ==
    ASSUME NEW pre, NEW h \in Texts, NEW g \in Texts, ReadOff(pre, h, g), NEW c \in Texts
    PROVE  /\ h \o c \in Texts /\ Sent(h \o c) \in Texts /\ Rest(h \o c) \in Texts
           /\ Len(Rest(h \o c)) <= Keep
           /\ ReadOff(pre \o Sent(h \o c), Rest(h \o c), g \o c)
           /\ Resolve(pre \o Sent(h \o c)) = Resolve(pre) \o Resolve(Sent(h \o c))
<1> DEFINE b == h \o c
           q == Cut(b)
           a == Sent(b)
           r == Rest(b)
<1>1. pre \in Texts /\ g = pre \o h /\ \A x \in Texts : Stops(Len(pre), g \o x)
  BY DEF ReadOff
<1>2. b \in Texts
  BY Joined
<1> HIDE DEF b
<1>3. /\ q \in 0..Len(b) /\ Len(b) - q <= Keep /\ \A x \in Texts : Stops(q, b \o x)
  BY <1>2, CutIs, EmptySeq DEF Texts
<1> HIDE DEF q
<1>4. a \in Texts /\ Len(a) = q /\ r \in Texts /\ Len(r) = Len(b) - q /\ b = a \o r
  BY <1>2, <1>3, Halves DEF Sent, Rest, q
<1> HIDE DEF a, r
<1>5. g \o c = pre \o b /\ pre \o b = (pre \o a) \o r /\ pre \o a \in Texts
  <2>1. pre \in Texts /\ a \in Texts /\ r \in Texts
    BY <1>1, <1>4
  <2>2. (pre \o h) \o c = pre \o (h \o c)
    BY <2>1, Regrouped, SMTT(30)
  <2>3. (pre \o a) \o r = pre \o (a \o r)
    BY <2>1, Regrouped, SMTT(30)
  <2>4. pre \o a \in Texts
    BY <1>1, <1>4, Joined
  <2> QED BY <1>1, <1>4, <2>2, <2>3, <2>4 DEF b
<1>6. Len(pre) \in Nat /\ Len(pre \o a) = Len(pre) + q /\ q \in Nat
  BY <1>1, <1>3, <1>4, Joined
<1>7. ASSUME NEW x \in Texts
      PROVE  /\ Stops(Len(pre), pre \o (b \o x)) /\ Stops(q, b \o x)
             /\ (g \o c) \o x = pre \o (b \o x) /\ b \o x \in Texts
  <2>1. c \o x \in Texts /\ b \o x \in Texts
    BY <1>2, Joined
  <2>2. g \in Texts
    BY <1>1, Joined
  <2>3. (g \o c) \o x = g \o (c \o x)
    BY <2>2, Regrouped, SMTT(30)
  <2>4. (pre \o b) \o x = pre \o (b \o x)
    BY <1>1, <1>2, Regrouped, SMTT(30)
  <2>5. Stops(Len(pre), g \o (c \o x))
    BY <1>1, <2>1
  <2> QED BY <1>3, <1>5, <2>1, <2>3, <2>4, <2>5
<1>8. ASSUME NEW x \in Texts PROVE Stops(Len(pre \o a), (g \o c) \o x)
  <2>1. Stops(Len(pre) + q, pre \o (b \o x))
    BY <1>1, <1>6, <1>7, StopsBeyond
  <2>2. (g \o c) \o x = pre \o (b \o x)
    BY <1>7
  <2> QED BY <1>6, <2>1, <2>2
<1>9. ReadOff(pre \o a, r, g \o c)
  BY <1>5, <1>8 DEF ReadOff
<1>10. Resolve(pre \o a) = Resolve(pre) \o Resolve(a)
  <2>1. <<>> \in Texts
    BY EmptySeq DEF Texts
  <2>2. Stops(Len(pre), (pre \o a) \o r) /\ Stops(Len(pre \o a), (pre \o a) \o r)
    <3>1. (g \o c) \o <<>> = (pre \o a) \o r /\ b \o <<>> = b
      <4>1. g \o c \in Seq(Letters) /\ b \in Seq(Letters)
        BY <1>2, Joined DEF Texts
      <4>2. (g \o c) \o <<>> = g \o c /\ b \o <<>> = b
        BY <4>1, ConcatEmptySeq
      <4> QED BY <1>5, <4>2
    <3> QED BY <1>5, <1>7, <1>8, <2>1, <3>1
  <2>3. Len(pre) \in 0..Len(pre \o a)
    BY <1>6
  <2>4. Stops(Len(pre), pre \o a)
    BY <1>4, <1>5, <2>2, <2>3, StopsWithin
  <2> QED BY <1>1, <1>4, <2>4, Splits
<1>11. Len(r) <= Keep
  BY <1>3, <1>4
<1> QED BY <1>2, <1>4, <1>9, <1>10, <1>11 DEF b, a, r

\* What is left is read when nothing follows.
LEMMA ReadLast ==
    ASSUME NEW pre, NEW h \in Texts, NEW g \in Texts, ReadOff(pre, h, g)
    PROVE  Resolve(g) = Resolve(pre) \o Resolve(h)
<1>1. <<>> \in Texts
  BY EmptySeq DEF Texts
<1>2. g \o <<>> = g
  <2>1. g \in Seq(Letters)
    BY DEF Texts
  <2> QED BY <2>1, ConcatEmptySeq
<1>3. pre \in Texts /\ g = pre \o h /\ Stops(Len(pre), pre \o h)
  BY <1>1, <1>2 DEF ReadOff
<1> QED BY <1>3, Splits

\* What has been shown of a text: its beginning, read off.
TextAs(t, g, s, d) ==
    /\ t \in Texts \cup {NONE} /\ Len(Held(t)) <= Keep
    /\ g \in Texts /\ s \in Seq(Pieces) /\ d \in Seq(Pieces)
    /\ \E pre : ReadOff(pre, Held(t), g) /\ s = d \o Resolve(pre)

\* Of arguments, nothing.
JsonAs(j, g, s, d) ==
    /\ j \in Texts \cup {NONE} /\ g \in Texts /\ s \in Seq(Pieces)
    /\ Held(j) = g /\ s = d

\* The inductive invariant.
StreamInv ==
    /\ text \in [Indices -> Texts \cup {NONE}] /\ json \in [Indices -> Texts \cup {NONE}]
    /\ shown \in [Indices -> [Kinds -> Seq(Pieces)]]
    /\ due \in [Indices -> [Kinds -> Seq(Pieces)]]
    /\ given \in [Indices -> [Kinds -> Texts]]
    /\ phase \in {"open", "ended", "closed", "broken"} /\ left \in 0..MaxLetters
    /\ \A i \in Indices :
          /\ TextAs(text[i], given[i]["text"], shown[i]["text"], due[i]["text"])
          /\ JsonAs(json[i], given[i]["json"], shown[i]["json"], due[i]["json"])

\* An empty buffer, held or not.
LEMMA HeldIs ==
    /\ \A t \in Texts \cup {NONE} : Held(t) \in Texts
    /\ \A t \in Texts : Held(t) = t
    /\ Held(NONE) = <<>> /\ Held(<<>>) = <<>> /\ <<>> \in Texts /\ Len(<<>>) = 0
<1>1. <<>> \in Texts /\ NONE \notin Texts
  BY EmptySeq, StreamAssumption DEF Texts
<1> QED BY <1>1, EmptySeq DEF Held

LEMMA ResolveShape ==
    /\ \A t \in Texts : Resolve(t) \in Seq(Pieces)
    /\ Resolve(<<>>) = <<>>
<1>1. ASSUME NEW t \in Texts PROVE Resolve(t) \in Seq(Pieces)
  <2>1. 1 \in 1..(Len(t) + 1)
    BY DEF Texts
  <2> QED BY <2>1, ReadShape DEF Resolve, Out
<1>2. Resolve(<<>>) = <<>>
  BY HeldIs, Reads DEF Resolve, Out
<1> QED BY <1>1, <1>2

LEMMA ShowsShape ==
    ASSUME NEW t \in Texts, NEW kind \in Kinds
    PROVE  Shows(kind, t) \in Seq(Pieces)
<1>1. Resolve(t) \in Seq(Pieces)
  BY ResolveShape
<1>2. ToolArgs(t) \in Seq(Pieces)
  <2>1. ASSUME NEW k \in 1..Len(t) PROVE [letter |-> <<t[k]>>] \in Pieces
    <3>1. t[k] \in Letters
      BY ElementOfSeq DEF Texts
    <3>2. <<t[k]>> \in Texts
      BY <3>1 DEF Texts
    <3> QED BY <3>2 DEF Pieces
  <2>2. Len(t) \in Nat
    BY DEF Texts
  <2>3. [k \in 1..Len(t) |-> [letter |-> <<t[k]>>]] \in Seq(Pieces)
    BY <2>1, <2>2, IsASeq
  <2> QED BY <1>1, <2>3 DEF ToolArgs
<1> QED BY <1>1, <1>2 DEF Shows, Kinds

\* A buffer that begins, whatever was shown before.
LEMMA TextBegins ==
    ASSUME NEW d \in Seq(Pieces), NEW t \in {NONE, <<>>}
    PROVE  TextAs(t, <<>>, d, d)
<1>1. t \in Texts \cup {NONE} /\ Held(t) = <<>> /\ <<>> \in Texts /\ Len(Held(t)) <= Keep
  BY HeldIs, KeepIs
<1>2. ReadOff(<<>>, Held(t), <<>>)
  <2>1. <<>> \o <<>> = <<>>
    BY HeldIs, ConcatEmptySeq DEF Texts
  <2>2. \A x : Stops(Len(<<>>), x)
    BY HeldIs DEF Stops
  <2> QED BY <1>1, <2>1, <2>2 DEF ReadOff
<1>3. d = d \o Resolve(<<>>)
  BY ResolveShape, ConcatEmptySeq
<1> QED BY <1>1, <1>2, <1>3 DEF TextAs

LEMMA TextGoesOn ==
    ASSUME NEW t, NEW g, NEW s, NEW d, TextAs(t, g, s, d), NEW c \in Texts
    PROVE  /\ Held(t) \o c \in Texts
           /\ TextAs(Rest(Held(t) \o c), g \o c, s \o Resolve(Sent(Held(t) \o c)), d)
<1> DEFINE b == Held(t) \o c
           a == Sent(b)
           r == Rest(b)
<1>1. /\ Held(t) \in Texts /\ g \in Texts /\ s \in Seq(Pieces) /\ d \in Seq(Pieces)
  BY HeldIs DEF TextAs
<1>2. PICK pre : ReadOff(pre, Held(t), g) /\ s = d \o Resolve(pre)
  BY DEF TextAs
<1>3. /\ b \in Texts /\ a \in Texts /\ r \in Texts /\ Len(r) <= Keep
      /\ ReadOff(pre \o a, r, g \o c) /\ Resolve(pre \o a) = Resolve(pre) \o Resolve(a)
  BY <1>1, <1>2, ReadMore
<1> HIDE DEF a, r
<1>4. Held(r) = r /\ g \o c \in Texts
  BY <1>1, <1>3, HeldIs, Joined
<1>5. s \o Resolve(a) = d \o Resolve(pre \o a) /\ s \o Resolve(a) \in Seq(Pieces)
  <2>1. pre \in Texts
    BY <1>2 DEF ReadOff
  <2>2. Resolve(pre) \in Seq(Pieces) /\ Resolve(a) \in Seq(Pieces)
    BY <1>3, <2>1, ResolveShape
  <2>3. (d \o Resolve(pre)) \o Resolve(a) = d \o (Resolve(pre) \o Resolve(a))
    BY SMTT(30), <1>1, <2>2, ConcatAssociative
  <2>4. s \o Resolve(a) \in Seq(Pieces)
    BY <1>1, <2>2, ConcatProperties
  <2> QED BY <1>2, <1>3, <2>3, <2>4
<1>6. TextAs(r, g \o c, s \o Resolve(a), d)
  BY <1>1, <1>3, <1>4, <1>5 DEF TextAs
<1> QED BY <1>3, <1>6 DEF b, a, r

\* What is shown and what is held make up what was given.
LEMMA TextWhole ==
    ASSUME NEW t, NEW g, NEW s, NEW d, TextAs(t, g, s, d)
    PROVE  s \o Resolve(Held(t)) = d \o Resolve(g)
<1>1. /\ Held(t) \in Texts /\ g \in Texts /\ s \in Seq(Pieces) /\ d \in Seq(Pieces)
  BY HeldIs DEF TextAs
<1>2. PICK pre : ReadOff(pre, Held(t), g) /\ s = d \o Resolve(pre)
  BY DEF TextAs
<1>3. Resolve(g) = Resolve(pre) \o Resolve(Held(t))
  BY <1>1, <1>2, ReadLast
<1>4. Resolve(pre) \in Seq(Pieces) /\ Resolve(Held(t)) \in Seq(Pieces)
  BY <1>1, <1>2, ResolveShape DEF ReadOff
<1>5. (d \o Resolve(pre)) \o Resolve(Held(t)) = d \o (Resolve(pre) \o Resolve(Held(t)))
  BY <1>1, <1>4, ConcatAssociative
<1> QED BY <1>2, <1>3, <1>5

----------------------------------------------------------------------------
(* The steps. *)

LEMMA StreamStarts == Init => StreamInv
<1> SUFFICES ASSUME Init PROVE StreamInv
  OBVIOUS
<1>1. <<>> \in Texts /\ <<>> \in Seq(Pieces)
  BY EmptySeq DEF Texts
<1>2. /\ text \in [Indices -> Texts \cup {NONE}] /\ json \in [Indices -> Texts \cup {NONE}]
      /\ \A i \in Indices : text[i] = NONE /\ json[i] = NONE
  BY DEF Init
<1>3. /\ Nothing \in [Indices -> [Kinds -> Seq(Pieces)]]
      /\ Nothing \in [Indices -> [Kinds -> Texts]]
      /\ \A i \in Indices : Nothing[i]["text"] = <<>> /\ Nothing[i]["json"] = <<>>
  BY <1>1 DEF Nothing, Kinds
<1>4. ASSUME NEW i \in Indices
      PROVE  /\ TextAs(text[i], given[i]["text"], shown[i]["text"], due[i]["text"])
             /\ JsonAs(json[i], given[i]["json"], shown[i]["json"], due[i]["json"])
  <2>1. TextAs(NONE, <<>>, <<>>, <<>>)
    BY <1>1, TextBegins
  <2>2. JsonAs(NONE, <<>>, <<>>, <<>>)
    BY <1>1, HeldIs DEF JsonAs
  <2> QED BY <1>2, <1>3, <2>1, <2>2 DEF Init
<1> QED BY <1>2, <1>3, <1>4, StreamAssumption DEF Init, StreamInv

\* A block starts over: what comes is added to what was shown.
LEMMA BlockStartKeeps ==
    ASSUME StreamInv, NEW i \in Indices, NEW kind \in Kinds, BlockStart(i, kind)
    PROVE  StreamInv'
<1>1. <<>> \in Texts
  BY HeldIs
<1>2. /\ shown' = shown /\ phase' = phase /\ left' = left
      /\ text' = (IF kind = "text" THEN [text EXCEPT ![i] = <<>>] ELSE text)
      /\ json' = (IF kind = "json" THEN [json EXCEPT ![i] = <<>>] ELSE json)
      /\ due' = [due EXCEPT ![i][kind] = shown[i][kind]]
      /\ given' = [given EXCEPT ![i][kind] = <<>>]
  BY DEF BlockStart
<1>3. /\ text' \in [Indices -> Texts \cup {NONE}] /\ json' \in [Indices -> Texts \cup {NONE}]
      /\ due' \in [Indices -> [Kinds -> Seq(Pieces)]]
      /\ given' \in [Indices -> [Kinds -> Texts]]
  <2>1. text' \in [Indices -> Texts \cup {NONE}] /\ json' \in [Indices -> Texts \cup {NONE}]
    BY <1>1, <1>2 DEF StreamInv
  <2>2. due' \in [Indices -> [Kinds -> Seq(Pieces)]]
    BY <1>2 DEF StreamInv
  <2>3. given' \in [Indices -> [Kinds -> Texts]]
    BY <1>1, <1>2 DEF StreamInv
  <2> QED BY <2>1, <2>2, <2>3
<1>4. ASSUME NEW j \in Indices
      PROVE  /\ TextAs(text'[j], given'[j]["text"], shown'[j]["text"], due'[j]["text"])
             /\ JsonAs(json'[j], given'[j]["json"], shown'[j]["json"], due'[j]["json"])
  <2>0. /\ TextAs(text[j], given[j]["text"], shown[j]["text"], due[j]["text"])
        /\ JsonAs(json[j], given[j]["json"], shown[j]["json"], due[j]["json"])
        /\ shown[j]["text"] \in Seq(Pieces) /\ shown[j]["json"] \in Seq(Pieces)
    BY DEF StreamInv, Kinds
  <2>1. CASE j # i
    <3>1. text'[j] = text[j] /\ json'[j] = json[j] /\ given'[j] = given[j] /\ due'[j] = due[j]
      BY <1>2, <2>1 DEF StreamInv
    <3> QED BY <1>2, <2>0, <3>1
  <2>2. CASE j = i /\ kind = "text"
    <3>1. /\ text'[j] = <<>> /\ json'[j] = json[j]
          /\ given'[j]["text"] = <<>> /\ given'[j]["json"] = given[j]["json"]
          /\ due'[j]["text"] = shown[j]["text"] /\ due'[j]["json"] = due[j]["json"]
      BY <1>2, <2>2 DEF StreamInv, Kinds
    <3>2. TextAs(<<>>, <<>>, shown[j]["text"], shown[j]["text"])
      BY <2>0, TextBegins
    <3> QED BY <1>2, <2>0, <3>1, <3>2
  <2>3. CASE j = i /\ kind = "json"
    <3>1. /\ text'[j] = text[j] /\ json'[j] = <<>>
          /\ given'[j]["text"] = given[j]["text"] /\ given'[j]["json"] = <<>>
          /\ due'[j]["text"] = due[j]["text"] /\ due'[j]["json"] = shown[j]["json"]
      BY <1>2, <2>3 DEF StreamInv, Kinds
    <3>2. JsonAs(<<>>, <<>>, shown[j]["json"], shown[j]["json"])
      BY <2>0, HeldIs DEF JsonAs
    <3> QED BY <1>2, <2>0, <3>1, <3>2
  <2> QED BY <2>1, <2>2, <2>3 DEF Kinds
<1>5. shown' \in [Indices -> [Kinds -> Seq(Pieces)]] /\ left' \in 0..MaxLetters
      /\ phase' \in {"open", "ended", "closed", "broken"}
  BY <1>2 DEF StreamInv
<1> QED BY <1>3, <1>4, <1>5 DEF StreamInv

LEMMA ChunkShape == Chunks \subseteq Texts
BY DEF Chunks, Texts

LEMMA TextDeltaKeeps ==
    ASSUME StreamInv, NEW i \in Indices, NEW c \in Chunks, TextDelta(i, c)
    PROVE  StreamInv'
<1> DEFINE b == Held(text[i]) \o c
<1>0. c \in Texts
  BY ChunkShape
<1>1. /\ json' = json /\ phase' = phase /\ due' = due
      /\ Len(c) <= left /\ left' = left - Len(c)
      /\ given' = [given EXCEPT ![i]["text"] = @ \o c]
      /\ text' = [text EXCEPT ![i] = Rest(b)]
      /\ shown' = [shown EXCEPT ![i]["text"] = @ \o Resolve(Sent(b))]
  BY DEF TextDelta, Send, Rest, Sent
<1>2. /\ TextAs(text[i], given[i]["text"], shown[i]["text"], due[i]["text"])
      /\ text[i] \in Texts \cup {NONE} /\ given[i]["text"] \in Texts
  BY DEF StreamInv, Kinds
<1>3. TextAs(Rest(b), given[i]["text"] \o c,
             shown[i]["text"] \o Resolve(Sent(b)), due[i]["text"])
  BY <1>0, <1>2, TextGoesOn
<1>4. /\ Rest(b) \in Texts \cup {NONE} /\ given[i]["text"] \o c \in Texts
      /\ shown[i]["text"] \o Resolve(Sent(b)) \in Seq(Pieces)
  BY <1>3 DEF TextAs
<1> HIDE DEF b
<1>5. /\ text' \in [Indices -> Texts \cup {NONE}]
      /\ shown' \in [Indices -> [Kinds -> Seq(Pieces)]]
      /\ given' \in [Indices -> [Kinds -> Texts]]
  <2>1. text' \in [Indices -> Texts \cup {NONE}]
    BY <1>1, <1>4 DEF StreamInv
  <2>2. shown' \in [Indices -> [Kinds -> Seq(Pieces)]]
    BY <1>1, <1>4 DEF StreamInv
  <2>3. given' \in [Indices -> [Kinds -> Texts]]
    BY <1>1, <1>4 DEF StreamInv
  <2> QED BY <2>1, <2>2, <2>3
<1>6. left' \in 0..MaxLetters
  <2>1. Len(c) \in Nat /\ left \in 0..MaxLetters /\ MaxLetters \in Nat
    BY <1>0, StreamAssumption DEF StreamInv, Texts
  <2> QED BY <1>1, <2>1
<1>7. ASSUME NEW j \in Indices
      PROVE  /\ TextAs(text'[j], given'[j]["text"], shown'[j]["text"], due'[j]["text"])
             /\ JsonAs(json'[j], given'[j]["json"], shown'[j]["json"], due'[j]["json"])
  <2>0. /\ TextAs(text[j], given[j]["text"], shown[j]["text"], due[j]["text"])
        /\ JsonAs(json[j], given[j]["json"], shown[j]["json"], due[j]["json"])
    BY DEF StreamInv, Kinds
  <2>1. CASE j # i
    <3>1. text'[j] = text[j] /\ shown'[j] = shown[j] /\ given'[j] = given[j]
      BY <1>1, <2>1 DEF StreamInv
    <3> QED BY <1>1, <2>0, <3>1
  <2>2. CASE j = i
    <3>1. /\ text'[j] = Rest(b)
          /\ given'[j]["text"] = given[i]["text"] \o c /\ given'[j]["json"] = given[j]["json"]
          /\ shown'[j]["text"] = shown[i]["text"] \o Resolve(Sent(b))
          /\ shown'[j]["json"] = shown[j]["json"]
      BY <1>1, <2>2 DEF StreamInv, Kinds
    <3> QED BY <1>1, <1>3, <2>0, <2>2, <3>1
  <2> QED BY <2>1, <2>2
<1> QED BY <1>1, <1>5, <1>6, <1>7 DEF StreamInv

LEMMA JsonDeltaKeeps ==
    ASSUME StreamInv, NEW i \in Indices, NEW c \in Chunks, JsonDelta(i, c)
    PROVE  StreamInv'
<1>0. c \in Texts
  BY ChunkShape
<1>1. /\ text' = text /\ phase' = phase /\ due' = due /\ shown' = shown
      /\ Len(c) <= left /\ left' = left - Len(c)
      /\ given' = [given EXCEPT ![i]["json"] = @ \o c]
      /\ json' = [json EXCEPT ![i] = Held(@) \o c]
  BY DEF JsonDelta, Send
<1>2. /\ JsonAs(json[i], given[i]["json"], shown[i]["json"], due[i]["json"])
      /\ json[i] \in Texts \cup {NONE}
  BY DEF StreamInv, Kinds
<1>3. /\ Held(json[i]) \o c = given[i]["json"] \o c /\ given[i]["json"] \o c \in Texts
      /\ Held(json[i]) \o c \in Texts
  BY <1>0, <1>2, Joined DEF JsonAs
<1>4. JsonAs(Held(json[i]) \o c, given[i]["json"] \o c, shown[i]["json"], due[i]["json"])
  BY <1>2, <1>3, HeldIs DEF JsonAs
<1>5. json' \in [Indices -> Texts \cup {NONE}] /\ given' \in [Indices -> [Kinds -> Texts]]
  <2>1. json' \in [Indices -> Texts \cup {NONE}]
    BY <1>1, <1>3 DEF StreamInv
  <2>2. given' \in [Indices -> [Kinds -> Texts]]
    BY <1>1, <1>3 DEF StreamInv
  <2> QED BY <2>1, <2>2
<1>6. left' \in 0..MaxLetters
  <2>1. Len(c) \in Nat /\ left \in 0..MaxLetters /\ MaxLetters \in Nat
    BY <1>0, StreamAssumption DEF StreamInv, Texts
  <2> QED BY <1>1, <2>1
<1>7. ASSUME NEW j \in Indices
      PROVE  /\ TextAs(text'[j], given'[j]["text"], shown'[j]["text"], due'[j]["text"])
             /\ JsonAs(json'[j], given'[j]["json"], shown'[j]["json"], due'[j]["json"])
  <2>0. /\ TextAs(text[j], given[j]["text"], shown[j]["text"], due[j]["text"])
        /\ JsonAs(json[j], given[j]["json"], shown[j]["json"], due[j]["json"])
    BY DEF StreamInv, Kinds
  <2>1. CASE j # i
    <3>1. json'[j] = json[j] /\ given'[j] = given[j]
      BY <1>1, <2>1 DEF StreamInv
    <3> QED BY <1>1, <2>0, <3>1
  <2>2. CASE j = i
    <3>1. /\ json'[j] = Held(json[i]) \o c
          /\ given'[j]["json"] = given[i]["json"] \o c /\ given'[j]["text"] = given[j]["text"]
      BY <1>1, <2>2 DEF StreamInv, Kinds
    <3> QED BY <1>1, <1>4, <2>0, <2>2, <3>1
  <2> QED BY <2>1, <2>2
<1> QED BY <1>1, <1>5, <1>6, <1>7 DEF StreamInv

\* What a block that stops has shown is all that was given to it.
LEMMA FlushShows ==
    ASSUME StreamInv, NEW i \in Indices, NEW kind \in Kinds
    PROVE  /\ shown[i][kind] \o Shows(kind, Held(IF kind = "text" THEN text[i] ELSE json[i]))
                = due[i][kind] \o Shows(kind, given[i][kind])
           /\ due[i][kind] \o Shows(kind, given[i][kind]) \in Seq(Pieces)
<1>1. /\ TextAs(text[i], given[i]["text"], shown[i]["text"], due[i]["text"])
      /\ JsonAs(json[i], given[i]["json"], shown[i]["json"], due[i]["json"])
      /\ due[i][kind] \in Seq(Pieces) /\ given[i][kind] \in Texts
  BY DEF StreamInv
<1>2. due[i][kind] \o Shows(kind, given[i][kind]) \in Seq(Pieces)
  BY <1>1, ShowsShape, ConcatProperties
<1>3. CASE kind = "text"
  <2>1. /\ Shows(kind, Held(IF kind = "text" THEN text[i] ELSE json[i]))
             = Resolve(Held(text[i]))
        /\ Shows(kind, given[i][kind]) = Resolve(given[i]["text"])
    BY <1>3 DEF Shows
  <2>2. shown[i]["text"] \o Resolve(Held(text[i])) = due[i]["text"] \o Resolve(given[i]["text"])
    BY <1>1, TextWhole
  <2> QED BY <1>2, <1>3, <2>1, <2>2
<1>4. CASE kind = "json"
  BY <1>1, <1>2, <1>4 DEF JsonAs
<1> QED BY <1>3, <1>4 DEF Kinds

LEMMA FlushKeeps ==
    ASSUME StreamInv, NEW I \in SUBSET Indices, Flush(I), left' = left,
           phase' \in {"open", "ended", "closed", "broken"}
    PROVE  StreamInv'
<1> DEFINE all(i, kind) == due[i][kind] \o Shows(kind, given[i][kind])
<1>1. /\ text' = [i \in Indices |-> IF i \in I THEN NONE ELSE text[i]]
      /\ json' = [i \in Indices |-> IF i \in I THEN NONE ELSE json[i]]
      /\ given' = [i \in Indices |-> IF i \in I THEN Nothing[i] ELSE given[i]]
      /\ due' = [i \in Indices |->
                   IF i \notin I THEN due[i] ELSE [kind \in Kinds |-> all(i, kind)]]
  BY DEF Flush, Settle
<1>2. \A i \in Indices : \A kind \in Kinds : all(i, kind) \in Seq(Pieces)
  BY FlushShows
<1>3. shown' = [i \in Indices |->
                  IF i \notin I THEN shown[i] ELSE [kind \in Kinds |-> all(i, kind)]]
  BY FlushShows DEF Flush
<1> HIDE DEF all
<1>4. <<>> \in Texts /\ \A i \in Indices : Nothing[i] = [kind \in Kinds |-> <<>>]
  BY HeldIs DEF Nothing
<1>5. /\ text' \in [Indices -> Texts \cup {NONE}] /\ json' \in [Indices -> Texts \cup {NONE}]
      /\ shown' \in [Indices -> [Kinds -> Seq(Pieces)]]
      /\ due' \in [Indices -> [Kinds -> Seq(Pieces)]]
      /\ given' \in [Indices -> [Kinds -> Texts]]
  <2>1. text' \in [Indices -> Texts \cup {NONE}] /\ json' \in [Indices -> Texts \cup {NONE}]
    BY <1>1 DEF StreamInv
  <2>2. shown' \in [Indices -> [Kinds -> Seq(Pieces)]]
    BY <1>2, <1>3 DEF StreamInv
  <2>3. due' \in [Indices -> [Kinds -> Seq(Pieces)]]
    BY <1>1, <1>2 DEF StreamInv
  <2>4. given' \in [Indices -> [Kinds -> Texts]]
    BY <1>1, <1>4 DEF StreamInv
  <2> QED BY <2>1, <2>2, <2>3, <2>4
<1>6. ASSUME NEW j \in Indices
      PROVE  /\ TextAs(text'[j], given'[j]["text"], shown'[j]["text"], due'[j]["text"])
             /\ JsonAs(json'[j], given'[j]["json"], shown'[j]["json"], due'[j]["json"])
  <2>1. CASE j \notin I
    <3>1. /\ text'[j] = text[j] /\ json'[j] = json[j] /\ given'[j] = given[j]
          /\ shown'[j] = shown[j] /\ due'[j] = due[j]
      BY <1>1, <1>3, <2>1
    <3> QED BY <3>1 DEF StreamInv
  <2>2. CASE j \in I
    <3>1. /\ text'[j] = NONE /\ json'[j] = NONE
          /\ given'[j]["text"] = <<>> /\ given'[j]["json"] = <<>>
          /\ shown'[j]["text"] = all(j, "text") /\ due'[j]["text"] = all(j, "text")
          /\ shown'[j]["json"] = all(j, "json") /\ due'[j]["json"] = all(j, "json")
      BY <1>1, <1>3, <1>4, <2>2 DEF Kinds
    <3>2. all(j, "text") \in Seq(Pieces) /\ all(j, "json") \in Seq(Pieces)
      BY <1>2 DEF Kinds
    <3>3. TextAs(NONE, <<>>, all(j, "text"), all(j, "text"))
      BY <3>2, TextBegins
    <3>4. JsonAs(NONE, <<>>, all(j, "json"), all(j, "json"))
      BY <3>2, HeldIs DEF JsonAs
    <3> QED BY <3>1, <3>3, <3>4
  <2> QED BY <2>1, <2>2
<1>7. left' \in 0..MaxLetters
  BY DEF StreamInv
<1> QED BY <1>5, <1>6, <1>7 DEF StreamInv

LEMMA StreamStep == StreamInv /\ [Next]_vars => StreamInv'
<1> SUFFICES ASSUME StreamInv, [Next]_vars PROVE StreamInv'
  OBVIOUS
<1>0. phase \in {"open", "ended", "closed", "broken"}
  BY DEF StreamInv
<1>1. CASE \E i \in Indices, kind \in Kinds : BlockStart(i, kind)
  BY <1>1, BlockStartKeeps
<1>2. CASE \E i \in Indices, c \in Chunks : TextDelta(i, c)
  BY <1>2, TextDeltaKeeps
<1>3. CASE \E i \in Indices, c \in Chunks : JsonDelta(i, c)
  BY <1>3, JsonDeltaKeeps
<1>4. CASE \E i \in Indices : BlockStop(i)
  <2>1. PICK i \in Indices : BlockStop(i)
    BY <1>4
  <2>2. {i} \in SUBSET Indices /\ Flush({i}) /\ left' = left /\ phase' = phase
    BY <2>1 DEF BlockStop
  <2> QED BY <1>0, <2>2, FlushKeeps
<1>5. CASE MessageDelta \/ MessageStop \/ StreamEnds
  <2>1. Flush(Indices) /\ left' = left /\ phase' \in {"open", "ended", "closed", "broken"}
    BY <1>0, <1>5 DEF MessageDelta, MessageStop, StreamEnds
  <2>2. Indices \in SUBSET Indices
    OBVIOUS
  <2> QED BY <2>1, <2>2, FlushKeeps
<1>6. CASE StreamBreaks
  BY <1>6 DEF StreamBreaks, StreamInv
<1>7. CASE Over \/ UNCHANGED vars
  BY <1>7 DEF Over, vars, StreamInv
<1> QED BY <1>1, <1>2, <1>3, <1>4, <1>5, <1>6, <1>7 DEF Next

LEMMA StreamInductive == Spec => []StreamInv
BY StreamStarts, StreamStep, PTL DEF Spec

----------------------------------------------------------------------------
(* What the client sees. *)

\* Every variable of the rewriter has its type, and a buffer holds back no more letters than
\* the longest surrogate has.
THEOREM TypeCorrect == Spec => []TypeOK
<1>1. StreamInv => TypeOK
  BY DEF StreamInv, TypeOK, TextAs, Texts
<1> QED BY <1>1, StreamInductive, PTL

\* However the upstream cuts a text, the client has received the beginning of what the whole
\* text restores to (_TextBuffer.feed).
THEOREM CutsAreInvisible == Spec => []CutsDoNotShow
<1>1. StreamInv => CutsDoNotShow
  BY TextWhole DEF StreamInv, CutsDoNotShow
<1> QED BY <1>1, StreamInductive, PTL

\* All that was given, text and arguments, has been shown when message_stop goes out and when
\* the stream ends (SSERewriter.close).
THEOREM AllIsShownByTheStop == Spec => ShownByTheStop
<1>1. StreamInv /\ [Next]_vars => [phase' # phase /\ phase' # "broken" =>
         \A i \in Indices, kind \in Kinds :
             shown'[i][kind] = due[i][kind] \o Shows(kind, given[i][kind])]_vars
  <2> SUFFICES ASSUME StreamInv, Next, phase' # phase, phase' # "broken",
                      NEW i \in Indices, NEW kind \in Kinds
               PROVE  shown'[i][kind] = due[i][kind] \o Shows(kind, given[i][kind])
    BY DEF vars
  <2>1. MessageStop \/ StreamEnds
    BY DEF Next, BlockStart, TextDelta, JsonDelta, Send, BlockStop, MessageDelta,
           StreamBreaks, Over, vars
  <2>2. Flush(Indices)
    BY <2>1 DEF MessageStop, StreamEnds
  <2>3. shown'[i][kind]
          = shown[i][kind] \o Shows(kind, Held(IF kind = "text" THEN text[i] ELSE json[i]))
    BY <2>2 DEF Flush
  <2> QED BY <2>3, FlushShows
<1> QED BY <1>1, StreamInductive, PTL DEF Spec, ShownByTheStop
=============================================================================
