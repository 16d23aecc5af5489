--------------------------- MODULE SequenceFacts ---------------------------
(***************************************************************************)
(* Facts about recursive functions, folds and sequences.  The provers take *)
(* no operator as an argument, so induction is over a set of numbers, and  *)
(* a recursion is given by the functions H[i] of its steps.                *)
(*                                                                         *)
(* The second half applies them to the texts of ReplyParse, which both     *)
(* servers parse as they grow: the content of a text begins with the       *)
(* content of each of its beginnings, and what is shown of a regular       *)
(* content with what was shown of a beginning of it that is not cut within *)
(* an opening tag.  A streaming server relies on both: what it sent of a   *)
(* partial parse is not taken back.                                        *)
(***************************************************************************)
EXTENDS ReplyParse, WellFoundedInduction, SequenceTheorems, FiniteSetTheorems, TLAPS

\* A set that contains 0 and the successors of its numbers contains all of them.
LEMMA NatSet ==
  ASSUME NEW S, 0 \in S, \A n \in Nat : n \in S => n + 1 \in S
  PROVE  Nat \subseteq S
<1> DEFINE T == {n \in Nat : n \notin S}
<1>1. IsWellFoundedOn(OpToRel(<, Nat), Nat)
  BY NatLessThanWellFounded
<1>2. SUFFICES ASSUME T # {} PROVE FALSE
  OBVIOUS
<1>3. T \subseteq Nat
  OBVIOUS
<1> HIDE DEF T
<1>4. PICK x \in T : \A y \in T : ~ (<<y, x>> \in OpToRel(<, Nat))
  BY <1>1, <1>2, <1>3, WFMin
<1>5. x \in Nat /\ x \notin S
  BY DEF T
<1>6. \A y \in T : ~ (y < x)
  BY <1>3, <1>4, <1>5 DEF OpToRel
<1>7. x # 0 /\ x - 1 \in Nat /\ x - 1 + 1 = x /\ x - 1 < x
  BY <1>5
<1>8. x - 1 \in S
  BY <1>6, <1>7 DEF T
<1> QED
  BY <1>5, <1>7, <1>8

\* The same up to n.
LEMMA UpTo ==
  ASSUME NEW n \in Nat, NEW S, 0 \in S,
         \A i \in 0 .. n - 1 : i \in S => i + 1 \in S
  PROVE  0 .. n \subseteq S
<1> DEFINE T == {i \in Nat : i <= n => i \in S}
<1>1. 0 \in T
  OBVIOUS
<1>2. ASSUME NEW i \in Nat, i \in T PROVE i + 1 \in T
  BY <1>2
<1> HIDE DEF T
<1>3. Nat \subseteq T
  BY <1>1, <1>2, NatSet
<1> QED
  BY <1>3 DEF T

\* The same from n + 1 down to 1, from all the greater ones to the next.
LEMMA DownFrom ==
  ASSUME NEW n \in Nat, NEW S, n + 1 \in S,
         \A i \in 1 .. n : (\A j \in i + 1 .. n + 1 : j \in S) => i \in S
  PROVE  1 .. n + 1 \subseteq S
<1> DEFINE T == {d \in 0 .. n : \A j \in n + 1 - d .. n + 1 : j \in S}
<1>1. 0 \in T
  <2>1. \A j \in n + 1 - 0 .. n + 1 : j = n + 1
    OBVIOUS
  <2> QED
    BY <2>1
<1>2. ASSUME NEW d \in 0 .. n - 1, d \in T PROVE d + 1 \in T
  <2>1. PICK i \in 1 .. n : i = n - d
    <3>1. n - d \in 1 .. n
      OBVIOUS
    <3> QED
      BY <3>1
  <2>2. \A j \in i + 1 .. n + 1 : j \in S
    BY <1>2, <2>1
  <2>3. i \in S
    BY <2>2
  <2>4. ASSUME NEW j \in n + 1 - (d + 1) .. n + 1 PROVE j \in S
    <3>1. j = i \/ j \in i + 1 .. n + 1
      BY <2>1
    <3> QED
      BY <2>2, <2>3, <3>1
  <2> QED
    BY <2>4
<1> HIDE DEF T
<1>3. 0 .. n \subseteq T
  BY <1>1, <1>2, UpTo
<1>4. n \in T /\ n + 1 - n = 1
  BY <1>3
<1> QED
  BY <1>4 DEF T

\* A set of numbers up to n has a greatest one.
LEMMA Greatest ==
  ASSUME NEW n \in Nat, NEW L, L \subseteq 1 .. n, L # {}
  PROVE  \E m \in L : \A j \in L : j <= m
<1> SUFFICES ASSUME ~ \E m \in L : \A j \in L : j <= m PROVE FALSE
  OBVIOUS
<1> DEFINE S == {i \in 1 .. n + 1 : i \notin L}
<1>1. n + 1 \in S
  OBVIOUS
<1>2. ASSUME NEW i \in 1 .. n, \A j \in i + 1 .. n + 1 : j \in S PROVE i \in S
  <2>1. ASSUME NEW j \in L, ~(j <= i) PROVE FALSE
    <3>1. j \in i + 1 .. n + 1
      BY <2>1
    <3> QED
      BY <1>2, <3>1
  <2>2. i \notin L
    BY <2>1
  <2> QED
    BY <2>2
<1> HIDE DEF S
<1>3. 1 .. n + 1 \subseteq S
  BY <1>1, <1>2, DownFrom
<1>4. PICK z : z \in L
  OBVIOUS
<1>5. z \in 1 .. n + 1
  BY <1>4
<1>6. z \in S
  BY <1>3, <1>5
<1> QED
  BY <1>4, <1>6 DEF S

\* A set of numbers has a least one.
LEMMA LeastIs ==
  ASSUME NEW S \in SUBSET Nat, S # {}
  PROVE  Min(S) \in S /\ \A y \in S : Min(S) <= y
<1>1. IsWellFoundedOn(OpToRel(<, Nat), Nat)
  BY NatLessThanWellFounded
<1>2. PICK x \in S : \A y \in S : ~ (<<y, x>> \in OpToRel(<, Nat))
  BY <1>1, WFMin
<1>3. ASSUME NEW y \in S PROVE x <= y
  <2>1. x \in Nat /\ y \in Nat
    OBVIOUS
  <2>2. ~ (y < x)
    BY <1>2, <2>1 DEF OpToRel
  <2> QED
    BY <2>1, <2>2
<1> QED
  BY <1>3 DEF Min

-----------------------------------------------------------------------------
(* Beginnings of sequences.                                                *)

\* The numbers up to n.
LEMMA CountUpTo ==
  ASSUME NEW n \in Nat
  PROVE  IsFiniteSet(1 .. n) /\ Cardinality(1 .. n) = n
<1>1. PICK a \in Int, b \in Int : a = 1 /\ b = n
  OBVIOUS
<1>2. IsFiniteSet(a .. b) /\ Cardinality(a .. b) = IF a > b THEN 0 ELSE b - a + 1
  BY FS_Interval
<1>3. (IF a > b THEN 0 ELSE b - a + 1) = n
  BY <1>1
<1> QED
  BY <1>1, <1>2, <1>3

\* How many numbers of S there are up to x.
Rank(S, x) == Cardinality({y \in S : y <= x})

\* The ranks of a finite set of numbers count from 1, one for each number.
LEMMA RanksAre ==
  ASSUME NEW S \in SUBSET Nat, IsFiniteSet(S)
  PROVE  /\ Cardinality(S) \in Nat
         /\ \A x \in S : Rank(S, x) \in 1 .. Cardinality(S)
         /\ \A x, y \in S : x < y => Rank(S, x) < Rank(S, y)
         /\ \A x, y \in S : Rank(S, x) = Rank(S, y) => x = y
         /\ \A k \in 1 .. Cardinality(S) : \E x \in S : Rank(S, x) = k
<1>1. PICK nu \in Nat : nu = Cardinality(S)
  BY FS_CardinalityType
<1> DEFINE upto(x) == {y \in S : y <= x}
<1>2. PICK rank : rank = [x \in S |-> Cardinality(upto(x))]
  OBVIOUS
<1>3. ASSUME NEW x \in S PROVE IsFiniteSet(upto(x)) /\ rank[x] \in 1 .. nu
  <2>1. upto(x) \in SUBSET S /\ x \in upto(x)
    OBVIOUS
  <2> HIDE DEF upto
  <2>2. IsFiniteSet(upto(x)) /\ Cardinality(upto(x)) <= nu
    BY <1>1, <2>1, FS_Subset
  <2>3. Cardinality(upto(x)) \in Nat /\ Cardinality(upto(x)) # 0
    BY <2>1, <2>2, FS_CardinalityType, FS_EmptySet
  <2> QED
    BY <1>2, <2>2, <2>3
<1>4. ASSUME NEW x \in S, NEW y \in S, x < y PROVE rank[x] < rank[y]
  <2>1. upto(x) \in SUBSET upto(y) /\ y \in upto(y) /\ y \notin upto(x)
    <3>1. x \in Nat /\ y \in Nat /\ y <= y /\ ~ (y <= x)
      BY <1>4
    <3>2. \A z \in S : z <= x => z <= y
      BY <1>4
    <3> QED
      BY <3>1, <3>2
  <2>2. IsFiniteSet(upto(y))
    BY <1>3
  <2>3. rank[x] = Cardinality(upto(x)) /\ rank[y] = Cardinality(upto(y))
    BY <1>2
  <2> HIDE DEF upto
  <2>4. Cardinality(upto(x)) <= Cardinality(upto(y)) /\ Cardinality(upto(x)) # Cardinality(upto(y))
    BY <2>1, <2>2, FS_Subset
  <2>5. rank[x] \in Nat /\ rank[y] \in Nat
    BY <1>3
  <2> QED
    BY <2>3, <2>4, <2>5
<1>5. ASSUME NEW x \in S, NEW y \in S, rank[x] = rank[y] PROVE x = y
  <2>1. ~ (x < y) /\ ~ (y < x)
    <3>1. PICK a \in 1 .. nu : a = rank[x] /\ a = rank[y]
      BY <1>3, <1>5
    <3>2. ~ (a < a)
      OBVIOUS
    <3> QED
      BY <1>4, <3>1, <3>2
  <2>2. x \in Nat /\ y \in Nat
    OBVIOUS
  <2> QED
    BY <2>1, <2>2
<1>6. rank \in Injection(S, 1 .. nu)
  BY <1>2, <1>3, <1>5 DEF Injection, IsInjective
<1>7. rank \in Surjection(S, 1 .. nu)
  <2>1. IsFiniteSet(1 .. nu) /\ Cardinality(1 .. nu) = nu
    BY CountUpTo
  <2> QED
    BY <1>1, <1>6, <2>1, FS_Injection
<1>8. \A k \in 1 .. nu : \E x \in S : rank[x] = k
  BY <1>7 DEF Surjection
<1>9. \A x \in S : Rank(S, x) = rank[x]
  BY <1>2 DEF Rank
<1> HIDE DEF upto
<1> QED
  BY <1>1, <1>3, <1>4, <1>5, <1>8, <1>9

\* s is the beginning of t, element by element.
Begins(s, t) == Len(s) <= Len(t) /\ \A i \in 1 .. Len(s) : s[i] = t[i]

LEMMA PrefixBegins ==
  ASSUME NEW V, NEW s \in Seq(V), NEW t \in Seq(V)
  PROVE  IsPrefix(s, t) <=> Begins(s, t)
<1>1. Len(s) \in Nat /\ Len(t) \in Nat
  OBVIOUS
<1>2. ASSUME Len(s) <= Len(t)
      PROVE  SubSeq(s, 1, Len(s)) = SubSeq(t, 1, Len(s))
               <=> \A i \in 1 .. Len(s) : s[i] = t[i]
  <2>1. SubSeq(s, 1, Len(s)) = [i \in 1 .. Len(s) |-> s[i]]
    OBVIOUS
  <2>2. SubSeq(t, 1, Len(s)) = [i \in 1 .. Len(s) |-> t[i]]
    BY <1>2
  <2> QED
    BY <2>1, <2>2
<1> QED
  BY <1>2 DEF IsPrefix, Begins

LEMMA ConcatBegins ==
  ASSUME NEW V, NEW s \in Seq(V), NEW t \in Seq(V)
  PROVE  /\ s \o t \in Seq(V) /\ Len(s \o t) = Len(s) + Len(t) /\ Begins(s, s \o t)
         /\ \A i \in 1 .. Len(t) : (s \o t)[Len(s) + i] = t[i]
<1>1. Len(s) \in Nat /\ Len(t) \in Nat
  OBVIOUS
<1>2. s \o t \in Seq(V) /\ Len(s \o t) = Len(s) + Len(t)
  OBVIOUS
<1>3. \A i \in 1 .. Len(s) : (s \o t)[i] = s[i]
  OBVIOUS
<1>4. \A i \in 1 .. Len(t) : (s \o t)[Len(s) + i] = t[i]
  OBVIOUS
<1> QED
  BY <1>1, <1>2, <1>3, <1>4 DEF Begins

LEMMA BeginsTransitive ==
  ASSUME NEW V, NEW s \in Seq(V), NEW t \in Seq(V), NEW u \in Seq(V),
         Begins(s, t), Begins(t, u)
  PROVE  Begins(s, u)
BY DEF Begins

\* Two sequences that begin one another are the same.
LEMMA BeginsBoth ==
  ASSUME NEW V, NEW s \in Seq(V), NEW t \in Seq(V), Begins(s, t), Len(s) >= Len(t)
  PROVE  s = t
<1>1. Len(s) = Len(t)
  BY DEF Begins
<1> QED
  BY <1>1, SeqEqual DEF Begins

-----------------------------------------------------------------------------
(* Recursion.                                                              *)

\* Function g goes from base over n steps, H[i] being the step from i.
Steps(n, X, base, H, g) ==
  /\ g \in [0 .. n -> X] /\ g[0] = base
  /\ \A i \in 0 .. n - 1 : g[i + 1] = H[i][g[i]]

\* There is such a function.
LEMMA StepsExist ==
  ASSUME NEW n \in Nat, NEW X, NEW base \in X, NEW H \in [0 .. n - 1 -> [X -> X]]
  PROVE  \E g : Steps(n, X, base, H, g)
<1> DEFINE Good(g, k) == g[0] = base /\ \A i \in 0 .. k - 1 : g[i + 1] = H[i][g[i]]
           S == {k \in 0 .. n : \E g \in [0 .. k -> X] : Good(g, k)}
<1>1. 0 \in S
  <2>1. \E g \in [0 .. 0 -> X] : Good(g, 0)
    <3>1. [i \in 0 .. 0 |-> base] \in [0 .. 0 -> X] /\ [i \in 0 .. 0 |-> base][0] = base
      OBVIOUS
    <3>2. 0 .. 0 - 1 = {}
      OBVIOUS
    <3> QED
      BY <3>1, <3>2
  <2> HIDE DEF Good
  <2> QED
    BY <2>1
<1>2. ASSUME NEW k \in 0 .. n - 1, k \in S PROVE k + 1 \in S
  <2>1. PICK g \in [0 .. k -> X] : Good(g, k)
    BY <1>2
  <2> DEFINE h == [i \in 0 .. k + 1 |-> IF i <= k THEN g[i] ELSE H[k][g[k]]]
  <2>2. H[k] \in [X -> X] /\ g[k] \in X
    OBVIOUS
  <2>3. h \in [0 .. k + 1 -> X]
    BY <2>2
  <2>4. h[0] = base
    BY <2>1
  <2>5. ASSUME NEW i \in 0 .. k PROVE h[i + 1] = H[i][h[i]]
    <3>1. CASE i < k
      <4>1. g[i + 1] = H[i][g[i]] /\ h[i] = g[i] /\ h[i + 1] = g[i + 1]
        BY <2>1, <3>1
      <4> QED
        BY <4>1
    <3>2. CASE i = k
      <4>1. h[k + 1] = H[k][g[k]] /\ h[k] = g[k]
        OBVIOUS
      <4> QED
        BY <3>2, <4>1
    <3> QED
      BY <3>1, <3>2
  <2> HIDE DEF h
  <2>6. Good(h, k + 1)
    <3>1. 0 .. k + 1 - 1 = 0 .. k
      OBVIOUS
    <3> QED
      BY <2>4, <2>5, <3>1
  <2> QED
    BY <2>3, <2>6
<1> HIDE DEF S
<1>3. 0 .. n \subseteq S
  BY <1>1, <1>2, UpTo
<1>4. n \in S
  BY <1>3
<1> QED
  BY <1>4 DEF S, Steps

-----------------------------------------------------------------------------
(* Flattening.                                                             *)

\* Function g flattens the first elements of s, up to n of them.
Flattens(n, V, s, g) ==
  /\ g \in [0 .. n -> Seq(V)] /\ g[0] = <<>>
  /\ \A i \in 0 .. n - 1 : g[i + 1] = g[i] \o s[i + 1]

\* The sequence is flattened one element after the other.
LEMMA FlattenSteps ==
  ASSUME NEW V, NEW s \in Seq(Seq(V))
  PROVE  \E g : Flattens(Len(s), V, s, g) /\ FlattenSeq(s) = g[Len(s)]
<1>1. PICK n \in Nat : n = Len(s) /\ \A i \in 0 .. n - 1 : s[i + 1] \in Seq(V)
  OBVIOUS
<1> DEFINE Step(e) == [i \in 1 .. n |-> IF i = 1 THEN s[i] ELSE e[i - 1] \o s[i]]
           f == CHOOSE e : e = Step(e)
<1>2. \E g \in [0 .. n -> Seq(V)] :
         g[0] = <<>> /\ \A i \in 0 .. n - 1 : g[i + 1] = g[i] \o s[i + 1]
  <2>1. PICK H : H = [i \in 0 .. n - 1 |-> [x \in Seq(V) |-> x \o s[i + 1]]]
    OBVIOUS
  <2>2. H \in [0 .. n - 1 -> [Seq(V) -> Seq(V)]]
    BY <1>1, <2>1
  <2>3. PICK X, base : X = Seq(V) /\ base = <<>> /\ base \in X
    <3>1. <<>> \in Seq(V)
      OBVIOUS
    <3> QED
      BY <3>1
  <2>4. PICK g : Steps(n, X, base, H, g)
    <3>1. H \in [0 .. n - 1 -> [X -> X]]
      BY <2>2, <2>3
    <3>2. n \in Nat /\ base \in X
      BY <2>3
    <3> QED
      BY <3>1, <3>2, StepsExist
  <2>5. ASSUME NEW i \in 0 .. n - 1 PROVE g[i + 1] = g[i] \o s[i + 1]
    <3>1. g[i] \in Seq(V)
      BY <2>3, <2>4 DEF Steps
    <3>2. H[i][g[i]] = g[i] \o s[i + 1]
      BY <2>1, <3>1
    <3> QED
      BY <2>4, <3>2 DEF Steps
  <2> QED
    BY <2>3, <2>4, <2>5 DEF Steps
<1>3. PICK g \in [0 .. n -> Seq(V)] :
         g[0] = <<>> /\ \A i \in 0 .. n - 1 : g[i + 1] = g[i] \o s[i + 1]
  BY <1>2
<1>4. 0 \in 0 .. n - 1 => g[1] = s[1]
  <2> SUFFICES ASSUME 0 \in 0 .. n - 1 PROVE g[1] = s[1]
    OBVIOUS
  <2>1. g[0 + 1] = g[0] \o s[0 + 1] /\ s[0 + 1] \in Seq(V)
    BY <1>1, <1>3
  <2>2. 0 + 1 = 1
    OBVIOUS
  <2> QED
    BY <1>3, <2>1, <2>2
<1>5. \E e : e = Step(e)
  <2>1. PICK e : e = [i \in 1 .. n |-> g[i]]
    OBVIOUS
  <2>2. ASSUME NEW i \in 1 .. n
        PROVE  e[i] = IF i = 1 THEN s[i] ELSE e[i - 1] \o s[i]
    <3>1. e[i] = g[i]
      BY <2>1
    <3>2. CASE i = 1
      BY <1>4, <3>1, <3>2
    <3>3. CASE i # 1
      <4>1. PICK j \in 0 .. n - 1 : j \in 1 .. n /\ i = j + 1 /\ i - 1 = j
        <5>1. i - 1 \in 0 .. n - 1 /\ i - 1 \in 1 .. n /\ i = i - 1 + 1
          BY <3>3
        <5> QED
          BY <5>1
      <4>2. e[j] = g[j] /\ g[j + 1] = g[j] \o s[j + 1]
        BY <1>3, <2>1, <4>1
      <4> QED
        BY <3>1, <3>3, <4>1, <4>2
    <3> QED
      BY <3>2, <3>3
  <2>3. e = Step(e)
    BY <2>1, <2>2
  <2> QED
    BY <2>3
<1>6. f = Step(f)
  <2> HIDE DEF Step
  <2> QED
    BY <1>5
<1> HIDE DEF f
<1>7. \A i \in 1 .. n : f[i] = IF i = 1 THEN s[i] ELSE f[i - 1] \o s[i]
  BY <1>6
<1>8. \A i \in 1 .. n : f[i] = g[i]
  <2> DEFINE S == {i \in 0 .. n : i = 0 \/ f[i] = g[i]}
  <2>1. ASSUME NEW i \in 0 .. n - 1, i \in S PROVE i + 1 \in S
    <3>1. i + 1 \in 1 .. n /\ i + 1 - 1 = i
      OBVIOUS
    <3>2. g[i + 1] = g[i] \o s[i + 1]
      BY <1>3
    <3>3. f[i + 1] = IF i + 1 = 1 THEN s[i + 1] ELSE f[i] \o s[i + 1]
      BY <1>7, <3>1
    <3>4. f[i + 1] = g[i + 1]
      <4>1. CASE i = 0
        BY <1>4, <3>1, <3>3, <4>1
      <4>2. CASE i # 0
        <5>1. i + 1 # 1 /\ f[i] = g[i]
          BY <2>1, <4>2
        <5> QED
          BY <3>2, <3>3, <5>1
      <4> QED
        BY <4>1, <4>2
    <3> QED
      BY <3>1, <3>4
  <2>2. 0 \in S
    OBVIOUS
  <2> HIDE DEF S
  <2>3. 0 .. n \subseteq S
    BY <2>1, <2>2, UpTo
  <2> QED
    BY <2>3 DEF S
<1>9. FlattenSeq(s) = g[n]
  <2>1. CASE n = 0
    <3>1. s = <<>>
      BY <1>1, <2>1, EmptySeq
    <3>2. FlattenSeq(s) = s
      BY <1>1, <2>1 DEF FlattenSeq
    <3> QED
      BY <1>3, <2>1, <3>1, <3>2
  <2>2. CASE n # 0
    <3>1. FlattenSeq(s) = f[n]
      BY <1>1, <2>2 DEF FlattenSeq, f
    <3>2. n \in 1 .. n
      BY <2>2
    <3> QED
      BY <1>8, <3>1, <3>2
  <2> QED
    BY <2>1, <2>2
<1> QED
  BY <1>1, <1>3, <1>9 DEF Flattens

\* An element more is appended to what the others flatten to.
LEMMA FlattenAppend ==
  ASSUME NEW V, NEW s \in Seq(Seq(V)), NEW x \in Seq(V)
  PROVE  /\ FlattenSeq(<<>>) = <<>> /\ FlattenSeq(s) \in Seq(V)
         /\ FlattenSeq(Append(s, x)) = FlattenSeq(s) \o x
<1>1. FlattenSeq(<<>>) = <<>>
  BY DEF FlattenSeq
<1>2. PICK t \in Seq(Seq(V)) :
         /\ t = Append(s, x) /\ Len(t) = Len(s) + 1 /\ t[Len(s) + 1] = x
         /\ \A i \in 1 .. Len(s) : t[i] = s[i]
  <2>1. Append(s, x) \in Seq(Seq(V))
    OBVIOUS
  <2>2. Len(Append(s, x)) = Len(s) + 1 /\ Append(s, x)[Len(s) + 1] = x
    OBVIOUS
  <2>3. \A i \in 1 .. Len(s) : Append(s, x)[i] = s[i]
    OBVIOUS
  <2> QED
    BY <2>1, <2>2, <2>3
<1>3. PICK n \in Nat : n = Len(s)
  OBVIOUS
<1>4. PICK g : Flattens(n, V, s, g) /\ FlattenSeq(s) = g[n]
  BY <1>3, FlattenSteps
<1>5. PICK m \in Nat : m = Len(t) /\ m = n + 1
  BY <1>2, <1>3
<1>6. PICK h : Flattens(m, V, t, h) /\ FlattenSeq(t) = h[m]
  BY <1>5, FlattenSteps
<1>7. \A i \in 0 .. m - 1 : h[i + 1] = h[i] \o t[i + 1]
  BY <1>6 DEF Flattens
<1>8. \A i \in 0 .. n : h[i + 1] = h[i] \o t[i + 1]
  <2>1. 0 .. m - 1 = 0 .. n
    BY <1>5
  <2> QED
    BY ONLY <1>7, <2>1, Zenon
<1>9. h \in [0 .. m -> Seq(V)] /\ h[0] = <<>>
  BY <1>6 DEF Flattens
<1>10. \A i \in 0 .. n - 1 : g[i + 1] = g[i] \o s[i + 1]
  BY <1>4 DEF Flattens
<1>11. h[n] = g[n]
  <2> DEFINE S == {i \in 0 .. n : h[i] = g[i]}
  <2>1. ASSUME NEW i \in 0 .. n - 1, i \in S PROVE i + 1 \in S
    <3>1. i + 1 \in 1 .. n /\ i \in 0 .. n
      OBVIOUS
    <3>2. h[i + 1] = h[i] \o t[i + 1] /\ g[i + 1] = g[i] \o s[i + 1]
      BY <1>8, <1>10, <3>1
    <3>3. t[i + 1] = s[i + 1]
      BY <1>2, <1>3, <3>1
    <3>4. h[i] = g[i]
      BY <2>1
    <3>5. h[i + 1] = g[i + 1]
      BY <3>2, <3>3, <3>4
    <3> QED
      BY <3>1, <3>5
  <2>2. 0 \in S
    BY <1>4, <1>9 DEF Flattens
  <2> HIDE DEF S
  <2>3. 0 .. n \subseteq S
    BY <2>1, <2>2, UpTo
  <2>4. n \in S
    BY <2>3
  <2> QED
    BY <2>4 DEF S
<1>12. FlattenSeq(t) = h[n] \o x
  <2>1. n \in 0 .. n
    OBVIOUS
  <2>2. h[n + 1] = h[n] \o t[n + 1]
    BY <1>8, <2>1
  <2> QED
    BY <1>2, <1>3, <1>5, <1>6, <2>2
<1>13. FlattenSeq(s) \in Seq(V)
  BY <1>4 DEF Flattens
<1> QED
  BY <1>1, <1>2, <1>4, <1>11, <1>12, <1>13

\* A part after the other flattens to what the parts flatten to.
LEMMA FlattenConcat ==
  ASSUME NEW V, NEW s \in Seq(Seq(V)), NEW t \in Seq(Seq(V))
  PROVE  FlattenSeq(s \o t) = FlattenSeq(s) \o FlattenSeq(t)
<1>1. PICK n \in Nat : n = Len(t)
  OBVIOUS
<1> DEFINE u(k) == SubSeq(t, 1, k)
           S == {k \in 0 .. n : FlattenSeq(s \o u(k)) = FlattenSeq(s) \o FlattenSeq(u(k))}
<1>2. ASSUME NEW k \in 0 .. n PROVE u(k) \in Seq(Seq(V))
  BY <1>1
<1>3. u(0) = <<>> /\ u(n) = t
  BY <1>1, SubSeqFull, SubSeqEmpty
<1>4. FlattenSeq(s) \in Seq(V) /\ FlattenSeq(<<>>) = <<>>
  <2>1. <<>> \in Seq(V)
    OBVIOUS
  <2> QED
    BY <2>1, FlattenAppend
<1>5. 0 \in S
  <2>1. s \o <<>> = s /\ FlattenSeq(s) \o <<>> = FlattenSeq(s)
    BY <1>4
  <2> HIDE DEF u
  <2>2. FlattenSeq(s \o u(0)) = FlattenSeq(s) \o FlattenSeq(u(0))
    BY <1>3, <1>4, <2>1, Zenon
  <2> QED
    BY <2>2
<1>6. ASSUME NEW k \in 0 .. n - 1, k \in S PROVE k + 1 \in S
  <2>1. u(k + 1) = Append(u(k), t[k + 1]) /\ t[k + 1] \in Seq(V)
    BY <1>1
  <2>2. PICK a, x : a = u(k) /\ x = t[k + 1] /\ a \in Seq(Seq(V)) /\ x \in Seq(V)
    <3>1. k \in 0 .. n
      OBVIOUS
    <3>2. u(k) \in Seq(Seq(V))
      BY <1>2, <3>1
    <3> HIDE DEF u
    <3> QED
      BY <2>1, <3>2
  <2>3. u(k + 1) = Append(a, x) /\ u(k) = a /\ k + 1 \in 0 .. n
    BY <2>1, <2>2
  <2> HIDE DEF u
  <2>4. s \o a \in Seq(Seq(V)) /\ s \o Append(a, x) = Append(s \o a, x)
    BY <2>2, SMTT(30)
  <2>5. FlattenSeq(s \o Append(a, x)) = FlattenSeq(s \o a) \o x
    BY <2>2, <2>4, FlattenAppend
  <2>6. FlattenSeq(Append(a, x)) = FlattenSeq(a) \o x /\ FlattenSeq(a) \in Seq(V)
    BY <2>2, FlattenAppend
  <2>7. FlattenSeq(s \o a) = FlattenSeq(s) \o FlattenSeq(a)
    BY <1>6, <2>3
  <2>8. x \in Seq(V)
    BY <2>2
  <2>9. (FlattenSeq(s) \o FlattenSeq(a)) \o x = FlattenSeq(s) \o (FlattenSeq(a) \o x)
    <3>1. ASSUME NEW p \in Seq(V), NEW q \in Seq(V) PROVE (p \o q) \o x = p \o (q \o x)
      BY <2>8, ConcatAssociative
    <3> QED
      BY <1>4, <2>6, <3>1
  <2>10. FlattenSeq(s \o u(k + 1)) = FlattenSeq(s) \o FlattenSeq(u(k + 1))
    BY <2>3, <2>5, <2>7, <2>9, <2>6
  <2> QED
    BY <2>3, <2>10
<1> HIDE DEF S, u
<1>7. 0 .. n \subseteq S
  BY <1>5, <1>6, UpTo
<1>8. n \in S
  BY <1>7
<1> QED
  BY <1>3, <1>8 DEF S

-----------------------------------------------------------------------------
(* The parse of a growing text.                                          *)

\* What FirstOf() picks.
LEMMA FirstOfIs ==
  ASSUME NEW n \in Nat, NEW S \in SUBSET (1 .. n), S # {}
  PROVE  FirstOf(S) \in S /\ \A j \in S : FirstOf(S) <= j
<1> DEFINE T == {k \in 0 .. n : S \cap (1 .. k) # {} =>
                    \E x \in S \cap (1 .. k) : \A y \in S \cap (1 .. k) : x <= y}
<1>1. 0 \in T
  OBVIOUS
<1>2. ASSUME NEW k \in 0 .. n - 1, k \in T PROVE k + 1 \in T
  <2>1. 1 .. k + 1 = (1 .. k) \cup {k + 1}
    OBVIOUS
  <2>2. CASE S \cap (1 .. k) = {}
    BY <2>1, <2>2
  <2>3. CASE S \cap (1 .. k) # {}
    <3>1. PICK x \in S \cap (1 .. k) : \A y \in S \cap (1 .. k) : x <= y
      BY <1>2, <2>3
    <3> QED
      BY <2>1, <3>1
  <2> QED
    BY <2>2, <2>3
<1> HIDE DEF T
<1>3. 0 .. n \subseteq T
  BY <1>1, <1>2, UpTo
<1>4. n \in T
  BY <1>3
<1>5. \E x \in S : \A y \in S : x <= y
  BY <1>4 DEF T
<1> QED
  BY <1>5 DEF FirstOf

-----------------------------------------------------------------------------
(* The parts that cut a text at a first position.                          *)

LEMMA BlankBegins ==
  ASSUME NEW x \in Text, NEW y \in Text, Begins(x, y)
  PROVE  /\ DropLeadingBlank[x] \in Text
         /\ Begins(DropLeadingBlank[x], DropLeadingBlank[y])
<1> DEFINE NB(t) == {i \in 1 .. Len(t) : t[i] \notin Blank}
<1>1. ASSUME NEW t \in Text
      PROVE  DropLeadingBlank[t] = IF NB(t) = {} THEN <<>> ELSE SubSeq(t, FirstOf(NB(t)), Len(t))
  BY DEF DropLeadingBlank
<1>2. ASSUME NEW t \in Text, NB(t) # {}
      PROVE  FirstOf(NB(t)) \in NB(t) /\ \A j \in NB(t) : FirstOf(NB(t)) <= j
  <2>1. Len(t) \in Nat /\ NB(t) \in SUBSET (1 .. Len(t))
    BY DEF Text
  <2> HIDE DEF NB
  <2> QED
    BY <1>2, <2>1, FirstOfIs
<1>3. ASSUME NEW t \in Text
      PROVE  /\ Len(t) \in Nat /\ t \in Seq(Piece)
             /\ \A i : i \in NB(t) <=> i \in 1 .. Len(t) /\ t[i] \notin Blank
  BY DEF Text
<1> HIDE DEF NB
<1>4. ASSUME NEW t \in Text PROVE DropLeadingBlank[t] \in Text
  <2>1. CASE NB(t) = {}
    <3>1. DropLeadingBlank[t] = <<>>
      BY <1>1, <2>1
    <3> QED
      BY <3>1 DEF Text
  <2>2. CASE NB(t) # {}
    <3>1. PICK k \in 1 .. Len(t) : DropLeadingBlank[t] = SubSeq(t, k, Len(t))
      BY <1>1, <1>2, <1>3, <2>2
    <3>2. SubSeq(t, k, Len(t)) \in Seq(Piece)
      BY <1>3
    <3> QED
      BY <3>1, <3>2 DEF Text
  <2> QED
    BY <2>1, <2>2
<1>5. CASE NB(x) = {}
  <2>1. DropLeadingBlank[x] = <<>> /\ DropLeadingBlank[y] \in Seq(Piece)
    BY <1>1, <1>4, <1>5 DEF Text
  <2>2. Len(<<>>) = 0 /\ Len(DropLeadingBlank[y]) >= 0 /\ 1 .. 0 = {}
    BY <2>1
  <2> QED
    BY <1>4, <2>1, <2>2 DEF Begins
<1>6. CASE NB(x) # {}
  <2>1. PICK k \in NB(x) : k = FirstOf(NB(x)) /\ \A j \in NB(x) : k <= j
    BY <1>2, <1>6
  <2>2. /\ Len(x) \in Nat /\ Len(y) \in Nat /\ k \in 1 .. Len(x)
        /\ Len(x) <= Len(y) /\ \A i \in 1 .. Len(x) : x[i] = y[i]
        /\ x \in Seq(Piece) /\ y \in Seq(Piece)
    BY <1>3 DEF Begins
  <2>3. k \in NB(y) /\ \A j \in NB(y) : k <= j
    <3>1. k \in NB(y)
      BY <1>3, <2>1, <2>2
    <3>2. ASSUME NEW j \in NB(y), j < k PROVE FALSE
      <4>1. j \in 1 .. Len(x) /\ x[j] \notin Blank
        BY <1>3, <2>2, <3>2
      <4> QED
        BY <1>3, <2>1, <3>2, <4>1
    <3>3. \A j \in NB(y) : j \in Nat
      BY <1>3
    <3> QED
      BY <2>2, <3>1, <3>2, <3>3
  <2>4. k = FirstOf(NB(y))
    <3>1. FirstOf(NB(y)) \in NB(y) /\ FirstOf(NB(y)) <= k /\ k <= FirstOf(NB(y))
      BY <1>2, <2>3
    <3>2. FirstOf(NB(y)) \in Nat
      BY <1>3, <3>1
    <3> QED
      BY <2>2, <3>1, <3>2
  <2>5. DropLeadingBlank[x] = SubSeq(x, k, Len(x)) /\ DropLeadingBlank[y] = SubSeq(y, k, Len(y))
    BY <1>1, <1>6, <2>1, <2>3, <2>4
  <2>6. Begins(SubSeq(x, k, Len(x)), SubSeq(y, k, Len(y)))
    <3>1. /\ Len(SubSeq(x, k, Len(x))) = Len(x) - k + 1
          /\ Len(SubSeq(y, k, Len(y))) = Len(y) - k + 1
      BY <2>2
    <3>2. ASSUME NEW i \in 1 .. Len(x) - k + 1
          PROVE  SubSeq(x, k, Len(x))[i] = SubSeq(y, k, Len(y))[i]
      <4>1. SubSeq(x, k, Len(x))[i] = x[k + i - 1]
        BY <2>2
      <4>2. SubSeq(y, k, Len(y))[i] = y[k + i - 1]
        BY <2>2
      <4>3. k + i - 1 \in 1 .. Len(x)
        BY <2>2
      <4> QED
        BY <2>2, <4>1, <4>2, <4>3
    <3> QED
      BY <2>2, <3>1, <3>2 DEF Begins
  <2> QED
    BY <1>4, <2>5, <2>6
<1> QED
  BY <1>5, <1>6

-----------------------------------------------------------------------------
(* The reasoning.                                                          *)

\* A beginning of a text that is not cut within an opening tag has the same
\* reasoning.
LEMMA InsideBegins ==
  ASSUME NEW x \in Text, NEW y \in Text, Begins(x, y), ~Opens(y, Len(x)),
         NEW i \in 1 .. Len(x)
  PROVE  Inside(x, i) <=> Inside(y, i)
<1>1. /\ Len(x) \in Nat /\ Len(y) \in Nat /\ Len(x) <= Len(y)
      /\ \A k \in 1 .. Len(x) : x[k] = y[k]
  BY DEF Begins, Text
<1>2. ASSUME NEW o \in 1 .. i PROVE Opens(x, o) <=> Opens(y, o)
  <2>1. CASE o = Len(x)
    BY <1>1, <2>1 DEF Opens
  <2>2. CASE o # Len(x)
    <3>1. o \in 1 .. Len(x) - 1 /\ o + 1 \in 1 .. Len(x) /\ o \in 1 .. Len(x)
      BY <1>1, <2>2
    <3>2. x[o] = y[o] /\ x[o + 1] = y[o + 1] /\ o \in 1 .. Len(y) - 1
      BY <1>1, <3>1
    <3> QED
      BY <3>1, <3>2 DEF Opens
  <2> QED
    BY <2>1, <2>2
<1>3. ASSUME NEW o \in 1 .. i, NEW c \in o .. i - 2 PROVE Closes(x, c) <=> Closes(y, c)
  <2>1. c \in 1 .. Len(x) - 1 /\ c + 1 \in 1 .. Len(x) /\ c \in 1 .. Len(x)
    BY <1>1
  <2>2. x[c] = y[c] /\ x[c + 1] = y[c + 1] /\ c \in 1 .. Len(y) - 1
    BY <1>1, <2>1
  <2> QED
    BY <2>1, <2>2 DEF Closes
<1> QED
  BY <1>2, <1>3 DEF Inside

\* Such a beginning is as balanced as the text.
LEMMA RegularBegins ==
  ASSUME NEW x \in Text, NEW y \in Text, Begins(x, y), ~Opens(y, Len(x)),
         Balanced(y), ~Doubled(y)
  PROVE  Balanced(x) /\ ~Doubled(x)
<1>1. /\ Len(x) \in Nat /\ Len(y) \in Nat /\ Len(x) <= Len(y)
      /\ \A k \in 1 .. Len(x) : x[k] = y[k]
  BY DEF Begins, Text
<1>2. Balanced(x)
  <2> SUFFICES ASSUME NEW c \in 1 .. Len(x), Closes(x, c) PROVE Inside(x, c)
    BY DEF Balanced
  <2>1. c \in 1 .. Len(x) - 1 /\ c + 1 \in 1 .. Len(x) /\ c \in 1 .. Len(y) - 1
    BY <1>1 DEF Closes
  <2>2. Closes(y, c) /\ c \in 1 .. Len(y)
    BY <1>1, <2>1 DEF Closes
  <2>3. Inside(y, c)
    BY <2>2 DEF Balanced
  <2> QED
    BY <2>3, InsideBegins
<1>3. ~Doubled(x)
  <2> SUFFICES ASSUME NEW i \in 1 .. Len(x) - 1, x[i] = "<", x[i + 1] = "<" PROVE FALSE
    BY DEF Doubled
  <2>1. i \in 1 .. Len(x) /\ i + 1 \in 1 .. Len(x) /\ i \in 1 .. Len(y) - 1
    BY <1>1
  <2>2. y[i] = "<" /\ y[i + 1] = "<"
    BY <1>1, <2>1
  <2> QED
    BY <2>1, <2>2 DEF Doubled
<1> QED
  BY <1>2, <1>3

\* The pieces of a text that are not reasoning, open or closed.
OutsidePieces(t) == [i \in 1 .. Len(t) |-> IF Inside(t, i) THEN <<>> ELSE <<t[i]>>]
Outside(t)       == FlattenSeq(OutsidePieces(t))

LEMMA PiecesType ==
  ASSUME NEW t \in Text
  PROVE  /\ OutsidePieces(t) \in Seq(Seq(Piece)) /\ Len(OutsidePieces(t)) = Len(t)
         /\ Outside(t) \in Text
<1>1. Len(t) \in Nat /\ \A i \in 1 .. Len(t) : t[i] \in Piece
  BY DEF Text
<1>2. \A i \in 1 .. Len(t) : OutsidePieces(t)[i] \in Seq(Piece)
  BY <1>1 DEF OutsidePieces
<1>3. OutsidePieces(t) \in [1 .. Len(t) -> Seq(Piece)]
  BY <1>1, <1>2 DEF OutsidePieces
<1>4. OutsidePieces(t) \in Seq(Seq(Piece)) /\ Len(OutsidePieces(t)) = Len(t)
  BY <1>1, <1>3
<1>5. Outside(t) \in Seq(Piece)
  <2>1. <<>> \in Seq(Piece)
    OBVIOUS
  <2> QED
    BY <1>4, <2>1, FlattenAppend DEF Outside
<1> QED
  BY <1>4, <1>5 DEF Text

LEMMA OutsideSteps ==
  ASSUME NEW t \in Text
  PROVE  \E g : Flattens(Len(t), Piece, OutsidePieces(t), g) /\ Outside(t) = g[Len(t)]
<1>1. PICK p : p = OutsidePieces(t)
  OBVIOUS
<1>2. p \in Seq(Seq(Piece)) /\ Len(p) = Len(t)
  BY <1>1, PiecesType
<1>3. PICK g : Flattens(Len(p), Piece, p, g) /\ FlattenSeq(p) = g[Len(p)]
  BY <1>2, FlattenSteps
<1>4. Outside(t) = FlattenSeq(p)
  BY <1>1 DEF Outside
<1>5. Flattens(Len(t), Piece, OutsidePieces(t), g) /\ Outside(t) = g[Len(t)]
  BY ONLY <1>1, <1>2, <1>3, <1>4, Zenon
<1> QED
  BY <1>5

\* More text adds to them.
LEMMA OutsideBegins ==
  ASSUME NEW x \in Text, NEW y \in Text, Begins(x, y), ~Opens(y, Len(x))
  PROVE  Begins(Outside(x), Outside(y))
<1>1. PICK n \in Nat, m \in Nat :
           /\ n = Len(x) /\ m = Len(y) /\ n <= m
           /\ \A i \in 1 .. n : x[i] = y[i]
  BY DEF Begins, Text
<1>2. PICK g : Flattens(n, Piece, OutsidePieces(x), g) /\ Outside(x) = g[n]
  BY <1>1, OutsideSteps
<1>3. PICK h : Flattens(m, Piece, OutsidePieces(y), h) /\ Outside(y) = h[m]
  BY <1>1, OutsideSteps
<1>4. /\ \A i \in 0 .. n : g[i] \in Seq(Piece)
      /\ \A i \in 0 .. n - 1 : g[i + 1] = g[i] \o OutsidePieces(x)[i + 1]
      /\ \A i \in 0 .. m : h[i] \in Seq(Piece)
      /\ \A i \in 0 .. m - 1 : h[i + 1] = h[i] \o OutsidePieces(y)[i + 1]
      /\ g[0] = <<>> /\ h[0] = <<>>
  BY <1>2, <1>3 DEF Flattens
<1>5. ASSUME NEW i \in 1 .. n PROVE OutsidePieces(x)[i] = OutsidePieces(y)[i]
  <2>1. x[i] = y[i]
    BY <1>1
  <2>2. Inside(x, i) <=> Inside(y, i)
    BY <1>1, InsideBegins
  <2>3. i \in 1 .. Len(x) /\ i \in 1 .. Len(y)
    BY <1>1
  <2> QED
    BY <2>1, <2>2, <2>3 DEF OutsidePieces
<1>6. \A i \in 0 .. n : g[i] = h[i]
  <2> DEFINE S == {i \in 0 .. n : g[i] = h[i]}
  <2>1. ASSUME NEW i \in 0 .. n - 1, i \in S PROVE i + 1 \in S
    <3>1. i + 1 \in 1 .. n /\ i \in 0 .. m - 1
      BY <1>1
    <3>2. g[i + 1] = g[i] \o OutsidePieces(x)[i + 1] /\ h[i + 1] = h[i] \o OutsidePieces(y)[i + 1]
      BY <1>4, <3>1
    <3>3. OutsidePieces(x)[i + 1] = OutsidePieces(y)[i + 1]
      BY <1>5, <3>1
    <3>4. g[i + 1] = h[i + 1]
      BY <2>1, <3>2, <3>3
    <3> QED
      BY <3>1, <3>4
  <2>2. 0 \in S
    BY <1>4
  <2> HIDE DEF S
  <2>3. 0 .. n \subseteq S
    BY <2>1, <2>2, UpTo
  <2> QED
    BY <2>3 DEF S
<1>7. \A i \in 0 .. m : i >= n => Begins(h[n], h[i])
  <2> DEFINE S == {i \in 0 .. m : i >= n => Begins(h[n], h[i])}
  <2>1. ASSUME NEW i \in 0 .. m - 1, i \in S PROVE i + 1 \in S
    <3>1. CASE i + 1 < n
      BY <3>1
    <3>2. CASE i + 1 = n
      <4>1. Begins(h[n], h[n])
        BY <1>1, <1>4 DEF Begins
      <4> QED
        BY <3>2, <4>1
    <3>3. CASE i >= n
      <4>1. Begins(h[n], h[i]) /\ h[i] \in Seq(Piece) /\ h[n] \in Seq(Piece)
        BY <1>1, <1>4, <2>1, <3>3
      <4>2. OutsidePieces(y)[i + 1] \in Seq(Piece)
        BY <1>1, PiecesType
      <4>3. h[i + 1] = h[i] \o OutsidePieces(y)[i + 1]
        BY <1>4
      <4>4. Begins(h[i], h[i + 1]) /\ h[i + 1] \in Seq(Piece)
        BY <4>1, <4>2, <4>3, ConcatBegins
      <4>5. Begins(h[n], h[i + 1])
        BY <4>1, <4>4, BeginsTransitive
      <4> QED
        BY <4>5
    <3> QED
      BY <3>1, <3>2, <3>3
  <2>2. 0 \in S
    <3>1. n = 0 => Begins(h[n], h[0])
      BY <1>4 DEF Begins
    <3> QED
      BY <3>1
  <2> HIDE DEF S
  <2>3. 0 .. m \subseteq S
    BY <2>1, <2>2, UpTo
  <2> QED
    BY <2>3 DEF S
<1>8. g[n] = h[n] /\ Begins(h[n], h[m])
  BY <1>1, <1>6, <1>7
<1> QED
  BY <1>2, <1>3, <1>8

\* An opening tag that is never closed.
NeverClosed(t, o) == Opens(t, o) /\ \A c \in o .. Len(t) : ~Closes(t, c)

\* What the pairs leave of the first i pieces: the pieces outside, b, which have no
\* tag, then w, which goes from the opening tag that is never closed up to piece i.
LeftOf(t, i, a, b, w) ==
  /\ a = b \o w
  /\ \A k \in 1 .. Len(b) - 1 : b[k] = "<" => b[k + 1] \notin {"think>", "/think>"}
  /\ Len(b) > 0 /\ b[Len(b)] = "<" => w = <<>> /\ i > 0 /\ t[i] = "<" /\ ~Inside(t, i)
  /\ \/ w = <<>> /\ \A o \in 1 .. i : ~NeverClosed(t, o)
     \/ \E o \in 1 .. i : /\ NeverClosed(t, o) /\ Len(w) = i - o + 1
                          /\ \A k \in 1 .. Len(w) : w[k] = t[o + k - 1]

\* One more piece.
LEMMA LeftStep ==
  ASSUME NEW t \in Text, Balanced(t), ~Doubled(t), NEW i \in 0 .. Len(t) - 1,
         NEW b \in Seq(Piece), NEW w \in Seq(Piece), NEW a, LeftOf(t, i, a, b, w)
  PROVE  \E v \in Seq(Piece) :
           LeftOf(t, i + 1, a \o (IF InPair(t, i + 1) THEN <<>> ELSE <<t[i + 1]>>),
                b \o (IF Inside(t, i + 1) THEN <<>> ELSE <<t[i + 1]>>), v)
<1>1. /\ Len(t) \in Nat /\ i \in Nat /\ i + 1 \in 1 .. Len(t)
      /\ t[i + 1] \in Piece /\ <<t[i + 1]>> \in Seq(Piece)
  BY DEF Text
<1>2. /\ a = b \o w /\ a \in Seq(Piece) /\ a \o <<>> = a /\ b \o <<>> = b
      /\ Len(b) \in Nat /\ Len(w) \in Nat
      /\ \A k \in 1 .. Len(b) - 1 : b[k] = "<" => b[k + 1] \notin {"think>", "/think>"}
      /\ Len(b) > 0 /\ b[Len(b)] = "<" => w = <<>> /\ i > 0 /\ t[i] = "<" /\ ~Inside(t, i)
  BY DEF LeftOf
<1>3. \/ w = <<>> /\ \A o \in 1 .. i : ~NeverClosed(t, o)
      \/ \E o \in 1 .. i : /\ NeverClosed(t, o) /\ Len(w) = i - o + 1
                           /\ \A k \in 1 .. Len(w) : w[k] = t[o + k - 1]
  BY DEF LeftOf
\* Reasoning that begins with piece i + 1 begins with a tag there.
<1>4. ASSUME Inside(t, i + 1), i > 0, ~Inside(t, i) PROVE Opens(t, i + 1)
  <2>1. PICK o \in 1 .. i + 1 : Opens(t, o) /\ \A c \in o .. i + 1 - 2 : ~Closes(t, c)
    BY <1>4 DEF Inside
  <2>2. o = i + 1
    <3> SUFFICES ASSUME o # i + 1 PROVE FALSE
      OBVIOUS
    <3>1. o \in 1 .. i /\ \A c \in o .. i - 2 : ~Closes(t, c)
      BY <1>1, <2>1
    <3> QED
      BY <1>4, <2>1, <3>1 DEF Inside
  <2> QED
    BY <2>1, <2>2
\* Such a tag does not follow a "<".
<1>5. ASSUME Inside(t, i + 1) PROVE ~(Len(b) > 0 /\ b[Len(b)] = "<")
  <2> SUFFICES ASSUME Len(b) > 0, b[Len(b)] = "<" PROVE FALSE
    OBVIOUS
  <2>1. i > 0 /\ t[i] = "<" /\ ~Inside(t, i)
    BY <1>2
  <2>2. t[i + 1] = "<"
    BY <1>4, <1>5, <2>1 DEF Opens
  <2>3. i \in 1 .. Len(t) - 1
    BY <1>1, <2>1
  <2> QED
    BY <2>1, <2>2, <2>3 DEF Doubled
<1>6. CASE InPair(t, i + 1)
  <2>1. Inside(t, i + 1)
    BY <1>6 DEF InPair
  <2>2. PICK c \in i + 1 - 1 .. Len(t) : Closes(t, c)
    BY <1>6 DEF InPair
  <2>3. ASSUME NEW o \in 1 .. i + 1, NeverClosed(t, o) PROVE FALSE
    <3>1. Opens(t, o) /\ ~(c \in o .. Len(t))
      BY <2>2, <2>3 DEF NeverClosed
    <3>2. o = i + 1 /\ c = i
      BY <1>1, <3>1
    <3> QED
      BY <2>2, <3>1, <3>2 DEF Opens, Closes
  <2>4. w = <<>>
    <3>1. \A o \in 1 .. i : o \in 1 .. i + 1
      BY <1>1
    <3> QED
      BY <1>3, <2>3, <3>1
  <2>5. LeftOf(t, i + 1, a, b, w)
    BY <1>2, <1>5, <2>1, <2>3, <2>4 DEF LeftOf
  <2> QED
    BY <1>2, <1>6, <2>1, <2>5
<1>7. CASE ~InPair(t, i + 1) /\ Inside(t, i + 1)
  <2>1. \A c \in i .. Len(t) : ~Closes(t, c)
    <3>1. i + 1 - 1 = i
      BY <1>1
    <3> QED
      BY <1>7, <3>1 DEF InPair
  <2>2. PICK o \in 1 .. i + 1 : Opens(t, o) /\ \A c \in o .. i + 1 - 2 : ~Closes(t, c)
    BY <1>7 DEF Inside
  <2>3. NeverClosed(t, o)
    <3> SUFFICES ASSUME NEW c \in o .. Len(t) PROVE ~Closes(t, c)
      BY <2>2 DEF NeverClosed
    <3>1. c \in o .. i + 1 - 2 \/ c \in i .. Len(t)
      BY <1>1
    <3> QED
      BY <2>1, <2>2, <3>1
  <2>4. PICK v : v = Append(w, t[i + 1])
    OBVIOUS
  <2>5. /\ v \in Seq(Piece) /\ Len(v) = Len(w) + 1 /\ v[Len(w) + 1] = t[i + 1]
        /\ \A k \in 1 .. Len(w) : v[k] = w[k]
        /\ a \o <<t[i + 1]>> = b \o v
    <3>1. v = w \o <<t[i + 1]>>
      BY <1>1, <2>4, AppendIsConcat
    <3>2. /\ v \in Seq(Piece) /\ Len(v) = Len(w) + 1 /\ v[Len(w) + 1] = t[i + 1]
          /\ \A k \in 1 .. Len(w) : v[k] = w[k]
      BY <1>1, <2>4
    <3>3. (b \o w) \o <<t[i + 1]>> = b \o (w \o <<t[i + 1]>>)
      BY <1>1, ConcatAssociative
    <3> QED
      BY <1>2, <3>1, <3>2, <3>3
  <2>6. \E x \in 1 .. i + 1 : /\ NeverClosed(t, x) /\ Len(v) = (i + 1) - x + 1
                              /\ \A k \in 1 .. Len(v) : v[k] = t[x + k - 1]
    <3>1. CASE w = <<>> /\ \A x \in 1 .. i : ~NeverClosed(t, x)
      <4>1. o = i + 1
        <5>1. ~(o \in 1 .. i)
          BY <2>3, <3>1
        <5> QED
          BY <1>1, <5>1
      <4>2. Len(v) = 1 /\ v[1] = t[i + 1]
        BY <2>5, <3>1
      <4>3. \A k \in 1 .. Len(v) : v[k] = t[o + k - 1]
        <5> SUFFICES ASSUME NEW k \in 1 .. Len(v) PROVE v[k] = t[o + k - 1]
          OBVIOUS
        <5>1. k = 1 /\ o + k - 1 = i + 1
          BY <1>1, <4>1, <4>2
        <5> QED
          BY <4>2, <5>1
      <4>4. Len(v) = (i + 1) - o + 1
        BY <1>1, <4>1, <4>2
      <4> QED
        BY <2>3, <4>3, <4>4
    <3>2. ASSUME NEW x \in 1 .. i, NeverClosed(t, x), Len(w) = i - x + 1,
                 \A k \in 1 .. Len(w) : w[k] = t[x + k - 1]
          PROVE  /\ x \in 1 .. i + 1 /\ Len(v) = (i + 1) - x + 1
                 /\ \A k \in 1 .. Len(v) : v[k] = t[x + k - 1]
      <4>1. x \in 1 .. i + 1 /\ Len(v) = (i + 1) - x + 1
        BY <1>1, <2>5, <3>2
      <4>2. ASSUME NEW k \in 1 .. Len(v) PROVE v[k] = t[x + k - 1]
        <5>1. CASE k \in 1 .. Len(w)
          BY <2>5, <3>2, <5>1
        <5>2. CASE k \notin 1 .. Len(w)
          <6>1. k = Len(w) + 1
            BY <1>2, <2>5, <5>2
          <6>2. x + k - 1 = i + 1
            BY <1>1, <3>2, <6>1
          <6> QED
            BY <2>5, <6>1, <6>2
        <5> QED
          BY <5>1, <5>2
      <4> QED
        BY <4>1, <4>2
    <3> QED
      BY <1>3, <3>1, <3>2
  <2>7. LeftOf(t, i + 1, a \o <<t[i + 1]>>, b, v)
    <3>1. ~(Len(b) > 0 /\ b[Len(b)] = "<")
      BY <1>5, <1>7
    <3>2. a \o <<t[i + 1]>> = b \o v
      BY <2>5
    <3>3. \A k \in 1 .. Len(b) - 1 : b[k] = "<" => b[k + 1] \notin {"think>", "/think>"}
      BY <1>2
    <3>4. PICK x, n : x = a \o <<t[i + 1]>> /\ n = i + 1
      OBVIOUS
    <3>5. LeftOf(t, n, x, b, v)
      <4>1. \E o1 \in 1 .. n : /\ NeverClosed(t, o1) /\ Len(v) = n - o1 + 1
                             /\ \A k \in 1 .. Len(v) : v[k] = t[o1 + k - 1]
        BY ONLY <2>6, <3>4, Zenon
      <4>2. x = b \o v
        BY ONLY <3>2, <3>4, Zenon
      <4> QED
        BY ONLY <3>1, <3>3, <4>1, <4>2, Zenon DEF LeftOf
    <3> QED
      BY ONLY <3>4, <3>5, Zenon
  <2> QED
    BY <1>2, <1>7, <2>5, <2>7
<1>8. CASE ~InPair(t, i + 1) /\ ~Inside(t, i + 1)
  <2>1. ASSUME NEW o \in 1 .. i + 1, NeverClosed(t, o) PROVE FALSE
    <3>1. Opens(t, o) /\ \A c \in o .. i + 1 - 2 : ~Closes(t, c)
      BY <1>1, <2>1 DEF NeverClosed
    <3> QED
      BY <1>8, <3>1 DEF Inside
  <2>2. w = <<>>
    <3>1. \A o \in 1 .. i : o \in 1 .. i + 1
      BY <1>1
    <3> QED
      BY <1>3, <2>1, <3>1
  <2>3. PICK d : d = Append(b, t[i + 1])
    OBVIOUS
  <2>4. /\ d \in Seq(Piece) /\ Len(d) = Len(b) + 1 /\ d[Len(b) + 1] = t[i + 1]
        /\ \A k \in 1 .. Len(b) : d[k] = b[k]
    BY <1>1, <2>3
  <2>5. b \o <<t[i + 1]>> = d /\ a \o <<t[i + 1]>> = d \o <<>>
    BY <1>1, <1>2, <2>2, <2>3
  <2>6. ASSUME Len(b) > 0, b[Len(b)] = "<" PROVE t[i + 1] \notin {"think>", "/think>"}
    <3>1. i > 0 /\ t[i] = "<" /\ ~Inside(t, i) /\ i \in 1 .. Len(t) - 1 /\ i \in 1 .. Len(t)
      BY <1>1, <1>2, <2>6
    <3>2. ~Opens(t, i)
      <4> SUFFICES ASSUME Opens(t, i) PROVE FALSE
        OBVIOUS
      <4>1. i \in 1 .. i + 1 /\ \A c \in i .. i + 1 - 2 : ~Closes(t, c)
        BY <1>1, <3>1
      <4> QED
        BY <1>8, <4>1 DEF Inside
    <3>3. ~Closes(t, i)
      BY <3>1 DEF Balanced
    <3> QED
      BY <3>1, <3>2, <3>3 DEF Opens, Closes
  <2>7. \A k \in 1 .. Len(d) - 1 : d[k] = "<" => d[k + 1] \notin {"think>", "/think>"}
    <3> SUFFICES ASSUME NEW k \in 1 .. Len(d) - 1, d[k] = "<"
                 PROVE  d[k + 1] \notin {"think>", "/think>"}
      OBVIOUS
    <3>1. CASE k = Len(b)
      <4>1. Len(b) > 0 /\ b[Len(b)] = "<"
        BY <1>2, <2>4, <3>1
      <4> QED
        BY <2>4, <2>6, <3>1, <4>1
    <3>2. CASE k # Len(b)
      <4>1. k \in 1 .. Len(b) - 1 /\ k \in 1 .. Len(b) /\ k + 1 \in 1 .. Len(b)
        BY <1>2, <2>4, <3>2
      <4> QED
        BY <1>2, <2>4, <4>1
    <3> QED
      BY <3>1, <3>2
  <2>8. d[Len(d)] = "<" => i + 1 > 0 /\ t[i + 1] = "<" /\ ~Inside(t, i + 1)
    BY <1>1, <1>8, <2>4
  <2>9. LeftOf(t, i + 1, d \o <<>>, d, <<>>)
    BY <2>1, <2>7, <2>8 DEF LeftOf
  <2>10. <<>> \in Seq(Piece)
    OBVIOUS
  <2> QED
    BY <1>8, <2>5, <2>9, <2>10
<1> QED
  BY <1>6, <1>7, <1>8 DEF InPair

\* Dropping the pairs, then what was not closed, leaves the pieces outside.
LEMMA DropsReasoning ==
  ASSUME NEW t \in Text, Balanced(t), ~Doubled(t)
  PROVE  DropUnclosed[DropDangling[DropPairs[t]]] = Outside(t)
<1> DEFINE P == [i \in 1 .. Len(t) |-> IF InPair(t, i) THEN <<>> ELSE <<t[i]>>]
<1>1. PICK n \in Nat : n = Len(t) /\ \A i \in 1 .. n : t[i] \in Piece
  BY DEF Text
<1>2. P \in Seq(Seq(Piece)) /\ Len(P) = n /\ \A i \in 1 .. n :
         P[i] = IF InPair(t, i) THEN <<>> ELSE <<t[i]>>
  <2>1. \A i \in 1 .. n : P[i] \in Seq(Piece)
    BY <1>1
  <2>2. P \in [1 .. n -> Seq(Piece)]
    BY <1>1, <2>1
  <2> QED
    BY <1>1, <2>2
<1>3. DropPairs[t] = FlattenSeq(P)
  BY DEF DropPairs
<1> HIDE DEF P
<1>4. PICK g : Flattens(n, Piece, P, g) /\ DropPairs[t] = g[n]
  BY <1>2, <1>3, FlattenSteps
<1>5. PICK h : Flattens(n, Piece, OutsidePieces(t), h) /\ Outside(t) = h[n]
  BY <1>1, PiecesType, FlattenSteps DEF Outside
<1>6. \A i \in 1 .. n : OutsidePieces(t)[i] = IF Inside(t, i) THEN <<>> ELSE <<t[i]>>
  BY <1>1 DEF OutsidePieces
<1>7. \A i \in 0 .. n : \E w \in Seq(Piece) : LeftOf(t, i, g[i], h[i], w)
  <2> DEFINE S == {i \in 0 .. n : \E w \in Seq(Piece) : LeftOf(t, i, g[i], h[i], w)}
  <2>1. ASSUME NEW i \in 0 .. n - 1, i \in S PROVE i + 1 \in S
    <3>1. PICK w \in Seq(Piece) : LeftOf(t, i, g[i], h[i], w)
      BY <2>1
    <3>2. h[i] \in Seq(Piece) /\ i + 1 \in 1 .. n /\ i + 1 \in 0 .. n
      BY <1>5 DEF Flattens
    <3>3. PICK v \in Seq(Piece) :
            LeftOf(t, i + 1, g[i] \o (IF InPair(t, i + 1) THEN <<>> ELSE <<t[i + 1]>>),
                 h[i] \o (IF Inside(t, i + 1) THEN <<>> ELSE <<t[i + 1]>>), v)
      BY <1>1, <3>1, <3>2, LeftStep
    <3>4. g[i + 1] = g[i] \o P[i + 1] /\ h[i + 1] = h[i] \o OutsidePieces(t)[i + 1]
      BY <1>4, <1>5 DEF Flattens
    <3>5. /\ P[i + 1] = IF InPair(t, i + 1) THEN <<>> ELSE <<t[i + 1]>>
          /\ OutsidePieces(t)[i + 1] = IF Inside(t, i + 1) THEN <<>> ELSE <<t[i + 1]>>
      BY <1>2, <1>6, <3>2
    <3>6. LeftOf(t, i + 1, g[i + 1], h[i + 1], v)
      BY <3>3, <3>4, <3>5
    <3> QED
      BY <3>2, <3>6
  <2>2. 0 \in S
    <3>1. g[0] = <<>> /\ h[0] = <<>> /\ <<>> \o <<>> = <<>> /\ <<>> \in Seq(Piece)
      BY <1>4, <1>5 DEF Flattens
    <3>2. Len(<<>>) = 0 /\ 1 .. 0 = {} /\ 1 .. 0 - 1 = {}
      OBVIOUS
    <3>3. LeftOf(t, 0, <<>>, <<>>, <<>>)
      BY <3>1, <3>2 DEF LeftOf
    <3>4. LeftOf(t, 0, g[0], h[0], <<>>)
      BY <3>1, <3>3, Zenon
    <3>5. \E w \in Seq(Piece) : LeftOf(t, 0, g[0], h[0], w)
      BY <3>1, <3>4
    <3> QED
      BY <3>5
  <2> HIDE DEF S
  <2>3. 0 .. n \subseteq S
    BY <2>1, <2>2, UpTo
  <2> QED
    BY <2>3 DEF S
<1>8. PICK a, b, w \in Seq(Piece) :
         /\ a = DropPairs[t] /\ b = Outside(t) /\ a \in Seq(Piece) /\ b \in Seq(Piece)
         /\ LeftOf(t, n, a, b, w)
  <2>1. g[n] \in Seq(Piece) /\ h[n] \in Seq(Piece)
    BY <1>4, <1>5 DEF Flattens
  <2>2. \E w \in Seq(Piece) : LeftOf(t, n, g[n], h[n], w)
    BY <1>7
  <2> QED
    BY <1>4, <1>5, <2>1, <2>2
<1>9. /\ Len(b) \in Nat /\ Len(w) \in Nat /\ Len(a) = Len(b) + Len(w) /\ a = b \o w
      /\ \A k \in 1 .. Len(b) : a[k] = b[k]
      /\ \A k \in 1 .. Len(w) : a[Len(b) + k] = w[k]
      /\ \A k \in 1 .. Len(b) - 1 : b[k] = "<" => b[k + 1] \notin {"think>", "/think>"}
      /\ Len(b) > 0 /\ b[Len(b)] = "<" => w = <<>>
  <2>1. /\ a = b \o w
        /\ \A k \in 1 .. Len(b) - 1 : b[k] = "<" => b[k + 1] \notin {"think>", "/think>"}
        /\ Len(b) > 0 /\ b[Len(b)] = "<" => w = <<>>
    BY <1>8 DEF LeftOf
  <2> QED
    BY <1>8, <2>1, ConcatBegins DEF Begins
<1>10. a \in Text /\ b \in Text
  BY <1>8 DEF Text
\* No tag begins in the pieces outside.
<1>11. ASSUME NEW k \in 1 .. Len(b) PROVE ~Opens(a, k) /\ ~Closes(a, k)
  <2>1. CASE k = Len(b)
    <3>1. CASE w = <<>>
      <4>1. Len(a) = k
        BY <1>9, <2>1, <3>1
      <4> QED
        BY <1>9, <4>1 DEF Opens, Closes
    <3>2. CASE w # <<>>
      BY <1>9, <2>1, <3>2 DEF Opens, Closes
    <3> QED
      BY <3>1, <3>2
  <2>2. CASE k # Len(b)
    <3>1. k \in 1 .. Len(b) - 1 /\ k + 1 \in 1 .. Len(b)
      BY <1>9, <2>2
    <3>2. a[k] = b[k] /\ a[k + 1] = b[k + 1]
      BY <1>9, <3>1
    <3> QED
      BY <1>9, <3>1, <3>2 DEF Opens, Closes
  <2> QED
    BY <2>1, <2>2
<1>12. CASE w = <<>> /\ \A o \in 1 .. n : ~NeverClosed(t, o)
  <2>1. a = b /\ Len(a) = Len(b)
    BY <1>8, <1>9, <1>12
  <2>2. \A k \in 1 .. Len(a) : ~Opens(a, k) /\ ~Closes(a, k)
    BY <1>11, <2>1
  <2>3. DropDangling[a] = a /\ DropUnclosed[a] = a
    BY <1>10, <2>2 DEF DropDangling, DropUnclosed
  <2> QED
    BY <1>8, <2>1, <2>3
<1>13. ASSUME NEW o \in 1 .. n, NeverClosed(t, o), Len(w) = n - o + 1,
              \A k \in 1 .. Len(w) : w[k] = t[o + k - 1]
       PROVE  DropUnclosed[DropDangling[DropPairs[t]]] = Outside(t)
  <2>1. /\ o \in 1 .. n - 1 /\ t[o] = "<" /\ t[o + 1] = "think>"
        /\ \A c \in o .. n : ~Closes(t, c)
    BY <1>1, <1>13 DEF NeverClosed, Opens
  <2>2. 1 \in 1 .. Len(w) /\ 2 \in 1 .. Len(w)
    BY <1>1, <1>13, <2>1
  <2>3. w[1] = "<" /\ w[2] = "think>"
    <3>1. o + 1 - 1 = o /\ o + 2 - 1 = o + 1
      BY <1>1
    <3>2. w[1] = t[o + 1 - 1] /\ w[2] = t[o + 2 - 1]
      BY <1>13, <2>2
    <3> QED
      BY <2>1, <3>1, <3>2
  <2>4. Opens(a, Len(b) + 1) /\ Len(b) + 1 \in 1 .. Len(a)
    <3>1. a[Len(b) + 1] = "<" /\ a[Len(b) + 2] = "think>"
      BY <1>9, <2>2, <2>3
    <3>2. Len(b) + 1 \in 1 .. Len(a) - 1 /\ Len(b) + 1 + 1 = Len(b) + 2
      BY <1>9, <2>2
    <3> QED
      BY <1>9, <3>1, <3>2 DEF Opens
  <2>5. ASSUME NEW k \in 1 .. Len(a), Closes(a, k) PROVE FALSE
    <3>1. ~(k \in 1 .. Len(b))
      BY <1>11, <2>5
    <3>2. PICK j \in 1 .. Len(w) : k = Len(b) + j
      <4>1. k - Len(b) \in 1 .. Len(w) /\ k = Len(b) + (k - Len(b))
        BY <1>9, <3>1
      <4> QED
        BY <4>1
    <3>3. k \in 1 .. Len(a) - 1 /\ a[k] = "<" /\ a[k + 1] = "/think>"
      BY <2>5 DEF Closes
    <3>4. j \in 1 .. Len(w) - 1 /\ j + 1 \in 1 .. Len(w) /\ k + 1 = Len(b) + (j + 1)
      BY <1>9, <3>2, <3>3
    <3>5. w[j] = "<" /\ w[j + 1] = "/think>"
      BY <1>9, <3>2, <3>3, <3>4
    <3>6. t[o + j - 1] = "<" /\ t[o + (j + 1) - 1] = "/think>"
      BY <1>13, <3>4, <3>5
    <3>7. o + j - 1 \in o .. n /\ o + j - 1 \in 1 .. n - 1 /\ o + (j + 1) - 1 = (o + j - 1) + 1
      BY <1>1, <1>13, <3>4
    <3>8. Closes(t, o + j - 1)
      BY <1>1, <3>6, <3>7 DEF Closes
    <3> QED
      BY <2>1, <3>7, <3>8
  <2>6. DropDangling[a] = a
    BY <1>10, <2>5 DEF DropDangling
  <2>7. PICK O : O = {k \in 1 .. Len(a) : Opens(a, k)}
    OBVIOUS
  <2>8. FirstOf(O) = Len(b) + 1
    <3>1. O \in SUBSET (1 .. Len(a)) /\ Len(a) \in Nat /\ Len(b) + 1 \in O
      BY <1>8, <2>4, <2>7
    <3>2. FirstOf(O) \in O /\ FirstOf(O) <= Len(b) + 1
      BY <3>1, FirstOfIs
    <3>3. FirstOf(O) \in 1 .. Len(a) /\ Opens(a, FirstOf(O))
      BY <2>7, <3>2
    <3>4. ~(FirstOf(O) \in 1 .. Len(b))
      BY <1>11, <3>3
    <3> QED
      BY <1>9, <3>2, <3>3, <3>4
  <2>9. DropUnclosed[a] = SubSeq(a, 1, Len(b))
    <3>1. DropUnclosed[a] = SubSeq(a, 1, FirstOf(O) - 1)
      BY <1>10, <2>4, <2>7 DEF DropUnclosed
    <3>2. Len(b) + 1 - 1 = Len(b)
      BY <1>9
    <3> QED
      BY <2>8, <3>1, <3>2
  <2>10. SubSeq(a, 1, Len(b)) = b
    <3>1. /\ SubSeq(a, 1, Len(b)) \in Seq(Piece) /\ Len(SubSeq(a, 1, Len(b))) = Len(b)
          /\ \A k \in 1 .. Len(b) : SubSeq(a, 1, Len(b))[k] = a[k]
      BY <1>8, <1>9
    <3> QED
      BY <1>8, <1>9, <3>1, SeqEqual
  <2> QED
    BY <1>8, <2>6, <2>9, <2>10
<1>14. \/ w = <<>> /\ \A o \in 1 .. n : ~NeverClosed(t, o)
       \/ \E o \in 1 .. n : /\ NeverClosed(t, o) /\ Len(w) = n - o + 1
                            /\ \A k \in 1 .. Len(w) : w[k] = t[o + k - 1]
  BY <1>8 DEF LeftOf
<1> QED
  BY <1>12, <1>13, <1>14

\* What is shown of a content begins with what is shown of its first pieces: a
\* stream may send what a partial parse reveals, unless it is cut within an opening
\* tag, or the tags of the content are not regular.
THEOREM ContentGrows ==
  ASSUME NEW strip \in BOOLEAN, NEW x \in Text, NEW y \in Text, Begins(x, y),
         Regular(strip, y, {Len(x)})
  PROVE  /\ Shown(strip, x) \in Text /\ Shown(strip, y) \in Text
         /\ Begins(Shown(strip, x), Shown(strip, y))
<1>1. CASE ~strip
  BY <1>1 DEF Shown
<1>2. CASE strip
  <2>1. Balanced(y) /\ ~Doubled(y) /\ ~Opens(y, Len(x))
    BY <1>2 DEF Regular
  <2>2. Balanced(x) /\ ~Doubled(x)
    BY <2>1, RegularBegins
  <2>3. /\ StripThinking[x] = DropLeadingBlank[Outside(x)]
        /\ StripThinking[y] = DropLeadingBlank[Outside(y)]
    BY <2>1, <2>2, DropsReasoning DEF StripThinking
  <2>4. Outside(x) \in Text /\ Outside(y) \in Text /\ Begins(Outside(x), Outside(y))
    BY <2>1, PiecesType, OutsideBegins
  <2>5. /\ DropLeadingBlank[Outside(x)] \in Text /\ DropLeadingBlank[Outside(y)] \in Text
        /\ Begins(DropLeadingBlank[Outside(x)], DropLeadingBlank[Outside(y)])
    <3>1. Begins(Outside(y), Outside(y))
      BY <2>4 DEF Begins, Text
    <3> QED
      BY <2>4, <3>1, BlankBegins
  <2> QED
    BY <1>2, <2>3, <2>5 DEF Shown
<1> QED
  BY <1>1, <1>2

-----------------------------------------------------------------------------
(* The parse of a growing text.                                            *)

\* Where the markup of a tool call begins.
LEMMA MarkupIs ==
  ASSUME NEW t \in Text, Marked(t)
  PROVE  /\ MarkupAt(t) \in 1 .. Len(t) - 1 /\ Markup(t, MarkupAt(t))
         /\ \A i \in 1 .. Len(t) : Markup(t, i) => MarkupAt(t) <= i
<1>1. PICK S : S = {i \in 1 .. Len(t) : Markup(t, i)}
  OBVIOUS
<1>2. Len(t) \in Nat /\ S \in SUBSET (1 .. Len(t)) /\ S # {} /\ MarkupAt(t) = FirstOf(S)
  BY <1>1 DEF Marked, MarkupAt, Text
<1>3. FirstOf(S) \in S /\ \A j \in S : FirstOf(S) <= j
  BY <1>2, FirstOfIs
<1> QED
  BY <1>1, <1>2, <1>3 DEF Markup

\* What comes before the markup begins the text.
LEMMA PreludeIs ==
  ASSUME NEW t \in Text
  PROVE  Prelude(t) \in Text /\ Begins(Prelude(t), t)
<1>1. Len(t) \in Nat /\ t \in Seq(Piece)
  BY DEF Text
<1>2. ASSUME NEW k \in 0 .. Len(t) PROVE SubSeq(t, 1, k) \in Text /\ Begins(SubSeq(t, 1, k), t)
  BY <1>1 DEF Begins, Text
<1>3. CASE Marked(t)
  <2>1. MarkupAt(t) - 1 \in 0 .. Len(t)
    BY <1>1, <1>3, MarkupIs
  <2> QED
    BY <1>2, <1>3, <2>1 DEF Prelude
<1>4. CASE ~Marked(t) /\ EndsInMarkup(t)
  <2>1. Len(t) - 1 \in 0 .. Len(t)
    BY <1>1, <1>4, EmptySeq DEF EndsInMarkup
  <2> QED
    BY <1>2, <1>4, <2>1 DEF Prelude, Front
<1>5. CASE ~Marked(t) /\ ~EndsInMarkup(t)
  BY <1>1, <1>5 DEF Prelude, Begins
<1> QED
  BY <1>3, <1>4, <1>5

\* More text adds to it.
LEMMA PreludeBegins ==
  ASSUME NEW x \in Text, NEW y \in Text, Begins(x, y)
  PROVE  Begins(Prelude(x), Prelude(y))
<1>1. /\ Len(x) \in Nat /\ Len(y) \in Nat /\ Len(x) <= Len(y)
      /\ \A k \in 1 .. Len(x) : x[k] = y[k]
      /\ x \in Seq(Piece) /\ y \in Seq(Piece)
  BY DEF Begins, Text
<1>2. ASSUME NEW i \in 1 .. Len(x) - 1 PROVE Markup(x, i) <=> Markup(y, i)
  <2>1. i \in 1 .. Len(x) /\ i + 1 \in 1 .. Len(x) /\ i \in 1 .. Len(y) - 1
    BY <1>1
  <2> QED
    BY <1>1, <2>1 DEF Markup
<1>3. ASSUME NEW j \in 0 .. Len(x), NEW k \in 0 .. Len(y), j <= k
      PROVE  Begins(SubSeq(x, 1, j), SubSeq(y, 1, k))
  BY <1>1, <1>3 DEF Begins
<1>4. PICK j \in 0 .. Len(x) :
        /\ Prelude(x) = SubSeq(x, 1, j)
        /\ Marked(x) => j = MarkupAt(x) - 1
        /\ ~Marked(x) /\ EndsInMarkup(x) => j = Len(x) - 1
        /\ ~Marked(x) /\ ~EndsInMarkup(x) => j = Len(x)
  <2>1. CASE Marked(x)
    <3>1. MarkupAt(x) - 1 \in 0 .. Len(x)
      BY <1>1, <2>1, MarkupIs
    <3> QED
      BY <2>1, <3>1 DEF Prelude
  <2>2. CASE ~Marked(x) /\ EndsInMarkup(x)
    <3>1. Len(x) - 1 \in 0 .. Len(x)
      BY <1>1, <2>2, EmptySeq DEF EndsInMarkup
    <3> QED
      BY <2>2, <3>1 DEF Prelude, Front
  <2>3. CASE ~Marked(x) /\ ~EndsInMarkup(x)
    <3>1. x = SubSeq(x, 1, Len(x)) /\ Len(x) \in 0 .. Len(x)
      BY <1>1, SubSeqFull
    <3> QED
      BY <2>3, <3>1 DEF Prelude
  <2> QED
    BY <2>1, <2>2, <2>3
<1>5. CASE Marked(y)
  <2>1. /\ MarkupAt(y) \in 1 .. Len(y) - 1 /\ Markup(y, MarkupAt(y))
        /\ \A i \in 1 .. Len(y) : Markup(y, i) => MarkupAt(y) <= i
    BY <1>5, MarkupIs
  <2>2. MarkupAt(y) - 1 \in 0 .. Len(y) /\ Prelude(y) = SubSeq(y, 1, MarkupAt(y) - 1)
    BY <1>1, <1>5, <2>1 DEF Prelude
  <2>3. j <= MarkupAt(y) - 1
    <3>1. CASE MarkupAt(y) \in 1 .. Len(x) - 1
      <4>1. Markup(x, MarkupAt(y)) /\ MarkupAt(y) \in 1 .. Len(x)
        BY <1>1, <1>2, <2>1, <3>1
      <4>2. Marked(x)
        BY <4>1 DEF Marked
      <4>3. MarkupAt(x) <= MarkupAt(y) /\ MarkupAt(x) \in 1 .. Len(x) - 1
        BY <4>1, <4>2, MarkupIs
      <4> QED
        BY <1>1, <1>4, <2>1, <4>2, <4>3
    <3>2. CASE MarkupAt(y) = Len(x)
      <4>1. x[Len(x)] = "[T" /\ Len(x) > 0
        BY <1>1, <2>1, <3>2 DEF Markup
      <4>2. EndsInMarkup(x)
        BY <1>1, <4>1 DEF EndsInMarkup, Last
      <4>3. CASE Marked(x)
        <5>1. MarkupAt(x) \in 1 .. Len(x) - 1
          BY <4>3, MarkupIs
        <5> QED
          BY <1>1, <1>4, <3>2, <4>3, <5>1
      <4> QED
        BY <1>1, <1>4, <3>2, <4>2, <4>3
    <3>3. CASE MarkupAt(y) > Len(x)
      BY <1>1, <1>4, <2>1, <3>3
    <3> QED
      BY <1>1, <2>1, <3>1, <3>2, <3>3
  <2> QED
    BY <1>3, <1>4, <2>2, <2>3
<1>6. CASE ~Marked(y)
  <2>1. ~Marked(x)
    <3> SUFFICES ASSUME Marked(x) PROVE FALSE
      OBVIOUS
    <3>1. MarkupAt(x) \in 1 .. Len(x) - 1 /\ Markup(x, MarkupAt(x))
      BY MarkupIs
    <3>2. Markup(y, MarkupAt(x)) /\ MarkupAt(x) \in 1 .. Len(y)
      BY <1>1, <1>2, <3>1
    <3> QED
      BY <1>6, <3>2 DEF Marked
  <2>2. CASE EndsInMarkup(y)
    <3>1. Len(y) - 1 \in 0 .. Len(y) /\ Prelude(y) = SubSeq(y, 1, Len(y) - 1)
      BY <1>1, <1>6, <2>2, EmptySeq DEF Prelude, Front, EndsInMarkup
    <3>2. j <= Len(y) - 1
      <4>1. CASE Len(x) = Len(y)
        <5>1. EndsInMarkup(x)
          <6>1. Len(y) > 0
            BY <1>1, <2>2, EmptySeq DEF EndsInMarkup
          <6>2. x[Len(x)] = y[Len(y)] /\ y[Len(y)] = "[T" /\ x # <<>>
            BY <1>1, <2>2, <4>1, <6>1 DEF EndsInMarkup, Last
          <6> QED
            BY <6>2 DEF EndsInMarkup, Last
        <5> QED
          BY <1>1, <1>4, <2>1, <4>1, <5>1
      <4>2. CASE Len(x) # Len(y)
        BY <1>1, <1>4, <4>2
      <4> QED
        BY <4>1, <4>2
    <3> QED
      BY <1>3, <1>4, <3>1, <3>2
  <2>3. CASE ~EndsInMarkup(y)
    <3>1. Prelude(y) = SubSeq(y, 1, Len(y)) /\ Len(y) \in 0 .. Len(y) /\ j <= Len(y)
      BY <1>1, <1>4, <1>6, <2>3, SubSeqFull DEF Prelude
    <3> QED
      BY <1>3, <1>4, <3>1
  <2> QED
    BY <2>2, <2>3
<1> QED
  BY <1>5, <1>6

\* The contents are texts.
LEMMA ContentType ==
  ASSUME NEW format \in Format, NEW final \in BOOLEAN, NEW t \in Text
  PROVE  Content(format, final, t) \in Text
<1>1. Prelude(t) \in Text
  BY PreludeIs
<1>2. Prelude(t) \o t \in Text
  BY <1>1 DEF Text
<1>3. ASSUME Closed(t) PROVE SubSeq(t, 2, Len(t) - 1) \in Text /\ <<>> \in Text
  <2>1. t \in Seq(Piece) /\ Len(t) \in Nat
    BY DEF Text
  <2> QED
    BY <2>1 DEF Text
<1>4. format = "text" \/ format = "calls" \/ format = "json"
  BY DEF Format
<1>5. PartialContent(format, t) \in Text
  BY <1>1 DEF PartialContent
<1>6. FinalContent(format, t) \in Text
  BY <1>1, <1>2, <1>3, <1>4 DEF FinalContent, Abandoned
<1> QED
  BY <1>5, <1>6 DEF Content

\* Every parse of a text begins with what a partial parse made of a beginning of it,
\* except where the whole text is one JSON object.
LEMMA ContentBegins ==
  ASSUME NEW format \in Format \ {"json"}, NEW final \in BOOLEAN,
         NEW x \in Text, NEW y \in Text, Begins(x, y)
  PROVE  Begins(Content(format, FALSE, x), Content(format, final, y))
<1>1. format = "text" \/ format = "calls"
  BY DEF Format
<1>2. CASE format = "text"
  BY <1>2 DEF Content, PartialContent, FinalContent
<1>3. CASE format = "calls"
  <2>1. /\ Prelude(x) \in Text /\ Prelude(y) \in Text /\ Begins(Prelude(x), Prelude(y))
    BY PreludeIs, PreludeBegins
  <2>2. Begins(Prelude(y), Abandoned(y)) /\ Abandoned(y) \in Seq(Piece)
    BY <2>1, ConcatBegins DEF Abandoned, Text
  <2>3. Begins(Prelude(x), Abandoned(y))
    BY <2>1, <2>2, BeginsTransitive DEF Text
  <2>4. Content(format, FALSE, x) = Prelude(x)
    BY <1>3 DEF Content, PartialContent
  <2>5. Content(format, final, y) = Prelude(y) \/ Content(format, final, y) = Abandoned(y)
    BY <1>3 DEF Content, PartialContent, FinalContent
  <2> QED
    BY <2>1, <2>3, <2>4, <2>5
<1> QED
  BY <1>1, <1>2, <1>3

-----------------------------------------------------------------------------
(* What the servers do with it.                                            *)

\* What is shown is a text, whatever the tags are.
LEMMA ShownType ==
  ASSUME NEW strip \in BOOLEAN, NEW c \in Text
  PROVE  Shown(strip, c) \in Text
<1>1. ASSUME NEW x \in Text
      PROVE  Len(x) \in Nat /\ x \in Seq(Piece) /\ Begins(x, x)
  BY DEF Text, Begins
<1>2. ASSUME NEW x \in Text PROVE DropPairs[x] \in Text
  <2> DEFINE P == [i \in 1 .. Len(x) |-> IF InPair(x, i) THEN <<>> ELSE <<x[i]>>]
  <2>1. \A i \in 1 .. Len(x) : P[i] \in Seq(Piece)
    BY <1>1
  <2>2. P \in [1 .. Len(x) -> Seq(Piece)]
    BY <1>1, <2>1
  <2>3. P \in Seq(Seq(Piece)) /\ <<>> \in Seq(Piece)
    BY <1>1, <2>2
  <2>4. DropPairs[x] = FlattenSeq(P)
    BY DEF DropPairs
  <2> HIDE DEF P
  <2> QED
    BY <2>3, <2>4, FlattenAppend DEF Text
<1>3. ASSUME NEW x \in Text PROVE DropDangling[x] \in Text
  <2>1. PICK S : S = {k \in 1 .. Len(x) : Closes(x, k)}
    OBVIOUS
  <2>2. CASE S = {}
    BY <2>1, <2>2 DEF DropDangling
  <2>3. CASE S # {}
    <3>1. S \in SUBSET (1 .. Len(x)) /\ \E k \in 1 .. Len(x) : Closes(x, k)
      BY <2>1, <2>3
    <3>2. PICK k \in 1 .. Len(x) : k = FirstOf(S)
      BY <1>1, <2>3, <3>1, FirstOfIs
    <3>3. SubSeq(x, k + 2, Len(x)) \in Seq(Piece)
      BY <1>1
    <3> QED
      BY <2>1, <3>1, <3>2, <3>3 DEF DropDangling, Text
  <2> QED
    BY <2>2, <2>3
<1>4. ASSUME NEW x \in Text PROVE DropUnclosed[x] \in Text
  <2>1. PICK S : S = {k \in 1 .. Len(x) : Opens(x, k)}
    OBVIOUS
  <2>2. CASE S = {}
    BY <2>1, <2>2 DEF DropUnclosed
  <2>3. CASE S # {}
    <3>1. S \in SUBSET (1 .. Len(x)) /\ \E k \in 1 .. Len(x) : Opens(x, k)
      BY <2>1, <2>3
    <3>2. PICK k \in 1 .. Len(x) : k = FirstOf(S)
      BY <1>1, <2>3, <3>1, FirstOfIs
    <3>3. SubSeq(x, 1, k - 1) \in Seq(Piece)
      BY <1>1
    <3> QED
      BY <2>1, <3>1, <3>2, <3>3 DEF DropUnclosed, Text
  <2> QED
    BY <2>2, <2>3
<1>5. ASSUME NEW x \in Text PROVE DropLeadingBlank[x] \in Text
  BY <1>1, BlankBegins
<1>6. PICK d \in Text : d = DropPairs[c]
  BY <1>2
<1>7. PICK e \in Text : e = DropDangling[d]
  BY <1>3
<1>8. PICK f \in Text : f = DropUnclosed[e]
  BY <1>4
<1>9. StripThinking[c] = DropLeadingBlank[f]
  BY <1>6, <1>7, <1>8 DEF StripThinking
<1> QED
  BY <1>5, <1>9 DEF Shown

\* A text that begins a longer one, and the rest of it.
LEMMA RestCompletes ==
  ASSUME NEW e \in Text, NEW p \in Text, IsPrefix(e, p)
  PROVE  LET rest == SubSeq(p, Len(e) + 1, Len(p))
         IN  rest \in Text /\ e \o rest = p
<1>1. /\ Len(e) \in Nat /\ Len(p) \in Nat /\ e \in Seq(Piece) /\ p \in Seq(Piece)
  BY DEF Text
<1>2. Len(e) <= Len(p) /\ \A i \in 1 .. Len(e) : e[i] = p[i]
  BY <1>1, PrefixBegins DEF Begins
<1>3. PICK rest : rest = SubSeq(p, Len(e) + 1, Len(p))
  OBVIOUS
<1>4. /\ rest \in Seq(Piece) /\ Len(rest) = Len(p) - Len(e)
      /\ \A i \in 1 .. Len(p) - Len(e) : rest[i] = p[Len(e) + i]
  <2>1. rest \in Seq(Piece)
    BY <1>1, <1>3
  <2>2. Len(rest) = Len(p) - Len(e)
    BY <1>1, <1>2, <1>3
  <2>3. \A i \in 1 .. Len(p) - Len(e) : rest[i] = p[Len(e) + i]
    BY <1>1, <1>2, <1>3
  <2> QED
    BY <2>1, <2>2, <2>3
<1>5. e \o rest = p
  <2>1. e \o rest \in Seq(Piece) /\ Len(e \o rest) = Len(p)
    BY <1>1, <1>4
  <2>2. ASSUME NEW i \in 1 .. Len(p) PROVE (e \o rest)[i] = p[i]
    <3>1. CASE i <= Len(e)
      BY <1>1, <1>2, <1>4, <3>1
    <3>2. CASE i > Len(e)
      <4>1. PICK j \in 1 .. Len(p) - Len(e) : i = Len(e) + j
        <5>1. i - Len(e) \in 1 .. Len(p) - Len(e) /\ i = Len(e) + (i - Len(e))
          BY <1>1, <3>2
        <5> QED
          BY <5>1
      <4>2. (e \o rest)[Len(e) + j] = rest[j]
        BY <1>1, <1>4, ConcatBegins
      <4> QED
        BY <1>4, <4>1, <4>2
    <3>3. i <= Len(e) \/ i > Len(e)
      BY <1>1
    <3> QED
      BY <3>1, <3>2, <3>3
  <2> QED
    BY <1>1, <2>1, <2>2, SeqEqual
<1> QED
  BY <1>3, <1>4, <1>5 DEF Text

\* What was sent, e, is nothing, or what is shown of the first pieces of content c,
\* as many as at one of the times `at'.
SentOf(strip, c, at, e) ==
  e = <<>> \/ \E n \in at : n \in 0 .. Len(c) /\ e = Shown(strip, SubSeq(c, 1, n))

\* It stays so when the content grows.
LEMMA SentOfGrows ==
  ASSUME NEW strip, NEW c \in Text, NEW d \in Text, NEW at, NEW e,
         Begins(c, d), SentOf(strip, c, at, e)
  PROVE  SentOf(strip, d, at, e)
<1>1. CASE e = <<>>
  BY <1>1 DEF SentOf
<1>2. CASE e # <<>>
  <2>1. PICK n \in at : n \in 0 .. Len(c) /\ e = Shown(strip, SubSeq(c, 1, n))
    BY <1>2 DEF SentOf
  <2>2. /\ Len(c) \in Nat /\ Len(d) \in Nat /\ Len(c) <= Len(d)
        /\ c \in Seq(Piece) /\ d \in Seq(Piece) /\ \A i \in 1 .. Len(c) : c[i] = d[i]
    BY DEF Begins, Text
  <2>3. SubSeq(c, 1, n) = SubSeq(d, 1, n) /\ n \in 0 .. Len(d)
    <3>1. /\ SubSeq(c, 1, n) \in Seq(Piece) /\ SubSeq(d, 1, n) \in Seq(Piece)
          /\ Len(SubSeq(c, 1, n)) = n /\ Len(SubSeq(d, 1, n)) = n
          /\ \A i \in 1 .. n : SubSeq(c, 1, n)[i] = c[i] /\ SubSeq(d, 1, n)[i] = d[i]
      BY <2>1, <2>2
    <3>2. \A i \in 1 .. n : SubSeq(c, 1, n)[i] = SubSeq(d, 1, n)[i]
      BY <2>1, <2>2, <3>1
    <3> QED
      BY <2>1, <2>2, <3>1, <3>2, SeqEqual
  <2> QED
    BY <2>1, <2>3 DEF SentOf
<1> QED
  BY <1>1, <1>2

\* What is shown of the whole content now.
LEMMA SentOfNow ==
  ASSUME NEW strip, NEW c \in Text, NEW at
  PROVE  SentOf(strip, c, at \cup {Len(c)}, Shown(strip, c))
<1>1. c = SubSeq(c, 1, Len(c)) /\ Len(c) \in 0 .. Len(c)
  BY SubSeqFull DEF Text
<1> QED
  BY <1>1 DEF SentOf

\* It begins what is shown of the content.
LEMMA SentOfBegins ==
  ASSUME NEW strip \in BOOLEAN, NEW c \in Text, NEW at, NEW e \in Text,
         SentOf(strip, c, at, e), Regular(strip, c, at)
  PROVE  /\ IsPrefix(e, Shown(strip, c))
         /\ IsStrictPrefix(e, Shown(strip, c)) \/ e = Shown(strip, c)
<1>1. PICK s \in Text : s = Shown(strip, c)
  BY ShownType
<1>2. Begins(e, s)
  <2>1. CASE e = <<>>
    <3>1. Len(e) = 0 /\ Len(s) \in Nat /\ 1 .. 0 = {}
      BY <2>1 DEF Text
    <3> QED
      BY <3>1 DEF Begins
  <2>2. CASE e # <<>>
    <3>1. PICK n \in at : n \in 0 .. Len(c) /\ e = Shown(strip, SubSeq(c, 1, n))
      BY <2>2 DEF SentOf
    <3>2. PICK x : x = SubSeq(c, 1, n)
      OBVIOUS
    <3>3. x \in Text /\ Len(x) = n /\ Begins(x, c)
      BY <3>1, <3>2 DEF Text, Begins
    <3>4. Regular(strip, c, {Len(x)})
      BY <3>1, <3>3 DEF Regular
    <3> QED
      BY <1>1, <3>1, <3>2, <3>3, <3>4, ContentGrows
  <2> QED
    BY <2>1, <2>2
<1>3. IsPrefix(e, s)
  BY <1>2, PrefixBegins DEF Text
<1> QED
  BY <1>1, <1>3 DEF IsStrictPrefix

-----------------------------------------------------------------------------
(* Streams of messages.                                                    *)

\* The texts that the messages of a stream carry.
DeltasOf(s) == [i \in DOMAIN s |-> s[i].delta]
Sends(s)    == FlattenSeq(DeltasOf(s))
\* Every message of F carries a text.
Carry(F)    == \A f \in F : f.delta \in Text

LEMMA DeltasType ==
  ASSUME NEW F, Carry(F), NEW s \in Seq(F)
  PROVE  /\ DeltasOf(s) \in Seq(Seq(Piece)) /\ Len(DeltasOf(s)) = Len(s)
         /\ \A i \in 1 .. Len(s) : DeltasOf(s)[i] = s[i].delta
         /\ Sends(s) \in Text
<1>1. PICK n \in Nat : n = Len(s) /\ DOMAIN s = 1 .. n /\ \A i \in 1 .. n : s[i] \in F
  OBVIOUS
<1>2. ASSUME NEW i \in 1 .. n PROVE s[i].delta \in Seq(Piece)
  BY <1>1 DEF Text, Carry
<1>3. DeltasOf(s) = [i \in 1 .. n |-> s[i].delta]
  BY <1>1 DEF DeltasOf
<1>4. DeltasOf(s) \in [1 .. n -> Seq(Piece)]
  BY <1>2, <1>3
<1>5. DeltasOf(s) \in Seq(Seq(Piece)) /\ Len(DeltasOf(s)) = n
  BY <1>4
<1>6. \A i \in 1 .. n : DeltasOf(s)[i] = s[i].delta
  BY <1>3
<1>7. Sends(s) \in Seq(Piece)
  <2>1. <<>> \in Seq(Piece)
    OBVIOUS
  <2> QED
    BY <1>5, <2>1, FlattenAppend DEF Sends
<1> QED
  BY <1>1, <1>5, <1>6, <1>7 DEF Text

\* What a stream carries after more messages, and what none and one of them carry.
LEMMA SendsConcat ==
  ASSUME NEW F, Carry(F), NEW s \in Seq(F), NEW t \in Seq(F)
  PROVE  Sends(s \o t) = Sends(s) \o Sends(t)
<1>1. PICK W : W = Seq(Piece)
  OBVIOUS
<1>2. PICK st \in Seq(F) :
         /\ st = s \o t /\ Len(st) = Len(s) + Len(t)
         /\ \A i \in 1 .. Len(s) : st[i] = s[i]
         /\ \A i \in 1 .. Len(t) : st[Len(s) + i] = t[i]
  <2>1. /\ s \o t \in Seq(F) /\ Len(s \o t) = Len(s) + Len(t) /\ Begins(s, s \o t)
        /\ \A i \in 1 .. Len(t) : (s \o t)[Len(s) + i] = t[i]
    BY ConcatBegins
  <2>2. \A i \in 1 .. Len(s) : (s \o t)[i] = s[i]
    BY <2>1 DEF Begins
  <2> QED
    BY <2>1, <2>2
<1>3. PICK d \in Seq(W) : d = DeltasOf(s) /\ Len(d) = Len(s)
                          /\ \A i \in 1 .. Len(s) : d[i] = s[i].delta
  BY <1>1, DeltasType
<1>4. PICK e \in Seq(W) : e = DeltasOf(t) /\ Len(e) = Len(t)
                          /\ \A i \in 1 .. Len(t) : e[i] = t[i].delta
  BY <1>1, DeltasType
<1>5. PICK c \in Seq(W) : c = DeltasOf(st) /\ Len(c) = Len(st)
                          /\ \A i \in 1 .. Len(st) : c[i] = st[i].delta
  BY <1>1, DeltasType
<1>6. /\ d \o e \in Seq(W) /\ Len(d \o e) = Len(d) + Len(e)
      /\ \A i \in 1 .. Len(d) : d[i] = (d \o e)[i]
      /\ \A i \in 1 .. Len(e) : (d \o e)[Len(d) + i] = e[i]
  BY ConcatBegins DEF Begins
<1>7. Len(s) \in Nat /\ Len(t) \in Nat
  OBVIOUS
<1>8. ASSUME NEW i \in 1 .. Len(st) PROVE c[i] = (d \o e)[i]
  <2>1. CASE i \in 1 .. Len(s)
    <3>1. (d \o e)[i] = s[i].delta
      BY <1>3, <1>6, <2>1
    <3> QED
      BY <1>2, <1>5, <2>1, <3>1
  <2>2. CASE i \notin 1 .. Len(s)
    <3>1. PICK j \in 1 .. Len(t) : i = Len(s) + j
      <4>1. i - Len(s) \in 1 .. Len(t) /\ i = Len(s) + (i - Len(s))
        BY <1>2, <1>7, <2>2
      <4> QED
        BY <4>1
    <3>2. (d \o e)[Len(s) + j] = t[j].delta
      BY <1>3, <1>4, <1>6
    <3>3. c[i] = st[Len(s) + j].delta /\ st[Len(s) + j] = t[j]
      BY <1>2, <1>5, <3>1
    <3> QED
      BY <3>1, <3>2, <3>3
  <2> QED
    BY <2>1, <2>2
<1>9. Len(d \o e) = Len(c)
  BY <1>2, <1>3, <1>4, <1>5, <1>6
<1>10. c = d \o e
  <2>1. \A i \in 1 .. Len(c) : c[i] = (d \o e)[i]
    BY <1>5, <1>8
  <2> QED
    BY <1>6, <1>9, <2>1, SeqEqual
<1> QED
  BY <1>1, <1>2, <1>3, <1>4, <1>5, <1>10, FlattenConcat DEF Sends

LEMMA SendsOne ==
  ASSUME NEW F, Carry(F), NEW f \in F
  PROVE  Sends(<<>>) = <<>> /\ Sends(<<f>>) = f.delta
<1>1. DeltasOf(<<>>) = <<>>
  BY DEF DeltasOf
<1>2. PICK x : x = f.delta /\ x \in Seq(Piece)
  BY DEF Text, Carry
<1>3. DeltasOf(<<f>>) = Append(<<>>, x)
  BY <1>2 DEF DeltasOf
<1>4. <<>> \in Seq(Seq(Piece)) /\ <<>> \o x = x
  BY <1>2
<1>5. FlattenSeq(Append(<<>>, x)) = FlattenSeq(<<>>) \o x /\ FlattenSeq(<<>>) = <<>>
  BY <1>2, <1>4, FlattenAppend
<1> QED
  BY <1>1, <1>2, <1>3, <1>4, <1>5 DEF Sends
=============================================================================
