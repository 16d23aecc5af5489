-------------------------- MODULE BatchSplitProofs --------------------------
(***************************************************************************)
(* Proofs about BatchSplit: for any batch of tokens with sequence ids, any *)
(* n_ubatch and each of the four splits, llama_context::decode computes    *)
(* every token once, in the order of its sequence, in the blocks that      *)
(* find_slot() expects, and its outputs can be read in the order of the    *)
(* batch.                                                                  *)
(*                                                                         *)
(* A split takes tokens not handed out before and keeps behind them the    *)
(* later tokens of each sequence (Takes).  The loops of split_equal and    *)
(* split_seq are scans that pick token after token (Picks); the ubatch of  *)
(* an equal split is blocks of one length (InBlocks).                      *)
(***************************************************************************)
EXTENDS BatchSplit, SequenceFacts, FiniteSetTheorems

-----------------------------------------------------------------------------
(* Lists of numbers in order.                                              *)

\* The numbers of s increase.
Increases(s) == \A k, l \in 1 .. Len(s) : k < l => s[k] < s[l]

\* s lists S in increasing order.
Lists(s, S) ==
  /\ s \in Seq(S) /\ Increases(s)
  /\ \A x \in S : \E k \in 1 .. Len(s) : s[k] = x

\* Each number of a set has its place.
LEMMA ListedIs ==
  ASSUME NEW S \in SUBSET Nat, IsFiniteSet(S)
  PROVE  Lists(Listed(S), S) /\ Len(Listed(S)) = Cardinality(S)
<1>1. PICK nu \in Nat : nu = Cardinality(S)
  BY FS_CardinalityType
<1>2. /\ \A x \in S : Rank(S, x) \in 1 .. nu
      /\ \A x, y \in S : x < y => Rank(S, x) < Rank(S, y)
      /\ \A x, y \in S : Rank(S, x) = Rank(S, y) => x = y
      /\ \A k \in 1 .. nu : \E x \in S : Rank(S, x) = k
  BY <1>1, RanksAre
<1>3. PICK s : s = Listed(S)
  OBVIOUS
<1> DEFINE the(k) == CHOOSE x \in S : Rank(S, x) = k
<1>4. s = [k \in 1 .. nu |-> the(k)]
  BY <1>1, <1>3 DEF Listed, Rank
<1>5. ASSUME NEW k \in 1 .. nu PROVE the(k) \in S /\ Rank(S, the(k)) = k
  BY <1>2
<1> HIDE DEF the
<1>6. Len(s) = nu /\ DOMAIN s = 1 .. nu
  BY <1>4
<1>7. ASSUME NEW k \in 1 .. nu PROVE s[k] \in S /\ Rank(S, s[k]) = k
  BY <1>4, <1>5
<1>8. s \in Seq(S)
  <2>1. s \in [1 .. nu -> S]
    BY <1>4, <1>5
  <2> QED
    BY <2>1
<1>9. ASSUME NEW k \in 1 .. nu, NEW l \in 1 .. nu, k < l PROVE s[k] < s[l]
  <2>1. PICK x \in S, y \in S : x = s[k] /\ y = s[l]
    BY <1>7
  <2>2. ~ (y < x) /\ x # y
    <3>1. Rank(S, x) = k /\ Rank(S, y) = l
      BY <1>7, <2>1
    <3> QED
      BY <1>2, <1>9, <3>1
  <2> QED
    BY <2>1, <2>2
<1>10. ASSUME NEW x \in S PROVE \E k \in 1 .. nu : s[k] = x
  <2>1. Rank(S, x) \in 1 .. nu
    BY <1>2
  <2>2. s[Rank(S, x)] \in S /\ Rank(S, s[Rank(S, x)]) = Rank(S, x)
    BY <1>7, <2>1
  <2> QED
    BY <1>2, <2>1, <2>2
<1> QED
  BY <1>1, <1>3, <1>6, <1>8, <1>9, <1>10 DEF Lists, Increases

\* There is one such list.
LEMMA ListedOnly ==
  ASSUME NEW S \in SUBSET Nat, NEW s, NEW t, Lists(s, S), Lists(t, S)
  PROVE  s = t
<1>1. PICK m \in Nat, nu \in Nat : m = Len(s) /\ nu = Len(t)
  BY DEF Lists
<1>2. /\ \A k \in 1 .. m : s[k] \in Nat /\ \E l \in 1 .. nu : t[l] = s[k]
      /\ \A k \in 1 .. nu : t[k] \in Nat /\ \E l \in 1 .. m : s[l] = t[k]
  <2>1. /\ \A k \in 1 .. m : s[k] \in S
        /\ \A k \in 1 .. nu : t[k] \in S
    BY <1>1 DEF Lists
  <2>2. \A x \in S : (\E l \in 1 .. nu : t[l] = x) /\ \E l \in 1 .. m : s[l] = x
    BY <1>1 DEF Lists
  <2> QED
    BY <2>1, <2>2
<1>3. /\ \A k, l \in 1 .. m : k < l => s[k] < s[l]
      /\ \A k, l \in 1 .. nu : k < l => t[k] < t[l]
  BY <1>1 DEF Lists, Increases
<1> DEFINE Same(k) == k <= m => k <= nu /\ s[k] = t[k]
           Back(k) == k <= nu => k <= m
           T == {i \in 0 .. m + nu : \A k \in 1 .. i : Same(k) /\ Back(k)}
<1>4. 0 \in T
  OBVIOUS
<1>5. ASSUME NEW i \in 0 .. m + nu - 1, i \in T PROVE i + 1 \in T
  <2>1. \A k \in 1 .. i : Same(k) /\ Back(k)
    BY <1>5
  <2>2. Same(i + 1)
    <3> SUFFICES ASSUME i + 1 <= m PROVE i + 1 <= nu /\ s[i + 1] = t[i + 1]
      OBVIOUS
    <3>1. i + 1 \in 1 .. m
      OBVIOUS
    <3>2. PICK l \in 1 .. nu : t[l] = s[i + 1]
      BY <1>2, <3>1
    <3>3. l > i
      <4> SUFFICES ASSUME l <= i PROVE FALSE
        OBVIOUS
      <4>1. l \in 1 .. m /\ s[l] = t[l] /\ s[l] < s[i + 1]
        BY <1>3, <2>1, <3>1
      <4> QED
        BY <1>2, <3>1, <3>2, <4>1
    <3>4. i + 1 \in 1 .. nu
      BY <3>3
    <3>5. PICK q \in 1 .. m : s[q] = t[i + 1]
      BY <1>2, <3>4
    <3>6. q > i
      <4> SUFFICES ASSUME q <= i PROVE FALSE
        OBVIOUS
      <4>1. q \in 1 .. nu /\ s[q] = t[q] /\ t[q] < t[i + 1]
        BY <1>3, <2>1, <3>4
      <4> QED
        BY <1>2, <3>4, <3>5, <4>1
    <3>7. ~ (l > i + 1)
      <4> SUFFICES ASSUME l > i + 1 PROVE FALSE
        OBVIOUS
      <4>1. t[i + 1] < t[l]
        BY <1>3, <3>4
      <4>2. q = i + 1 \/ s[i + 1] < s[q]
        BY <1>3, <3>1, <3>6
      <4>3. s[i + 1] \in Nat /\ s[q] \in Nat /\ t[i + 1] \in Nat
        BY <1>2, <3>1, <3>4
      <4> QED
        BY <3>2, <3>5, <4>1, <4>2, <4>3
    <3>8. l = i + 1
      BY <3>3, <3>7
    <3> QED
      BY <3>2, <3>4, <3>8
  <2>3. Back(i + 1)
    <3> SUFFICES ASSUME i + 1 <= nu, i + 1 > m PROVE FALSE
      OBVIOUS
    <3>1. i + 1 \in 1 .. nu
      OBVIOUS
    <3>2. PICK q \in 1 .. m : s[q] = t[i + 1]
      BY <1>2, <3>1
    <3>3. q \in 1 .. i /\ q \in 1 .. nu /\ s[q] = t[q] /\ t[q] < t[i + 1]
      BY <1>3, <2>1, <3>1
    <3> QED
      BY <1>2, <3>1, <3>2, <3>3
  <2> HIDE DEF Same, Back
  <2>4. \A k \in 1 .. i + 1 : k \in 1 .. i \/ k = i + 1
    OBVIOUS
  <2> QED
    BY <2>1, <2>2, <2>3, <2>4
<1> HIDE DEF T
<1>6. 0 .. m + nu \subseteq T
  <2>1. m + nu \in Nat
    OBVIOUS
  <2> QED
    BY <1>4, <1>5, <2>1, UpTo
<1>7. \A k \in 1 .. m + nu : Same(k) /\ Back(k)
  <2>1. m + nu \in T
    BY <1>6
  <2> QED
    BY <2>1 DEF T
<1>8. m = nu
  <2>1. m = 0 \/ Same(m)
    BY <1>7
  <2>2. nu = 0 \/ Back(nu)
    BY <1>7
  <2> QED
    BY <2>1, <2>2
<1>9. \A k \in 1 .. m : s[k] = t[k]
  BY <1>7
<1>10. s \in Seq(S) /\ t \in Seq(S)
  BY DEF Lists
<1>11. s = [k \in 1 .. m |-> s[k]] /\ t = [k \in 1 .. m |-> t[k]]
  <2>1. \A a \in Seq(S) : a = [k \in 1 .. Len(a) |-> a[k]]
    OBVIOUS
  <2>2. s = [k \in 1 .. Len(s) |-> s[k]] /\ t = [k \in 1 .. Len(t) |-> t[k]]
    BY <1>10, <2>1
  <2> QED
    BY <1>1, <1>8, <2>2
<1>12. [k \in 1 .. m |-> s[k]] = [k \in 1 .. m |-> t[k]]
  BY <1>9
<1> QED
  BY <1>11, <1>12, Zenon

-----------------------------------------------------------------------------
(* A scan that picks numbers.                                              *)

\* The recursion of a scan over 1 .. m: number i is picked after those in acc
\* if <<acc, i>> is in T.
Scans(m, T, g) ==
  /\ g \in [0 .. m -> Seq(Nat)] /\ g[0] = <<>>
  /\ \A i \in 0 .. m - 1 :
       g[i + 1] = IF <<g[i], i + 1>> \in T THEN Append(g[i], i + 1) ELSE g[i]

\* r is what it picks: i is in r if <<acc, i>> is in T, acc being the numbers of
\* r below i.
Picks(m, T, r) ==
  /\ r \in Seq(1 .. m) /\ Increases(r)
  /\ \A i \in 1 .. m : \E k \in 0 .. Len(r) :
       /\ \A x \in 1 .. Len(r) : r[x] < i <=> x <= k
       /\ (\E x \in 1 .. Len(r) : r[x] = i) <=> <<SubSeq(r, 1, k), i>> \in T

\* There is such a recursion.
LEMMA ScansExist ==
  ASSUME NEW m \in Nat, NEW T
  PROVE  \E g : Scans(m, T, g)
<1> DEFINE V == Seq(Nat)
           H == [i \in 0 .. m - 1 |->
                   [a \in V |-> IF <<a, i + 1>> \in T THEN Append(a, i + 1) ELSE a]]
<1>1. H \in [0 .. m - 1 -> [V -> V]]
  OBVIOUS
<1>2. <<>> \in V
  OBVIOUS
<1>3. \A i \in 0 .. m - 1 : \A a \in V :
        H[i][a] = IF <<a, i + 1>> \in T THEN Append(a, i + 1) ELSE a
  OBVIOUS
<1> HIDE DEF H, V
<1>4. PICK g : Steps(m, V, <<>>, H, g)
  BY <1>1, <1>2, StepsExist
<1>5. g \in [0 .. m -> V] /\ g[0] = <<>> /\ \A i \in 0 .. m - 1 : g[i + 1] = H[i][g[i]]
  BY <1>4 DEF Steps
<1>6. ASSUME NEW i \in 0 .. m - 1
      PROVE  g[i + 1] = IF <<g[i], i + 1>> \in T THEN Append(g[i], i + 1) ELSE g[i]
  <2>1. i \in 0 .. m
    OBVIOUS
  <2>2. g[i] \in V
    BY <1>5, <2>1
  <2>3. g[i + 1] = H[i][g[i]]
    BY <1>5
  <2> QED
    BY <1>3, <2>2, <2>3
<1> QED
  BY <1>5, <1>6 DEF V, Scans

\* What a scan ends with is what it picks.
LEMMA ScansPick ==
  ASSUME NEW m \in Nat, NEW T, NEW g, Scans(m, T, g)
  PROVE  Picks(m, T, g[m])
<1>1. /\ g[0] = <<>>
      /\ \A i \in 0 .. m - 1 :
           g[i + 1] = IF <<g[i], i + 1>> \in T THEN Append(g[i], i + 1) ELSE g[i]
  BY DEF Scans
<1> DEFINE S == {j \in 0 .. m : Picks(j, T, g[j])}
<1>2. 0 \in S
  <2>1. <<>> \in Seq(1 .. 0) /\ 1 .. 0 = {} /\ Len(<<>>) = 0
    OBVIOUS
  <2>2. Increases(<<>>)
    BY <2>1 DEF Increases
  <2>3. Picks(0, T, <<>>)
    BY <2>1, <2>2 DEF Picks
  <2> QED
    BY <1>1, <2>3
<1>3. ASSUME NEW j \in 0 .. m - 1, j \in S PROVE j + 1 \in S
  <2>1. PICK r : r = g[j] /\ Picks(j, T, r)
    BY <1>3
  <2>2. r \in Seq(1 .. j) /\ \A k, l \in 1 .. Len(r) : k < l => r[k] < r[l]
    BY <2>1 DEF Picks, Increases
  <2>3. PICK nu \in Nat : nu = Len(r) /\ \A x \in 1 .. nu : r[x] \in 1 .. j
    BY <2>2
  <2>4. \A i \in 1 .. j : \E k \in 0 .. nu :
          /\ \A x \in 1 .. nu : r[x] < i <=> x <= k
          /\ (\E x \in 1 .. nu : r[x] = i) <=> <<SubSeq(r, 1, k), i>> \in T
    BY <2>1, <2>3 DEF Picks
  <2>5. SubSeq(r, 1, nu) = r
    BY <2>2, <2>3, SubSeqFull
  <2>6. CASE <<r, j + 1>> \in T
    <3>1. PICK q : q = Append(r, j + 1)
      OBVIOUS
    <3>2. q \in Seq(1 .. j + 1) /\ Len(q) = nu + 1
      <4>1. r \in Seq(1 .. j + 1) /\ j + 1 \in 1 .. j + 1
        BY <2>2, <2>3
      <4> QED
        BY <2>3, <3>1, <4>1
    <3>3. (\A x \in 1 .. nu : q[x] = r[x]) /\ q[nu + 1] = j + 1
      BY <2>2, <2>3, <3>1
    <3>4. ASSUME NEW k \in 0 .. nu PROVE SubSeq(q, 1, k) = SubSeq(r, 1, k)
      <4>1. /\ SubSeq(q, 1, k) = [x \in 1 .. k |-> q[x]]
            /\ SubSeq(r, 1, k) = [x \in 1 .. k |-> r[x]]
        BY <2>2, <3>2
      <4> QED
        BY <3>3, <4>1
    <3>5. Increases(q)
      <4> SUFFICES ASSUME NEW k \in 1 .. nu + 1, NEW l \in 1 .. nu + 1, k < l PROVE q[k] < q[l]
        BY <3>2 DEF Increases
      <4>1. k \in 1 .. nu /\ (l \in 1 .. nu \/ l = nu + 1)
        OBVIOUS
      <4>2. q[k] = r[k] /\ r[k] \in 1 .. j
        BY <2>3, <3>3, <4>1
      <4>3. CASE l \in 1 .. nu
        BY <2>2, <2>3, <3>3, <4>1, <4>3
      <4>4. CASE l = nu + 1
        BY <3>3, <4>2, <4>4
      <4> QED
        BY <4>1, <4>3, <4>4
    <3>6. ASSUME NEW i \in 1 .. j + 1
          PROVE  \E k \in 0 .. nu + 1 :
                   /\ \A x \in 1 .. nu + 1 : q[x] < i <=> x <= k
                   /\ (\E x \in 1 .. nu + 1 : q[x] = i) <=> <<SubSeq(q, 1, k), i>> \in T
      <4>1. CASE i = j + 1
        <5>1. \A x \in 1 .. nu + 1 : q[x] < i <=> x <= nu
          <6> SUFFICES ASSUME NEW x \in 1 .. nu + 1 PROVE q[x] < i <=> x <= nu
            OBVIOUS
          <6>1. CASE x = nu + 1
            BY <3>3, <4>1, <6>1
          <6>2. CASE x # nu + 1
            <7>1. x \in 1 .. nu
              BY <6>2
            <7>2. q[x] \in 1 .. j
              BY <2>3, <3>3, <7>1
            <7> QED
              BY <4>1, <7>1, <7>2
          <6> QED
            BY <6>1, <6>2
        <5>2. q[nu + 1] = i /\ nu + 1 \in 1 .. nu + 1
          BY <3>3, <4>1
        <5>3. nu \in 0 .. nu /\ nu \in 0 .. nu + 1
          OBVIOUS
        <5>4. SubSeq(q, 1, nu) = r
          BY <2>5, <3>4, <5>3
        <5>5. <<SubSeq(q, 1, nu), i>> \in T
          BY <2>6, <4>1, <5>4
        <5> QED
          BY <5>1, <5>2, <5>3, <5>5
      <4>2. CASE i # j + 1
        <5>1. i \in 1 .. j
          BY <4>2
        <5>2. PICK k \in 0 .. nu :
                /\ \A x \in 1 .. nu : r[x] < i <=> x <= k
                /\ (\E x \in 1 .. nu : r[x] = i) <=> <<SubSeq(r, 1, k), i>> \in T
          BY <2>4, <5>1
        <5>3. \A x \in 1 .. nu + 1 : x \in 1 .. nu \/ x = nu + 1
          OBVIOUS
        <5>4. ~ (q[nu + 1] < i) /\ q[nu + 1] # i /\ ~ (nu + 1 <= k)
          BY <3>3, <5>1
        <5>5. \A x \in 1 .. nu + 1 : q[x] < i <=> x <= k
          BY <3>3, <5>2, <5>3, <5>4
        <5>6. (\E x \in 1 .. nu + 1 : q[x] = i) <=> \E x \in 1 .. nu : r[x] = i
          <6>1. \A x \in 1 .. nu : x \in 1 .. nu + 1
            OBVIOUS
          <6> QED
            BY <3>3, <5>3, <5>4, <6>1
        <5>7. SubSeq(q, 1, k) = SubSeq(r, 1, k)
          BY <3>4
        <5>8. k \in 0 .. nu + 1
          OBVIOUS
        <5>9. (\E x \in 1 .. nu + 1 : q[x] = i) <=> <<SubSeq(q, 1, k), i>> \in T
          BY <5>2, <5>6, <5>7
        <5> QED
          BY <5>5, <5>8, <5>9
      <4> QED
        BY <4>1, <4>2
    <3>7. Picks(j + 1, T, q)
      BY <3>2, <3>5, <3>6 DEF Picks
    <3>8. g[j + 1] = q /\ j + 1 \in 0 .. m
      <4>1. g[j + 1] = IF <<g[j], j + 1>> \in T THEN Append(g[j], j + 1) ELSE g[j]
        BY <1>1
      <4>2. g[j + 1] = q
        BY <2>1, <2>6, <3>1, <4>1, Zenon
      <4> QED
        BY <4>2
    <3> QED
      BY <3>7, <3>8
  <2>7. CASE <<r, j + 1>> \notin T
    <3>1. r \in Seq(1 .. j + 1)
      BY <2>2, <2>3
    <3>2. ASSUME NEW i \in 1 .. j + 1
          PROVE  \E k \in 0 .. nu :
                   /\ \A x \in 1 .. nu : r[x] < i <=> x <= k
                   /\ (\E x \in 1 .. nu : r[x] = i) <=> <<SubSeq(r, 1, k), i>> \in T
      <4>1. CASE i = j + 1
        <5>1. \A x \in 1 .. nu : r[x] < i /\ r[x] # i /\ x <= nu
          BY <2>3, <4>1
        <5>2. nu \in 0 .. nu
          OBVIOUS
        <5> QED
          BY <2>5, <2>7, <4>1, <5>1, <5>2
      <4>2. CASE i # j + 1
        <5>1. i \in 1 .. j
          BY <4>2
        <5> QED
          BY <2>4, <5>1
      <4> QED
        BY <4>1, <4>2
    <3>3. Picks(j + 1, T, r)
      BY <2>2, <2>3, <3>1, <3>2 DEF Picks, Increases
    <3>4. g[j + 1] = r /\ j + 1 \in 0 .. m
      BY <1>1, <2>1, <2>7
    <3> QED
      BY <3>3, <3>4
  <2> QED
    BY <2>6, <2>7
<1> HIDE DEF S
<1>4. 0 .. m \subseteq S
  BY <1>2, <1>3, UpTo
<1>5. m \in S
  BY <1>4
<1> QED
  BY <1>5 DEF S

-----------------------------------------------------------------------------
(* The two scans over a batch.                                             *)

\* A batch, with or without the positions given.
IsBatch(batch) ==
  /\ \E V : batch \in Seq(V)
  /\ \A i \in 1 .. Len(batch) : batch[i].ids \in Seq(Seqs) \ {<<>>}

\* What joins an equal split, and what narrows a split by sequence.
LeaderScan(batch, used, nu, sequential) ==
  {p \in Seq(Nat) \X Nat : p[2] \notin used /\ Joins(batch, nu, sequential, p[1], p[2])}
NarrowScan(batch, used, nu) ==
  {p \in Seq(Nat) \X Nat : p[2] \notin used /\ Narrows(batch, nu, p[1], p[2])}

\* The first tokens of the sets of an equal split are picked by a scan of the batch.
LEMMA LeadersArePicked ==
  ASSUME NEW batch, IsBatch(batch), NEW used, NEW nu, NEW sequential
  PROVE  Picks(Len(batch), LeaderScan(batch, used, nu, sequential), Leaders(batch, used, nu, sequential))
<1>1. PICK m \in Nat : m = Len(batch)
  BY DEF IsBatch
<1> DEFINE V == Seq(Nat)
           Step(e) == [i \in 0 .. m |->
                         IF i = 0 THEN <<>>
                         ELSE IF i \notin used /\ Joins(batch, nu, sequential, e[i - 1], i)
                              THEN Append(e[i - 1], i) ELSE e[i - 1]]
           f == CHOOSE e : e = Step(e)
<1>2. Leaders(batch, used, nu, sequential) = f[m]
  BY <1>1 DEF Leaders
<1>3. PICK T : T = LeaderScan(batch, used, nu, sequential)
  OBVIOUS
<1>4. \A a \in V : \A i \in 1 .. m : <<a, i>> \in T <=> i \notin used /\ Joins(batch, nu, sequential, a, i)
  BY <1>3 DEF LeaderScan
<1>5. PICK g : Scans(m, T, g)
  BY ScansExist
<1>6. g \in [0 .. m -> V] /\ g[0] = <<>>
  BY <1>5 DEF Scans
<1>7. ASSUME NEW i \in 1 .. m
      PROVE  g[i] = IF i \notin used /\ Joins(batch, nu, sequential, g[i - 1], i)
                    THEN Append(g[i - 1], i) ELSE g[i - 1]
  <2>1. i - 1 \in 0 .. m - 1 /\ i - 1 \in 0 .. m /\ (i - 1) + 1 = i
    OBVIOUS
  <2>2. g[(i - 1) + 1] = IF <<g[i - 1], (i - 1) + 1>> \in T
                         THEN Append(g[i - 1], (i - 1) + 1) ELSE g[i - 1]
    BY <1>5, <2>1 DEF Scans
  <2>3. g[i - 1] \in V
    BY <1>6, <2>1
  <2> QED
    BY <1>4, <2>1, <2>2, <2>3
<1>8. g = Step(g)
  <2>1. \A i \in 0 .. m : i = 0 \/ i \in 1 .. m
    OBVIOUS
  <2> HIDE DEF V
  <2> QED
    BY <1>6, <1>7, <2>1
<1>9. f = Step(f)
  <2> HIDE DEF Step
  <2> QED
    BY <1>8
<1>10. PICK h : h = f /\ h = Step(h)
  <2> HIDE DEF Step
  <2> QED
    BY <1>9
<1> HIDE DEF f
<1>11. h[0] = <<>>
  BY <1>10
<1>12. ASSUME NEW i \in 0 .. m - 1
       PROVE  h[i + 1] = IF i + 1 \notin used /\ Joins(batch, nu, sequential, h[i], i + 1)
                         THEN Append(h[i], i + 1) ELSE h[i]
  <2>1. i + 1 \in 0 .. m /\ i + 1 # 0 /\ (i + 1) - 1 = i
    OBVIOUS
  <2>2. \A e : Step(e)[i + 1] = IF i + 1 \notin used /\ Joins(batch, nu, sequential, e[(i + 1) - 1], i + 1)
                                THEN Append(e[(i + 1) - 1], i + 1) ELSE e[(i + 1) - 1]
    BY <2>1
  <2> HIDE DEF Step
  <2>3. h[i + 1] = Step(h)[i + 1]
    BY <1>10
  <2> QED
    BY <2>1, <2>2, <2>3
<1> DEFINE S == {i \in 0 .. m : h[i] = g[i]}
<1>13. 0 \in S
  BY <1>6, <1>11
<1>14. ASSUME NEW i \in 0 .. m - 1, i \in S PROVE i + 1 \in S
  <2>1. h[i] = g[i]
    BY <1>14
  <2>2. i + 1 \in 1 .. m /\ (i + 1) - 1 = i /\ i + 1 \in 0 .. m
    OBVIOUS
  <2>3. g[i + 1] = IF i + 1 \notin used /\ Joins(batch, nu, sequential, g[(i + 1) - 1], i + 1)
                   THEN Append(g[(i + 1) - 1], i + 1) ELSE g[(i + 1) - 1]
    BY <1>7, <2>2
  <2>4. h[i + 1] = g[i + 1]
    BY <1>12, <2>1, <2>2, <2>3
  <2> QED
    BY <2>2, <2>4
<1> HIDE DEF S
<1>15. 0 .. m \subseteq S
  BY <1>13, <1>14, UpTo
<1>16. m \in S
  BY <1>15
<1>17. f[m] = g[m]
  BY <1>10, <1>16 DEF S
<1> QED
  BY <1>1, <1>2, <1>3, <1>5, <1>17, ScansPick

\* So are the tokens of a split by sequence.
LEMMA SplitSeqIsPicked ==
  ASSUME NEW batch, IsBatch(batch), NEW used, NEW nu
  PROVE  Picks(Len(batch), NarrowScan(batch, used, nu), SplitSeq(batch, used, nu))
<1>1. PICK m \in Nat : m = Len(batch)
  BY DEF IsBatch
<1> DEFINE V == Seq(Nat)
           Step(e) == [i \in 0 .. m |->
                         IF i = 0 THEN <<>>
                         ELSE IF i \notin used /\ Narrows(batch, nu, e[i - 1], i)
                              THEN Append(e[i - 1], i) ELSE e[i - 1]]
           f == CHOOSE e : e = Step(e)
<1>2. SplitSeq(batch, used, nu) = f[m]
  BY <1>1 DEF SplitSeq
<1>3. PICK T : T = NarrowScan(batch, used, nu)
  OBVIOUS
<1>4. \A a \in V : \A i \in 1 .. m : <<a, i>> \in T <=> i \notin used /\ Narrows(batch, nu, a, i)
  BY <1>3 DEF NarrowScan
<1>5. PICK g : Scans(m, T, g)
  BY ScansExist
<1>6. g \in [0 .. m -> V] /\ g[0] = <<>>
  BY <1>5 DEF Scans
<1>7. ASSUME NEW i \in 1 .. m
      PROVE  g[i] = IF i \notin used /\ Narrows(batch, nu, g[i - 1], i)
                    THEN Append(g[i - 1], i) ELSE g[i - 1]
  <2>1. i - 1 \in 0 .. m - 1 /\ i - 1 \in 0 .. m /\ (i - 1) + 1 = i
    OBVIOUS
  <2>2. g[(i - 1) + 1] = IF <<g[i - 1], (i - 1) + 1>> \in T
                         THEN Append(g[i - 1], (i - 1) + 1) ELSE g[i - 1]
    BY <1>5, <2>1 DEF Scans
  <2>3. g[i - 1] \in V
    BY <1>6, <2>1
  <2> QED
    BY <1>4, <2>1, <2>2, <2>3
<1>8. g = Step(g)
  <2>1. \A i \in 0 .. m : i = 0 \/ i \in 1 .. m
    OBVIOUS
  <2> HIDE DEF V
  <2> QED
    BY <1>6, <1>7, <2>1
<1>9. f = Step(f)
  <2> HIDE DEF Step
  <2> QED
    BY <1>8
<1>10. PICK h : h = f /\ h = Step(h)
  <2> HIDE DEF Step
  <2> QED
    BY <1>9
<1> HIDE DEF f
<1>11. h[0] = <<>>
  BY <1>10
<1>12. ASSUME NEW i \in 0 .. m - 1
       PROVE  h[i + 1] = IF i + 1 \notin used /\ Narrows(batch, nu, h[i], i + 1)
                         THEN Append(h[i], i + 1) ELSE h[i]
  <2>1. i + 1 \in 0 .. m /\ i + 1 # 0 /\ (i + 1) - 1 = i
    OBVIOUS
  <2>2. \A e : Step(e)[i + 1] = IF i + 1 \notin used /\ Narrows(batch, nu, e[(i + 1) - 1], i + 1)
                                THEN Append(e[(i + 1) - 1], i + 1) ELSE e[(i + 1) - 1]
    BY <2>1
  <2> HIDE DEF Step
  <2>3. h[i + 1] = Step(h)[i + 1]
    BY <1>10
  <2> QED
    BY <2>1, <2>2, <2>3
<1> DEFINE S == {i \in 0 .. m : h[i] = g[i]}
<1>13. 0 \in S
  BY <1>6, <1>11
<1>14. ASSUME NEW i \in 0 .. m - 1, i \in S PROVE i + 1 \in S
  <2>1. h[i] = g[i]
    BY <1>14
  <2>2. i + 1 \in 1 .. m /\ (i + 1) - 1 = i /\ i + 1 \in 0 .. m
    OBVIOUS
  <2>3. g[i + 1] = IF i + 1 \notin used /\ Narrows(batch, nu, g[(i + 1) - 1], i + 1)
                   THEN Append(g[(i + 1) - 1], i + 1) ELSE g[(i + 1) - 1]
    BY <1>7, <2>2
  <2>4. h[i + 1] = g[i + 1]
    BY <1>12, <2>1, <2>2, <2>3
  <2> QED
    BY <2>2, <2>4
<1> HIDE DEF S
<1>15. 0 .. m \subseteq S
  BY <1>13, <1>14, UpTo
<1>16. m \in S
  BY <1>15
<1>17. f[m] = g[m]
  BY <1>10, <1>16 DEF S
<1> QED
  BY <1>1, <1>2, <1>3, <1>5, <1>17, ScansPick

-----------------------------------------------------------------------------
(* Blocks of the same length.                                              *)

\* u is the blocks s[1], ..., s[m] of R elements, one after the other.
InBlocks(u, m, R, s) ==
  /\ Len(u) = m * R
  /\ \A k \in 1 .. m : \A x \in 1 .. R :
       (k - 1) * R + x \in 1 .. Len(u) /\ u[(k - 1) * R + x] = s[k][x]
  /\ \A p \in 1 .. Len(u) : \E k \in 1 .. m : \E x \in 1 .. R : p = (k - 1) * R + x

\* The sizes of blocks.
LEMMA Times ==
  ASSUME NEW a \in Nat, NEW b \in Nat, NEW R \in Nat
  PROVE  /\ a * R \in Nat /\ (a + 1) * R = a * R + R
         /\ a <= b => a * R <= b * R
<1>1. a * R \in Nat /\ (a + 1) * R = a * R + R
  OBVIOUS
<1>2. ASSUME a <= b PROVE a * R <= b * R
  <2>1. PICK d \in Nat : b = a + d
    <3>1. b - a \in Nat /\ b = a + (b - a)
      BY <1>2
    <3> QED
      BY <3>1
  <2>2. b * R = a * R + d * R /\ d * R \in Nat
    BY <2>1
  <2> QED
    BY <1>1, <2>2
<1> QED
  BY <1>1, <1>2

\* Sequences of the same length flatten to blocks of that length.
LEMMA FlattenBlocks ==
  ASSUME NEW V, NEW s \in Seq(Seq(V)), NEW R \in Nat, \A k \in 1 .. Len(s) : Len(s[k]) = R
  PROVE  FlattenSeq(s) \in Seq(V) /\ InBlocks(FlattenSeq(s), Len(s), R, s)
<1>1. PICK nu \in Nat : nu = Len(s)
  OBVIOUS
<1>2. PICK g : Flattens(nu, V, s, g) /\ FlattenSeq(s) = g[nu]
  BY <1>1, FlattenSteps
<1>3. /\ g \in [0 .. nu -> Seq(V)] /\ g[0] = <<>>
      /\ \A i \in 0 .. nu - 1 : g[i + 1] = g[i] \o s[i + 1]
  BY <1>2 DEF Flattens
<1> DEFINE S == {j \in 0 .. nu : InBlocks(g[j], j, R, s)}
<1>4. 0 \in S
  <2>1. Len(<<>>) = 0 /\ 1 .. 0 = {} /\ 0 * R = 0
    OBVIOUS
  <2>2. InBlocks(<<>>, 0, R, s)
    BY <2>1 DEF InBlocks
  <2> QED
    BY <1>3, <2>2
<1>5. ASSUME NEW j \in 0 .. nu - 1, j \in S PROVE j + 1 \in S
  <2>1. PICK a \in Seq(V), x \in Seq(V) : a = g[j] /\ x = s[j + 1] /\ g[j + 1] = a \o x
    <3>1. j \in 0 .. nu /\ j + 1 \in 1 .. nu
      OBVIOUS
    <3>2. g[j] \in Seq(V) /\ g[j + 1] = g[j] \o s[j + 1]
      BY <1>3, <3>1
    <3>3. s[j + 1] \in Seq(V)
      BY <1>1, <3>1
    <3> QED
      BY <3>2, <3>3
  <2>2. PICK u : u = a \o x /\ u = g[j + 1]
    BY <2>1, Zenon
  <2>3. PICK l \in Nat : l = j * R /\ l + R = (j + 1) * R
    BY Times
  <2>4. InBlocks(a, j, R, s)
    BY <1>5, <2>2, <2>1
  <2>5. Len(a) = l /\ Len(x) = R
    BY <1>1, <2>2, <2>1, <2>3, <2>4 DEF InBlocks
  <2>6. /\ Len(u) = l + R /\ \A i \in 1 .. l : u[i] = a[i]
        /\ \A i \in 1 .. R : u[l + i] = x[i]
    <3>1. /\ Len(a \o x) = Len(a) + Len(x) /\ Begins(a, a \o x)
          /\ \A i \in 1 .. Len(x) : (a \o x)[Len(a) + i] = x[i]
      BY ConcatBegins
    <3>2. /\ Len(u) = Len(a) + Len(x) /\ Begins(a, u)
          /\ \A i \in 1 .. Len(x) : u[Len(a) + i] = x[i]
      BY <2>2, <2>1, <3>1, Zenon
    <3>3. \A i \in 1 .. Len(a) : u[i] = a[i]
      BY <3>2 DEF Begins
    <3> QED
      BY <2>5, <3>2, <3>3
  <2>7. ASSUME NEW k \in 1 .. j + 1, NEW i \in 1 .. R
        PROVE  (k - 1) * R + i \in 1 .. Len(u) /\ u[(k - 1) * R + i] = s[k][i]
    <3>1. CASE k \in 1 .. j
      <4>1. (k - 1) * R + i \in 1 .. Len(a) /\ a[(k - 1) * R + i] = s[k][i]
        BY <2>4, <3>1 DEF InBlocks
      <4> QED
        BY <2>5, <2>6, <4>1
    <3>2. CASE k = j + 1
      <4>1. k - 1 = j
        BY <3>2
      <4>2. l + i \in 1 .. l + R /\ u[l + i] = s[k][i]
        <5>1. s[k] = x
          BY <2>2, <2>1, <3>2
        <5>2. l + i \in 1 .. l + R
          OBVIOUS
        <5> QED
          BY <2>6, <5>1, <5>2
      <4> QED
        BY <2>3, <2>6, <4>1, <4>2
    <3> QED
      BY <3>1, <3>2
  <2>8. ASSUME NEW p \in 1 .. Len(u)
        PROVE  \E k \in 1 .. j + 1 : \E i \in 1 .. R : p = (k - 1) * R + i
    <3>1. CASE p \in 1 .. l
      <4>1. PICK k \in 1 .. j : \E i \in 1 .. R : p = (k - 1) * R + i
        BY <2>4, <2>5, <3>1 DEF InBlocks
      <4>2. k \in 1 .. j + 1
        OBVIOUS
      <4> QED
        BY <4>1, <4>2
    <3>2. CASE p \notin 1 .. l
      <4>1. PICK i \in 1 .. R : p = l + i
        <5>1. p - l \in 1 .. R /\ p = l + (p - l)
          BY <2>6, <3>2
        <5> QED
          BY <5>1
      <4>2. j + 1 \in 1 .. j + 1 /\ p = ((j + 1) - 1) * R + i
        BY <2>3, <4>1
      <4> QED
        BY <4>2
    <3> QED
      BY <3>1, <3>2
  <2>9. InBlocks(u, j + 1, R, s)
    BY <2>3, <2>6, <2>7, <2>8 DEF InBlocks
  <2>10. g[j + 1] = u
    BY <2>2
  <2> QED
    BY <2>9, <2>10
<1> HIDE DEF S
<1>6. 0 .. nu \subseteq S
  BY <1>4, <1>5, UpTo
<1>7. nu \in S
  BY <1>6
<1>8. g[nu] \in Seq(V)
  BY <1>3
<1> QED
  BY <1>1, <1>2, <1>7, <1>8 DEF S

-----------------------------------------------------------------------------
(* Sequence ids.                                                           *)

\* A token has a first sequence id, of its set, which is a finite set of ids.
LEMMA IdsAre ==
  ASSUME NEW batch, IsBatch(batch), NEW i \in 1 .. Len(batch)
  PROVE  /\ SeqSet(batch[i]) \subseteq Seqs /\ FirstId(batch[i]) \in SeqSet(batch[i])
         /\ IsFiniteSet(SeqSet(batch[i]))
<1>1. PICK t \in Seq(Seqs) : t = batch[i].ids /\ t # <<>>
  BY DEF IsBatch
<1>2. PICK l \in Nat \ {0} : l = Len(t)
  BY <1>1, EmptySeq
<1>3. SeqSet(batch[i]) = {t[k] : k \in 1 .. l}
  BY <1>1, <1>2 DEF SeqSet, ToSet
<1>4. 1 \in 1 .. l /\ \A k \in 1 .. l : t[k] \in Seqs
  BY <1>2
<1>5. IsFiniteSet(SeqSet(batch[i]))
  <2>1. IsFiniteSet(1 .. l)
    BY CountUpTo
  <2>2. PICK f : f = [k \in 1 .. l |-> t[k]]
    OBVIOUS
  <2>3. f \in Surjection(1 .. l, SeqSet(batch[i]))
    BY <1>3, <2>2 DEF Surjection
  <2> QED
    BY <2>1, <2>3, FS_Surjection
<1> QED
  BY <1>1, <1>3, <1>4, <1>5 DEF FirstId

\* Without coupled sequences, a token has one sequence id.
LEMMA OneId ==
  ASSUME NEW batch, IsBatch(batch), Coupled(batch) = {}, NEW i \in 1 .. Len(batch)
  PROVE  batch[i].ids = <<FirstId(batch[i])>> /\ SeqSet(batch[i]) = {FirstId(batch[i])}
<1>1. PICK t \in Seq(Seqs) : t = batch[i].ids /\ t # <<>>
  BY DEF IsBatch
<1>2. PICK l \in Nat \ {0} : l = Len(t)
  BY <1>1, EmptySeq
<1>3. DOMAIN batch = 1 .. Len(batch)
  BY DEF IsBatch
<1>4. 2 \notin 2 .. l
  <2> SUFFICES ASSUME 2 \in 2 .. l PROVE FALSE
    OBVIOUS
  <2>1. PICK q : q = <<t[2], FirstId(batch[i])>>
    OBVIOUS
  <2>2. q \in {<<batch[i].ids[k], FirstId(batch[i])>> : k \in 2 .. Len(batch[i].ids)}
    BY <1>1, <1>2, <2>1
  <2>3. q \in Coupled(batch)
    BY <1>3, <2>2 DEF Coupled
  <2> QED
    BY <2>3
<1>5. l = 1
  BY <1>4
<1>6. t = <<t[1]>> /\ DOMAIN t = {1}
  <2>1. DOMAIN t = 1 .. 1 /\ 1 .. 1 = {1}
    <3>1. \A q \in Seq(Seqs) : DOMAIN q = 1 .. Len(q)
      OBVIOUS
    <3>2. 1 .. 1 = {1}
      OBVIOUS
    <3> QED
      BY <1>2, <1>5, <3>1, <3>2
  <2>2. t = [k \in 1 .. 1 |-> t[k]]
    <3>1. \A q \in Seq(Seqs) : q = [k \in 1 .. Len(q) |-> q[k]]
      OBVIOUS
    <3> QED
      BY <1>2, <1>5, <3>1
  <2> QED
    BY <2>1, <2>2
<1> QED
  BY <1>1, <1>6 DEF FirstId, SeqSet, ToSet

-----------------------------------------------------------------------------
(* What each split takes.                                                  *)

\* Tokens i and j share a sequence.
Meet(batch, i, j) == SeqSet(batch[i]) \cap SeqSet(batch[j]) # {}

\* WellFormed, of any batch.
Tidy(batch) ==
  \A i, j \in DOMAIN batch :
    i < j => \A s \in SeqSet(batch[i]) \cap SeqSet(batch[j]) :
               SeqSet(batch[i]) = SeqSet(batch[j]) /\ batch[i].pos < batch[j].pos

\* Of the tokens of a sequence, those handed out come before the others.
Behind(batch, used) ==
  \A i \in used, j \in 1 .. Len(batch) : j \notin used /\ Meet(batch, i, j) => i < j

\* u is a ubatch: of tokens not yet handed out, each once, and in the order of
\* the batch as far as they share a sequence.
Takes(batch, used, u) ==
  /\ u \in Seq(1 .. Len(batch))
  /\ \A k \in 1 .. Len(u) : u[k] \notin used
  /\ \A k, l \in 1 .. Len(u) : u[k] = u[l] => k = l
  /\ Tidy(batch) => \A k, l \in 1 .. Len(u) : k < l /\ Meet(batch, u[k], u[l]) => u[k] < u[l]
  /\ Tidy(batch) /\ Behind(batch, used) => Behind(batch, used \cup ToSet(u))

\* In a tidy batch, sets that meet are equal.
LEMMA TidyMeets ==
  ASSUME NEW batch, IsBatch(batch), Tidy(batch),
         NEW i \in 1 .. Len(batch), NEW j \in 1 .. Len(batch), Meet(batch, i, j)
  PROVE  SeqSet(batch[i]) = SeqSet(batch[j])
<1>1. DOMAIN batch = 1 .. Len(batch) /\ Len(batch) \in Nat
  BY DEF IsBatch
<1>2. i < j \/ j < i \/ i = j
  OBVIOUS
<1> QED
  BY <1>1, <1>2 DEF Tidy, Meet

\* The smaller of two numbers.
LEMMA MinTwo ==
  ASSUME NEW a \in Nat, NEW b \in Nat
  PROVE  Min({a, b}) \in {a, b} /\ Min({a, b}) <= a /\ Min({a, b}) <= b
<1>1. {a, b} \in SUBSET Nat /\ {a, b} # {}
  OBVIOUS
<1>2. Min({a, b}) \in {a, b} /\ \A y \in {a, b} : Min({a, b}) <= y
  BY <1>1, LeastIs
<1> QED
  BY <1>2

\* The tokens handed out are the first of the batch.
FirstTokens(batch, used) == \E m \in 0 .. Len(batch) : used = 1 .. m

\* split_simple() takes the next tokens of the batch, and none only when none is
\* left: with it the tokens handed out stay the first ones.
LEMMA SimpleTakes ==
  ASSUME NEW batch, IsBatch(batch), NEW m \in 0 .. Len(batch), NEW nu \in Nat \ {0}
  PROVE  /\ Takes(batch, 1 .. m, SplitSimple(batch, 1 .. m, nu))
         /\ SplitSimple(batch, 1 .. m, nu) = <<>> => m = Len(batch)
         /\ FirstTokens(batch, 1 .. m \cup ToSet(SplitSimple(batch, 1 .. m, nu)))
<1>1. PICK z \in Nat : z = Len(batch) /\ DOMAIN batch = 1 .. z
  BY DEF IsBatch
<1>2. Unused(batch, 1 .. m) = m + 1 .. z
  BY <1>1 DEF Unused
<1>3. PICK u : u = SplitSimple(batch, 1 .. m, nu)
  OBVIOUS
<1>4. CASE m = z
  <2>1. Unused(batch, 1 .. m) = {}
    BY <1>2, <1>4
  <2>2. u = <<>>
    BY <1>3, <2>1 DEF SplitSimple
  <2>3. u \in Seq(1 .. z) /\ Len(u) = 0 /\ 1 .. 0 = {} /\ ToSet(u) = {}
    BY <2>2 DEF ToSet
  <2>4. 1 .. m \cup ToSet(u) = 1 .. m
    BY <2>3
  <2>5. Takes(batch, 1 .. m, u)
    BY <1>1, <2>3, <2>4 DEF Takes
  <2> QED
    BY <1>1, <1>3, <1>4, <2>4, <2>5 DEF FirstTokens
<1>5. CASE m < z
  <2>1. Min(m + 1 .. z) = m + 1
    <3>1. PICK E \in SUBSET Nat : E = m + 1 .. z /\ E # {}
      <4>1. m + 1 \in m + 1 .. z /\ m + 1 .. z \subseteq Nat
        BY <1>5
      <4> QED
        BY <4>1
    <3>2. Min(E) \in E /\ \A y \in E : Min(E) <= y
      BY <3>1, LeastIs
    <3>3. m + 1 \in E
      BY <1>5, <3>1
    <3> QED
      BY <3>1, <3>2, <3>3
  <2>2. PICK l \in 1 .. z - m : l = Min({nu, z - (m + 1) + 1})
    <3>1. z - (m + 1) + 1 \in Nat /\ z - (m + 1) + 1 = z - m /\ z - m >= 1
      BY <1>5
    <3>2. /\ Min({nu, z - (m + 1) + 1}) \in {nu, z - (m + 1) + 1}
          /\ Min({nu, z - (m + 1) + 1}) <= z - (m + 1) + 1
      BY <3>1, MinTwo
    <3> QED
      BY <3>1, <3>2
  <2>3. u = [k \in 1 .. l |-> (m + 1) + k - 1]
    <3>1. m + 1 .. z # {}
      BY <1>5
    <3> QED
      BY <1>1, <1>2, <1>3, <2>1, <2>2, <3>1 DEF SplitSimple
  <2>4. u = [k \in 1 .. l |-> m + k]
    <3>1. \A k \in 1 .. l : (m + 1) + k - 1 = m + k
      OBVIOUS
    <3> QED
      BY <2>3, <3>1
  <2>5. Len(u) = l /\ u \in Seq(1 .. z)
    BY <2>4
  <2>6. ToSet(u) = m + 1 .. m + l
    <3>1. ToSet(u) = {m + k : k \in 1 .. l}
      BY <2>4 DEF ToSet
    <3>2. \A x \in m + 1 .. m + l : \E k \in 1 .. l : x = m + k
      <4>1. \A x \in m + 1 .. m + l : x - m \in 1 .. l /\ x = m + (x - m)
        OBVIOUS
      <4> QED
        BY <4>1
    <3>3. \A k \in 1 .. l : m + k \in m + 1 .. m + l
      OBVIOUS
    <3> QED
      BY ONLY <3>1, <3>2, <3>3
  <2>7. 1 .. m \cup ToSet(u) = 1 .. m + l /\ m + l \in 0 .. z
    BY <2>6
  <2>8. Behind(batch, 1 .. m + l)
    BY <1>1 DEF Behind
  <2>9. Takes(batch, 1 .. m, u)
    <3>1. \A k \in 1 .. l : u[k] = m + k
      BY <2>4
    <3>2. \A k \in 1 .. l : u[k] \notin 1 .. m
      BY <3>1
    <3>3. \A k, j \in 1 .. l : (u[k] = u[j] => k = j) /\ (k < j => u[k] < u[j])
      BY <3>1
    <3>4. Behind(batch, 1 .. m \cup ToSet(u))
      BY <2>7, <2>8
    <3> QED
      BY <1>1, <2>5, <3>2, <3>3, <3>4 DEF Takes
  <2>10. u # <<>>
    BY <2>5
  <2> QED
    BY <1>1, <1>3, <2>7, <2>9, <2>10 DEF FirstTokens
<1> QED
  BY <1>1, <1>4, <1>5

\* The sets of the tokens narrow from each to the next.
LEMMA NarrowsDown ==
  ASSUME NEW batch, IsBatch(batch), NEW used, NEW nu \in Nat \ {0},
         NEW r, Picks(Len(batch), NarrowScan(batch, used, nu), r)
  PROVE  /\ \A x \in 1 .. Len(r) : r[x] \notin used /\ x <= nu
         /\ \A x, y \in 1 .. Len(r) : x <= y => SeqSet(batch[r[y]]) \subseteq SeqSet(batch[r[x]])
<1>1. PICK z \in Nat : z = Len(batch)
  BY DEF IsBatch
<1>2. PICK l \in Nat : l = Len(r) /\ r \in Seq(1 .. z) /\ \A x \in 1 .. l : r[x] \in 1 .. z
  BY <1>1 DEF Picks
<1>3. \A x, y \in 1 .. l : x < y => r[x] < r[y]
  BY <1>2 DEF Picks, Increases
<1>4. ASSUME NEW x \in 1 .. l
      PROVE  /\ r[x] \notin used
             /\ Narrows(batch, nu, SubSeq(r, 1, x - 1), r[x])
  <2>1. PICK k \in 0 .. l :
          /\ \A y \in 1 .. l : r[y] < r[x] <=> y <= k
          /\ (\E y \in 1 .. l : r[y] = r[x])
               <=> <<SubSeq(r, 1, k), r[x]>> \in NarrowScan(batch, used, nu)
    BY <1>1, <1>2 DEF Picks
  <2>2. k = x - 1
    <3>1. ~ (x <= k)
      <4>1. r[x] < r[x] <=> x <= k
        BY <2>1
      <4>2. ~ (r[x] < r[x])
        BY <1>2
      <4> QED
        BY <4>1, <4>2
    <3>2. ASSUME x # 1 PROVE x - 1 <= k
      <4>1. PICK y \in 1 .. l : y = x - 1 /\ y < x
        BY <3>2
      <4>2. r[y] < r[x]
        BY <1>3, <4>1
      <4>3. y <= k
        BY <2>1, <4>2
      <4> QED
        BY <4>1, <4>3
    <3> QED
      BY <3>1, <3>2
  <2>3. <<SubSeq(r, 1, k), r[x]>> \in NarrowScan(batch, used, nu)
    BY <2>1
  <2> QED
    BY <2>2, <2>3 DEF NarrowScan
<1>5. ASSUME NEW x \in 1 .. l, x # 1
      PROVE  x <= nu /\ SeqSet(batch[r[x]]) \subseteq SeqSet(batch[r[x - 1]])
  <2>1. PICK q \in Seq(1 .. z) : q = SubSeq(r, 1, x - 1) /\ Len(q) = x - 1 /\ q[x - 1] = r[x - 1]
    <3>1. PICK k \in 1 .. l : k = x - 1
      BY <1>5
    <3>2. SubSeq(r, 1, k) = [i \in 1 .. k |-> r[i]]
      BY <1>2
    <3>3. /\ SubSeq(r, 1, k) \in Seq(1 .. z)
          /\ Len(SubSeq(r, 1, k)) = k /\ SubSeq(r, 1, k)[k] = r[k]
      BY <1>2, <3>2
    <3> QED
      BY <3>1, <3>3
  <2>2. q # <<>>
    <3>1. Len(q) # 0
      BY <1>5, <2>1
    <3> QED
      BY <2>1, <3>1, EmptySeq
  <2>3. Len(q) < nu /\ SeqSet(batch[r[x]]) \subseteq SeqSet(batch[Last(q)])
    BY <1>4, <2>1, <2>2 DEF Narrows
  <2>4. Last(q) = r[x - 1]
    BY <2>1 DEF Last
  <2> QED
    BY <2>1, <2>3, <2>4
<1>6. ASSUME NEW x \in 1 .. l
      PROVE  \A y \in 1 .. l : x <= y => SeqSet(batch[r[y]]) \subseteq SeqSet(batch[r[x]])
  <2> DEFINE S == {d \in 0 .. l : x + d <= l => SeqSet(batch[r[x + d]]) \subseteq SeqSet(batch[r[x]])}
  <2>1. 0 \in S
    BY <1>6
  <2>2. ASSUME NEW d \in 0 .. l - 1, d \in S PROVE d + 1 \in S
    <3> SUFFICES ASSUME x + (d + 1) <= l
                 PROVE  SeqSet(batch[r[x + (d + 1)]]) \subseteq SeqSet(batch[r[x]])
      OBVIOUS
    <3>1. PICK y \in 1 .. l : y = x + (d + 1) /\ y # 1 /\ y - 1 = x + d
      <4>1. x + (d + 1) \in 1 .. l /\ x + (d + 1) # 1 /\ x + (d + 1) - 1 = x + d
        OBVIOUS
      <4> QED
        BY <4>1
    <3>2. SeqSet(batch[r[x + d]]) \subseteq SeqSet(batch[r[x]])
      BY <2>2
    <3> QED
      BY <1>5, <3>1, <3>2
  <2> HIDE DEF S
  <2>3. 0 .. l \subseteq S
    BY <2>1, <2>2, UpTo
  <2> SUFFICES ASSUME NEW y \in 1 .. l, x <= y
               PROVE  SeqSet(batch[r[y]]) \subseteq SeqSet(batch[r[x]])
    OBVIOUS
  <2>4. PICK d \in 0 .. l : x + d = y
    <3>1. y - x \in 0 .. l /\ x + (y - x) = y
      OBVIOUS
    <3> QED
      BY <3>1
  <2>5. d \in S /\ x + d <= l
    BY <2>3, <2>4
  <2> QED
    BY <2>4, <2>5 DEF S
<1>7. \A x \in 1 .. l : x <= nu
  <2>1. 1 <= nu
    OBVIOUS
  <2> QED
    BY <1>5, <2>1
<1> QED
  BY <1>2, <1>4, <1>6, <1>7

\* The first k elements of a sequence.
LEMMA FirstOnes ==
  ASSUME NEW V, NEW r \in Seq(V), NEW k \in 0 .. Len(r)
  PROVE  /\ SubSeq(r, 1, k) \in Seq(V) /\ Len(SubSeq(r, 1, k)) = k
         /\ \A x \in 1 .. k : SubSeq(r, 1, k)[x] = r[x]
         /\ k = 0 => SubSeq(r, 1, k) = <<>>
         /\ k > 0 => SubSeq(r, 1, k) # <<>> /\ Last(SubSeq(r, 1, k)) = r[k]
<1>1. PICK q : q = SubSeq(r, 1, k)
  OBVIOUS
<1>2. q = [x \in 1 .. k |-> r[x]]
  BY <1>1
<1>3. q \in Seq(V) /\ Len(q) = k /\ \A x \in 1 .. k : q[x] = r[x]
  BY <1>2
<1>4. k = 0 => q = <<>>
  BY <1>3, EmptySeq
<1>5. k > 0 => q # <<>>
  BY <1>3, EmptySeq
<1>6. k > 0 => Last(q) = r[k]
  <2>1. k > 0 => q[k] = r[k]
    BY <1>3
  <2> QED
    BY <1>3, <2>1 DEF Last
<1> QED
  BY <1>1, <1>3, <1>4, <1>5, <1>6

\* split_seq() takes tokens in the order of the batch, of sets that narrow, and
\* none only when none is left.
LEMMA SeqTakes ==
  ASSUME NEW batch, IsBatch(batch), NEW used \in SUBSET (1 .. Len(batch)), NEW nu \in Nat \ {0}
  PROVE  /\ Takes(batch, used, SplitSeq(batch, used, nu))
         /\ SplitSeq(batch, used, nu) = <<>> => used = 1 .. Len(batch)
<1>1. PICK z \in Nat : z = Len(batch)
  BY DEF IsBatch
<1>2. PICK r : r = SplitSeq(batch, used, nu)
  OBVIOUS
<1>3. Picks(z, NarrowScan(batch, used, nu), r)
  BY <1>1, <1>2, SplitSeqIsPicked
<1>4. PICK l \in Nat : l = Len(r) /\ r \in Seq(1 .. z) /\ \A x \in 1 .. l : r[x] \in 1 .. z
  BY <1>3 DEF Picks
<1>5. \A x, y \in 1 .. l : x < y => r[x] < r[y]
  BY <1>3, <1>4 DEF Picks, Increases
<1>6. /\ \A x \in 1 .. l : r[x] \notin used /\ x <= nu
      /\ \A x, y \in 1 .. l : x <= y => SeqSet(batch[r[y]]) \subseteq SeqSet(batch[r[x]])
  BY <1>1, <1>3, <1>4, NarrowsDown
<1>7. ASSUME NEW j \in 1 .. z, j \notin used, \A x \in 1 .. l : r[x] # j
      PROVE  \E k \in 0 .. l : /\ \A x \in 1 .. l : r[x] < j <=> x <= k
                               /\ k > 0 /\ ~ (k < nu /\ SeqSet(batch[j]) \subseteq SeqSet(batch[r[k]]))
  <2>1. PICK k \in 0 .. l :
          /\ \A x \in 1 .. l : r[x] < j <=> x <= k
          /\ (\E x \in 1 .. l : r[x] = j) <=> <<SubSeq(r, 1, k), j>> \in NarrowScan(batch, used, nu)
    BY <1>3, <1>4 DEF Picks
  <2>2. <<SubSeq(r, 1, k), j>> \notin NarrowScan(batch, used, nu)
    BY <1>7, <2>1
  <2>3. SubSeq(r, 1, k) \in Seq(Nat)
    <3>1. r \in Seq(Nat)
      BY <1>4
    <3> QED
      BY <1>4, <3>1, FirstOnes
  <2>4. ~ Narrows(batch, nu, SubSeq(r, 1, k), j)
    <3>1. PICK q \in Seq(Nat) : q = SubSeq(r, 1, k)
      BY <2>3
    <3>2. <<q, j>> \in Seq(Nat) \X Nat
      OBVIOUS
    <3>3. j \notin used
      BY <1>7
    <3>4. ~ Narrows(batch, nu, q, j)
      BY <2>2, <3>1, <3>2, <3>3 DEF NarrowScan
    <3> QED
      BY <3>1, <3>4
  <2>5. /\ Len(SubSeq(r, 1, k)) = k
        /\ k = 0 => SubSeq(r, 1, k) = <<>>
        /\ k > 0 => Last(SubSeq(r, 1, k)) = r[k]
    BY <1>4, FirstOnes
  <2>6. k > 0
    BY <2>4, <2>5 DEF Narrows
  <2>7. ~ (k < nu /\ SeqSet(batch[j]) \subseteq SeqSet(batch[r[k]]))
    BY <2>4, <2>5, <2>6 DEF Narrows
  <2> QED
    BY <2>1, <2>6, <2>7
<1>8. ASSUME r = <<>> PROVE used = 1 .. z
  <2>1. l = 0
    BY <1>4, <1>8, EmptySeq
  <2> SUFFICES ASSUME NEW j \in 1 .. z, j \notin used PROVE FALSE
    BY <1>1
  <2> QED
    BY <1>7, <2>1
<1>9. ASSUME Tidy(batch), Behind(batch, used) PROVE Behind(batch, used \cup ToSet(r))
  <2> SUFFICES ASSUME NEW i \in used \cup ToSet(r), NEW j \in 1 .. z,
                      j \notin used \cup ToSet(r), Meet(batch, i, j)
               PROVE  i < j
    BY <1>1 DEF Behind
  <2>1. ToSet(r) = {r[x] : x \in 1 .. l}
    <3>1. DOMAIN r = 1 .. l
      BY <1>4
    <3>2. ToSet(r) = {r[x] : x \in DOMAIN r}
      BY DEF ToSet
    <3> QED
      BY <3>1, <3>2
  <2>2. CASE i \in used
    BY <1>1, <1>9, <2>2 DEF Behind
  <2>3. CASE i \notin used
    <3>1. PICK x \in 1 .. l : i = r[x]
      BY <2>1, <2>3
    <3>2. \A y \in 1 .. l : r[y] # j
      BY <2>1
    <3>3. PICK k \in 0 .. l :
             /\ \A y \in 1 .. l : r[y] < j <=> y <= k
             /\ k > 0 /\ ~ (k < nu /\ SeqSet(batch[j]) \subseteq SeqSet(batch[r[k]]))
      BY <1>7, <3>2
    <3>4. SeqSet(batch[j]) = SeqSet(batch[r[x]])
      BY <1>1, <1>4, <1>9, <3>1, TidyMeets
    <3>5. x <= k
      <4> SUFFICES ASSUME k < x PROVE FALSE
        OBVIOUS
      <4>1. k \in 1 .. l /\ k <= x /\ k < nu
        BY <1>6, <3>3
      <4>2. SeqSet(batch[r[x]]) \subseteq SeqSet(batch[r[k]])
        BY <1>6, <4>1
      <4> QED
        BY <3>3, <3>4, <4>1, <4>2
    <3> QED
      BY <3>1, <3>3, <3>5
  <2> QED
    BY <2>2, <2>3
<1>10. \A x, y \in 1 .. l : r[x] = r[y] => x = y
  <2> SUFFICES ASSUME NEW x \in 1 .. l, NEW y \in 1 .. l, r[x] = r[y], x # y PROVE FALSE
    OBVIOUS
  <2>1. r[x] < r[y] \/ r[y] < r[x]
    BY <1>5
  <2>2. r[x] \in Nat /\ r[y] \in Nat
    BY <1>4
  <2> QED
    BY <2>1, <2>2
<1>11. Takes(batch, used, r)
  BY <1>1, <1>4, <1>5, <1>6, <1>9, <1>10 DEF Takes
<1> QED
  BY <1>1, <1>2, <1>8, <1>11

\* The first tokens of the sets of an equal split: not yet handed out, of sets
\* apart, in a sequential split with ids that count up.
Leads(batch, used, sequential, L) ==
  /\ L \in Seq(1 .. Len(batch))
  /\ \A x \in 1 .. Len(L) : L[x] \notin used
  /\ \A x, y \in 1 .. Len(L) : x # y => ~ Meet(batch, L[x], L[y])
  /\ sequential =>
       \A x \in 1 .. Len(L) : x > 1 => FirstId(batch[L[x]]) = FirstId(batch[L[x - 1]]) + 1

\* The first loop of split_equal() finds such tokens, and none only when none is
\* left.
LEMMA LeadersAre ==
  ASSUME NEW batch, IsBatch(batch), NEW used \in SUBSET (1 .. Len(batch)), NEW nu \in Nat \ {0},
         NEW sequential \in BOOLEAN
  PROVE  /\ Leads(batch, used, sequential, Leaders(batch, used, nu, sequential))
         /\ Leaders(batch, used, nu, sequential) = <<>> => used = 1 .. Len(batch)
<1> DEFINE T == LeaderScan(batch, used, nu, sequential)
<1>1. PICK z \in Nat : z = Len(batch)
  BY DEF IsBatch
<1>2. PICK r : r = Leaders(batch, used, nu, sequential)
  OBVIOUS
<1>3. Picks(z, T, r)
  BY <1>1, <1>2, LeadersArePicked
<1>4. PICK l \in Nat : l = Len(r) /\ r \in Seq(1 .. z) /\ \A x \in 1 .. l : r[x] \in 1 .. z
  BY <1>3 DEF Picks
<1>5. \A x, y \in 1 .. l : x < y => r[x] < r[y]
  BY <1>3, <1>4 DEF Picks, Increases
<1>6. \A i \in 1 .. z : \E k \in 0 .. l :
        /\ \A x \in 1 .. l : r[x] < i <=> x <= k
        /\ (\E x \in 1 .. l : r[x] = i) <=> <<SubSeq(r, 1, k), i>> \in T
  BY <1>3, <1>4 DEF Picks
<1> HIDE DEF T
<1>7. ASSUME NEW x \in 1 .. l
      PROVE  <<SubSeq(r, 1, x - 1), r[x]>> \in T
  <2>1. PICK k \in 0 .. l :
          /\ \A y \in 1 .. l : r[y] < r[x] <=> y <= k
          /\ (\E y \in 1 .. l : r[y] = r[x]) <=> <<SubSeq(r, 1, k), r[x]>> \in T
    BY <1>4, <1>6
  <2>2. k = x - 1
    <3>1. ~ (x <= k)
      <4>1. r[x] < r[x] <=> x <= k
        BY <2>1
      <4>2. ~ (r[x] < r[x])
        BY <1>4
      <4> QED
        BY <4>1, <4>2
    <3>2. ASSUME x # 1 PROVE x - 1 <= k
      <4>1. PICK y \in 1 .. l : y = x - 1 /\ y < x
        BY <3>2
      <4>2. r[y] < r[x]
        BY <1>5, <4>1
      <4>3. y <= k
        BY <2>1, <4>2
      <4> QED
        BY <4>1, <4>3
    <3> QED
      BY <3>1, <3>2
  <2>3. <<SubSeq(r, 1, k), r[x]>> \in T
    BY <2>1
  <2> QED
    BY <2>2, <2>3
<1>8. ASSUME NEW x \in 1 .. l
      PROVE  /\ r[x] \notin used
             /\ \A y \in 1 .. l : y < x => ~ Meet(batch, r[x], r[y])
             /\ sequential /\ x > 1 => FirstId(batch[r[x]]) = FirstId(batch[r[x - 1]]) + 1
  <2>1. PICK k \in 0 .. l : k = x - 1
    BY <1>8
  <2>2. PICK q : q = SubSeq(r, 1, k)
    OBVIOUS
  <2>3. /\ q \in Seq(1 .. z) /\ Len(q) = k
        /\ \A y \in 1 .. k : q[y] = r[y]
        /\ k > 0 => q # <<>> /\ Last(q) = r[k]
    BY <1>4, <2>2, FirstOnes
  <2>4. <<q, r[x]>> \in T
    BY <1>7, <2>1, <2>2
  <2>5. r[x] \notin used /\ Joins(batch, nu, sequential, q, r[x])
    BY <2>4 DEF T, LeaderScan
  <2>6. ASSUME NEW y \in 1 .. l, y < x PROVE ~ Meet(batch, r[x], r[y])
    <3>1. y \in 1 .. k
      BY <2>1, <2>6
    <3>2. y \in DOMAIN q /\ q[y] = r[y]
      BY <2>3, <3>1
    <3> QED
      BY <2>5, <3>2 DEF Joins, Meet
  <2>7. ASSUME sequential, x > 1 PROVE FirstId(batch[r[x]]) = FirstId(batch[r[x - 1]]) + 1
    <3>1. k > 0
      BY <2>1, <2>7
    <3>2. FirstId(batch[r[x]]) = FirstId(batch[Last(q)]) + 1
      BY <2>3, <2>5, <2>7, <3>1 DEF Joins
    <3> QED
      BY <2>1, <2>3, <3>1, <3>2
  <2> QED
    BY <2>5, <2>6, <2>7
<1>9. ASSUME NEW x \in 1 .. l, NEW y \in 1 .. l, x # y
      PROVE  ~ Meet(batch, r[x], r[y])
  <2>1. Meet(batch, r[x], r[y]) <=> Meet(batch, r[y], r[x])
    BY DEF Meet
  <2>2. y < x \/ x < y
    BY <1>9
  <2> QED
    BY <1>8, <2>1, <2>2
<1>10. ASSUME r = <<>> PROVE used = 1 .. z
  <2>1. l = 0
    BY <1>4, <1>10, EmptySeq
  <2> SUFFICES ASSUME NEW j \in 1 .. z, j \notin used PROVE FALSE
    BY <1>1
  <2>2. <<SubSeq(r, 1, 0), j>> \notin T
    <3>1. PICK k \in 0 .. l :
            (\E x \in 1 .. l : r[x] = j) <=> <<SubSeq(r, 1, k), j>> \in T
      BY <1>6
    <3>2. k = 0 /\ 1 .. l = {}
      BY <2>1
    <3> QED
      BY <3>1, <3>2
  <2>3. SubSeq(r, 1, 0) = <<>>
    <3>1. 0 \in 0 .. Len(r)
      BY <1>4
    <3> QED
      BY <1>4, <3>1, FirstOnes
  <2>4. PICK e : e = <<>> /\ e \in Seq(Nat) /\ Len(e) = 0 /\ DOMAIN e = {}
    <3>1. <<>> \in Seq(Nat) /\ Len(<<>>) = 0 /\ DOMAIN <<>> = {}
      BY EmptySeq
    <3> QED
      BY <3>1
  <2>5. Joins(batch, nu, sequential, e, j)
    BY <2>4 DEF Joins
  <2>6. <<e, j>> \in Seq(Nat) \X Nat
    <3>1. \A q \in Seq(Nat) : <<q, j>> \in Seq(Nat) \X Nat
      OBVIOUS
    <3> QED
      BY <2>4, <3>1
  <2>7. <<e, j>> \in T
    BY <2>5, <2>6 DEF T, LeaderScan
  <2> QED
    BY <2>2, <2>3, <2>4, <2>7
<1> QED
  BY <1>1, <1>2, <1>4, <1>8, <1>9, <1>10 DEF Leads

\* The lists are of the tokens not yet handed out, by set; the sets are apart.
ListsBySet(batch, used, m, sets, lists) ==
  /\ lists \in Seq(Seq(1 .. Len(batch))) /\ Len(lists) = m
  /\ \A k \in 1 .. m :
       /\ Lists(lists[k], {i \in 1 .. Len(batch) : i \notin used /\ SeqSet(batch[i]) = sets[k]})
       /\ Len(lists[k]) > 0
  /\ \A k \in 1 .. m : sets[k] # {}
  /\ \A x, y \in 1 .. m : x # y => sets[x] \cap sets[y] = {}

\* The lists of an equal split are of the sets of its first tokens.
LEMMA ListsAre ==
  ASSUME NEW batch, IsBatch(batch), NEW used \in SUBSET (1 .. Len(batch)),
         NEW sequential, NEW L, Leads(batch, used, sequential, L)
  PROVE  ListsBySet(batch, used, Len(L), [k \in 1 .. Len(L) |-> SeqSet(batch[L[k]])],
                    ListsOf(batch, used, L))
<1>1. PICK z \in Nat : z = Len(batch) /\ DOMAIN batch = 1 .. z
  BY DEF IsBatch
<1>2. PICK m \in Nat : m = Len(L) /\ \A k \in 1 .. m : L[k] \in 1 .. z
  BY <1>1, SMTT(30) DEF Leads
<1>3. PICK sets : sets = [k \in 1 .. m |-> SeqSet(batch[L[k]])]
  OBVIOUS
<1>4. PICK lists : lists = ListsOf(batch, used, L)
  OBVIOUS
<1> DEFINE T(k) == {i \in 1 .. z : i \notin used /\ SeqSet(batch[i]) = sets[k]}
<1>5. ASSUME NEW k \in 1 .. m
      PROVE  /\ lists[k] \in Seq(1 .. z) /\ Lists(lists[k], T(k)) /\ Len(lists[k]) > 0
             /\ sets[k] # {}
  <2>1. sets[k] = SeqSet(batch[L[k]])
    BY <1>3
  <2>2. {i \in Unused(batch, used) : SeqSet(batch[i]) = SeqSet(batch[L[k]])} = T(k)
    BY <1>1, <2>1 DEF Unused
  <2>3. lists[k] = Listed(T(k))
    BY <1>2, <1>4, <2>2 DEF ListsOf, TokensOfSet
  <2>4. T(k) \in SUBSET Nat /\ IsFiniteSet(T(k)) /\ T(k) \subseteq 1 .. z
    <3>1. IsFiniteSet(1 .. z)
      BY CountUpTo
    <3>2. T(k) \subseteq 1 .. z
      OBVIOUS
    <3>3. IsFiniteSet(T(k))
      BY <3>1, <3>2, FS_Subset
    <3> QED
      BY <3>2, <3>3
  <2>5. L[k] \in T(k)
    BY <1>2, <2>1 DEF Leads
  <2> HIDE DEF T
  <2>6. Lists(Listed(T(k)), T(k))
    BY <2>4, ListedIs
  <2>7. lists[k] \in Seq(T(k)) /\ \E x \in 1 .. Len(lists[k]) : lists[k][x] = L[k]
    BY <2>3, <2>5, <2>6 DEF Lists
  <2>8. lists[k] \in Seq(1 .. z) /\ Len(lists[k]) > 0
    BY <2>4, <2>7
  <2>9. sets[k] # {}
    BY <1>1, <1>2, <2>1, IdsAre
  <2> QED
    BY <2>3, <2>6, <2>8, <2>9
<1>6. lists \in Seq(Seq(1 .. z)) /\ Len(lists) = m
  <2>1. lists = [k \in 1 .. m |-> TokensOfSet(batch, used, SeqSet(batch[L[k]]))]
    BY <1>2, <1>4 DEF ListsOf
  <2>2. \A k \in 1 .. m : TokensOfSet(batch, used, SeqSet(batch[L[k]])) \in Seq(1 .. z)
    BY <1>5, <2>1
  <2> QED
    BY <2>1, <2>2
<1>7. \A x, y \in 1 .. m : x # y => sets[x] \cap sets[y] = {}
  BY <1>2, <1>3 DEF Leads, Meet
<1>8. \A k \in 1 .. m : /\ Lists(lists[k], T(k)) /\ Len(lists[k]) > 0 /\ sets[k] # {}
  BY <1>5
<1>9. ListsBySet(batch, used, m, sets, lists)
  BY <1>1, <1>6, <1>7, <1>8 DEF ListsBySet
<1> QED
  BY <1>2, <1>3, <1>4, <1>9

\* How many times m goes into a number.
LEMMA Quotient ==
  ASSUME NEW a \in Nat, NEW m \in Nat \ {0}
  PROVE  a \div m \in Nat
  OBVIOUS

\* At least one round, and no list runs out in it.
LEMMA RoundsAre ==
  ASSUME NEW lists, NEW m \in Nat \ {0}, Len(lists) = m, DOMAIN lists = 1 .. m,
         \A k \in 1 .. m : Len(lists[k]) \in Nat \ {0}, NEW nu \in Nat \ {0}
  PROVE  Rounds(lists, nu) \in Nat \ {0} /\ \A k \in 1 .. m : Rounds(lists, nu) <= Len(lists[k])
<1>1. PICK d \in Nat : d = nu \div m
  BY Quotient
<1>2. PICK e \in Nat \ {0} : e = Max({1, d})
  <2>1. \E x \in {1, d} : \A y \in {1, d} : x >= y
    OBVIOUS
  <2>2. Max({1, d}) \in {1, d} /\ \A y \in {1, d} : Max({1, d}) >= y
    BY <2>1 DEF Max
  <2> QED
    BY <2>2
<1>3. PICK E : E = {e} \cup {Len(lists[k]) : k \in 1 .. m}
  OBVIOUS
<1>4. E \in SUBSET Nat /\ E # {} /\ 0 \notin E
  BY <1>3
<1>5. Min(E) \in E /\ \A y \in E : Min(E) <= y
  BY <1>4, LeastIs
<1>6. Rounds(lists, nu) = Min(E)
  BY <1>1, <1>2, <1>3 DEF Rounds
<1>7. Min(E) \in Nat \ {0}
  BY <1>4, <1>5
<1>8. \A k \in 1 .. m : Min(E) <= Len(lists[k])
  BY <1>3, <1>5
<1> QED
  BY <1>6, <1>7, <1>8

\* The first rounds of the lists, block by block.
LEMMA BlocksAre ==
  ASSUME NEW V, NEW lists \in Seq(Seq(V)), NEW m \in Nat \ {0}, Len(lists) = m,
         \A k \in 1 .. m : Len(lists[k]) > 0, NEW nu \in Nat \ {0}
  PROVE  \E R \in Nat \ {0} :
           /\ \A k \in 1 .. m : R <= Len(lists[k])
           /\ FirstRounds(lists, nu) \in Seq(V)
           /\ InBlocks(FirstRounds(lists, nu), m, R, lists)
<1>1. DOMAIN lists = 1 .. m /\ \A k \in 1 .. m : lists[k] \in Seq(V)
  OBVIOUS
<1>2. \A k \in 1 .. m : Len(lists[k]) \in Nat \ {0}
  BY <1>1
<1>3. PICK R \in Nat \ {0} : R = Rounds(lists, nu) /\ \A k \in 1 .. m : R <= Len(lists[k])
  BY <1>1, <1>2, RoundsAre
<1>4. PICK s : s = [k \in 1 .. m |-> SubSeq(lists[k], 1, R)]
  OBVIOUS
<1>5. ASSUME NEW k \in 1 .. m
      PROVE  s[k] \in Seq(V) /\ Len(s[k]) = R /\ \A x \in 1 .. R : s[k][x] = lists[k][x]
  <2>1. PICK q \in Seq(V) : q = lists[k] /\ s[k] = SubSeq(q, 1, R) /\ R \in 0 .. Len(q)
    BY <1>1, <1>3, <1>4
  <2> QED
    BY <2>1, FirstOnes
<1>6. s \in Seq(Seq(V)) /\ Len(s) = m
  <2>1. \A k \in 1 .. m : SubSeq(lists[k], 1, R) \in Seq(V)
    BY <1>4, <1>5
  <2> QED
    BY <1>4, <2>1
<1>7. FlattenSeq(s) \in Seq(V) /\ InBlocks(FlattenSeq(s), m, R, s)
  BY <1>5, <1>6, FlattenBlocks
<1>8. InBlocks(FlattenSeq(s), m, R, lists)
  BY <1>5, <1>7 DEF InBlocks
<1>9. FirstRounds(lists, nu) = FlattenSeq(s)
  BY <1>1, <1>3, <1>4 DEF FirstRounds
<1> QED
  BY <1>3, <1>7, <1>8, <1>9

\* What a ubatch of blocks takes.
LEMMA BlocksTake ==
  ASSUME NEW batch, IsBatch(batch), NEW used \in SUBSET (1 .. Len(batch)),
         NEW m \in Nat, NEW sets, NEW lists, ListsBySet(batch, used, m, sets, lists),
         NEW R \in Nat \ {0}, \A k \in 1 .. m : R <= Len(lists[k]),
         NEW u \in Seq(1 .. Len(batch)), InBlocks(u, m, R, lists)
  PROVE  Takes(batch, used, u)
<1>1. PICK z \in Nat : z = Len(batch)
  BY DEF IsBatch
<1> DEFINE T(k) == {i \in 1 .. z : i \notin used /\ SeqSet(batch[i]) = sets[k]}
<1>2. PICK len : /\ len = [k \in 1 .. m |-> Len(lists[k])]
                 /\ \A k \in 1 .. m : len[k] \in Nat /\ R <= len[k]
  <2>1. lists \in Seq(Seq(1 .. z)) /\ Len(lists) = m
    BY <1>1 DEF ListsBySet
  <2>2. \A k \in 1 .. m : lists[k] \in Seq(1 .. z)
    BY <2>1
  <2>3. \A k \in 1 .. m : Len(lists[k]) \in Nat /\ R <= Len(lists[k])
    BY <2>2
  <2>4. PICK f : f = [k \in 1 .. m |-> Len(lists[k])]
    OBVIOUS
  <2>5. \A k \in 1 .. m : f[k] \in Nat /\ R <= f[k]
    BY <2>3, <2>4
  <2> QED
    BY <2>4, <2>5
<1>3. ASSUME NEW k \in 1 .. m
      PROVE  /\ \A x \in 1 .. len[k] : lists[k][x] \in T(k)
             /\ \A x, y \in 1 .. len[k] : x < y => lists[k][x] < lists[k][y]
             /\ \A i \in T(k) : \E x \in 1 .. len[k] : lists[k][x] = i
  <2>1. PICK s, S : s = lists[k] /\ S = T(k)
    OBVIOUS
  <2>2. Lists(s, S)
    BY <1>1, <2>1 DEF ListsBySet
  <2>3. Len(s) = len[k] /\ len[k] \in Nat
    BY <1>2, <2>1
  <2>4. \A x \in 1 .. len[k] : s[x] \in S
    BY <2>2, <2>3 DEF Lists
  <2>5. \A x, y \in 1 .. len[k] : x < y => s[x] < s[y]
    BY <2>2, <2>3 DEF Lists, Increases
  <2>6. \A i \in S : \E x \in 1 .. len[k] : s[x] = i
    BY <2>2, <2>3 DEF Lists
  <2> HIDE DEF T
  <2> QED
    BY <2>1, <2>4, <2>5, <2>6
<1>4. ASSUME NEW p \in 1 .. Len(u)
      PROVE  \E k \in 1 .. m : \E x \in 1 .. R :
               p = (k - 1) * R + x /\ u[p] = lists[k][x] /\ u[p] \in T(k)
  <2>1. PICK k \in 1 .. m, x \in 1 .. R : p = (k - 1) * R + x
    BY DEF InBlocks
  <2>2. u[p] = lists[k][x]
    BY <2>1 DEF InBlocks
  <2>3. x \in 1 .. len[k]
    BY <1>2
  <2> QED
    BY <1>3, <2>1, <2>2, <2>3
<1>5. ASSUME NEW k \in 1 .. m, NEW l \in 1 .. m, NEW i \in T(k), NEW j \in T(l), Meet(batch, i, j)
      PROVE  k = l
  BY <1>5 DEF Meet, ListsBySet
<1>6. ASSUME NEW p \in 1 .. Len(u), NEW q \in 1 .. Len(u), Meet(batch, u[p], u[q]), p < q
      PROVE  u[p] < u[q]
  <2>1. PICK k \in 1 .. m, x \in 1 .. R :
          p = (k - 1) * R + x /\ u[p] = lists[k][x] /\ u[p] \in T(k)
    BY <1>4
  <2>2. PICK l \in 1 .. m, y \in 1 .. R :
          q = (l - 1) * R + y /\ u[q] = lists[l][y] /\ u[q] \in T(l)
    BY <1>4
  <2>3. k = l
    BY <1>5, <1>6, <2>1, <2>2
  <2>4. x < y
    <3>1. PICK c \in Int : c = (k - 1) * R
      OBVIOUS
    <3> QED
      BY <1>6, <2>1, <2>2, <2>3, <3>1
  <2>5. x \in 1 .. len[k] /\ y \in 1 .. len[k]
    BY <1>2, SMTT(30)
  <2>6. lists[k][x] < lists[k][y]
    BY <1>3, <2>4, <2>5
  <2> QED
    BY <2>1, <2>2, <2>3, <2>6
<1>7. \A p \in 1 .. Len(u) : u[p] \notin used /\ u[p] \in 1 .. z
  BY <1>4
<1>8. ASSUME NEW p \in 1 .. Len(u), NEW q \in 1 .. Len(u), u[p] = u[q]
      PROVE  p = q
  <2>1. Meet(batch, u[p], u[q]) /\ Meet(batch, u[q], u[p])
    <3>1. SeqSet(batch[u[p]]) # {}
      BY <1>1, <1>7, IdsAre
    <3> QED
      BY <1>8, <3>1 DEF Meet
  <2>2. ~ (p < q) /\ ~ (q < p)
    BY <1>6, <1>7, <1>8, <2>1
  <2> QED
    BY <2>2
<1>9. ASSUME Tidy(batch), Behind(batch, used) PROVE Behind(batch, used \cup ToSet(u))
  <2> SUFFICES ASSUME NEW i \in used \cup ToSet(u), NEW j \in 1 .. z,
                      j \notin used \cup ToSet(u), Meet(batch, i, j)
               PROVE  i < j
    BY <1>1 DEF Behind
  <2>1. ToSet(u) = {u[p] : p \in 1 .. Len(u)}
    BY DEF ToSet
  <2>2. CASE i \in used
    BY <1>1, <1>9, <2>2 DEF Behind
  <2>3. CASE i \notin used
    <3>1. PICK p \in 1 .. Len(u) : i = u[p]
      BY <2>1, <2>3
    <3>2. PICK k \in 1 .. m, x \in 1 .. R : u[p] = lists[k][x] /\ u[p] \in T(k)
      BY <1>4
    <3>3. i \in T(k) /\ i \in 1 .. z
      BY <3>1, <3>2
    <3>4. SeqSet(batch[i]) = SeqSet(batch[j])
      BY <1>1, <1>9, <3>3, TidyMeets
    <3>5. j \in T(k)
      BY <3>3, <3>4
    <3>6. PICK y \in 1 .. len[k] : lists[k][y] = j
      BY <1>3, <3>5
    <3>7. y > R
      <4> SUFFICES ASSUME y <= R PROVE FALSE
        OBVIOUS
      <4>1. y \in 1 .. R
        OBVIOUS
      <4>2. (k - 1) * R + y \in 1 .. Len(u) /\ u[(k - 1) * R + y] = j
        BY <3>6, <4>1 DEF InBlocks
      <4> QED
        BY <2>1, <4>2
    <3>8. x \in 1 .. len[k] /\ x < y
      BY <1>2, <3>7
    <3> QED
      BY <1>3, <3>1, <3>2, <3>6, <3>8
  <2> QED
    BY <2>2, <2>3
<1>10. \A p, q \in 1 .. Len(u) : u[p] = u[q] => p = q
  BY <1>8
<1> HIDE DEF T
<1> QED
  BY <1>1, <1>6, <1>7, <1>9, <1>10 DEF Takes

\* A split by sequence set, sequential or not: either there is no ubatch, or it
\* is blocks of the lists of its sets.
LEMMA EqualIs ==
  ASSUME NEW batch, IsBatch(batch), NEW used \in SUBSET (1 .. Len(batch)), NEW nu \in Nat \ {0},
         NEW sequential \in BOOLEAN, ~ (sequential /\ Coupled(batch) # {}), used # 1 .. Len(batch)
  PROVE  \E m, R \in Nat \ {0} : \E L, sets, lists :
           /\ Leads(batch, used, sequential, L) /\ Len(L) = m
           /\ sets = [k \in 1 .. m |-> SeqSet(batch[L[k]])]
           /\ ListsBySet(batch, used, m, sets, lists)
           /\ \A k \in 1 .. m : R <= Len(lists[k])
           /\ SplitEqual(batch, used, nu, sequential) \in Seq(1 .. Len(batch))
           /\ InBlocks(SplitEqual(batch, used, nu, sequential), m, R, lists)
<1>1. PICK z \in Nat : z = Len(batch) /\ DOMAIN batch = 1 .. z
  BY DEF IsBatch
<1>2. PICK L : L = Leaders(batch, used, nu, sequential)
  OBVIOUS
<1>3. Leads(batch, used, sequential, L) /\ L # <<>>
  BY <1>2, LeadersAre
<1>4. PICK m \in Nat \ {0} : m = Len(L)
  <2>1. L \in Seq(1 .. z)
    BY <1>1, <1>3 DEF Leads
  <2> QED
    BY <1>3, <2>1, EmptySeq
<1>5. PICK sets : sets = [k \in 1 .. m |-> SeqSet(batch[L[k]])]
  OBVIOUS
<1>6. PICK lists : lists = ListsOf(batch, used, L)
  OBVIOUS
<1>7. ListsBySet(batch, used, m, sets, lists)
  BY <1>3, <1>4, <1>5, <1>6, ListsAre
<1>8. /\ lists \in Seq(Seq(1 .. z)) /\ Len(lists) = m
      /\ \A k \in 1 .. m : Len(lists[k]) > 0
  BY <1>1, <1>7 DEF ListsBySet
<1>9. PICK R \in Nat \ {0} :
         /\ \A k \in 1 .. m : R <= Len(lists[k])
         /\ FirstRounds(lists, nu) \in Seq(1 .. z)
         /\ InBlocks(FirstRounds(lists, nu), m, R, lists)
  BY <1>8, BlocksAre
<1>10. SplitEqual(batch, used, nu, sequential) = FirstRounds(lists, nu)
  <2>1. Unused(batch, used) # {}
    BY <1>1 DEF Unused
  <2> QED
    BY <1>2, <1>6, <2>1 DEF SplitEqual
<1> QED
  BY <1>1, <1>3, <1>4, <1>5, <1>7, <1>9, <1>10

\* The first ids of the sets.
LeadingIds(batch, L) == [k \in 1 .. Len(L) |-> FirstId(batch[L[k]])]

\* In a sequential split they are the unique ids in order.
LEMMA LeadingIdsListed ==
  ASSUME NEW batch, IsBatch(batch), Coupled(batch) = {}, Seqs \subseteq Nat, NEW used,
         NEW sequential \in BOOLEAN, sequential, NEW L, Leads(batch, used, sequential, L)
  PROVE  Listed(ToSet(LeadingIds(batch, L))) = LeadingIds(batch, L)
<1>1. PICK z \in Nat : z = Len(batch)
  BY DEF IsBatch
<1>2. PICK m \in Nat : m = Len(L) /\ \A k \in 1 .. m : L[k] \in 1 .. z
  <2>1. L \in Seq(1 .. z)
    BY <1>1 DEF Leads
  <2> QED
    BY <2>1
<1>3. PICK c : c = [k \in 1 .. m |-> FirstId(batch[L[k]])] /\ c = LeadingIds(batch, L)
  BY <1>2 DEF LeadingIds
<1>4. PICK C : C = ToSet(LeadingIds(batch, L)) /\ C = {c[k] : k \in 1 .. m}
  <2>1. DOMAIN c = 1 .. m
    BY <1>3
  <2>2. ToSet(c) = {c[k] : k \in 1 .. m}
    BY <2>1 DEF ToSet
  <2> QED
    BY <1>3, <2>2
<1>5. ASSUME NEW k \in 1 .. m PROVE c[k] \in C /\ c[k] \in Nat
  <2>1. FirstId(batch[L[k]]) \in Seqs
    BY <1>1, <1>2, IdsAre
  <2> QED
    BY <1>4, <1>3, <2>1
<1>6. ASSUME NEW k \in 1 .. m - 1 PROVE c[k + 1] = c[k] + 1
  <2>1. PICK x \in 1 .. m : x = k + 1 /\ x > 1 /\ x - 1 = k
    OBVIOUS
  <2>2. FirstId(batch[L[x]]) = FirstId(batch[L[x - 1]]) + 1
    BY <1>2, <2>1 DEF Leads
  <2> QED
    BY <1>3, <2>1, <2>2
<1>7. ASSUME NEW k \in 1 .. m, NEW l \in 1 .. m, k < l PROVE c[k] < c[l]
  <2> DEFINE S == {d \in 0 .. l - 1 - k : c[k] < c[k + 1 + d]}
  <2>1. 0 \in S
    <3>1. k \in 1 .. m - 1 /\ k + 1 + 0 = k + 1
      BY <1>7
    <3>2. c[k + 1] = c[k] + 1
      BY <1>6, <3>1
    <3>3. c[k] < c[k + 1 + 0]
      BY <1>5, <3>1, <3>2
    <3> QED
      BY <1>7, <3>3
  <2>2. ASSUME NEW d \in 0 .. l - 1 - k - 1, d \in S PROVE d + 1 \in S
    <3>1. PICK x \in 1 .. m - 1 : x = k + 1 + d /\ x + 1 = k + 1 + (d + 1)
      OBVIOUS
    <3>2. c[x + 1] = c[x] + 1 /\ c[x] \in Nat /\ c[k] \in Nat
      BY <1>5, <1>6
    <3>3. c[k] < c[x]
      BY <2>2, <3>1
    <3>4. c[k] < c[x + 1]
      BY <3>2, <3>3
    <3> QED
      BY <2>2, <3>1, <3>4
  <2> HIDE DEF S
  <2>3. l - 1 - k \in Nat
    BY <1>7
  <2>4. 0 .. l - 1 - k \subseteq S
    BY <2>1, <2>2, <2>3, UpTo
  <2>5. l - 1 - k \in S
    BY <2>3, <2>4
  <2>6. c[k] < c[k + 1 + (l - 1 - k)]
    BY <2>5 DEF S
  <2> QED
    BY <2>6
<1>8. C \in SUBSET Nat /\ IsFiniteSet(C)
  <2>1. C = {c[k] : k \in 1 .. m}
    BY <1>4
  <2>2. IsFiniteSet(1 .. m)
    BY CountUpTo
  <2>3. c \in Surjection(1 .. m, C)
    BY <1>3, <2>1 DEF Surjection
  <2>4. IsFiniteSet(C)
    BY <2>2, <2>3, FS_Surjection
  <2> QED
    BY <1>5, <2>1, <2>4
<1>9. Lists(c, C)
  <2>1. c \in Seq(C) /\ Len(c) = m
    BY <1>3, <1>5
  <2>2. \A x \in C : \E k \in 1 .. m : c[k] = x
    BY <1>4
  <2> QED
    BY <1>7, <2>1, <2>2 DEF Lists, Increases
<1>10. Lists(Listed(C), C)
  BY <1>8, ListedIs
<1>11. Listed(C) = c
  BY <1>8, <1>9, <1>10, ListedOnly
<1> QED
  BY <1>4, <1>3, <1>11

\* The blocks of ub are of the unique ids in order: what BlocksMatchStreams says
\* of a ubatch.
BlocksInOrder(batch, ub) ==
  LET unq  == Listed(UNION {SeqSet(batch[i]) : i \in ToSet(ub)})
      size == Len(ub) \div Len(unq)
  IN  /\ Len(ub) = size * Len(unq)
      /\ \A b \in DOMAIN unq : \A x \in 1 .. size :
           batch[ub[(b - 1) * size + x]].ids = <<unq[b]>>

\* split_equal(), sequential or not: it takes the tokens of each set in order, gives
\* up only on coupled sequences, and a sequential ubatch has its blocks in the order
\* of the sequence ids.
LEMMA EqualTakes ==
  ASSUME NEW batch, IsBatch(batch), NEW used \in SUBSET (1 .. Len(batch)), NEW nu \in Nat \ {0},
         NEW sequential \in BOOLEAN, Seqs \subseteq Nat,
         NEW u, u = SplitEqual(batch, used, nu, sequential)
  PROVE  /\ Takes(batch, used, u)
         /\ u = <<>> => used = 1 .. Len(batch) \/ (sequential /\ Coupled(batch) # {})
         /\ sequential /\ u # <<>> => BlocksInOrder(batch, u)
<1>1. PICK z \in Nat : z = Len(batch) /\ DOMAIN batch = 1 .. z
  BY DEF IsBatch
<1>2. CASE (sequential /\ Coupled(batch) # {}) \/ used = 1 .. z
  <2>1. u = <<>>
    BY <1>1, <1>2 DEF SplitEqual, Unused
  <2>2. u \in Seq(1 .. z) /\ Len(u) = 0 /\ 1 .. 0 = {} /\ ToSet(u) = {}
    BY <2>1 DEF ToSet
  <2>3. Takes(batch, used, u)
    <3>1. used \cup ToSet(u) = used
      BY <2>2
    <3> QED
      BY <1>1, <2>2, <3>1 DEF Takes
  <2> QED
    BY <1>1, <1>2, <2>1, <2>3
<1>3. CASE ~ (sequential /\ Coupled(batch) # {}) /\ used # 1 .. z
  <2>1. PICK m \in Nat \ {0}, R \in Nat \ {0} : \E L, sets, lists :
           /\ Leads(batch, used, sequential, L) /\ Len(L) = m
           /\ sets = [k \in 1 .. m |-> SeqSet(batch[L[k]])]
           /\ ListsBySet(batch, used, m, sets, lists)
           /\ \A k \in 1 .. m : R <= Len(lists[k])
           /\ u \in Seq(1 .. z)
           /\ InBlocks(u, m, R, lists)
    BY <1>1, <1>3, EqualIs, SMTT(30)
  <2>2. PICK L, sets, lists :
           /\ Leads(batch, used, sequential, L) /\ Len(L) = m
           /\ sets = [k \in 1 .. m |-> SeqSet(batch[L[k]])]
           /\ ListsBySet(batch, used, m, sets, lists)
           /\ \A k \in 1 .. m : R <= Len(lists[k])
           /\ u \in Seq(1 .. z)
           /\ InBlocks(u, m, R, lists)
    BY <2>1
  <2>3. Takes(batch, used, u)
    BY <1>1, <2>2, BlocksTake
  <2>4. Len(u) = m * R /\ u # <<>>
    <3>1. Len(u) = m * R
      BY <2>2 DEF InBlocks
    <3>2. m * R # 0
      OBVIOUS
    <3> QED
      BY <2>2, <3>1, <3>2, EmptySeq
  <2>5. ASSUME sequential PROVE BlocksInOrder(batch, u)
    <3>1. Coupled(batch) = {} /\ Leads(batch, used, sequential, L)
      BY <1>3, <2>2, <2>5
    <3>2. \A k \in 1 .. m : L[k] \in 1 .. z
      BY <1>1, <2>2 DEF Leads
    <3>3. \A k \in 1 .. m : sets[k] = {FirstId(batch[L[k]])}
      BY <1>1, <2>2, <3>1, <3>2, OneId
    <3>4. ASSUME NEW b \in 1 .. m, NEW x \in 1 .. R
          PROVE  /\ (b - 1) * R + x \in 1 .. Len(u)
                 /\ batch[u[(b - 1) * R + x]].ids = <<FirstId(batch[L[b]])>>
                 /\ SeqSet(batch[u[(b - 1) * R + x]]) = {FirstId(batch[L[b]])}
      <4>1. PICK i : i = u[(b - 1) * R + x]
        OBVIOUS
      <4>2. (b - 1) * R + x \in 1 .. Len(u) /\ i = lists[b][x]
        BY <2>2, <4>1 DEF InBlocks
      <4>3. lists[b][x] \in {j \in 1 .. z : j \notin used /\ SeqSet(batch[j]) = sets[b]}
        <5>1. Lists(lists[b], {j \in 1 .. z : j \notin used /\ SeqSet(batch[j]) = sets[b]})
          BY <1>1, <2>2 DEF ListsBySet
        <5>2. PICK T : T = {j \in 1 .. z : j \notin used /\ SeqSet(batch[j]) = sets[b]}
          OBVIOUS
        <5>3. lists[b] \in Seq(T) /\ R <= Len(lists[b])
          BY <2>2, <5>1, <5>2 DEF Lists
        <5> QED
          BY <5>2, <5>3
      <4>4. i \in 1 .. z /\ SeqSet(batch[i]) = {FirstId(batch[L[b]])}
        BY <3>3, <4>2, <4>3
      <4>5. batch[i].ids = <<FirstId(batch[i])>> /\ SeqSet(batch[i]) = {FirstId(batch[i])}
        BY <1>1, <3>1, <4>4, OneId
      <4>6. FirstId(batch[i]) = FirstId(batch[L[b]])
        BY <4>4, <4>5
      <4> QED
        BY <4>1, <4>2, <4>4, <4>5, <4>6
    <3>5. PICK C : C = UNION {SeqSet(batch[i]) : i \in ToSet(u)}
      OBVIOUS
    <3>6. \A c : c \in C <=> \E k \in 1 .. m : c = FirstId(batch[L[k]])
      <4>1. ToSet(u) = {u[p] : p \in 1 .. Len(u)}
        BY <2>2 DEF ToSet
      <4>2. ASSUME NEW c \in C PROVE \E k \in 1 .. m : c = FirstId(batch[L[k]])
        <5>1. PICK p \in 1 .. Len(u) : c \in SeqSet(batch[u[p]])
          BY <3>5, <4>1
        <5>2. PICK b \in 1 .. m, x \in 1 .. R : p = (b - 1) * R + x
          BY <2>2 DEF InBlocks
        <5>3. SeqSet(batch[u[p]]) = {FirstId(batch[L[b]])}
          BY <3>4, <5>2
        <5> QED
          BY <5>1, <5>3
      <4>3. ASSUME NEW k \in 1 .. m PROVE FirstId(batch[L[k]]) \in C
        <5>1. 1 \in 1 .. R
          OBVIOUS
        <5>2. PICK p \in 1 .. Len(u) : SeqSet(batch[u[p]]) = {FirstId(batch[L[k]])}
          BY <3>4, <5>1
        <5> QED
          BY <3>5, <4>1, <5>2
      <4> QED
        BY <4>2, <4>3
    <3>7. PICK unq : unq = Listed(C)
      OBVIOUS
    <3>8. unq = [k \in 1 .. m |-> FirstId(batch[L[k]])] /\ Len(unq) = m
      <4>1. m \in Nat /\ m = Len(L)
        BY <2>2
      <4>2. PICK c : c = LeadingIds(batch, L)
        OBVIOUS
      <4>3. c = [k \in 1 .. m |-> FirstId(batch[L[k]])] /\ Len(c) = m
        BY <4>1, <4>2 DEF LeadingIds
      <4>4. ToSet(c) = {FirstId(batch[L[k]]) : k \in 1 .. m}
        BY <4>3 DEF ToSet
      <4>5. C = ToSet(c)
        BY <3>6, <4>4
      <4>6. Listed(ToSet(c)) = c
        BY <2>5, <3>1, <4>2, LeadingIdsListed
      <4> QED
        BY <3>7, <4>3, <4>5, <4>6
    <3>9. DOMAIN unq = 1 .. m /\ \A b \in 1 .. m : unq[b] = FirstId(batch[L[b]])
      BY <3>8
    <3>10. Len(u) \div Len(unq) = R /\ Len(u) = R * Len(unq)
      <4>1. (m * R) \div m = R /\ m * R = R * m
        OBVIOUS
      <4> QED
        BY <2>4, <3>8, <4>1
    <3>11. \A b \in DOMAIN unq : \A x \in 1 .. R : batch[u[(b - 1) * R + x]].ids = <<unq[b]>>
      BY <3>4, <3>9
    <3> QED
      BY <3>5, <3>7, <3>10, <3>11 DEF BlocksInOrder
  <2> QED
    BY <1>1, <2>3, <2>4, <2>5
<1> QED
  BY <1>1, <1>2, <1>3

-----------------------------------------------------------------------------
(* Swaps.                                                                  *)

\* A swap.
LEMMA SwappedIs ==
  ASSUME NEW D, NEW V, NEW f \in [D -> V], NEW i \in D, NEW j \in D
  PROVE  /\ Swapped(f, i, j) \in [D -> V]
         /\ \A k \in D : Swapped(f, i, j)[k] = IF k = j THEN f[i] ELSE IF k = i THEN f[j] ELSE f[k]
BY DEF Swapped

\* Function g does the swaps sw on f, one after the other.
Replays(nu, D, V, f, sw, g) ==
  /\ g \in [0 .. nu -> [D -> V]] /\ g[0] = f
  /\ \A k \in 0 .. nu - 1 : g[k + 1] = Swapped(g[k], sw[k + 1][1], sw[k + 1][2])

\* What the swaps give is what such a function gives.
ReplayGives(D, V, f, sw) ==
  \E g : Replays(Len(sw), D, V, f, sw, g) /\ Replayed(f, sw) = g[Len(sw)]

\* There is such a function, and the swaps give what it ends with.
LEMMA ReplaySteps ==
  ASSUME NEW D, NEW V, NEW f \in [D -> V], NEW sw \in Seq(D \X D)
  PROVE  ReplayGives(D, V, f, sw)
<1>1. PICK m \in Nat : m = Len(sw)
  OBVIOUS
<1>2. ASSUME NEW k \in 0 .. m - 1 PROVE sw[k + 1][1] \in D /\ sw[k + 1][2] \in D
  <2>1. sw[k + 1] \in D \X D
    BY <1>1
  <2> QED
    BY <2>1
<1> DEFINE X == [D -> V]
           H == [k \in 0 .. m - 1 |-> [e \in X |-> Swapped(e, sw[k + 1][1], sw[k + 1][2])]]
           Step(e) == [k \in 0 .. m |-> IF k = 0 THEN f
                                        ELSE Swapped(e[k - 1], sw[k][1], sw[k][2])]
           c == CHOOSE e : e = Step(e)
<1>3. Replayed(f, sw) = c[m]
  BY <1>1 DEF Replayed
<1>4. \A k \in 0 .. m - 1 : \A e \in X : Swapped(e, sw[k + 1][1], sw[k + 1][2]) \in X
  BY <1>2, SwappedIs
<1>5. H \in [0 .. m - 1 -> [X -> X]]
  <2> HIDE DEF X
  <2> QED
    BY <1>4
<1>6. \A k \in 0 .. m - 1 : \A e \in X : H[k][e] = Swapped(e, sw[k + 1][1], sw[k + 1][2])
  OBVIOUS
<1> HIDE DEF H
<1>7. PICK g : Steps(m, X, f, H, g)
  <2> HIDE DEF X
  <2>1. f \in X
    BY DEF X
  <2> QED
    BY <1>5, <2>1, StepsExist
<1>8. g \in [0 .. m -> X] /\ g[0] = f /\ \A k \in 0 .. m - 1 : g[k + 1] = H[k][g[k]]
  BY <1>7 DEF Steps
<1>9. ASSUME NEW k \in 0 .. m - 1 PROVE g[k + 1] = Swapped(g[k], sw[k + 1][1], sw[k + 1][2])
  <2>1. g[k] \in X
    <3>1. k \in 0 .. m
      OBVIOUS
    <3> HIDE DEF X
    <3> QED
      BY <1>8, <3>1
  <2> HIDE DEF X
  <2> QED
    BY <1>6, <1>8, <2>1
<1>10. g = Step(g)
  <2>1. ASSUME NEW k \in 1 .. m PROVE g[k] = Swapped(g[k - 1], sw[k][1], sw[k][2])
    <3>1. PICK l \in 0 .. m - 1 : l + 1 = k /\ k - 1 = l
      <4>1. k - 1 \in 0 .. m - 1 /\ (k - 1) + 1 = k
        OBVIOUS
      <4> QED
        BY <4>1
    <3> QED
      BY <1>9, <3>1
  <2>2. \A k \in 0 .. m : k = 0 \/ k \in 1 .. m
    OBVIOUS
  <2> HIDE DEF X
  <2> QED
    BY <1>8, <2>1, <2>2
<1>11. c = Step(c)
  <2> HIDE DEF Step
  <2> QED
    BY <1>10
<1>12. PICK h : h = c /\ h = Step(h)
  <2> HIDE DEF Step
  <2> QED
    BY <1>11
<1> HIDE DEF c
<1>13. h[0] = f
  BY <1>12
<1>14. ASSUME NEW k \in 0 .. m - 1 PROVE h[k + 1] = Swapped(h[k], sw[k + 1][1], sw[k + 1][2])
  <2>1. k + 1 \in 0 .. m /\ k + 1 # 0 /\ (k + 1) - 1 = k
    OBVIOUS
  <2>2. \A e : Step(e)[k + 1] = Swapped(e[(k + 1) - 1], sw[k + 1][1], sw[k + 1][2])
    BY <2>1
  <2> HIDE DEF Step
  <2>3. h[k + 1] = Step(h)[k + 1]
    BY <1>12
  <2> QED
    BY <2>1, <2>2, <2>3
<1> DEFINE S == {k \in 0 .. m : h[k] = g[k]}
<1>15. 0 \in S
  BY <1>8, <1>13
<1>16. ASSUME NEW k \in 0 .. m - 1, k \in S PROVE k + 1 \in S
  <2>1. h[k] = g[k] /\ k + 1 \in 0 .. m
    BY <1>16
  <2>2. h[k + 1] = g[k + 1]
    BY <1>9, <1>14, <2>1
  <2> QED
    BY <2>1, <2>2
<1> HIDE DEF S
<1>17. 0 .. m \subseteq S
  BY <1>15, <1>16, UpTo
<1>18. m \in S
  BY <1>17
<1>19. c[m] = g[m]
  BY <1>12, <1>18 DEF S
<1>20. Replays(m, D, V, f, sw, g)
  BY <1>8, <1>9 DEF Replays
<1> QED
  BY <1>1, <1>3, <1>19, <1>20 DEF ReplayGives

\* One swap more.
SwapMore(f, sw, i, j) == Replayed(f, Append(sw, <<i, j>>)) = Swapped(Replayed(f, sw), i, j)

\* No swap, and one swap more.
LEMMA ReplayAppend ==
  ASSUME NEW D, NEW V, NEW f \in [D -> V], NEW sw \in Seq(D \X D), NEW i \in D, NEW j \in D
  PROVE  /\ Replayed(f, <<>>) = f /\ Replayed(f, sw) \in [D -> V]
         /\ SwapMore(f, sw, i, j)
<1>1. PICK m \in Nat : m = Len(sw)
  OBVIOUS
<1>2. PICK e : e = <<>> /\ e \in Seq(D \X D) /\ Len(e) = 0
  <2>1. PICK P : P = D \X D
    OBVIOUS
  <2>2. <<>> \in Seq(P) /\ Len(<<>>) = 0
    OBVIOUS
  <2> QED
    BY <2>1, <2>2
<1>3. Replayed(f, e) = f
  <2>1. ReplayGives(D, V, f, e)
    BY <1>2, ReplaySteps
  <2>2. PICK g : Replays(Len(e), D, V, f, e, g) /\ Replayed(f, e) = g[Len(e)]
    BY <2>1 DEF ReplayGives
  <2> QED
    BY <1>2, <2>2 DEF Replays
<1>4. PICK t \in Seq(D \X D) :
         /\ t = Append(sw, <<i, j>>) /\ Len(t) = m + 1
         /\ t[m + 1][1] = i /\ t[m + 1][2] = j
         /\ \A k \in 1 .. m : t[k] = sw[k]
  <2>1. PICK p : p = <<i, j>> /\ p[1] = i /\ p[2] = j /\ p \in D \X D
    <3>1. <<i, j>> \in D \X D /\ <<i, j>>[1] = i /\ <<i, j>>[2] = j
      OBVIOUS
    <3> QED
      BY <3>1
  <2>2. /\ Append(sw, p) \in Seq(D \X D) /\ Len(Append(sw, p)) = m + 1
        /\ Append(sw, p)[m + 1] = p /\ \A k \in 1 .. m : Append(sw, p)[k] = sw[k]
    <3>1. PICK P : P = D \X D
      OBVIOUS
    <3>2. sw \in Seq(P) /\ p \in P
      BY <2>1, <3>1
    <3>3. /\ Append(sw, p) \in Seq(P) /\ Len(Append(sw, p)) = m + 1
          /\ Append(sw, p)[m + 1] = p /\ \A k \in 1 .. m : Append(sw, p)[k] = sw[k]
      BY <1>1, <3>2
    <3> QED
      BY <3>1, <3>3
  <2> QED
    BY <2>1, <2>2
<1>5. PICK g : Replays(m, D, V, f, sw, g) /\ Replayed(f, sw) = g[m]
  <2>1. ReplayGives(D, V, f, sw)
    BY ReplaySteps
  <2> QED
    BY <1>1, <2>1 DEF ReplayGives
<1>6. PICK h : Replays(m + 1, D, V, f, t, h) /\ Replayed(f, t) = h[m + 1]
  <2>1. ReplayGives(D, V, f, t)
    BY ReplaySteps
  <2>2. PICK h : Replays(Len(t), D, V, f, t, h) /\ Replayed(f, t) = h[Len(t)]
    BY <2>1 DEF ReplayGives
  <2> QED
    BY <1>4, <2>2
<1>7. g[0] = f /\ \A k \in 0 .. m - 1 : g[k + 1] = Swapped(g[k], sw[k + 1][1], sw[k + 1][2])
  BY <1>5 DEF Replays
<1>8. h[0] = f /\ \A k \in 0 .. m : h[k + 1] = Swapped(h[k], t[k + 1][1], t[k + 1][2])
  BY <1>6 DEF Replays
<1> DEFINE S == {k \in 0 .. m : h[k] = g[k]}
<1>9. 0 \in S
  BY <1>7, <1>8
<1>10. ASSUME NEW k \in 0 .. m - 1, k \in S PROVE k + 1 \in S
  <2>1. h[k] = g[k] /\ k + 1 \in 0 .. m /\ k \in 0 .. m /\ t[k + 1] = sw[k + 1]
    BY <1>4, <1>10
  <2>2. h[k + 1] = g[k + 1]
    BY <1>7, <1>8, <2>1
  <2> QED
    BY <2>1, <2>2
<1> HIDE DEF S
<1>11. 0 .. m \subseteq S
  BY <1>9, <1>10, UpTo
<1>12. h[m] = g[m]
  <2>1. m \in S
    BY <1>11
  <2> QED
    BY <2>1 DEF S
<1>13. h[m + 1] = Swapped(g[m], i, j)
  <2>1. m \in 0 .. m
    OBVIOUS
  <2> QED
    BY <1>4, <1>8, <1>12, <2>1
<1>14. g[m] \in [D -> V]
  BY <1>5 DEF Replays
<1> QED
  BY <1>2, <1>3, <1>4, <1>5, <1>6, <1>13, <1>14 DEF SwapMore

-----------------------------------------------------------------------------
(* The selection sort.                                                     *)

\* The sort of ids has come to place i: the numbers up to it are in order and
\* below the others, and the swaps give what has become of ids.
Sorting(N, ids, i, r) ==
  /\ r \in [ids : [1 .. N -> Nat], swaps : Seq((1 .. N) \X (1 .. N))]
  /\ \A k, l \in 1 .. N : r.ids[k] = r.ids[l] => k = l
  /\ \A x \in Nat : (\E k \in 1 .. N : r.ids[k] = x) <=> (\E k \in 1 .. N : ids[k] = x)
  /\ \A k \in 1 .. i, l \in 1 .. N : k < l => r.ids[k] < r.ids[l]
  /\ Replayed(ids, r.swaps) = r.ids

\* Place i of the sort.
SortPlace(r, i) ==
  IF LeastFrom(r.ids, i) = i THEN r
  ELSE [ids   |-> Swapped(r.ids, i, LeastFrom(r.ids, i)),
        swaps |-> Append(r.swaps, <<i, LeastFrom(r.ids, i)>>)]

\* The inner loop of the sort finds the least number from place i on.
LEMMA LeastFromIs ==
  ASSUME NEW N \in Nat, NEW f \in [1 .. N -> Nat], NEW i \in 1 .. N
  PROVE  LeastFrom(f, i) \in i .. N /\ \A l \in i .. N : f[LeastFrom(f, i)] <= f[l]
<1>1. Len(f) = N
  OBVIOUS
<1>2. PICK E \in SUBSET Nat : E = {f[l] : l \in i .. N} /\ E # {}
  <2>1. f[i] \in {f[l] : l \in i .. N} /\ {f[l] : l \in i .. N} \subseteq Nat
    OBVIOUS
  <2> QED
    BY <2>1
<1>3. PICK v : v = Min(E)
  OBVIOUS
<1>4. v \in E /\ \A y \in E : v <= y
  BY <1>2, <1>3, LeastIs
<1>5. PICK F \in SUBSET Nat : F = {l \in i .. N : f[l] = v} /\ F # {}
  <2>1. {l \in i .. N : f[l] = v} # {} /\ {l \in i .. N : f[l] = v} \subseteq Nat
    BY <1>2, <1>4
  <2> QED
    BY <2>1
<1>6. PICK j : j = Min(F)
  OBVIOUS
<1>7. j \in F /\ \A y \in F : j <= y
  BY <1>5, <1>6, LeastIs
<1>8. j \in i .. N /\ \A l \in i .. N : f[j] <= f[l] /\ (f[j] = f[l] => j <= l)
  BY <1>2, <1>4, <1>5, <1>7
<1>9. \E a \in i .. Len(f) : \A l \in i .. Len(f) : f[a] <= f[l] /\ (f[a] = f[l] => a <= l)
  BY <1>1, <1>8
<1>10. /\ LeastFrom(f, i) \in i .. Len(f)
       /\ \A l \in i .. Len(f) : f[LeastFrom(f, i)] <= f[l]
  BY <1>9 DEF LeastFrom
<1> QED
  BY <1>1, <1>10

\* A pass of the outer loop sorts one place more.
LEMMA SortPlaceSorts ==
  ASSUME NEW N \in Nat, NEW ids \in [1 .. N -> Nat], NEW i \in 1 .. N, NEW r, Sorting(N, ids, i - 1, r)
  PROVE  Sorting(N, ids, i, SortPlace(r, i))
<1>1. PICK f \in [1 .. N -> Nat], sw \in Seq((1 .. N) \X (1 .. N)) :
         r = [ids |-> f, swaps |-> sw] /\ r.ids = f /\ r.swaps = sw
  BY DEF Sorting
<1>2. /\ \A k, l \in 1 .. N : f[k] = f[l] => k = l
      /\ \A x \in Nat : (\E k \in 1 .. N : f[k] = x) <=> (\E k \in 1 .. N : ids[k] = x)
      /\ \A k \in 1 .. i - 1, l \in 1 .. N : k < l => f[k] < f[l]
      /\ Replayed(ids, sw) = f
  BY <1>1 DEF Sorting
<1>3. PICK j \in i .. N : j = LeastFrom(f, i) /\ \A l \in i .. N : f[j] <= f[l]
  BY LeastFromIs
<1>4. j \in 1 .. N
  OBVIOUS
<1>5. CASE j = i
  <2>1. SortPlace(r, i) = r
    BY <1>1, <1>3, <1>5 DEF SortPlace
  <2>2. ASSUME NEW k \in 1 .. i, NEW l \in 1 .. N, k < l PROVE f[k] < f[l]
    <3>1. CASE k \in 1 .. i - 1
      BY <1>2, <2>2, <3>1
    <3>2. CASE k = i
      <4>1. l \in i .. N /\ f[i] <= f[l]
        BY <1>3, <1>5, <2>2, <3>2
      <4>2. f[i] # f[l]
        BY <1>2, <2>2, <3>2
      <4> QED
        BY <3>2, <4>1, <4>2
    <3> QED
      BY <3>1, <3>2
  <2>3. Sorting(N, ids, i, r)
    <3>1. r \in [ids : [1 .. N -> Nat], swaps : Seq((1 .. N) \X (1 .. N))]
      BY DEF Sorting
    <3>2. \A k \in 1 .. i, l \in 1 .. N : k < l => r.ids[k] < r.ids[l]
      BY <1>1, <2>2
    <3> QED
      BY <3>1, <3>2 DEF Sorting
  <2> QED
    BY <2>1, <2>3
<1>6. CASE j # i
  <2>1. PICK h : h = Swapped(f, i, j)
    OBVIOUS
  <2>2. /\ h \in [1 .. N -> Nat]
        /\ \A k \in 1 .. N : h[k] = IF k = j THEN f[i] ELSE IF k = i THEN f[j] ELSE f[k]
    <3>1. PICK D : D = 1 .. N
      OBVIOUS
    <3>2. f \in [D -> Nat] /\ i \in D /\ j \in D
      BY <1>4, <3>1
    <3>3. /\ h \in [D -> Nat]
          /\ \A k \in D : h[k] = IF k = j THEN f[i] ELSE IF k = i THEN f[j] ELSE f[k]
      BY <2>1, <3>2 DEF Swapped
    <3> QED
      BY <3>1, <3>3
  <2>3. PICK t : t = Append(sw, <<i, j>>)
    OBVIOUS
  <2>4. t \in Seq((1 .. N) \X (1 .. N))
    <3>1. PICK P : P = (1 .. N) \X (1 .. N)
      OBVIOUS
    <3>2. PICK p : p = <<i, j>>
      OBVIOUS
    <3>3. sw \in Seq(P) /\ p \in P
      BY <1>4, <3>1, <3>2
    <3>4. Append(sw, p) \in Seq(P)
      BY <3>3
    <3> QED
      BY <2>3, <3>1, <3>2, <3>4
  <2>5. Replayed(ids, t) = h
    <3>1. PICK D : D = 1 .. N
      OBVIOUS
    <3>2. ids \in [D -> Nat] /\ i \in D /\ j \in D /\ sw \in Seq(D \X D)
      BY <1>4, <3>1
    <3>3. SwapMore(ids, sw, i, j)
      BY <3>2, ReplayAppend
    <3> QED
      BY <1>2, <2>1, <2>3, <3>3 DEF SwapMore
  <2>6. PICK q : q = SortPlace(r, i) /\ q = [ids |-> h, swaps |-> t] /\ q.ids = h /\ q.swaps = t
    <3>1. SortPlace(r, i) = [ids |-> h, swaps |-> t]
      BY <1>1, <1>3, <1>6, <2>1, <2>3 DEF SortPlace
    <3>2. \A q : q = [ids |-> h, swaps |-> t] => q.ids = h /\ q.swaps = t
      OBVIOUS
    <3> QED
      BY <3>1, <3>2
  <2>7. \A k, l \in 1 .. N : h[k] = h[l] => k = l
    <3>1. PICK p : p = [k \in 1 .. N |-> IF k = j THEN i ELSE IF k = i THEN j ELSE k]
      OBVIOUS
    <3>2. \A k \in 1 .. N : p[k] \in 1 .. N /\ h[k] = f[p[k]]
      BY <1>4, <2>2, <3>1
    <3>3. \A k, l \in 1 .. N : p[k] = p[l] => k = l
      BY <1>4, <3>1
    <3> SUFFICES ASSUME NEW k \in 1 .. N, NEW l \in 1 .. N, h[k] = h[l] PROVE k = l
      OBVIOUS
    <3>4. f[p[k]] = f[p[l]] /\ p[k] \in 1 .. N /\ p[l] \in 1 .. N
      BY <3>2
    <3>5. p[k] = p[l]
      BY <1>2, <3>4
    <3> QED
      BY <3>3, <3>5
  <2>8. ASSUME NEW x \in Nat
        PROVE  (\E k \in 1 .. N : h[k] = x) <=> (\E k \in 1 .. N : ids[k] = x)
    <3>1. (\E k \in 1 .. N : h[k] = x) <=> (\E k \in 1 .. N : f[k] = x)
      <4>1. ASSUME NEW k \in 1 .. N PROVE \E l \in 1 .. N : h[l] = f[k]
        <5>1. h[i] = f[j] /\ h[j] = f[i] /\ (k # i /\ k # j => h[k] = f[k])
          BY <1>4, <2>2
        <5> QED
          BY <1>4, <5>1
      <4>2. \A k \in 1 .. N : \E l \in 1 .. N : f[l] = h[k]
        BY <1>4, <2>2
      <4> QED
        BY <4>1, <4>2
    <3> QED
      BY <1>2, <3>1
  <2>9. ASSUME NEW k \in 1 .. i, NEW l \in 1 .. N, k < l PROVE h[k] < h[l]
    <3>1. CASE k \in 1 .. i - 1
      <4>1. h[k] = f[k] /\ k < i /\ k < j
        BY <2>2, <3>1
      <4>2. f[k] < f[i] /\ f[k] < f[j] /\ f[k] < f[l]
        BY <1>2, <1>4, <2>9, <3>1, <4>1
      <4>3. h[l] \in {f[i], f[j], f[l]}
        BY <2>2
      <4> QED
        BY <4>1, <4>2, <4>3
    <3>2. CASE k = i
      <4>1. h[k] = f[j] /\ l \in i .. N /\ l # i
        BY <1>6, <2>2, <2>9, <3>2
      <4>2. f[j] <= f[l] /\ f[j] <= f[i] /\ f[j] # f[i]
        BY <1>2, <1>3, <1>4, <1>6, <4>1
      <4>3. l # j => f[j] # f[l]
        BY <1>2, <1>4
      <4>4. h[l] = IF l = j THEN f[i] ELSE f[l]
        BY <2>2, <4>1
      <4> QED
        BY <4>1, <4>2, <4>3, <4>4, SMTT(30)
    <3> QED
      BY <3>1, <3>2
  <2>10. q \in [ids : [1 .. N -> Nat], swaps : Seq((1 .. N) \X (1 .. N))]
    BY <2>2, <2>4, <2>6
  <2>11. Sorting(N, ids, i, q)
    BY <2>5, <2>6, <2>7, <2>8, <2>9, <2>10 DEF Sorting
  <2> QED
    BY <2>6, <2>11
<1> QED
  BY <1>5, <1>6

\* The sort of decode() sorts every place and records the swaps that do it.
LEMMA SelectionSorts ==
  ASSUME NEW N \in Nat, NEW ids \in [1 .. N -> Nat], \A k, l \in 1 .. N : ids[k] = ids[l] => k = l
  PROVE  Sorting(N, ids, N, SelectionSort(ids))
<1> DEFINE V == [ids : [1 .. N -> Nat], swaps : Seq((1 .. N) \X (1 .. N))]
           start == [ids |-> ids, swaps |-> <<>>]
           H == [i \in 0 .. N - 1 |-> [r \in V |-> SortPlace(r, i + 1)]]
           Step(e) == [i \in 0 .. N |-> IF i = 0 THEN start ELSE SortPlace(e[i - 1], i)]
           c == CHOOSE e : e = Step(e)
<1>1. SelectionSort(ids) = c[N]
  <2>1. Len(ids) = N
    OBVIOUS
  <2> QED
    BY <2>1 DEF SelectionSort, SortPlace
<1>2. start \in V /\ start.ids = ids /\ start.swaps = <<>>
  <2>1. PICK P : P = (1 .. N) \X (1 .. N)
    OBVIOUS
  <2>2. <<>> \in Seq(P)
    OBVIOUS
  <2>3. \A q : q \in Seq(P) => [ids |-> ids, swaps |-> q] \in [ids : [1 .. N -> Nat], swaps : Seq(P)]
    OBVIOUS
  <2> QED
    BY <2>1, <2>2, <2>3
<1>3. Sorting(N, ids, 0, start)
  <2>1. PICK D : D = 1 .. N
    OBVIOUS
  <2>2. Replayed(ids, <<>>) = ids
    <3>1. PICK e : e = <<>> /\ e \in Seq(D \X D)
      <4>1. PICK P : P = D \X D
        OBVIOUS
      <4>2. <<>> \in Seq(P)
        OBVIOUS
      <4> QED
        BY <4>1, <4>2
    <3>2. ReplayGives(D, Nat, ids, e)
      BY <2>1, <3>1, ReplaySteps
    <3>3. Len(e) = 0
      BY <3>1, EmptySeq
    <3> QED
      BY <3>1, <3>2, <3>3 DEF ReplayGives, Replays
  <2>3. PICK r : r = start /\ r \in V /\ r.ids = ids /\ r.swaps = <<>>
    BY <1>2
  <2>4. 1 .. 0 = {}
    OBVIOUS
  <2>5. Sorting(N, ids, 0, r)
    BY <2>2, <2>3, <2>4 DEF Sorting
  <2> QED
    BY <2>3, <2>5
<1>4. ASSUME NEW i \in 1 .. N, NEW r \in V PROVE SortPlace(r, i) \in V
  <2>1. PICK f \in [1 .. N -> Nat], sw \in Seq((1 .. N) \X (1 .. N)) :
           r = [ids |-> f, swaps |-> sw] /\ r.ids = f /\ r.swaps = sw
    BY <1>4
  <2>2. PICK j \in 1 .. N : j = LeastFrom(f, i)
    <3>1. LeastFrom(f, i) \in i .. N
      BY LeastFromIs
    <3>2. i .. N \subseteq 1 .. N
      OBVIOUS
    <3> QED
      BY <3>1, <3>2
  <2>3. CASE j = i
    BY <2>1, <2>2, <2>3 DEF SortPlace
  <2>4. CASE j # i
    <3>1. PICK D : D = 1 .. N
      OBVIOUS
    <3>2. PICK h \in [D -> Nat] : h = Swapped(f, i, j)
      BY <3>1, SwappedIs
    <3>3. PICK P, p : P = D \X D /\ p = <<i, j>>
      OBVIOUS
    <3>4. sw \in Seq(P) /\ p \in P
      BY <3>1, <3>3
    <3>5. Append(sw, p) \in Seq(P)
      BY <3>4
    <3>6. SortPlace(r, i) = [ids |-> h, swaps |-> Append(sw, p)]
      BY <2>1, <2>2, <2>4, <3>2, <3>3 DEF SortPlace
    <3>7. h \in [1 .. N -> Nat] /\ Append(sw, p) \in Seq((1 .. N) \X (1 .. N))
      BY <3>1, <3>3, <3>5
    <3>8. \A a \in [1 .. N -> Nat], b \in Seq((1 .. N) \X (1 .. N)) : [ids |-> a, swaps |-> b] \in V
      OBVIOUS
    <3> QED
      BY <3>6, <3>7, <3>8
  <2> QED
    BY <2>3, <2>4
<1> HIDE DEF V, start
<1>5. H \in [0 .. N - 1 -> [V -> V]] /\ \A i \in 0 .. N - 1 : \A r \in V : H[i][r] = SortPlace(r, i + 1)
  BY <1>4
<1> HIDE DEF H
<1>6. PICK g : Steps(N, V, start, H, g)
  BY <1>2, <1>5, StepsExist
<1>7. g \in [0 .. N -> V] /\ g[0] = start /\ \A i \in 0 .. N - 1 : g[i + 1] = H[i][g[i]]
  BY <1>6 DEF Steps
<1>8. g = Step(g)
  <2>1. ASSUME NEW i \in 1 .. N PROVE g[i] = SortPlace(g[i - 1], i)
    <3>1. PICK l \in 0 .. N - 1 : l + 1 = i /\ i - 1 = l /\ l \in 0 .. N
      <4>1. i - 1 \in 0 .. N - 1 /\ (i - 1) + 1 = i
        OBVIOUS
      <4> QED
        BY <4>1
    <3>2. g[l] \in V /\ g[l + 1] = H[l][g[l]]
      BY <1>7, <3>1
    <3> QED
      BY <1>5, <3>1, <3>2
  <2>2. \A i \in 0 .. N : i = 0 \/ i \in 1 .. N
    OBVIOUS
  <2> QED
    BY <1>7, <2>1, <2>2
<1>9. c = Step(c)
  <2> HIDE DEF Step
  <2> QED
    BY <1>8
<1>10. PICK h : h = c /\ h = Step(h)
  <2> HIDE DEF Step
  <2> QED
    BY <1>9
<1> HIDE DEF c
<1>11. h[0] = start
  BY <1>10
<1>12. ASSUME NEW i \in 0 .. N - 1 PROVE h[i + 1] = SortPlace(h[i], i + 1)
  <2>1. i + 1 \in 0 .. N /\ i + 1 # 0 /\ (i + 1) - 1 = i
    OBVIOUS
  <2>2. \A e : Step(e)[i + 1] = SortPlace(e[(i + 1) - 1], i + 1)
    BY <2>1
  <2> HIDE DEF Step
  <2>3. h[i + 1] = Step(h)[i + 1]
    BY <1>10
  <2> QED
    BY <2>1, <2>2, <2>3
<1> DEFINE S == {i \in 0 .. N : Sorting(N, ids, i, h[i])}
<1>13. 0 \in S
  BY <1>3, <1>11
<1>14. ASSUME NEW i \in 0 .. N - 1, i \in S PROVE i + 1 \in S
  <2>1. PICK l \in 1 .. N : l = i + 1 /\ l - 1 = i /\ l \in 0 .. N
    OBVIOUS
  <2>2. Sorting(N, ids, l - 1, h[i])
    BY <1>14, <2>1
  <2>3. Sorting(N, ids, l, SortPlace(h[i], l))
    BY <2>2, SortPlaceSorts
  <2> QED
    BY <1>12, <2>1, <2>3
<1> HIDE DEF S
<1>15. 0 .. N \subseteq S
  BY <1>13, <1>14, UpTo
<1>16. N \in S
  BY <1>15
<1>17. Sorting(N, ids, N, c[N])
  BY <1>10, <1>16 DEF S
<1> QED
  BY <1>1, <1>17

-----------------------------------------------------------------------------
(* The tokens of a list whose logits are wanted.                           *)

\* WithOutput, of any batch.
OutputsBy(batch, s) == [k \in 1 .. Len(s) |-> IF batch[s[k]].out THEN <<s[k]>> ELSE <<>>]
Outputs(batch, s) == FlattenSeq(OutputsBy(batch, s))

\* They are a sequence of sequences.
LEMMA OutputsByIs ==
  ASSUME NEW batch, NEW V, NEW s \in Seq(V)
  PROVE  OutputsBy(batch, s) \in Seq(Seq(V)) /\ Len(OutputsBy(batch, s)) = Len(s)
<1>1. ASSUME NEW k \in 1 .. Len(s)
      PROVE  (IF batch[s[k]].out THEN <<s[k]>> ELSE <<>>) \in Seq(V)
  <2>1. s[k] \in V
    OBVIOUS
  <2>2. \A v \in V : <<v>> \in Seq(V)
    OBVIOUS
  <2>3. <<>> \in Seq(V)
    OBVIOUS
  <2> QED
    BY <2>1, <2>2, <2>3
<1> QED
  BY <1>1 DEF OutputsBy

\* Those of s, then those of t.
OutputsInTurn(batch, s, t) == Outputs(batch, s \o t) = Outputs(batch, s) \o Outputs(batch, t)

\* The tokens with an output of two sequences are those of the one, then those of the
\* other.
LEMMA OutputsConcat ==
  ASSUME NEW batch, NEW V, NEW s \in Seq(V), NEW t \in Seq(V)
  PROVE  Outputs(batch, s) \in Seq(V) /\ OutputsInTurn(batch, s, t)
<1>1. PICK a \in Seq(Seq(V)) : a = OutputsBy(batch, s) /\ Len(a) = Len(s)
  BY OutputsByIs
<1>2. PICK b \in Seq(Seq(V)) : b = OutputsBy(batch, t) /\ Len(b) = Len(t)
  BY OutputsByIs
<1>3. PICK c : c = s \o t
  OBVIOUS
<1>4. /\ c \in Seq(V) /\ Len(c) = Len(s) + Len(t)
      /\ \A k \in 1 .. Len(s) : c[k] = s[k]
      /\ \A k \in 1 .. Len(t) : c[Len(s) + k] = t[k]
  BY <1>3
<1>5. PICK d \in Seq(Seq(V)) : d = OutputsBy(batch, c) /\ Len(d) = Len(c)
  BY <1>4, OutputsByIs
<1>6. d = a \o b
  <2>1. PICK e \in Seq(Seq(V)) :
          /\ e = a \o b /\ Len(e) = Len(a) + Len(b)
          /\ \A k \in 1 .. Len(a) : e[k] = a[k]
          /\ \A k \in 1 .. Len(b) : e[Len(a) + k] = b[k]
    <3>1. PICK W : W = Seq(V) /\ a \in Seq(W) /\ b \in Seq(W)
      OBVIOUS
    <3>2. /\ a \o b \in Seq(W) /\ Len(a \o b) = Len(a) + Len(b)
          /\ \A k \in 1 .. Len(a) : (a \o b)[k] = a[k]
          /\ \A k \in 1 .. Len(b) : (a \o b)[Len(a) + k] = b[k]
      BY <3>1
    <3> QED
      BY <3>1, <3>2
  <2>2. \A k \in 1 .. Len(s) : d[k] = a[k]
    BY <1>1, <1>4, <1>5 DEF OutputsBy
  <2>3. ASSUME NEW k \in 1 .. Len(t) PROVE d[Len(s) + k] = b[k]
    <3>1. PICK l \in 1 .. Len(c) : l = Len(s) + k
      BY <1>4
    <3>2. c[l] = t[k]
      BY <1>4, <3>1
    <3> QED
      BY <1>2, <1>5, <3>1, <3>2 DEF OutputsBy
  <2>4. ASSUME NEW l \in 1 .. Len(c) PROVE d[l] = e[l]
    <3>1. CASE l <= Len(s)
      <4>1. l \in 1 .. Len(s)
        BY <3>1
      <4> QED
        BY <1>1, <2>1, <2>2, <4>1
    <3>2. CASE l > Len(s)
      <4>1. PICK k \in 1 .. Len(t) : l = Len(s) + k
        <5>1. l - Len(s) \in 1 .. Len(t) /\ l = Len(s) + (l - Len(s))
          BY <1>4, <3>2
        <5> QED
          BY <5>1
      <4> QED
        BY <1>1, <1>2, <2>1, <2>3, <4>1, ZenonT(30)
    <3> QED
      BY <3>1, <3>2
  <2>5. Len(d) = Len(e)
    BY <1>1, <1>2, <1>4, <1>5, <2>1
  <2>6. d = e
    BY <1>5, <2>4, <2>5, SeqEqual
  <2> QED
    BY <2>1, <2>6
<1>7. FlattenSeq(a) \in Seq(V)
  BY FlattenAppend, EmptySeq
<1>8. FlattenSeq(a \o b) = FlattenSeq(a) \o FlattenSeq(b)
  BY FlattenConcat
<1> QED
  BY <1>1, <1>2, <1>3, <1>5, <1>6, <1>7, <1>8 DEF Outputs, OutputsInTurn

\* Those of no token and of one.
LEMMA OutputsOfOne ==
  ASSUME NEW batch, NEW V, NEW i \in V
  PROVE  Outputs(batch, <<>>) = <<>> /\ Outputs(batch, <<i>>) = IF batch[i].out THEN <<i>> ELSE <<>>
<1>1. Outputs(batch, <<>>) = <<>>
  <2>1. PICK e \in Seq(V) : e = <<>> /\ Len(e) = 0
    <3>1. <<>> \in Seq(V) /\ Len(<<>>) = 0
      OBVIOUS
    <3> QED
      BY <3>1
  <2>2. PICK a \in Seq(Seq(V)) : a = OutputsBy(batch, e) /\ Len(a) = Len(e)
    BY OutputsByIs
  <2>3. a = <<>>
    BY <2>1, <2>2, EmptySeq
  <2>4. FlattenSeq(a) = <<>>
    BY <2>2, <2>3, FlattenAppend
  <2> QED
    BY <2>1, <2>2, <2>4 DEF Outputs
<1>2. PICK o \in Seq(V) : o = IF batch[i].out THEN <<i>> ELSE <<>>
  <2>1. <<i>> \in Seq(V) /\ <<>> \in Seq(V)
    OBVIOUS
  <2> QED
    BY <2>1
<1>3. PICK s \in Seq(V) : s = <<i>> /\ Len(s) = 1 /\ s[1] = i
  <2>1. <<i>> \in Seq(V) /\ Len(<<i>>) = 1 /\ <<i>>[1] = i
    OBVIOUS
  <2> QED
    BY <2>1
<1>4. PICK a \in Seq(Seq(V)) : a = OutputsBy(batch, s) /\ Len(a) = Len(s)
  BY OutputsByIs
<1>5. a[1] = o
  BY <1>2, <1>3, <1>4 DEF OutputsBy
<1>6. PICK e \in Seq(Seq(V)) : e = <<>> /\ Len(e) = 0
  <2>1. PICK W : W = Seq(V)
    OBVIOUS
  <2>2. <<>> \in Seq(W) /\ Len(<<>>) = 0
    OBVIOUS
  <2> QED
    BY <2>1, <2>2
<1>7. a = Append(e, o)
  <2>1. PICK W : W = Seq(V) /\ o \in W /\ e \in Seq(W) /\ a \in Seq(W)
    BY <1>2, <1>4, <1>6
  <2>2. /\ Append(e, o) \in Seq(W) /\ Len(Append(e, o)) = 1 /\ Append(e, o)[1] = o
    BY <1>6, <2>1
  <2>3. PICK q \in Seq(W) : q = Append(e, o) /\ Len(q) = 1 /\ q[1] = a[1]
    <3>1. Append(e, o)[1] = a[1]
      BY <1>5, <2>2
    <3> QED
      BY <2>2, <3>1
  <2>4. Len(a) = 1 /\ Len(q) = Len(a) /\ \A k \in 1 .. Len(q) : q[k] = a[k]
    BY <1>3, <1>4, <2>3
  <2>5. q = a
    BY <2>1, <2>4, SeqEqual
  <2> QED
    BY <2>3, <2>5
<1>8. FlattenSeq(a) = <<>> \o o
  <2>1. FlattenSeq(Append(e, o)) = FlattenSeq(e) \o o
    BY <1>2, <1>6, FlattenAppend
  <2>2. FlattenSeq(e) = <<>>
    BY <1>2, <1>6, FlattenAppend
  <2> QED
    BY <1>7, <2>1, <2>2
<1>9. <<>> \o o = o
  BY <1>2, ConcatEmptySeq
<1> QED
  BY <1>1, <1>2, <1>3, <1>4, <1>8, <1>9 DEF Outputs

\* o lists, each once, the tokens of s whose logits are wanted.
OutputsOf(batch, z, s, o) ==
  /\ o \in Seq(1 .. z)
  /\ \A k, l \in 1 .. Len(o) : o[k] = o[l] => k = l
  /\ \A i \in 1 .. z : (\E k \in 1 .. Len(o) : o[k] = i) <=> batch[i].out /\ \E k \in 1 .. Len(s) : s[k] = i

\* Of tokens that do not repeat, the outputs are such a list.
LEMMA OutputsAre ==
  ASSUME NEW batch, NEW z \in Nat, NEW s \in Seq(1 .. z),
         \A k, l \in 1 .. Len(s) : s[k] = s[l] => k = l
  PROVE  OutputsOf(batch, z, s, Outputs(batch, s))
<1>1. PICK nu \in Nat : nu = Len(s) /\ \A k \in 1 .. nu : s[k] \in 1 .. z
  OBVIOUS
<1> DEFINE p(k) == SubSeq(s, 1, k)
           S == {k \in 0 .. nu : OutputsOf(batch, z, p(k), Outputs(batch, p(k)))}
<1>2. ASSUME NEW k \in 0 .. nu
      PROVE  /\ p(k) \in Seq(1 .. z) /\ Len(p(k)) = k /\ \A x \in 1 .. k : p(k)[x] = s[x]
             /\ k = 0 => p(k) = <<>>
  BY <1>1, FirstOnes
<1>3. 0 \in S
  <2>1. PICK e : e = <<>> /\ e \in Seq(1 .. z) /\ Len(e) = 0 /\ 1 .. 0 = {}
    <3>1. PICK W : W = 1 .. z
      OBVIOUS
    <3>2. <<>> \in Seq(W) /\ Len(<<>>) = 0 /\ 1 .. 0 = {}
      OBVIOUS
    <3> QED
      BY <3>1, <3>2
  <2>2. 0 \in 0 .. nu
    OBVIOUS
  <2>3. p(0) = e
    BY <1>2, <2>1, <2>2
  <2>4. Outputs(batch, e) = e
    <3>1. 0 \in {0}
      OBVIOUS
    <3> QED
      BY <2>1, <3>1, OutputsOfOne
  <2>5. OutputsOf(batch, z, e, e)
    BY <2>1 DEF OutputsOf
  <2> QED
    BY <2>2, <2>3, <2>4, <2>5
<1>4. ASSUME NEW k \in 0 .. nu - 1, k \in S PROVE k + 1 \in S
  <2>1. PICK q \in Seq(1 .. z) : q = p(k) /\ Len(q) = k /\ \A x \in 1 .. k : q[x] = s[x]
    <3>1. k \in 0 .. nu
      OBVIOUS
    <3> QED
      BY <1>2, <3>1
  <2>2. PICK o : o = Outputs(batch, q) /\ OutputsOf(batch, z, q, o)
    BY <1>4, <2>1
  <2>3. k + 1 \in 0 .. nu /\ k + 1 \in 1 .. nu
    OBVIOUS
  <2>4. PICK i \in 1 .. z : i = s[k + 1]
    BY <1>1, <2>3
  <2>5. PICK t \in Seq(1 .. z) : t = <<i>> /\ Len(t) = 1 /\ t[1] = i
    <3>1. <<i>> \in Seq(1 .. z) /\ Len(<<i>>) = 1 /\ <<i>>[1] = i
      OBVIOUS
    <3> QED
      BY <3>1
  <2>6. PICK r \in Seq(1 .. z) : r = p(k + 1) /\ Len(r) = k + 1 /\ \A x \in 1 .. k + 1 : r[x] = s[x]
    BY <1>2, <2>3
  <2>7. r = q \o t
    <3>1. PICK c \in Seq(1 .. z) : c = q \o t /\ Len(c) = k + 1 /\ \A x \in 1 .. k : c[x] = q[x]
      <4>1. /\ q \o t \in Seq(1 .. z) /\ Len(q \o t) = Len(q) + Len(t)
            /\ Begins(q, q \o t)
        BY ConcatBegins
      <4> QED
        BY <2>1, <2>5, <4>1 DEF Begins
    <3>2. c[k + 1] = i
      <4>1. \A x \in 1 .. Len(t) : (q \o t)[Len(q) + x] = t[x]
        BY ConcatBegins
      <4> QED
        BY <2>1, <2>5, <3>1, <4>1
    <3>3. \A x \in 1 .. k + 1 : r[x] = c[x]
      BY <2>1, <2>4, <2>6, <3>1, <3>2
    <3>4. r = c
      BY <2>6, <3>1, <3>3, SeqEqual, ZenonT(30)
    <3> QED
      BY <3>1, <3>4
  <2>8. Outputs(batch, r) = o \o Outputs(batch, t)
    <3>1. OutputsInTurn(batch, q, t)
      BY OutputsConcat
    <3> QED
      BY <2>2, <2>7, <3>1 DEF OutputsInTurn
  <2>9. Outputs(batch, t) = IF batch[i].out THEN <<i>> ELSE <<>>
    BY <2>5, OutputsOfOne
  <2>10. \A x \in 1 .. Len(q) : q[x] # i
    BY <1>1, <2>1, <2>3, <2>4
  <2>11. \A j \in 1 .. z : (\E x \in 1 .. Len(r) : r[x] = j) <=> (j = i \/ \E x \in 1 .. Len(q) : q[x] = j)
    <3>1. \A x \in 1 .. Len(r) : x = k + 1 \/ x \in 1 .. Len(q)
      BY <2>1, <2>6
    <3>2. \A x \in 1 .. Len(q) : x \in 1 .. Len(r) /\ r[x] = q[x]
      BY <2>1, <2>6
    <3>3. k + 1 \in 1 .. Len(r) /\ r[k + 1] = i
      BY <2>4, <2>6
    <3> QED
      BY <3>1, <3>2, <3>3
  <2>12. PICK m \in Nat :
           /\ o \in Seq(1 .. z) /\ m = Len(o)
           /\ \A x, y \in 1 .. m : o[x] = o[y] => x = y
           /\ \A j \in 1 .. z : (\E x \in 1 .. m : o[x] = j)
                                  <=> batch[j].out /\ \E x \in 1 .. Len(q) : q[x] = j
    <3>1. o \in Seq(1 .. z)
      BY <2>2 DEF OutputsOf
    <3>2. PICK m \in Nat : m = Len(o)
      BY <3>1
    <3> QED
      BY <2>2, <3>1, <3>2 DEF OutputsOf
  <2>13. OutputsOf(batch, z, r, Outputs(batch, r))
    <3>1. CASE batch[i].out
      <4>1. PICK c \in Seq(1 .. z) :
              /\ c = o \o t /\ Len(c) = m + 1 /\ c[m + 1] = i
              /\ \A x \in 1 .. m : c[x] = o[x]
        <5>1. /\ o \o t \in Seq(1 .. z) /\ Len(o \o t) = Len(o) + Len(t) /\ Begins(o, o \o t)
              /\ \A x \in 1 .. Len(t) : (o \o t)[Len(o) + x] = t[x]
          BY <2>12, ConcatBegins
        <5>2. Len(o \o t) = m + 1 /\ (o \o t)[m + 1] = i
          BY <2>5, <2>12, <5>1
        <5>3. \A x \in 1 .. m : (o \o t)[x] = o[x]
          BY <2>12, <5>1 DEF Begins
        <5> QED
          BY <5>1, <5>2, <5>3
      <4>2. Outputs(batch, r) = c
        BY <2>5, <2>8, <2>9, <3>1, <4>1
      <4>3. \A x \in 1 .. m : o[x] # i
        BY <2>10, <2>12
      <4>4. \A x \in 1 .. Len(c) : x \in 1 .. m \/ x = m + 1
        BY <4>1
      <4>5. ASSUME NEW x \in 1 .. Len(c), NEW y \in 1 .. Len(c), c[x] = c[y] PROVE x = y
        <5>1. x \in 1 .. m /\ y \in 1 .. m => x = y
          BY <2>12, <4>1, <4>5
        <5>2. x \in 1 .. m /\ y = m + 1 => FALSE
          BY <4>1, <4>3, <4>5
        <5>3. x = m + 1 /\ y \in 1 .. m => FALSE
          BY <4>1, <4>3, <4>5
        <5> QED
          BY <4>4, <5>1, <5>2, <5>3
      <4>6. ASSUME NEW j \in 1 .. z
            PROVE  (\E x \in 1 .. Len(c) : c[x] = j) <=> (j = i \/ \E x \in 1 .. m : o[x] = j)
        <5>1. m + 1 \in 1 .. Len(c) /\ \A x \in 1 .. m : x \in 1 .. Len(c)
          BY <4>1
        <5> QED
          BY <4>1, <4>4, <5>1
      <4>7. \A j \in 1 .. z : (\E x \in 1 .. Len(c) : c[x] = j)
                                <=> batch[j].out /\ \E x \in 1 .. Len(r) : r[x] = j
        BY <2>11, <2>12, <3>1, <4>6
      <4>8. OutputsOf(batch, z, r, c)
        BY <4>5, <4>7 DEF OutputsOf
      <4> QED
        BY <4>2, <4>8
    <3>2. CASE ~ batch[i].out
      <4>1. Outputs(batch, r) = o
        <5>1. o \o <<>> = o
          BY <2>12, ConcatEmptySeq
        <5> QED
          BY <2>8, <2>9, <3>2, <5>1
      <4>2. \A j \in 1 .. z : (\E x \in 1 .. m : o[x] = j)
                                <=> batch[j].out /\ \E x \in 1 .. Len(r) : r[x] = j
        BY <2>11, <2>12, <3>2
      <4>3. OutputsOf(batch, z, r, o)
        BY <2>12, <4>2 DEF OutputsOf
      <4> QED
        BY <4>1, <4>3
    <3> QED
      BY <3>1, <3>2
  <2> QED
    BY <2>3, <2>6, <2>13
<1> HIDE DEF S
<1>5. 0 .. nu \subseteq S
  BY <1>3, <1>4, UpTo
<1>6. nu \in S
  BY <1>5
<1>7. p(nu) = s
  <2>1. nu \in 0 .. nu
    OBVIOUS
  <2>2. p(nu) \in Seq(1 .. z) /\ Len(p(nu)) = nu /\ \A x \in 1 .. nu : p(nu)[x] = s[x]
    BY <1>2, <2>1
  <2> HIDE DEF p
  <2> QED
    BY <1>1, <2>2, SeqEqual
<1> QED
  BY <1>6, <1>7 DEF S

-----------------------------------------------------------------------------
(* The ubatches handed out.                                                *)

\* The next ubatch, of any batch.
NextOf(batch, used, way, nu) ==
  CASE way = "simple"     -> SplitSimple(batch, used, nu)
    [] way = "equal"      -> SplitEqual(batch, used, nu, FALSE)
    [] way = "sequential" -> SplitEqual(batch, used, nu, TRUE)
    [] way = "seq"        -> SplitSeq(batch, used, nu)

\* The four splits.
AllKinds == {"simple", "equal", "sequential", "seq"}

\* There is nothing left, or the split gives up.
NoneLeft(batch, used, way) == used = 1 .. Len(batch) \/ (way = "sequential" /\ Coupled(batch) # {})

\* What the next ubatch takes, whichever the split.
LEMMA NextTakes ==
  ASSUME NEW batch, IsBatch(batch), NEW used \in SUBSET (1 .. Len(batch)), NEW way \in AllKinds,
         NEW nu \in Nat \ {0}, Seqs \subseteq Nat, way = "simple" => FirstTokens(batch, used),
         NEW u, u = NextOf(batch, used, way, nu)
  PROVE  /\ Takes(batch, used, u)
         /\ u = <<>> => NoneLeft(batch, used, way)
         /\ way = "simple" => FirstTokens(batch, used \cup ToSet(u))
         /\ way = "sequential" /\ u # <<>> => BlocksInOrder(batch, u)
<1>1. CASE way = "simple"
  <2>1. PICK m \in 0 .. Len(batch) : used = 1 .. m
    BY <1>1 DEF FirstTokens
  <2>2. u = SplitSimple(batch, 1 .. m, nu)
    BY <1>1, <2>1 DEF NextOf
  <2>3. /\ Takes(batch, 1 .. m, u)
        /\ u = <<>> => m = Len(batch)
        /\ FirstTokens(batch, 1 .. m \cup ToSet(u))
    BY <2>2, SimpleTakes
  <2> QED
    BY <1>1, <2>1, <2>3 DEF NoneLeft
<1>2. CASE way = "equal"
  <2>1. u = SplitEqual(batch, used, nu, FALSE)
    BY <1>2 DEF NextOf
  <2>2. PICK sequential \in BOOLEAN : sequential = FALSE
    OBVIOUS
  <2>3. u = SplitEqual(batch, used, nu, sequential)
    BY <2>1, <2>2
  <2>4. /\ Takes(batch, used, u)
        /\ u = <<>> => used = 1 .. Len(batch) \/ (sequential /\ Coupled(batch) # {})
    BY <2>3, EqualTakes
  <2> QED
    BY <1>2, <2>2, <2>4 DEF NoneLeft
<1>3. CASE way = "sequential"
  <2>1. u = SplitEqual(batch, used, nu, TRUE)
    BY <1>3 DEF NextOf
  <2>2. PICK sequential \in BOOLEAN : sequential = TRUE
    OBVIOUS
  <2>3. u = SplitEqual(batch, used, nu, sequential)
    BY <2>1, <2>2
  <2>4. /\ Takes(batch, used, u)
        /\ u = <<>> => used = 1 .. Len(batch) \/ (sequential /\ Coupled(batch) # {})
        /\ sequential /\ u # <<>> => BlocksInOrder(batch, u)
    BY <2>3, EqualTakes
  <2> QED
    BY <1>3, <2>2, <2>4 DEF NoneLeft
<1>4. CASE way = "seq"
  <2>1. u = SplitSeq(batch, used, nu)
    BY <1>4 DEF NextOf
  <2> QED
    BY <1>4, <2>1, SeqTakes DEF NoneLeft
<1> QED
  BY <1>1, <1>2, <1>3, <1>4 DEF AllKinds

\* What holds of the ubatches s handed out so far.
Handed(batch, way, s) ==
  /\ s \in Seq(Seq(1 .. Len(batch)))
  /\ UNION {ToSet(s[k]) : k \in DOMAIN s} = ToSet(FlattenSeq(s))
  /\ \A k, l \in 1 .. Len(FlattenSeq(s)) : FlattenSeq(s)[k] = FlattenSeq(s)[l] => k = l
  /\ way = "simple" => FirstTokens(batch, ToSet(FlattenSeq(s)))
  /\ Tidy(batch) =>
       /\ Behind(batch, ToSet(FlattenSeq(s)))
       /\ \A k, l \in 1 .. Len(FlattenSeq(s)) :
            k < l /\ Meet(batch, FlattenSeq(s)[k], FlattenSeq(s)[l]) => FlattenSeq(s)[k] < FlattenSeq(s)[l]
  /\ way = "sequential" => \A k \in 1 .. Len(s) : BlocksInOrder(batch, s[k])

\* Nothing is handed out at first.
LEMMA HandedNone ==
  ASSUME NEW batch, IsBatch(batch), NEW way
  PROVE  Handed(batch, way, <<>>)
<1>1. PICK e : e = <<>>
  OBVIOUS
<1>2. e \in Seq(Seq(1 .. Len(batch))) /\ Len(e) = 0 /\ DOMAIN e = {}
  <2>1. PICK W : W = Seq(1 .. Len(batch))
    OBVIOUS
  <2>2. <<>> \in Seq(W) /\ Len(<<>>) = 0 /\ DOMAIN <<>> = {}
    OBVIOUS
  <2> QED
    BY <1>1, <2>1, <2>2
<1>3. FlattenSeq(e) = e
  BY <1>1 DEF FlattenSeq
<1>4. ToSet(e) = {} /\ 1 .. 0 = {}
  BY <1>2 DEF ToSet
<1>5. FirstTokens(batch, {})
  <2>1. Len(batch) \in Nat
    BY DEF IsBatch
  <2>2. 0 \in 0 .. Len(batch) /\ {} = 1 .. 0
    BY <2>1
  <2> QED
    BY <2>2 DEF FirstTokens
<1>6. Behind(batch, {})
  BY DEF Behind
<1> HIDE <1>1
<1>7. Handed(batch, way, e)
  BY <1>2, <1>3, <1>4, <1>5, <1>6 DEF Handed
<1> QED
  BY <1>1, <1>7

\* One ubatch more.
LEMMA HandOut ==
  ASSUME NEW batch, IsBatch(batch), NEW way, NEW s, Handed(batch, way, s),
         NEW used, used = ToSet(FlattenSeq(s)), NEW u, Takes(batch, used, u),
         way = "simple" => FirstTokens(batch, used \cup ToSet(u)),
         way = "sequential" => BlocksInOrder(batch, u)
  PROVE  Handed(batch, way, Append(s, u))
<1>1. PICK z \in Nat : z = Len(batch)
  BY DEF IsBatch
<1>2. PICK W : W = Seq(1 .. z)
  OBVIOUS
<1>3. s \in Seq(W) /\ u \in W /\ u \in Seq(1 .. z)
  BY <1>1, <1>2 DEF Handed, Takes
<1>4. PICK t \in Seq(W) :
         /\ t = Append(s, u) /\ Len(t) = Len(s) + 1 /\ t[Len(s) + 1] = u
         /\ \A k \in 1 .. Len(s) : t[k] = s[k]
  <2>1. /\ Append(s, u) \in Seq(W) /\ Len(Append(s, u)) = Len(s) + 1 /\ Append(s, u)[Len(s) + 1] = u
        /\ \A k \in 1 .. Len(s) : Append(s, u)[k] = s[k]
    BY <1>3
  <2> QED
    BY <2>1
<1>5. PICK a \in Seq(1 .. z) : a = FlattenSeq(s)
  BY <1>2, <1>3, FlattenAppend
<1>6. PICK b \in Seq(1 .. z) :
         /\ b = FlattenSeq(t) /\ b = a \o u /\ Len(b) = Len(a) + Len(u)
         /\ \A k \in 1 .. Len(a) : b[k] = a[k]
         /\ \A k \in 1 .. Len(u) : b[Len(a) + k] = u[k]
  <2>1. FlattenSeq(t) = a \o u
    BY <1>2, <1>3, <1>4, <1>5, FlattenAppend
  <2>2. /\ a \o u \in Seq(1 .. z) /\ Len(a \o u) = Len(a) + Len(u) /\ Begins(a, a \o u)
        /\ \A k \in 1 .. Len(u) : (a \o u)[Len(a) + k] = u[k]
    BY <1>3, ConcatBegins
  <2>3. \A k \in 1 .. Len(a) : (a \o u)[k] = a[k]
    BY <2>2 DEF Begins
  <2> QED
    BY <2>1, <2>2, <2>3
<1>7. ASSUME NEW p \in 1 .. Len(b)
      PROVE  \/ p \in 1 .. Len(a) /\ b[p] = a[p] /\ b[p] \in used
             \/ \E k \in 1 .. Len(u) : p = Len(a) + k /\ b[p] = u[k]
  <2>1. CASE p <= Len(a)
    <3>1. p \in 1 .. Len(a)
      BY <2>1
    <3>2. a[p] \in used
      BY <1>5, <3>1 DEF ToSet
    <3> QED
      BY <1>6, <3>1, <3>2
  <2>2. CASE p > Len(a)
    <3>1. p - Len(a) \in 1 .. Len(u) /\ p = Len(a) + (p - Len(a))
      BY <1>3, <1>6, <2>2
    <3> QED
      BY <1>6, <3>1
  <2> QED
    BY <2>1, <2>2
<1>8. /\ used = {a[k] : k \in 1 .. Len(a)}
      /\ ToSet(u) = {u[k] : k \in 1 .. Len(u)}
      /\ ToSet(b) = {b[k] : k \in 1 .. Len(b)}
  BY <1>3, <1>5 DEF ToSet
<1>9. ToSet(b) = used \cup ToSet(u)
  <2>1. ASSUME NEW p \in 1 .. Len(b) PROVE b[p] \in used \cup ToSet(u)
    BY <1>7, <1>8
  <2>2. \A k \in 1 .. Len(a) : k \in 1 .. Len(b) /\ b[k] = a[k]
    BY <1>3, <1>6
  <2>3. \A k \in 1 .. Len(u) : Len(a) + k \in 1 .. Len(b) /\ b[Len(a) + k] = u[k]
    BY <1>3, <1>6
  <2>4. ToSet(b) \subseteq used \cup ToSet(u)
    BY <1>8, <2>1
  <2>5. used \subseteq ToSet(b)
    BY <1>8, <2>2
  <2>6. ToSet(u) \subseteq ToSet(b)
    BY <1>8, <2>3
  <2> QED
    BY <2>4, <2>5, <2>6
<1>10. UNION {ToSet(t[k]) : k \in DOMAIN t} = ToSet(b)
  <2>1. UNION {ToSet(s[k]) : k \in DOMAIN s} = used
    BY DEF Handed
  <2>2. DOMAIN s = 1 .. Len(s) /\ DOMAIN t = 1 .. Len(t) /\ Len(s) \in Nat
    BY <1>3
  <2>3. \A k \in 1 .. Len(t) : k \in 1 .. Len(s) \/ k = Len(s) + 1
    BY <1>4, <2>2
  <2>4. Len(s) + 1 \in 1 .. Len(t) /\ \A k \in 1 .. Len(s) : k \in 1 .. Len(t)
    BY <1>4, <2>2
  <2>5. \A x : (\E k \in 1 .. Len(t) : x \in ToSet(t[k]))
                <=> (x \in ToSet(u) \/ \E k \in 1 .. Len(s) : x \in ToSet(s[k]))
    BY <1>4, <2>3, <2>4
  <2> QED
    BY <1>9, <2>1, <2>2, <2>5
<1>11. /\ \A k \in 1 .. Len(u) : u[k] \notin used
       /\ \A k, l \in 1 .. Len(u) : u[k] = u[l] => k = l
       /\ Tidy(batch) => \A k, l \in 1 .. Len(u) : k < l /\ Meet(batch, u[k], u[l]) => u[k] < u[l]
       /\ Tidy(batch) /\ Behind(batch, used) => Behind(batch, used \cup ToSet(u))
  BY DEF Takes
<1>12. /\ \A k, l \in 1 .. Len(a) : a[k] = a[l] => k = l
       /\ Tidy(batch) => Behind(batch, used) /\ \A k, l \in 1 .. Len(a) : k < l /\ Meet(batch, a[k], a[l]) => a[k] < a[l]
  BY <1>5 DEF Handed
<1>13. ASSUME NEW p \in 1 .. Len(b), NEW q \in 1 .. Len(b), b[p] = b[q] PROVE p = q
  <2>1. CASE b[p] \in used
    BY <1>7, <1>11, <1>12, <1>13, <2>1
  <2>2. CASE b[p] \notin used
    <3>1. PICK k \in 1 .. Len(u) : p = Len(a) + k /\ b[p] = u[k]
      BY <1>7, <2>2
    <3>2. PICK l \in 1 .. Len(u) : q = Len(a) + l /\ b[q] = u[l]
      BY <1>7, <1>13, <2>2
    <3> QED
      BY <1>11, <1>13, <3>1, <3>2
  <2> QED
    BY <2>1, <2>2
<1>14. ASSUME Tidy(batch), NEW p \in 1 .. Len(b), NEW q \in 1 .. Len(b), p < q, Meet(batch, b[p], b[q])
       PROVE  b[p] < b[q]
  <2>1. CASE b[p] \in used /\ b[q] \in used
    <3>1. p \in 1 .. Len(a) /\ b[p] = a[p] /\ q \in 1 .. Len(a) /\ b[q] = a[q]
      BY <1>7, <1>11, <2>1
    <3> QED
      BY <1>12, <1>14, <3>1
  <2>2. CASE b[p] \in used /\ b[q] \notin used
    <3>1. b[q] \in 1 .. z
      BY <1>6
    <3> QED
      BY <1>1, <1>12, <1>14, <2>2, <3>1 DEF Behind
  <2>3. CASE b[p] \notin used
    <3>1. PICK k \in 1 .. Len(u) : p = Len(a) + k /\ b[p] = u[k]
      BY <1>7, <2>3
    <3>2. ~ (q \in 1 .. Len(a))
      BY <1>14, <3>1
    <3>3. PICK l \in 1 .. Len(u) : q = Len(a) + l /\ b[q] = u[l]
      BY <1>7, <3>2
    <3>4. k < l
      BY <1>14, <3>1, <3>3
    <3> QED
      BY <1>11, <1>14, <3>1, <3>3, <3>4
  <2> QED
    BY <2>1, <2>2, <2>3
<1>15. ASSUME way = "sequential", NEW k \in 1 .. Len(t) PROVE BlocksInOrder(batch, t[k])
  <2>1. \A l \in 1 .. Len(s) : BlocksInOrder(batch, s[l])
    BY <1>15 DEF Handed
  <2>2. k \in 1 .. Len(s) \/ k = Len(s) + 1
    BY <1>3, <1>4
  <2> QED
    BY <1>4, <1>15, <2>1, <2>2
<1>16. Tidy(batch) => Behind(batch, ToSet(b))
  BY <1>9, <1>11, <1>12
<1>17. Handed(batch, way, t)
  <2>1. t \in Seq(Seq(1 .. Len(batch)))
    BY <1>1, <1>2
  <2>2. way = "simple" => FirstTokens(batch, ToSet(b))
    BY <1>9
  <2> QED
    BY <1>6, <1>10, <1>13, <1>14, <1>15, <1>16, <2>1, <2>2 DEF Handed
<1> QED
  BY <1>4, <1>17

-----------------------------------------------------------------------------
(* The invariant.                                                          *)

\* Batch, kind of split and n_ubatch are what the caller and the memory give.
InputsInv == IsBatch(toks) /\ kind \in AllKinds /\ n \in Nat \ {0}

\* A split ends when all is handed out, or gives up on coupled sequences.
PhaseInv ==
  /\ phase \in {"init", "rejected", "splitting", "failed", "compute", "mapped", "read"}
  /\ phase \in {"compute", "mapped", "read"} => Used = 1 .. Len(toks)
  /\ phase = "failed" => kind = "sequential" /\ Coupled(toks) # {}

\* The rows of the outputs are in batch order, and the mapping is that of the
\* rows.
RowsInOrder ==
  /\ outIds \in Seq(1 .. Len(toks)) /\ Increases(outIds)
  /\ \A i \in 1 .. Len(toks) : (\E k \in 1 .. Len(outIds) : outIds[k] = i) <=> toks[i].out
  /\ outputIds = RowOf(outIds)

\* The rows written are those of the ubatches computed; the swaps of the sort
\* put them in order.
OutputsInv ==
  /\ cur \in 0 .. Len(ubs)
  /\ phase \notin {"mapped", "read"} => outIds = Outputs(toks, FlattenSeq(ubs))
  /\ phase \in {"init", "splitting"} => cur = 0
  /\ phase \in {"init", "splitting", "compute"} =>
       rows = Outputs(toks, FlattenSeq(SubSeq(ubs, 1, cur)))
  /\ phase = "mapped" => RowsInOrder /\ Replayed(rows, swaps) = outIds
  /\ phase = "read" => RowsInOrder /\ rows = outIds

\* The inductive invariant.
Inv == InputsInv /\ Handed(toks, kind, ubs) /\ PhaseInv /\ OutputsInv

\* A batch with positions left out is one too.
LEMMA AutoPosIsBatch ==
  ASSUME NEW b \in Seq(Tokens), NEW m
  PROVE  IsBatch(AutoPos(b, m))
<1> DEFINE p0[i \in 0 .. Len(b)] ==
             IF i = 0 THEN [s \in Seqs |-> m.hi[s] + 1]
             ELSE [s \in Seqs |-> IF s \in SeqSet(b[i]) THEN p0[i - 1][FirstId(b[i])] + 1
                                  ELSE p0[i - 1][s]]
           Filled(p) == [i \in 1 .. Len(b) |-> [b[i] EXCEPT !.pos = p[i - 1][FirstId(b[i])]]]
<1>1. AutoPos(b, m) = Filled(p0)
  BY DEF AutoPos
<1> HIDE DEF p0
<1>2. PICK p : AutoPos(b, m) = [i \in 1 .. Len(b) |-> [b[i] EXCEPT !.pos = p[i - 1][FirstId(b[i])]]]
  BY <1>1
<1>3. PICK t : t = AutoPos(b, m)
  OBVIOUS
<1>4. PICK W : W = {t[i] : i \in 1 .. Len(b)}
  OBVIOUS
<1>5. t \in Seq(W) /\ Len(t) = Len(b)
  <2>1. Len(b) \in Nat /\ t = [i \in 1 .. Len(b) |-> t[i]]
    BY <1>2, <1>3
  <2> QED
    BY <1>4, <2>1
<1>6. ASSUME NEW i \in 1 .. Len(b) PROVE t[i].ids \in Seq(Seqs) \ {<<>>}
  <2>1. b[i] \in Tokens
    OBVIOUS
  <2>2. t[i] = [b[i] EXCEPT !.pos = p[i - 1][FirstId(b[i])]]
    BY <1>2, <1>3
  <2>3. t[i].ids = b[i].ids
    BY <2>1, <2>2 DEF Tokens
  <2> QED
    BY <2>1, <2>3 DEF Tokens
<1> QED
  BY <1>3, <1>5, <1>6 DEF IsBatch

\* A batch of the caller is one.
LEMMA GivenIsBatch ==
  ASSUME NEW b \in Seq(Tokens)
  PROVE  IsBatch(b)
<1>1. \A i \in 1 .. Len(b) : b[i] \in Tokens
  OBVIOUS
<1> QED
  BY <1>1 DEF IsBatch, Tokens

\* It holds before init().
LEMMA InitInv == Init => Inv
<1> SUFFICES ASSUME Init PROVE Inv
  OBVIOUS
<1>1. IsBatch(toks)
  <2>1. CASE toks \in Batches
    <3>1. toks \in Seq(Tokens)
      BY <2>1, BatchSplitAssumption
    <3> QED
      BY <3>1, GivenIsBatch
  <2>2. CASE toks \in {AutoPos(b, mem) : b \in AutoBatches}
    <3>1. PICK b \in AutoBatches : toks = AutoPos(b, mem)
      BY <2>2
    <3>2. b \in Seq(Tokens)
      BY BatchSplitAssumption
    <3> QED
      BY <3>1, <3>2, AutoPosIsBatch
  <2> QED
    BY <2>1, <2>2 DEF Init
<1>2. kind \in AllKinds /\ n \in Nat \ {0}
  BY BatchSplitAssumption DEF Init, AllKinds
<1>3. Handed(toks, kind, ubs)
  <2>1. ubs = <<>>
    BY DEF Init
  <2> QED
    BY <1>1, <2>1, HandedNone
<1>4. PhaseInv
  BY DEF Init, PhaseInv
<1>5. OutputsInv
  <2>1. PICK e : e = <<>>
    OBVIOUS
  <2>2. ubs = e /\ outIds = e /\ rows = e /\ cur = 0 /\ phase = "init"
    BY <2>1 DEF Init
  <2>3. Len(e) = 0 /\ FlattenSeq(e) = e /\ SubSeq(e, 1, 0) = e
    <3>1. Len(<<>>) = 0 /\ SubSeq(<<>>, 1, 0) = <<>>
      OBVIOUS
    <3> QED
      BY <2>1, <3>1 DEF FlattenSeq
  <2>4. Outputs(toks, e) = e
    <3>1. 0 \in {0}
      OBVIOUS
    <3> QED
      BY <2>1, <3>1, OutputsOfOne
  <2>5. 0 \in 0 .. 0
    OBVIOUS
  <2> QED
    BY <2>2, <2>3, <2>4, <2>5 DEF OutputsInv
<1> QED
  BY <1>1, <1>2, <1>3, <1>4, <1>5 DEF Inv, InputsInv

\* What the invariant says of the tokens handed out.
LEMMA UsedIs ==
  ASSUME Handed(toks, kind, ubs), IsBatch(toks)
  PROVE  /\ Used = ToSet(FlattenSeq(ubs)) /\ Used \in SUBSET (1 .. Len(toks))
         /\ FlattenSeq(ubs) \in Seq(1 .. Len(toks))
<1>1. PICK W : W = Seq(1 .. Len(toks))
  OBVIOUS
<1>2. ubs \in Seq(W)
  BY <1>1 DEF Handed
<1>3. Used = ToSet(FlattenSeq(ubs))
  BY DEF Handed, Used
<1>4. PICK a \in Seq(1 .. Len(toks)) : a = FlattenSeq(ubs)
  <2>1. <<>> \in Seq(1 .. Len(toks))
    OBVIOUS
  <2> QED
    BY <1>1, <1>2, <2>1, FlattenAppend
<1>5. ToSet(a) \subseteq 1 .. Len(toks)
  BY DEF ToSet
<1> QED
  BY <1>3, <1>4, <1>5

\* What the next ubatch takes, in a state of the invariant.
LEMMA NextIs ==
  ASSUME Inv
  PROVE  /\ Takes(toks, Used, NextUbatch)
         /\ NextUbatch = <<>> => NoneLeft(toks, Used, kind)
         /\ kind = "simple" => FirstTokens(toks, Used \cup ToSet(NextUbatch))
         /\ kind = "sequential" /\ NextUbatch # <<>> => BlocksInOrder(toks, NextUbatch)
<1>1. PICK t, d, k, m : t = toks /\ d = Used /\ k = kind /\ m = n
  OBVIOUS
<1>2. IsBatch(t) /\ k \in AllKinds /\ m \in Nat \ {0}
  BY <1>1 DEF Inv, InputsInv
<1>3. d \in SUBSET (1 .. Len(t)) /\ (k = "simple" => FirstTokens(t, d))
  BY <1>1, UsedIs DEF Inv, InputsInv, Handed
<1>4. Seqs \subseteq Nat
  BY BatchSplitAssumption
<1>5. PICK u : u = NextOf(t, d, k, m)
  OBVIOUS
<1>6. /\ Takes(t, d, u)
      /\ u = <<>> => NoneLeft(t, d, k)
      /\ k = "simple" => FirstTokens(t, d \cup ToSet(u))
      /\ k = "sequential" /\ u # <<>> => BlocksInOrder(t, u)
  BY <1>2, <1>3, <1>4, <1>5, NextTakes
<1>7. NextUbatch = u
  BY <1>1, <1>5 DEF NextUbatch, NextOf
<1> QED
  BY <1>1, <1>6, <1>7

\* A ubatch is handed out and its outputs noted.
LEMMA SplitInv ==
  ASSUME Inv, Split
  PROVE  Inv'
<1>1. PICK t, k, s, u, d : t = toks /\ k = kind /\ s = ubs /\ u = NextUbatch /\ d = Used
  OBVIOUS
<1>2. /\ toks' = t /\ kind' = k /\ n' = n /\ ubs' = Append(s, u) /\ phase = "splitting"
      /\ outIds' = outIds \o WithOutput(u) /\ phase' = phase /\ cur' = cur /\ rows' = rows
      /\ u # <<>>
  BY <1>1 DEF Split, Given
<1>3. IsBatch(t) /\ Handed(t, k, s)
  BY <1>1 DEF Inv, InputsInv
<1>4. /\ Takes(t, d, u)
      /\ k = "simple" => FirstTokens(t, d \cup ToSet(u))
      /\ k = "sequential" => BlocksInOrder(t, u)
  BY <1>1, <1>2, NextIs
<1>5. /\ d = ToSet(FlattenSeq(s)) /\ FlattenSeq(s) \in Seq(1 .. Len(t))
  BY <1>1, <1>3, UsedIs
<1>6. Handed(t, k, Append(s, u))
  BY <1>3, <1>4, <1>5, HandOut
<1>7. InputsInv'
  BY <1>1, <1>2 DEF Inv, InputsInv
<1>8. PhaseInv'
  BY <1>2 DEF PhaseInv
<1>9. OutputsInv'
  <2>1. PICK W : W = Seq(1 .. Len(t))
    OBVIOUS
  <2>2. s \in Seq(W) /\ u \in W
    BY <1>3, <1>4, <2>1 DEF Handed, Takes
  <2>3. Len(Append(s, u)) = Len(s) + 1 /\ Len(s) \in Nat /\ Append(s, u) \in Seq(W)
    BY <2>2
  <2>4. FlattenSeq(Append(s, u)) = FlattenSeq(s) \o u
    BY <2>1, <2>2, FlattenAppend
  <2>5. Outputs(t, FlattenSeq(s) \o u) = Outputs(t, FlattenSeq(s)) \o Outputs(t, u)
    <3>1. PICK V, a : V = 1 .. Len(t) /\ a = FlattenSeq(s)
      OBVIOUS
    <3>2. a \in Seq(V) /\ u \in Seq(V)
      BY <1>5, <2>1, <2>2, <3>1
    <3>3. OutputsInTurn(t, a, u)
      BY <3>2, OutputsConcat
    <3> QED
      BY <3>1, <3>3 DEF OutputsInTurn
  <2>6. WithOutput(u) = Outputs(t, u)
    BY <1>1 DEF WithOutput, Outputs, OutputsBy
  <2>7. /\ outIds = Outputs(t, FlattenSeq(s)) /\ cur = 0
        /\ rows = Outputs(t, FlattenSeq(SubSeq(s, 1, 0)))
    BY <1>1, <1>2 DEF Inv, OutputsInv
  <2>8. outIds' = Outputs(t, FlattenSeq(Append(s, u)))
    BY <1>2, <2>4, <2>5, <2>6, <2>7
  <2>9. SubSeq(Append(s, u), 1, 0) = SubSeq(s, 1, 0)
    <3>1. 0 \in 0 .. Len(s) /\ 0 \in 0 .. Len(Append(s, u)) /\ 0 = 0
      BY <2>3
    <3>2. SubSeq(s, 1, 0) = <<>>
      BY <2>2, <3>1, FirstOnes
    <3>3. SubSeq(Append(s, u), 1, 0) = <<>>
      BY <2>3, <3>1, FirstOnes
    <3> QED
      BY <3>2, <3>3
  <2>10. 0 \in 0 .. Len(Append(s, u))
    BY <2>3
  <2>11. rows' = Outputs(t, FlattenSeq(SubSeq(Append(s, u), 1, 0))) /\ cur' = 0
    BY <1>2, <2>7, <2>9
  <2> QED
    BY <1>2, <2>8, <2>10, <2>11 DEF OutputsInv
<1> QED
  BY <1>2, <1>6, <1>7, <1>8, <1>9 DEF Inv

\* Without a further ubatch the split ends, or decode reports a failure.
LEMMA SplitEndsInv ==
  ASSUME Inv, SplitEnds
  PROVE  Inv'
<1>1. /\ UNCHANGED <<toks, kind, n, ubs, outIds, outputIds, cur, rows, swaps>> /\ phase = "splitting"
      /\ phase' = IF Cardinality(Used) = Len(toks) THEN "compute" ELSE "failed"
      /\ NextUbatch = <<>>
  BY DEF SplitEnds, Given
<1>2. NoneLeft(toks, Used, kind)
  BY <1>1, NextIs
<1>3. Used' = Used
  BY <1>1 DEF Used
<1>4. PhaseInv'
  <2>1. PICK t, d, z : t = toks /\ d = Used /\ z = Len(t)
    OBVIOUS
  <2>2. z \in Nat /\ d \subseteq 1 .. z
    BY <2>1, UsedIs DEF Inv, InputsInv, IsBatch
  <2>3. IsFiniteSet(1 .. z) /\ Cardinality(1 .. z) = z
    BY <2>2, CountUpTo
  <2>4. ASSUME Cardinality(d) = z PROVE d = 1 .. z
    BY <2>2, <2>3, <2>4, FS_Subset
  <2>5. ASSUME Cardinality(d) # z PROVE d # 1 .. z
    BY <2>3, <2>5
  <2>6. CASE Cardinality(d) = z
    <3>1. phase' = "compute" /\ Used' = 1 .. Len(toks')
      BY <1>1, <1>3, <2>1, <2>4, <2>6
    <3> QED
      BY <3>1 DEF PhaseInv
  <2>7. CASE Cardinality(d) # z
    <3>1. phase' = "failed" /\ d # 1 .. z
      BY <1>1, <2>1, <2>5, <2>7
    <3>2. kind' = "sequential" /\ Coupled(toks') # {}
      BY <1>1, <1>2, <2>1, <3>1 DEF NoneLeft
    <3> QED
      BY <3>1, <3>2 DEF PhaseInv
  <2> QED
    BY <2>6, <2>7
<1>5. InputsInv'
  BY <1>1 DEF Inv, InputsInv
<1>6. Handed(toks, kind, ubs)'
  BY <1>1 DEF Inv
<1>7. OutputsInv'
  BY <1>1 DEF Inv, OutputsInv
<1> QED
  BY <1>4, <1>5, <1>6, <1>7 DEF Inv

\* init() accepts or rejects the batch.
LEMMA AcceptInv ==
  ASSUME Inv, Accept
  PROVE  Inv'
<1>1. /\ UNCHANGED <<toks, kind, n, ubs, outIds, outputIds, cur, rows, swaps>> /\ phase = "init"
      /\ phase' \in {"splitting", "rejected"}
  BY DEF Accept, Given
<1>2. PhaseInv'
  BY <1>1 DEF PhaseInv
<1>3. InputsInv'
  BY <1>1 DEF Inv, InputsInv
<1>4. Handed(toks, kind, ubs)'
  BY <1>1 DEF Inv
<1>5. OutputsInv'
  BY <1>1 DEF Inv, OutputsInv
<1> QED
  BY <1>2, <1>3, <1>4, <1>5 DEF Inv

\* A ubatch is computed: its rows follow.
LEMMA ComputeInv ==
  ASSUME Inv, Compute
  PROVE  Inv'
<1>1. /\ UNCHANGED <<toks, kind, n, ubs, outIds, outputIds, swaps, phase>> /\ phase = "compute"
      /\ cur' = cur + 1 /\ cur < Len(ubs) /\ rows' = rows \o WithOutput(ubs[cur + 1])
  BY DEF Compute, Given
<1>2. PhaseInv'
  <2>1. Used' = Used
    BY <1>1 DEF Used
  <2> QED
    BY <1>1, <2>1 DEF Inv, PhaseInv
<1>3. InputsInv'
  BY <1>1 DEF Inv, InputsInv
<1>4. Handed(toks, kind, ubs)'
  BY <1>1 DEF Inv
<1>5. OutputsInv'
  <2>1. PICK t, s, c : t = toks /\ s = ubs /\ c = cur
    OBVIOUS
  <2>2. PICK W : W = Seq(1 .. Len(t))
    OBVIOUS
  <2>3. s \in Seq(W) /\ c \in 0 .. Len(s) /\ c < Len(s)
    BY <1>1, <2>1, <2>2 DEF Inv, Handed, OutputsInv
  <2>4. rows = Outputs(t, FlattenSeq(SubSeq(s, 1, c)))
    BY <1>1, <2>1 DEF Inv, OutputsInv
  <2>5. PICK u \in W : u = s[c + 1]
    BY <2>3
  <2>6. PICK q \in Seq(W) : q = SubSeq(s, 1, c) /\ Len(q) = c /\ \A x \in 1 .. c : q[x] = s[x]
    <3>1. /\ SubSeq(s, 1, c) \in Seq(W) /\ Len(SubSeq(s, 1, c)) = c
          /\ \A x \in 1 .. c : SubSeq(s, 1, c)[x] = s[x]
      BY <2>3, FirstOnes
    <3> QED
      BY <3>1
  <2>7. SubSeq(s, 1, c + 1) = Append(q, u)
    <3>1. PICK l \in 0 .. Len(s) : l = c + 1
      BY <2>3
    <3>2. PICK r \in Seq(W) : r = SubSeq(s, 1, c + 1) /\ Len(r) = c + 1 /\ \A x \in 1 .. c + 1 : r[x] = s[x]
      <4>1. /\ SubSeq(s, 1, l) \in Seq(W) /\ Len(SubSeq(s, 1, l)) = l
            /\ \A x \in 1 .. l : SubSeq(s, 1, l)[x] = s[x]
        BY <2>3, FirstOnes
      <4> QED
        BY <3>1, <4>1
    <3>3. PICK a \in Seq(W) : a = Append(q, u) /\ Len(a) = c + 1 /\ a[c + 1] = u /\ \A x \in 1 .. c : a[x] = q[x]
      <4>1. /\ Append(q, u) \in Seq(W) /\ Len(Append(q, u)) = c + 1 /\ Append(q, u)[c + 1] = u
            /\ \A x \in 1 .. c : Append(q, u)[x] = q[x]
        BY <2>6
      <4> QED
        BY <4>1
    <3>4. \A x \in 1 .. c + 1 : r[x] = a[x]
      BY <2>3, <2>5, <2>6, <3>2, <3>3
    <3>5. r = a
      BY <3>2, <3>3, <3>4, SeqEqual
    <3> QED
      BY <3>2, <3>3, <3>5
  <2>8. PICK a \in W : a = FlattenSeq(q) /\ FlattenSeq(Append(q, u)) = a \o u
    BY <2>2, <2>5, FlattenAppend
  <2>9. Outputs(t, a \o u) = Outputs(t, a) \o Outputs(t, u)
    <3>1. PICK V : V = 1 .. Len(t)
      OBVIOUS
    <3>2. a \in Seq(V) /\ u \in Seq(V)
      BY <2>2, <3>1
    <3>3. OutputsInTurn(t, a, u)
      BY <3>2, OutputsConcat
    <3> QED
      BY <3>3 DEF OutputsInTurn
  <2>10. WithOutput(u) = Outputs(t, u)
    BY <2>1 DEF WithOutput, Outputs, OutputsBy
  <2>11. rows' = Outputs(t, FlattenSeq(SubSeq(s, 1, c + 1)))
    <3>1. rows' = rows \o WithOutput(u)
      BY <1>1, <2>1, <2>5
    <3>2. rows = Outputs(t, a)
      BY <2>4, <2>6, <2>8
    <3> QED
      BY <2>7, <2>8, <2>9, <2>10, <3>1, <3>2
  <2>12. toks' = t /\ ubs' = s /\ cur' = c + 1 /\ c + 1 \in 0 .. Len(s)
    BY <1>1, <2>1, <2>3
  <2>13. outIds' = Outputs(toks', FlattenSeq(ubs'))
    BY <1>1 DEF Inv, OutputsInv
  <2> QED
    BY <1>1, <2>11, <2>12, <2>13 DEF OutputsInv
<1> QED
  BY <1>2, <1>3, <1>4, <1>5 DEF Inv

\* The sort puts the ids in order, and the recorded swaps lead the rows there.
LEMMA MapOutputsInv ==
  ASSUME Inv, MapOutputs
  PROVE  Inv'
<1> DEFINE sorted == SelectionSort(outIds)
<1>1. /\ UNCHANGED <<toks, kind, n, ubs, rows, cur>> /\ phase = "compute" /\ cur = Len(ubs)
      /\ phase' = "mapped" /\ outIds' = sorted.ids /\ swaps' = sorted.swaps
      /\ outputIds' = RowOf(sorted.ids)
  BY DEF MapOutputs, Given
<1> HIDE DEF sorted
<1>2. PhaseInv' /\ Used = 1 .. Len(toks)
  <2>1. Used' = Used
    BY <1>1 DEF Used
  <2> QED
    BY <1>1, <2>1 DEF Inv, PhaseInv
<1>3. InputsInv'
  BY <1>1 DEF Inv, InputsInv
<1>4. Handed(toks, kind, ubs)'
  BY <1>1 DEF Inv
<1>5. OutputsInv'
  <2>1. PICK t, s, o : t = toks /\ s = ubs /\ o = outIds
    OBVIOUS
  <2>2. PICK z \in Nat : z = Len(t)
    BY <2>1 DEF Inv, InputsInv, IsBatch
  <2>3. PICK a : a = FlattenSeq(s)
    OBVIOUS
  <2>4. a \in Seq(1 .. z) /\ ToSet(a) = 1 .. z
    BY <1>2, <2>1, <2>2, <2>3, UsedIs DEF Inv, InputsInv
  <2>5. \A k, l \in 1 .. Len(a) : a[k] = a[l] => k = l
    BY <2>1, <2>3 DEF Inv, Handed
  <2>6. o = Outputs(t, a) /\ rows = o
    <3>1. o = Outputs(t, a) /\ rows = Outputs(t, FlattenSeq(SubSeq(s, 1, Len(s))))
      BY <1>1, <2>1, <2>3 DEF Inv, OutputsInv
    <3>2. PICK W : W = Seq(1 .. z) /\ s \in Seq(W)
      BY <2>1, <2>2 DEF Inv, Handed
    <3>3. SubSeq(s, 1, Len(s)) = s
      BY <3>2
    <3> QED
      BY <2>3, <3>1, <3>3
  <2>7. OutputsOf(t, z, a, o)
    BY <2>2, <2>4, <2>5, <2>6, OutputsAre
  <2>8. o \in Seq(1 .. z)
    BY <2>7 DEF OutputsOf
  <2>9. PICK N \in Nat : N = Len(o) /\ o \in [1 .. N -> Nat] /\ \A k \in 1 .. N : o[k] \in 1 .. z
    BY <2>8
  <2>10. \A k, l \in 1 .. N : o[k] = o[l] => k = l
    BY <2>7, <2>9 DEF OutputsOf
  <2>11. \A i \in 1 .. z : (\E k \in 1 .. N : o[k] = i) <=> t[i].out
    <3>1. \A i \in 1 .. z : \E k \in 1 .. Len(a) : a[k] = i
      <4>1. DOMAIN a = 1 .. Len(a)
        BY <2>4
      <4>2. ToSet(a) = {a[k] : k \in 1 .. Len(a)}
        BY <4>1 DEF ToSet
      <4> QED
        BY <2>4, <4>2
    <3> QED
      BY <2>7, <2>9, <3>1 DEF OutputsOf
  <2>12. PICK r : r = SelectionSort(o) /\ Sorting(N, o, N, r)
    BY <2>9, <2>10, SelectionSorts
  <2>13. PICK q \in [1 .. N -> Nat] : q = r.ids
    BY <2>12 DEF Sorting
  <2>14. /\ \A x \in Nat : (\E k \in 1 .. N : q[k] = x) <=> (\E k \in 1 .. N : o[k] = x)
         /\ \A k, l \in 1 .. N : k < l => q[k] < q[l]
         /\ Replayed(o, r.swaps) = q
    BY <2>12, <2>13 DEF Sorting
  <2>15. \A k \in 1 .. N : q[k] \in 1 .. z
    BY <2>9, <2>14
  <2>16. q \in Seq(1 .. z) /\ Len(q) = N
    BY <2>15
  <2>17. \A i \in 1 .. z : (\E k \in 1 .. N : q[k] = i) <=> t[i].out
    BY <2>11, <2>14
  <2>18. outIds' = q /\ swaps' = r.swaps /\ outputIds' = RowOf(q)
    BY <1>1, <2>1, <2>12, <2>13 DEF sorted
  <2>19. toks' = t /\ rows' = o /\ ubs' = s /\ cur' = cur /\ cur \in 0 .. Len(s)
    BY <1>1, <2>1, <2>6 DEF Inv, OutputsInv
  <2>20. RowOf(q)' = RowOf(q)
    BY <1>1 DEF RowOf
  <2>21. Increases(q)
    BY <2>14, <2>16 DEF Increases
  <2>22. RowsInOrder'
    <3>1. outputIds' = RowOf(outIds)'
      <4>1. RowOf(outIds)' = RowOf(q)'
        BY <2>18 DEF RowOf
      <4> QED
        BY <2>18, <2>20, <4>1
    <3>2. outIds' \in Seq(1 .. Len(toks')) /\ Increases(outIds')
      BY <2>2, <2>16, <2>18, <2>19, <2>21
    <3>3. \A i \in 1 .. Len(toks') : (\E k \in 1 .. Len(outIds') : outIds'[k] = i) <=> toks'[i].out
      BY <2>2, <2>16, <2>17, <2>18, <2>19
    <3> QED
      BY <3>1, <3>2, <3>3 DEF RowsInOrder
  <2>23. Replayed(rows', swaps') = outIds'
    BY <2>14, <2>18, <2>19
  <2> QED
    BY <1>1, <2>19, <2>22, <2>23 DEF OutputsInv
<1> QED
  BY <1>2, <1>3, <1>4, <1>5 DEF Inv

\* output_reorder() replays the swaps on the rows.
LEMMA ReorderInv ==
  ASSUME Inv, Reorder
  PROVE  Inv'
<1>1. /\ UNCHANGED <<toks, kind, n, ubs, outIds, outputIds, cur>> /\ phase = "mapped"
      /\ phase' = "read" /\ rows' = Replayed(rows, swaps)
  BY DEF Reorder, Given
<1>2. PhaseInv'
  <2>1. Used' = Used
    BY <1>1 DEF Used
  <2> QED
    BY <1>1, <2>1 DEF Inv, PhaseInv
<1>3. InputsInv'
  BY <1>1 DEF Inv, InputsInv
<1>4. Handed(toks, kind, ubs)'
  BY <1>1 DEF Inv
<1>5. RowsInOrder'
  <2>1. RowsInOrder
    BY <1>1 DEF Inv, OutputsInv
  <2> QED
    BY <1>1, <2>1 DEF RowsInOrder, RowOf
<1>6. rows' = outIds'
  BY <1>1 DEF Inv, OutputsInv
<1>7. cur' \in 0 .. Len(ubs')
  BY <1>1 DEF Inv, OutputsInv
<1>8. OutputsInv'
  BY <1>1, <1>5, <1>6, <1>7 DEF OutputsInv
<1> QED
  BY <1>2, <1>3, <1>4, <1>8 DEF Inv

\* Every step keeps the invariant.
LEMMA NextInv == Inv /\ [Next]_vars => Inv'
<1> SUFFICES ASSUME Inv, [Next]_vars PROVE Inv'
  OBVIOUS
<1>1. CASE Accept
  BY <1>1, AcceptInv
<1>2. CASE Split
  BY <1>2, SplitInv
<1>3. CASE SplitEnds
  BY <1>3, SplitEndsInv
<1>4. CASE Compute
  BY <1>4, ComputeInv
<1>5. CASE MapOutputs
  BY <1>5, MapOutputsInv
<1>6. CASE Reorder
  BY <1>6, ReorderInv
<1>7. CASE UNCHANGED vars
  <2>1. UNCHANGED <<phase, toks, kind, n, ubs, cur, outIds, outputIds, swaps, rows>>
    BY <1>7 DEF vars
  <2>2. Used' = Used /\ RowOf(outIds)' = RowOf(outIds)
    BY <2>1 DEF Used, RowOf
  <2>3. InputsInv' /\ Handed(toks, kind, ubs)' /\ PhaseInv' /\ OutputsInv'
    BY <2>1, <2>2 DEF Inv, InputsInv, PhaseInv, OutputsInv, RowsInOrder
  <2> QED
    BY <2>3 DEF Inv
<1> QED
  BY <1>1, <1>2, <1>3, <1>4, <1>5, <1>6, <1>7 DEF Next

\* The invariant holds throughout llama_context::decode(): from the batch llama_batch_allocr
\* accepts, by each of its splits, to the outputs in order.
THEOREM Invariance == Spec => []Inv
<1> QED
  BY InitInv, NextInv, PTL DEF Spec

\* Whatever the batch, the split and n_ubatch, no token of the batch is handed out twice by
\* the split_*() functions, every token is handed out before the compute starts, and decode
\* reports a failure to split only for coupled sequences in a sequential split.
THEOREM EachTokenOnceCorrect == Spec => []EachTokenOnce
<1>1. Inv => EachTokenOnce
  <2> SUFFICES ASSUME Inv PROVE EachTokenOnce
    OBVIOUS
  <2>1. DOMAIN toks = 1 .. Len(toks)
    BY DEF Inv, InputsInv, IsBatch
  <2>2. DOMAIN FlattenSeq(ubs) = 1 .. Len(FlattenSeq(ubs))
    BY UsedIs DEF Inv, InputsInv
  <2>3. IsInjective(FlattenSeq(ubs))
    BY <2>2 DEF Inv, Handed, IsInjective
  <2> QED
    BY <2>1, <2>3 DEF Inv, PhaseInv, EachTokenOnce
<1> QED
  BY <1>1, Invariance, PTL

\* Whatever the batch, the split and n_ubatch, the tokens of a sequence reach the compute in
\* the order of their positions, if the batch keeps one set of ids per sequence and lists
\* its tokens in order: no split_*() function overtakes.
THEOREM KeepsOrderCorrect == Spec => []KeepsOrder
<1>1. Inv => KeepsOrder
  <2> SUFFICES ASSUME Inv PROVE KeepsOrder
    OBVIOUS
  <2>1. PICK o : o = FlattenSeq(ubs)
    OBVIOUS
  <2>2. o \in Seq(1 .. Len(toks)) /\ DOMAIN o = 1 .. Len(o) /\ DOMAIN toks = 1 .. Len(toks)
    BY <2>1, UsedIs DEF Inv, InputsInv, IsBatch
  <2>3. WellFormed <=> Tidy(toks)
    BY DEF WellFormed, Tidy
  <2>4. ASSUME WellFormed, NEW k \in DOMAIN o, NEW l \in DOMAIN o,
               k < l, SeqSet(toks[o[k]]) \cap SeqSet(toks[o[l]]) # {}
        PROVE  toks[o[k]].pos < toks[o[l]].pos
    <3>1. o[k] < o[l]
      BY <2>1, <2>2, <2>3, <2>4 DEF Inv, Handed, Meet
    <3>2. o[k] \in DOMAIN toks /\ o[l] \in DOMAIN toks
      BY <2>2
    <3> QED
      BY <2>4, <3>1, <3>2 DEF WellFormed
  <2> QED
    BY <2>1, <2>4 DEF KeepsOrder
<1> QED
  BY <1>1, Invariance, PTL

\* Whatever the batch and n_ubatch, a sequential split_equal() gives ubatches of blocks of
\* equal size in the order of seq_id_unq, what find_slot() asserts before it assigns the
\* blocks to the streams.
THEOREM BlocksMatchStreamsCorrect == Spec => []BlocksMatchStreams
<1>1. Inv => BlocksMatchStreams
  <2> SUFFICES ASSUME Inv, kind = "sequential", NEW k \in DOMAIN ubs PROVE BlocksInOrder(toks, ubs[k])
    BY DEF BlocksMatchStreams, BlocksInOrder
  <2>1. PICK W : W = Seq(1 .. Len(toks)) /\ ubs \in Seq(W)
    BY DEF Inv, Handed
  <2>2. k \in 1 .. Len(ubs)
    BY <2>1
  <2> QED
    BY <2>2 DEF Inv, Handed
<1> QED
  BY <1>1, Invariance, PTL

\* Whatever the batch, the split and n_ubatch, after output_reorder() the row that output_ids
\* names for a token is the row its logits were written to, the rows are in the order of the
\* batch, and a token without an output has no row.
THEOREM OutputsResolveCorrect == Spec => []OutputsResolve
<1>1. Inv => OutputsResolve
  <2> SUFFICES ASSUME Inv, phase = "read", NEW i \in DOMAIN toks
               PROVE  IF toks[i].out
                      THEN /\ outputIds[i] # 0 /\ rows[outputIds[i]] = i
                           /\ \A j \in DOMAIN toks :
                                i < j /\ toks[j].out => outputIds[i] < outputIds[j]
                      ELSE outputIds[i] = 0
    BY DEF OutputsResolve
  <2>1. DOMAIN toks = 1 .. Len(toks) /\ Len(toks) \in Nat
    BY DEF Inv, InputsInv, IsBatch
  <2>2. RowsInOrder /\ rows = outIds
    BY DEF Inv, OutputsInv
  <2>3. PICK N \in Nat : N = Len(outIds) /\ DOMAIN outIds = 1 .. N /\ \A k \in 1 .. N : outIds[k] \in Nat
    BY <2>1, <2>2, SMTT(30) DEF RowsInOrder
  <2>4. \A k, l \in 1 .. N : k < l => outIds[k] < outIds[l]
    BY <2>2, <2>3 DEF RowsInOrder, Increases
  <2>5. ToSet(outIds) = {outIds[k] : k \in 1 .. N}
    BY <2>3 DEF ToSet
  <2>6. ASSUME NEW j \in DOMAIN toks, toks[j].out
        PROVE  outputIds[j] \in 1 .. N /\ outIds[outputIds[j]] = j
    <3>1. \E r \in DOMAIN outIds : outIds[r] = j
      BY <2>1, <2>2, <2>3, <2>6 DEF RowsInOrder
    <3>2. j \in ToSet(outIds)
      BY <2>3, <2>5, <3>1
    <3>3. outputIds[j] = CHOOSE r \in DOMAIN outIds : outIds[r] = j
      BY <2>2, <3>2 DEF RowsInOrder, RowOf
    <3> QED
      BY <2>3, <3>1, <3>3
  <2>7. CASE toks[i].out
    <3>1. outputIds[i] # 0 /\ rows[outputIds[i]] = i
      BY <2>2, <2>6, <2>7
    <3>2. ASSUME NEW j \in DOMAIN toks, i < j, toks[j].out PROVE outputIds[i] < outputIds[j]
      <4>1. PICK a \in 1 .. N, b \in 1 .. N :
              a = outputIds[i] /\ b = outputIds[j] /\ outIds[a] = i /\ outIds[b] = j
        BY <2>6, <2>7, <3>2
      <4>2. ~ (b < a) /\ a # b
        BY <2>1, <2>4, <3>2, <4>1
      <4> QED
        BY <4>1, <4>2
    <3> QED
      BY <2>7, <3>1, <3>2
  <2>8. CASE ~ toks[i].out
    <3>1. i \notin ToSet(outIds)
      BY <2>1, <2>2, <2>3, <2>5, <2>8 DEF RowsInOrder
    <3>2. outputIds[i] = 0
      BY <2>2, <3>1 DEF RowsInOrder, RowOf
    <3> QED
      BY <2>8, <3>2
  <2> QED
    BY <2>7, <2>8
<1> QED
  BY <1>1, Invariance, PTL
=============================================================================
