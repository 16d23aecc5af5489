-------------------------- MODULE GenerationProofs --------------------------
(***************************************************************************)
(* Proofs about the text that the streams of Generation hand out, for any  *)
(* tokens, cut into any pieces, and any order of the calls (TextWhole; the *)
(* context plays no part in it), and about the context: what its memory    *)
(* holds and its rows follow after prefills, decodes and failures of any   *)
(* batches (Exact, KnownAborts, SeqsApart, Resumes).                       *)
(***************************************************************************)
EXTENDS Generation, SequenceFacts, FiniteSetTheorems

\* What the sanitiser writes.
Glyph == Bytes \cup {"R"}

-----------------------------------------------------------------------------
(* utf8_sanitize(): the scan of a text from each of its places.            *)

LEMMA NeedIs ==
  ASSUME NEW b \in Bytes
  PROVE  Need(b) \in 0 .. 4 /\ (b = "c" => Need(b) = 0)
BY DEF Need, Bytes

LEMMA WholeIs ==
  ASSUME NEW s \in Seq(Bytes), NEW i \in 1 .. Len(s), WholeAt(s, i)
  PROVE  /\ Need(s[i]) \in 1 .. 4 /\ i + Need(s[i]) \in i + 1 .. Len(s) + 1
         /\ s[i] # "c"
         /\ \A j \in i + 1 .. i + Need(s[i]) - 1 : s[j] = "c"
         /\ SubSeq(s, i, i + Need(s[i]) - 1) \in Seq(Glyph)
<1>1. PICK n \in 0 .. 4 : n = Need(s[i]) /\ (s[i] = "c" => n = 0)
  BY NeedIs
<1>2. n > 0 /\ i + n - 1 <= Len(s) /\ \A k \in 1 .. n - 1 : s[i + k] = "c"
  BY <1>1 DEF WholeAt
<1>3. ASSUME NEW j \in i + 1 .. i + n - 1 PROVE s[j] = "c"
  <2>1. j - i \in 1 .. n - 1 /\ i + (j - i) = j
    BY <1>1
  <2> QED
    BY <1>2, <2>1
<1>4. SubSeq(s, i, i + n - 1) \in Seq(Bytes)
  BY <1>2
<1>5. SubSeq(s, i, i + n - 1) \in Seq(Glyph)
  BY <1>4 DEF Glyph
<1> QED
  BY <1>1, <1>2, <1>3, <1>5

\* What the scan g of s gives at place i.
ScanAt(s, i, g) ==
  IF WholeAt(s, i) THEN SubSeq(s, i, i + Need(s[i]) - 1) \o g[i + Need(s[i])]
  ELSE <<"R">> \o g[i + 1]

Scan(s, g) ==
  /\ g \in [1 .. Len(s) + 1 -> Seq(Glyph)] /\ g[Len(s) + 1] = <<>>
  /\ \A i \in 1 .. Len(s) : g[i] = ScanAt(s, i, g)

\* It looks at later places only.
LEMMA ScanLater ==
  ASSUME NEW s \in Seq(Bytes), NEW i \in 1 .. Len(s), NEW g, NEW h,
         \A j \in i + 1 .. Len(s) + 1 : g[j] \in Seq(Glyph) /\ g[j] = h[j]
  PROVE  ScanAt(s, i, g) = ScanAt(s, i, h) /\ ScanAt(s, i, g) \in Seq(Glyph)
<1>1. CASE WholeAt(s, i)
  <2>1. PICK n \in 1 .. 4 : /\ n = Need(s[i]) /\ i + n \in i + 1 .. Len(s) + 1
                            /\ SubSeq(s, i, i + n - 1) \in Seq(Glyph)
    BY <1>1, WholeIs
  <2>2. g[i + n] = h[i + n] /\ g[i + n] \in Seq(Glyph)
    BY <2>1
  <2>3. SubSeq(s, i, i + n - 1) \o g[i + n] \in Seq(Glyph)
    BY <2>1, <2>2
  <2> QED
    BY <1>1, <2>1, <2>2, <2>3 DEF ScanAt
<1>2. CASE ~WholeAt(s, i)
  <2>1. i + 1 \in i + 1 .. Len(s) + 1
    OBVIOUS
  <2>2. g[i + 1] = h[i + 1] /\ g[i + 1] \in Seq(Glyph)
    BY <2>1
  <2>3. <<"R">> \in Seq(Glyph)
    <3>1. ASSUME NEW x \in Glyph PROVE <<x>> \in Seq(Glyph)
      OBVIOUS
    <3>2. "R" \in Glyph
      BY DEF Glyph
    <3> QED
      BY <3>1, <3>2
  <2>4. <<"R">> \o g[i + 1] \in Seq(Glyph)
    BY <2>2, <2>3
  <2> QED
    BY <1>2, <2>2, <2>4 DEF ScanAt
<1> QED
  BY <1>1, <1>2

LEMMA ScanExists ==
  ASSUME NEW s \in Seq(Bytes)
  PROVE  \E g : Scan(s, g)
<1>1. PICK n \in Nat : n = Len(s)
  OBVIOUS
<1> DEFINE From(g, d) ==
             /\ g \in [n + 1 - d .. n + 1 -> Seq(Glyph)] /\ g[n + 1] = <<>>
             /\ \A i \in n + 1 - d .. n : g[i] = ScanAt(s, i, g)
           S == {d \in 0 .. n : \E g : From(g, d)}
<1>2. 0 \in S
  <2>1. PICK g : g = [i \in {n + 1} |-> <<>>]
    OBVIOUS
  <2>2. n + 1 - 0 .. n + 1 = {n + 1} /\ n + 1 - 0 .. n = {}
    OBVIOUS
  <2>3. <<>> \in Seq(Glyph)
    OBVIOUS
  <2>4. From(g, 0)
    BY <2>1, <2>2, <2>3
  <2> HIDE DEF From
  <2> QED
    BY <2>4
<1>3. ASSUME NEW d \in 0 .. n - 1, d \in S PROVE d + 1 \in S
  <2>1. PICK g : From(g, d)
    BY <1>3
  <2>2. PICK k \in 1 .. n : k = n - d /\ k + 1 = n + 1 - d /\ k = n + 1 - (d + 1)
    <3>1. n - d \in 1 .. n
      OBVIOUS
    <3> QED
      BY <3>1
  <2>3. /\ \A i \in k + 1 .. n + 1 : g[i] \in Seq(Glyph)
        /\ g[n + 1] = <<>> /\ \A i \in k + 1 .. n : g[i] = ScanAt(s, i, g)
    BY <2>1, <2>2
  <2>4. PICK x : x = ScanAt(s, k, g) /\ x \in Seq(Glyph)
    BY <1>1, <2>3, ScanLater
  <2>5. PICK h : h = [i \in k .. n + 1 |-> IF i = k THEN x ELSE g[i]]
    OBVIOUS
  <2>6. /\ h[k] = x /\ \A i \in k + 1 .. n + 1 : h[i] = g[i]
        /\ \A i \in k .. n + 1 : h[i] \in Seq(Glyph)
        /\ h \in [k .. n + 1 -> Seq(Glyph)]
    BY <2>3, <2>4, <2>5
  <2>7. ASSUME NEW i \in k .. n PROVE h[i] = ScanAt(s, i, h)
    <3>1. ScanAt(s, i, g) = ScanAt(s, i, h)
      <4>1. ASSUME NEW j \in i + 1 .. Len(s) + 1 PROVE g[j] \in Seq(Glyph) /\ g[j] = h[j]
        <5>1. j \in k + 1 .. n + 1
          BY <1>1
        <5> QED
          BY ONLY <2>3, <2>6, <5>1
      <4>2. i \in 1 .. Len(s)
        BY <1>1
      <4> QED
        BY <4>1, <4>2, ScanLater
    <3>2. CASE i = k
      BY <2>4, <2>6, <3>1, <3>2
    <3>3. CASE i # k
      <4>1. i \in k + 1 .. n /\ i \in k + 1 .. n + 1
        BY <3>3
      <4> QED
        BY <2>3, <2>6, <3>1, <4>1
    <3> QED
      BY <3>2, <3>3
  <2>8. n + 1 \in k + 1 .. n + 1
    OBVIOUS
  <2>9. From(h, d + 1)
    <3>1. h[n + 1] = <<>>
      BY <2>3, <2>6, <2>8
    <3>2. n + 1 - (d + 1) = k
      BY <2>2
    <3> QED
      BY <2>6, <2>7, <3>1, <3>2
  <2>10. d + 1 \in 0 .. n
    OBVIOUS
  <2> HIDE DEF From
  <2> QED
    BY <2>9, <2>10
<1> HIDE DEF S
<1>4. 0 .. n \subseteq S
  BY <1>2, <1>3, UpTo
<1>5. n \in S
  BY <1>4
<1>6. PICK g : From(g, n)
  BY <1>5 DEF S
<1>7. n + 1 - n = 1
  OBVIOUS
<1> QED
  BY <1>1, <1>6, <1>7 DEF Scan

LEMMA SanitizedScan ==
  ASSUME NEW s \in Seq(Bytes)
  PROVE  \E g : Scan(s, g) /\ Sanitized(s) = g[1]
<1> DEFINE Step(e) == [i \in 1 .. Len(s) + 1 |->
                        IF i > Len(s) THEN <<>>
                        ELSE IF WholeAt(s, i)
                             THEN SubSeq(s, i, i + Need(s[i]) - 1) \o e[i + Need(s[i])]
                             ELSE <<"R">> \o e[i + 1]]
           f == CHOOSE e : e = Step(e)
<1>1. PICK n \in Nat : n = Len(s)
  OBVIOUS
<1>2. \E e : e = Step(e)
  <2>1. PICK g : Scan(s, g)
    BY ScanExists
  <2>2. g = [i \in 1 .. n + 1 |-> g[i]]
    BY <1>1, <2>1 DEF Scan
  <2>3. ASSUME NEW i \in 1 .. n + 1
        PROVE  g[i] = IF i > n THEN <<>> ELSE ScanAt(s, i, g)
    <3>1. CASE i = n + 1
      BY <1>1, <2>1, <3>1 DEF Scan
    <3>2. CASE i # n + 1
      <4>1. i \in 1 .. n /\ ~(i > n)
        BY <3>2
      <4> QED
        BY <1>1, <2>1, <4>1 DEF Scan
    <3> QED
      BY <3>1, <3>2
  <2>4. g = Step(g)
    BY <1>1, <2>2, <2>3 DEF ScanAt
  <2> QED
    BY <2>4
<1>3. f = Step(f)
  <2> HIDE DEF Step
  <2> QED
    BY <1>2
<1> HIDE DEF f
<1>4. /\ f = [i \in 1 .. n + 1 |-> f[i]] /\ f[n + 1] = <<>>
      /\ \A i \in 1 .. n : f[i] = ScanAt(s, i, f)
  <2>1. f = [i \in 1 .. n + 1 |-> f[i]]
    BY <1>1, <1>3
  <2>2. f[n + 1] = <<>>
    BY <1>1, <1>3
  <2>3. ASSUME NEW i \in 1 .. n PROVE f[i] = ScanAt(s, i, f)
    <3>1. i \in 1 .. n + 1 /\ ~(i > n)
      OBVIOUS
    <3> QED
      BY <1>1, <1>3, <3>1 DEF ScanAt
  <2> QED
    BY <2>1, <2>2, <2>3
\* What it gives are texts: from the end to the beginning.
<1>5. \A i \in 1 .. n + 1 : f[i] \in Seq(Glyph)
  <2> DEFINE S == {d \in 0 .. n : \A i \in n + 1 - d .. n + 1 : f[i] \in Seq(Glyph)}
  <2>1. 0 \in S
    <3>1. <<>> \in Seq(Glyph)
      OBVIOUS
    <3>2. f[n + 1] \in Seq(Glyph)
      BY <1>4, <3>1
    <3>3. \A i \in n + 1 - 0 .. n + 1 : i = n + 1
      OBVIOUS
    <3> QED
      BY <3>2, <3>3
  <2>2. ASSUME NEW d \in 0 .. n - 1, d \in S PROVE d + 1 \in S
    <3>1. PICK k \in 1 .. n : k = n - d
      <4>1. n - d \in 1 .. n
        OBVIOUS
      <4> QED
        BY <4>1
    <3>2. \A j \in k + 1 .. Len(s) + 1 : f[j] \in Seq(Glyph) /\ f[j] = f[j]
      BY <1>1, <2>2, <3>1
    <3>3. ScanAt(s, k, f) \in Seq(Glyph)
      BY <1>1, <3>2, ScanLater
    <3>4. f[k] \in Seq(Glyph)
      BY <1>4, <3>3
    <3> QED
      BY <2>2, <3>1, <3>4
  <2> HIDE DEF S
  <2>3. 0 .. n \subseteq S
    BY <2>1, <2>2, UpTo
  <2>4. n \in S
    BY <2>3
  <2> QED
    BY <2>4 DEF S
<1>6. Scan(s, f)
  BY <1>1, <1>4, <1>5 DEF Scan
<1>7. Sanitized(s) = f[1]
  BY DEF Sanitized, f
<1> QED
  BY <1>6, <1>7

-----------------------------------------------------------------------------
(* Texts that are cut.                                                     *)

\* No character of a \o b crosses from a into b.
Clean(a, b) ==
  \A i \in 1 .. Len(a) : WholeAt(a \o b, i) => i + Need((a \o b)[i]) - 1 <= Len(a)

LEMMA CutPlaces ==
  ASSUME NEW a \in Seq(Bytes), NEW b \in Seq(Bytes)
  PROVE  /\ a \o b \in Seq(Bytes) /\ Len(a \o b) = Len(a) + Len(b)
         /\ \A i \in 1 .. Len(a) : (a \o b)[i] = a[i] /\ a[i] \in Bytes
         /\ \A i \in 1 .. Len(b) : (a \o b)[Len(a) + i] = b[i] /\ b[i] \in Bytes
<1>1. \A i \in 1 .. Len(a) : (a \o b)[i] = a[i]
  BY ConcatBegins DEF Begins
<1> QED
  BY <1>1, ConcatBegins

LEMMA PartIs ==
  ASSUME NEW V, NEW s \in Seq(V), NEW i \in Nat \ {0}, NEW e \in Int,
         e <= Len(s), i <= e + 1
  PROVE  /\ SubSeq(s, i, e) \in Seq(V) /\ Len(SubSeq(s, i, e)) = e - i + 1
         /\ \A k \in 1 .. e - i + 1 : SubSeq(s, i, e)[k] = s[i + k - 1]
<1>1. \A j \in i .. e : s[j] \in V
  OBVIOUS
<1> QED
  BY <1>1, SubSeqProperties

LEMMA SamePart ==
  ASSUME NEW s \in Seq(Bytes), NEW t \in Seq(Bytes), NEW i \in Nat \ {0}, NEW j \in Nat \ {0},
         NEW n \in 1 .. 4, i + n - 1 <= Len(s), j + n - 1 <= Len(t),
         \A k \in 1 .. n : s[i + k - 1] = t[j + k - 1]
  PROVE  SubSeq(s, i, i + n - 1) = SubSeq(t, j, j + n - 1)
<1>1. PICK d, e \in Nat : d = i + n - 1 /\ e = j + n - 1
  OBVIOUS
<1>2. d - i + 1 = n /\ e - j + 1 = n /\ i <= d + 1 /\ j <= e + 1
  BY <1>1
<1>3. /\ SubSeq(s, i, d) \in Seq(Bytes) /\ Len(SubSeq(s, i, d)) = n
      /\ \A k \in 1 .. n : SubSeq(s, i, d)[k] = s[i + k - 1]
  BY <1>1, <1>2, PartIs
<1>4. /\ SubSeq(t, j, e) \in Seq(Bytes) /\ Len(SubSeq(t, j, e)) = n
      /\ \A k \in 1 .. n : SubSeq(t, j, e)[k] = t[j + k - 1]
  BY <1>1, <1>2, PartIs
<1>5. SubSeq(s, i, d) = SubSeq(t, j, e)
  BY <1>3, <1>4, SeqEqual
<1> QED
  BY <1>1, <1>5

\* The scan of the second part does not depend on the first.
LEMMA WholeSecond ==
  ASSUME NEW a \in Seq(Bytes), NEW b \in Seq(Bytes), NEW i \in 1 .. Len(b)
  PROVE  /\ WholeAt(a \o b, Len(a) + i) <=> WholeAt(b, i)
         /\ WholeAt(b, i) => SubSeq(a \o b, Len(a) + i, Len(a) + i + Need(b[i]) - 1)
                             = SubSeq(b, i, i + Need(b[i]) - 1)
<1>1. PICK m, l \in Nat : m = Len(a) /\ l = Len(b)
  OBVIOUS
<1>2. PICK s \in Seq(Bytes) :
         /\ s = a \o b /\ Len(s) = m + l
         /\ \A j \in 1 .. l : s[m + j] = b[j] /\ b[j] \in Bytes
  <2>1. a \o b \in Seq(Bytes) /\ Len(a \o b) = m + l
    BY <1>1, CutPlaces
  <2>2. \A j \in 1 .. l : (a \o b)[m + j] = b[j] /\ b[j] \in Bytes
    BY <1>1, CutPlaces
  <2> QED
    BY <2>1, <2>2
<1>3. PICK n \in 0 .. 4 : n = Need(b[i])
  BY <1>1, <1>2, NeedIs
<1>4. s[m + i] = b[i] /\ m + i \in 1 .. Len(s)
  BY <1>1, <1>2
<1>5. ASSUME i + n - 1 <= l
      PROVE  \A k \in 1 .. n - 1 : s[m + i + k] = b[i + k]
  <2>1. ASSUME NEW k \in 1 .. n - 1 PROVE s[m + i + k] = b[i + k]
    <3>1. i + k \in 1 .. l /\ m + (i + k) = m + i + k
      BY <1>1, <1>5
    <3> QED
      BY <1>2, <3>1
  <2> QED
    BY <2>1
<1>6. WholeAt(s, m + i) <=> WholeAt(b, i)
  <2>1. m + i + n - 1 <= m + l <=> i + n - 1 <= l
    BY <1>1
  <2> QED
    BY <1>1, <1>2, <1>3, <1>4, <1>5, <2>1 DEF WholeAt
<1>7. ASSUME WholeAt(b, i)
      PROVE  SubSeq(s, m + i, m + i + n - 1) = SubSeq(b, i, i + n - 1)
  <2>1. n \in 1 .. 4 /\ i + n - 1 <= l
    BY <1>1, <1>3, <1>7 DEF WholeAt
  <2>2. ASSUME NEW k \in 1 .. n PROVE s[m + i + k - 1] = b[i + k - 1]
    <3>1. i + k - 1 \in 1 .. l /\ m + (i + k - 1) = m + i + k - 1
      BY <1>1, <2>1
    <3> QED
      BY <1>2, <3>1
  <2>3. m + i \in Nat \ {0} /\ i \in Nat \ {0} /\ m + i + n - 1 <= m + l
    BY <1>1, <2>1
  <2> QED
    BY <1>1, <1>2, <2>1, <2>2, <2>3, SamePart
<1> QED
  BY <1>1, <1>2, <1>3, <1>6, <1>7

\* Nor does that of the first part on the second, if the cut is clean.
LEMMA WholeFirst ==
  ASSUME NEW a \in Seq(Bytes), NEW b \in Seq(Bytes), Clean(a, b), NEW i \in 1 .. Len(a)
  PROVE  /\ WholeAt(a \o b, i) <=> WholeAt(a, i)
         /\ WholeAt(a, i) => SubSeq(a \o b, i, i + Need(a[i]) - 1)
                             = SubSeq(a, i, i + Need(a[i]) - 1)
<1>1. PICK m, l \in Nat : m = Len(a) /\ l = Len(b)
  OBVIOUS
<1>2. PICK s \in Seq(Bytes) :
         /\ s = a \o b /\ Len(s) = m + l
         /\ \A j \in 1 .. m : s[j] = a[j] /\ a[j] \in Bytes
  BY <1>1, CutPlaces
<1>3. PICK n \in 0 .. 4 : n = Need(a[i])
  BY <1>1, <1>2, NeedIs
<1>4. s[i] = a[i] /\ i \in 1 .. m
  BY <1>1, <1>2
<1>5. ASSUME i + n - 1 <= m
      PROVE  \A k \in 1 .. n - 1 : s[i + k] = a[i + k]
  BY <1>1, <1>2, <1>5
<1>6. WholeAt(s, i) <=> WholeAt(a, i)
  <2>1. WholeAt(s, i) => i + n - 1 <= m
    BY <1>1, <1>2, <1>3, <1>4 DEF Clean
  <2>2. i + n - 1 <= m => i + n - 1 <= m + l
    BY <1>1
  <2> QED
    BY <1>1, <1>2, <1>3, <1>4, <1>5, <2>1, <2>2 DEF WholeAt
<1>7. ASSUME WholeAt(a, i)
      PROVE  SubSeq(s, i, i + n - 1) = SubSeq(a, i, i + n - 1)
  <2>1. n \in 1 .. 4 /\ i + n - 1 <= m
    BY <1>1, <1>3, <1>7 DEF WholeAt
  <2>2. \A k \in 1 .. n : s[i + k - 1] = a[i + k - 1]
    BY <1>1, <1>2, <2>1
  <2>3. i \in Nat \ {0} /\ i + n - 1 <= m + l
    BY <1>1, <2>1
  <2> QED
    BY <1>1, <1>2, <2>1, <2>2, <2>3, SamePart
<1> QED
  BY <1>1, <1>2, <1>3, <1>6, <1>7

LEMMA CutSecond ==
  ASSUME NEW a \in Seq(Bytes), NEW b \in Seq(Bytes), NEW g, Scan(a \o b, g),
         NEW k, Scan(b, k)
  PROVE  \A i \in 1 .. Len(b) + 1 : g[Len(a) + i] = k[i]
<1>1. PICK m, l \in Nat : m = Len(a) /\ l = Len(b)
  OBVIOUS
<1>2. PICK s \in Seq(Bytes) :
         /\ s = a \o b /\ Len(s) = m + l
         /\ \A j \in 1 .. l : s[m + j] = b[j] /\ b[j] \in Bytes
  <2>1. a \o b \in Seq(Bytes) /\ Len(a \o b) = m + l
    BY <1>1, CutPlaces
  <2>2. \A j \in 1 .. l : (a \o b)[m + j] = b[j] /\ b[j] \in Bytes
    BY <1>1, CutPlaces
  <2> QED
    BY <2>1, <2>2
<1>3. /\ g[m + l + 1] = <<>> /\ \A i \in 1 .. m + l : g[i] = ScanAt(s, i, g)
      /\ k[l + 1] = <<>> /\ \A i \in 1 .. l : k[i] = ScanAt(b, i, k)
  BY <1>1, <1>2 DEF Scan
<1> DEFINE S == {i \in 1 .. l + 1 : g[m + i] = k[i]}
<1>4. l + 1 \in S
  <2>1. m + (l + 1) = m + l + 1
    OBVIOUS
  <2> QED
    BY <1>3, <2>1
<1>5. ASSUME NEW i \in 1 .. l, \A j \in i + 1 .. l + 1 : j \in S PROVE i \in S
  <2>1. g[m + i] = ScanAt(s, m + i, g) /\ k[i] = ScanAt(b, i, k)
    <3>1. m + i \in 1 .. m + l
      OBVIOUS
    <3> QED
      BY <1>3, <3>1
  <2>2. s[m + i] = b[i]
    BY <1>2
  <2>3. CASE WholeAt(b, i)
    <3>1. PICK n \in 1 .. 4 : n = Need(b[i]) /\ i + n \in i + 1 .. l + 1
      BY <1>1, <2>3, WholeIs
    <3>2. WholeAt(s, m + i) /\ SubSeq(s, m + i, m + i + n - 1) = SubSeq(b, i, i + n - 1)
      BY <1>1, <1>2, <2>3, <3>1, WholeSecond
    <3>3. i + n \in S /\ m + (i + n) = m + i + n
      <4>1. i + n \in i + 1 .. l + 1
        BY <3>1
      <4> HIDE DEF S
      <4> QED
        BY <1>5, <4>1
    <3>4. g[m + i + n] = k[i + n]
      BY <3>3
    <3>5. ScanAt(s, m + i, g) = SubSeq(s, m + i, m + i + n - 1) \o g[m + i + n]
      BY <2>2, <3>1, <3>2 DEF ScanAt
    <3>6. ScanAt(b, i, k) = SubSeq(b, i, i + n - 1) \o k[i + n]
      BY <2>3, <3>1 DEF ScanAt
    <3>7. g[m + i] = k[i]
      BY ONLY <2>1, <3>2, <3>5, <3>6, <3>4, Zenon
    <3> QED
      BY <3>7
  <2>4. CASE ~WholeAt(b, i)
    <3>1. ~WholeAt(s, m + i)
      BY <1>1, <1>2, <2>4, WholeSecond
    <3>2. g[m + (i + 1)] = k[i + 1] /\ m + (i + 1) = m + i + 1
      <4>1. i + 1 \in i + 1 .. l + 1
        OBVIOUS
      <4> QED
        BY <1>5, <4>1
    <3>3. g[m + i] = <<"R">> \o g[m + i + 1] /\ k[i] = <<"R">> \o k[i + 1]
      BY ONLY <2>1, <2>4, <3>1, Zenon DEF ScanAt
    <3>4. g[m + i] = k[i]
      BY <3>2, <3>3
    <3> QED
      BY <3>4
  <2> QED
    BY <2>3, <2>4
<1> HIDE DEF S
<1>6. 1 .. l + 1 \subseteq S
  BY <1>4, <1>5, DownFrom
<1> QED
  BY <1>1, <1>6 DEF S

LEMMA ShownAssociative ==
  ASSUME NEW x \in Seq(Glyph), NEW y \in Seq(Glyph), NEW z \in Seq(Glyph)
  PROVE  x \o (y \o z) = (x \o y) \o z
BY ConcatAssociative, SMTT(30)

\* Where the cut is clean, the parts are sanitised apart.
LEMMA CutSanitized ==
  ASSUME NEW a \in Seq(Bytes), NEW b \in Seq(Bytes), Clean(a, b)
  PROVE  Sanitized(a \o b) = Sanitized(a) \o Sanitized(b)
<1>1. PICK m, l \in Nat : m = Len(a) /\ l = Len(b)
  OBVIOUS
<1>2. PICK s \in Seq(Bytes) :
         /\ s = a \o b /\ Len(s) = m + l
         /\ \A j \in 1 .. m : s[j] = a[j] /\ a[j] \in Bytes
  BY <1>1, CutPlaces
<1>3. PICK g : Scan(s, g) /\ Sanitized(s) = g[1]
  BY SanitizedScan
<1>4. PICK h : Scan(a, h) /\ Sanitized(a) = h[1]
  BY SanitizedScan
<1>5. PICK k : Scan(b, k) /\ Sanitized(b) = k[1]
  BY SanitizedScan
<1>6. g[m + 1] = k[1]
  <2>1. \A i \in 1 .. l + 1 : g[m + i] = k[i]
    BY <1>1, <1>2, <1>3, <1>5, CutSecond
  <2> QED
    BY <2>1
<1>7. /\ \A i \in 1 .. m + l : g[i] = ScanAt(s, i, g)
      /\ \A i \in 1 .. m + 1 : h[i] \in Seq(Glyph)
      /\ h[m + 1] = <<>> /\ \A i \in 1 .. m : h[i] = ScanAt(a, i, h)
      /\ k[1] \in Seq(Glyph)
  <2>1. \A i \in 1 .. m + l : g[i] = ScanAt(s, i, g)
    BY <1>2, <1>3 DEF Scan
  <2>2. /\ \A i \in 1 .. m + 1 : h[i] \in Seq(Glyph)
        /\ h[m + 1] = <<>> /\ \A i \in 1 .. m : h[i] = ScanAt(a, i, h)
    BY <1>1, <1>4 DEF Scan
  <2>3. k[1] \in Seq(Glyph)
    <3>1. 1 \in 1 .. l + 1
      OBVIOUS
    <3> QED
      BY <1>1, <1>5, <3>1 DEF Scan
  <2> QED
    BY <2>1, <2>2, <2>3
<1> DEFINE S == {i \in 1 .. m + 1 : g[i] = h[i] \o k[1]}
<1>8. m + 1 \in S
  <2>1. <<>> \o k[1] = k[1]
    BY <1>7
  <2>2. h[m + 1] \o k[1] = k[1]
    BY <1>7, <2>1, Zenon
  <2>3. m + 1 \in 1 .. m + 1
    OBVIOUS
  <2> QED
    BY ONLY <1>6, <2>2, <2>3, Zenon
<1>9. ASSUME NEW i \in 1 .. m, \A j \in i + 1 .. m + 1 : j \in S PROVE i \in S
  <2>1. g[i] = ScanAt(s, i, g) /\ h[i] = ScanAt(a, i, h)
    BY <1>7
  <2>2. i \in 1 .. m + 1
    OBVIOUS
  <2>3. s[i] = a[i]
    BY <1>2
  <2>4. CASE WholeAt(a, i)
    <3>1. PICK n \in 1 .. 4 : /\ n = Need(a[i]) /\ i + n \in i + 1 .. m + 1
                              /\ SubSeq(a, i, i + n - 1) \in Seq(Glyph)
      BY <1>1, <2>4, WholeIs
    <3>2. WholeAt(s, i) /\ SubSeq(s, i, i + n - 1) = SubSeq(a, i, i + n - 1)
      BY <1>1, <1>2, <2>4, <3>1, WholeFirst
    <3>3. g[i + n] = h[i + n] \o k[1] /\ h[i + n] \in Seq(Glyph)
      BY <1>7, <1>9, <3>1
    <3>4. ScanAt(s, i, g) = SubSeq(s, i, i + n - 1) \o g[i + n]
      BY <2>3, <3>1, <3>2 DEF ScanAt
    <3>5. ScanAt(a, i, h) = SubSeq(a, i, i + n - 1) \o h[i + n]
      BY <2>4, <3>1 DEF ScanAt
    <3>6. SubSeq(a, i, i + n - 1) \o (h[i + n] \o k[1])
            = (SubSeq(a, i, i + n - 1) \o h[i + n]) \o k[1]
      BY <1>7, <3>1, <3>3, ShownAssociative
    <3>7. g[i] = h[i] \o k[1]
      BY ONLY <2>1, <3>2, <3>3, <3>4, <3>5, <3>6, Zenon
    <3> QED
      BY ONLY <2>2, <3>7, Zenon
  <2>5. CASE ~WholeAt(a, i)
    <3>1. ~WholeAt(s, i)
      BY <1>1, <1>2, <2>5, WholeFirst
    <3>2. g[i + 1] = h[i + 1] \o k[1] /\ h[i + 1] \in Seq(Glyph)
      <4>1. i + 1 \in i + 1 .. m + 1
        OBVIOUS
      <4> QED
        BY <1>7, <1>9, <4>1
    <3>3. <<"R">> \in Seq(Glyph)
      <4>1. ASSUME NEW x \in Glyph PROVE <<x>> \in Seq(Glyph)
        OBVIOUS
      <4>2. "R" \in Glyph
        BY DEF Glyph
      <4> QED
        BY <4>1, <4>2
    <3>4. <<"R">> \o (h[i + 1] \o k[1]) = (<<"R">> \o h[i + 1]) \o k[1]
      BY <1>7, <3>2, <3>3, ShownAssociative
    <3>5. g[i] = <<"R">> \o g[i + 1] /\ h[i] = <<"R">> \o h[i + 1]
      BY ONLY <2>1, <2>5, <3>1, Zenon DEF ScanAt
    <3>6. g[i] = h[i] \o k[1]
      BY ONLY <3>2, <3>4, <3>5, Zenon
    <3> QED
      BY ONLY <2>2, <3>6, Zenon
  <2> QED
    BY <2>4, <2>5
<1> HIDE DEF S
<1>10. 1 .. m + 1 \subseteq S
  BY <1>8, <1>9, DownFrom
<1>11. 1 \in S
  BY <1>10
<1> QED
  BY <1>2, <1>3, <1>4, <1>5, <1>11 DEF S

LEMMA SanitizedType ==
  /\ Sanitized(<<>>) = <<>>
  /\ \A s \in Seq(Bytes) : Sanitized(s) \in Seq(Glyph)
<1>1. ASSUME NEW s \in Seq(Bytes)
      PROVE  Sanitized(s) \in Seq(Glyph) /\ (Len(s) = 0 => Sanitized(s) = <<>>)
  <2>1. PICK g : Scan(s, g) /\ Sanitized(s) = g[1]
    BY SanitizedScan
  <2>2. 1 \in 1 .. Len(s) + 1 /\ (Len(s) = 0 => Len(s) + 1 = 1)
    OBVIOUS
  <2> QED
    BY <2>1, <2>2 DEF Scan
<1>2. <<>> \in Seq(Bytes) /\ Len(<<>>) = 0
  OBVIOUS
<1> QED
  BY <1>1, <1>2

-----------------------------------------------------------------------------
(* utf8_incomplete_tail(): what is emitted and what is held back.           *)

\* The character begun at i is not complete at the end of s.
OpenAt(s, i) == Need(s[i]) > Len(s) - i + 1 /\ \A j \in i + 1 .. Len(s) : s[j] = "c"

LEMMA OpenIs ==
  ASSUME NEW s \in Seq(Bytes), NEW i \in 1 .. Len(s), OpenAt(s, i)
  PROVE  s[i] # "c" /\ Need(s[i]) \in 2 .. 4
<1>1. PICK n \in 0 .. 4 : n = Need(s[i]) /\ (s[i] = "c" => n = 0)
  BY NeedIs
<1> QED
  BY <1>1 DEF OpenAt

LEMMA TailIs ==
  ASSUME NEW s \in Seq(Bytes)
  PROVE  \/ /\ Emitted(s) = s /\ Held(s) = <<>>
            /\ \A i \in 1 .. Len(s) : ~OpenAt(s, i)
         \/ \E i \in 1 .. Len(s) : /\ OpenAt(s, i)
                                   /\ Emitted(s) = SubSeq(s, 1, i - 1)
                                   /\ Held(s) = SubSeq(s, i, Len(s))
<1>1. PICK n \in Nat : n = Len(s)
  OBVIOUS
<1> DEFINE leads == {i \in 1 .. Len(s) : s[i] # "c"}
           last  == CHOOSE i \in leads : \A j \in leads : j <= i
<1>2. \A i \in 1 .. n : OpenAt(s, i) => i \in leads
  BY <1>1, OpenIs
<1>3. IncompleteTail(s) = IF leads # {} /\ Len(s) - last + 1 < Need(s[last])
                         THEN Len(s) - last + 1 ELSE 0
  BY DEF IncompleteTail
<1>4. ASSUME IncompleteTail(s) = 0 PROVE Emitted(s) = s /\ Held(s) = <<>>
  <2>1. n - 0 = n /\ n - 0 + 1 = n + 1
    OBVIOUS
  <2>2. SubSeq(s, 1, n) = s
    BY <1>1, SubSeqFull
  <2>3. SubSeq(s, n + 1, n) = <<>>
    BY SubSeqEmpty
  <2> QED
    BY <1>1, <1>4, <2>1, <2>2, <2>3 DEF Emitted, Held
<1>5. CASE leads = {}
  BY <1>1, <1>2, <1>3, <1>4, <1>5
<1>6. CASE leads # {}
  <2> HIDE DEF last
  <2>1. PICK z \in leads : \A j \in leads : j <= z
    BY <1>1, <1>6, Greatest
  <2>2. last \in leads /\ \A j \in leads : j <= last
    BY <2>1 DEF last
  <2>3. PICK i \in 1 .. n : i = last /\ i \in leads /\ \A j \in leads : j <= i
    BY <1>1, <2>2
  <2>4. \A j \in i + 1 .. n : s[j] = "c"
    BY <1>1, <2>3
  <2>5. PICK q \in 0 .. 4 : q = Need(s[i])
    BY <1>1, NeedIs
  <2>6. OpenAt(s, i) <=> n - i + 1 < q
    BY <1>1, <2>4, <2>5 DEF OpenAt
  <2>7. \A j \in 1 .. n : OpenAt(s, j) => j = i
    <3>1. ASSUME NEW j \in 1 .. n, OpenAt(s, j) PROVE j = i
      <4>1. j \in leads /\ j <= i
        BY <1>2, <2>3, <3>1
      <4>2. i \in j + 1 .. n => s[i] = "c"
        BY <1>1, <3>1 DEF OpenAt
      <4>3. s[i] # "c"
        BY <2>3
      <4> QED
        BY <4>1, <4>2, <4>3
    <3> QED
      BY <3>1
  <2> HIDE DEF leads
  <2>8. CASE n - i + 1 < q
    <3>1. IncompleteTail(s) = n - i + 1
      BY <1>1, <1>3, <1>6, <2>3, <2>5, <2>8
    <3>2. n - (n - i + 1) = i - 1 /\ i - 1 + 1 = i
      OBVIOUS
    <3>3. Emitted(s) = SubSeq(s, 1, i - 1) /\ Held(s) = SubSeq(s, i, Len(s))
      BY <1>1, <3>1, <3>2 DEF Emitted, Held
    <3> QED
      BY <1>1, <2>6, <2>8, <3>3
  <2>9. CASE ~(n - i + 1 < q)
    <3>1. IncompleteTail(s) = 0
      BY <1>1, <1>3, <2>3, <2>5, <2>9
    <3>2. \A j \in 1 .. n : ~OpenAt(s, j)
      BY <2>6, <2>7, <2>9
    <3> QED
      BY <1>1, <1>4, <3>1, <3>2
  <2> QED
    BY <2>8, <2>9
<1> QED
  BY <1>5, <1>6

\* What is held back may still become a character.
LEMMA HeldCompletable ==
  ASSUME NEW s \in Seq(Bytes)
  PROVE  Completable(Held(s)) /\ Completable(<<>>)
<1>1. PICK one \in 1 .. 3 : TRUE
  OBVIOUS
<1>2. Completable(<<>>)
  BY <1>1 DEF Completable
<1>3. ASSUME NEW i \in 1 .. Len(s), OpenAt(s, i), Held(s) = SubSeq(s, i, Len(s))
      PROVE  Completable(Held(s))
  <2>1. PICK n \in Nat : n = Len(s)
    OBVIOUS
  <2>2. PICK q \in 2 .. 4 : q = Need(s[i])
    BY <1>3, OpenIs
  <2>3. PICK h \in 1 .. 3 : h = n - i + 1 /\ q > h /\ \A j \in i + 1 .. n : s[j] = "c"
    <3>1. q > n - i + 1 /\ \A j \in i + 1 .. n : s[j] = "c"
      BY <1>3, <2>1, <2>2 DEF OpenAt
    <3>2. n - i + 1 \in 1 .. 3
      BY <2>1, <3>1
    <3> QED
      BY <3>1, <3>2
  <2>4. PICK b \in Seq(Bytes) : /\ b = Held(s) /\ Len(b) = h
                                /\ \A k \in 1 .. h : b[k] = s[i + k - 1]
    <3>1. SubSeq(s, i, n) \in Seq(Bytes) /\ Len(SubSeq(s, i, n)) = n - i + 1
      BY <2>1, PartIs
    <3>2. \A k \in 1 .. n - i + 1 : SubSeq(s, i, n)[k] = s[i + k - 1]
      BY <2>1, PartIs
    <3> QED
      BY <1>3, <2>1, <2>3, <3>1, <3>2
  <2>5. PICK m \in 1 .. 3 : m = q - h
    <3>1. q - h \in 1 .. 3
      BY <2>3
    <3> QED
      BY <3>1
  <2>6. PICK e \in Seq(Bytes) : e = [k \in 1 .. m |-> "c"] /\ Len(e) = m /\ \A k \in 1 .. m : e[k] = "c"
    <3>1. ASSUME NEW x \in Bytes PROVE [k \in 1 .. m |-> x] \in Seq(Bytes)
      OBVIOUS
    <3>2. "c" \in Bytes
      BY DEF Bytes
    <3>3. [k \in 1 .. m |-> "c"] \in Seq(Bytes)
      BY <3>1, <3>2
    <3>4. Len([k \in 1 .. m |-> "c"]) = m
      OBVIOUS
    <3> QED
      BY <3>3, <3>4
  <2>7. PICK t \in Seq(Bytes) : /\ t = b \o e /\ Len(t) = q
                                /\ \A k \in 1 .. h : t[k] = b[k]
                                /\ \A k \in 1 .. m : t[h + k] = e[k]
    <3>1. b \o e \in Seq(Bytes) /\ Len(b \o e) = h + m /\ h + m = q
      BY <2>4, <2>5, <2>6, CutPlaces
    <3>2. /\ \A k \in 1 .. h : (b \o e)[k] = b[k]
          /\ \A k \in 1 .. m : (b \o e)[h + k] = e[k]
      BY <2>4, <2>6, CutPlaces
    <3> QED
      BY <3>1, <3>2
  <2>8. t[1] = s[i]
    <3>1. 1 \in 1 .. h /\ i + 1 - 1 = i
      OBVIOUS
    <3> QED
      BY <2>4, <2>7, <3>1
  <2>9. ASSUME NEW k \in 1 .. q - 1 PROVE t[1 + k] = "c"
    <3>1. CASE 1 + k <= h
      <4>1. 1 + k \in 1 .. h /\ i + (1 + k) - 1 \in i + 1 .. n
        BY <2>3, <3>1
      <4> QED
        BY <2>3, <2>4, <2>7, <4>1
    <3>2. CASE 1 + k > h
      <4>1. 1 + k - h \in 1 .. m /\ h + (1 + k - h) = 1 + k
        BY <2>5, <3>2
      <4> QED
        BY <2>6, <2>7, <4>1
    <3> QED
      BY <3>1, <3>2
  <2>10. WholeAt(t, 1)
    BY <2>2, <2>7, <2>8, <2>9 DEF WholeAt
  <2> QED
    BY <2>4, <2>6, <2>7, <2>10 DEF Completable
<1> QED
  BY <1>2, <1>3, TailIs

-----------------------------------------------------------------------------
(* Texts of which a part was emitted.                                      *)

\* No character that begins in d can go on in b.
Sealed(d, b) == (\E i \in 1 .. Len(d) : OpenAt(d, i)) => b # <<>> /\ b[1] # "c"

\* It does not depend on how much of b there is.
LEMMA SealedClean ==
  ASSUME NEW d \in Seq(Bytes), NEW b \in Seq(Bytes), Sealed(d, b),
         NEW e \in Seq(Bytes), e = <<>> \/ e[1] = b[1]
  PROVE  Clean(d, e)
<1>1. PICK m, l \in Nat : m = Len(d) /\ l = Len(e)
  OBVIOUS
<1>2. PICK s \in Seq(Bytes) :
         /\ s = d \o e /\ Len(s) = m + l
         /\ \A j \in 1 .. m : s[j] = d[j] /\ d[j] \in Bytes
         /\ \A j \in 1 .. l : s[m + j] = e[j]
  <2>1. d \o e \in Seq(Bytes) /\ Len(d \o e) = m + l
    BY <1>1, CutPlaces
  <2>2. /\ \A j \in 1 .. m : (d \o e)[j] = d[j] /\ d[j] \in Bytes
        /\ \A j \in 1 .. l : (d \o e)[m + j] = e[j]
    BY <1>1, CutPlaces
  <2> QED
    BY <2>1, <2>2
<1>3. ASSUME NEW i \in 1 .. m, WholeAt(s, i) PROVE i + Need(s[i]) - 1 <= m
  <2> SUFFICES ASSUME ~(i + Need(s[i]) - 1 <= m) PROVE FALSE
    OBVIOUS
  <2>1. PICK n \in 1 .. 4 : /\ n = Need(s[i]) /\ i + n - 1 <= m + l
                            /\ \A j \in i + 1 .. i + n - 1 : s[j] = "c"
    <3>1. i \in 1 .. Len(s)
      BY <1>2
    <3>2. /\ Need(s[i]) \in 1 .. 4 /\ i + Need(s[i]) \in i + 1 .. Len(s) + 1
          /\ \A j \in i + 1 .. i + Need(s[i]) - 1 : s[j] = "c"
      BY <1>3, <3>1, WholeIs
    <3>3. PICK n \in 1 .. 4 : n = Need(s[i])
      BY <3>2
    <3>4. i + n - 1 <= m + l
      BY <1>2, <3>2, <3>3
    <3>5. \A j \in i + 1 .. i + n - 1 : s[j] = "c"
      BY ONLY <3>2, <3>3, Zenon
    <3> QED
      BY <3>3, <3>4, <3>5
  <2>2. s[i] = d[i] /\ n > m - i + 1
    BY <1>2, <2>1, SMTT(30)
  <2>3. ASSUME NEW j \in i + 1 .. m PROVE d[j] = "c"
    <3>1. j \in i + 1 .. i + n - 1 /\ j \in 1 .. m
      BY <2>2
    <3> QED
      BY <1>2, <2>1, <3>1
  <2>4. OpenAt(d, i)
    BY <1>1, <2>1, <2>2, <2>3 DEF OpenAt
  <2>5. b # <<>> /\ b[1] # "c"
    BY <1>1, <2>4 DEF Sealed
  <2>6. 1 \in 1 .. l /\ m + 1 \in i + 1 .. i + n - 1
    BY <2>1, <2>2
  <2>7. e[1] = "c" /\ e # <<>>
    BY <1>1, <1>2, <2>1, <2>6
  <2> QED
    BY <2>5, <2>7
<1> QED
  BY <1>1, <1>2, <1>3 DEF Clean

LEMMA SealedEmit ==
  ASSUME NEW d \in Seq(Bytes), NEW t \in Seq(Bytes), Sealed(d, t)
  PROVE  Sealed(d \o Emitted(t), Held(t))
<1>1. CASE \E i \in 1 .. Len(t) : OpenAt(t, i) /\ Held(t) = SubSeq(t, i, Len(t))
  <2>1. PICK i \in 1 .. Len(t) : OpenAt(t, i) /\ Held(t) = SubSeq(t, i, Len(t))
    BY <1>1
  <2>2. PICK l \in Nat : l = Len(t)
    OBVIOUS
  <2>3. /\ Held(t) \in Seq(Bytes) /\ Len(Held(t)) = l - i + 1
        /\ \A k \in 1 .. l - i + 1 : Held(t)[k] = t[i + k - 1]
    BY <2>1, <2>2, PartIs
  <2>4. 1 \in 1 .. l - i + 1 /\ i + 1 - 1 = i /\ l - i + 1 # 0
    BY <2>2
  <2>5. Held(t)[1] = t[i] /\ Held(t) # <<>>
    BY <2>3, <2>4
  <2> QED
    BY <2>1, <2>5, OpenIs DEF Sealed
<1>2. CASE Emitted(t) = t /\ \A i \in 1 .. Len(t) : ~OpenAt(t, i)
  <2>1. PICK m, l \in Nat : m = Len(d) /\ l = Len(t)
    OBVIOUS
  <2>2. PICK s \in Seq(Bytes) :
           /\ s = d \o t /\ Len(s) = m + l
           /\ \A j \in 1 .. m : s[j] = d[j] /\ d[j] \in Bytes
           /\ \A j \in 1 .. l : s[m + j] = t[j]
    <3>1. d \o t \in Seq(Bytes) /\ Len(d \o t) = m + l
      BY <2>1, CutPlaces
    <3>2. /\ \A j \in 1 .. m : (d \o t)[j] = d[j] /\ d[j] \in Bytes
          /\ \A j \in 1 .. l : (d \o t)[m + j] = t[j]
      BY <2>1, CutPlaces
    <3> QED
      BY <3>1, <3>2
  <2>3. ASSUME NEW i \in 1 .. m + l, OpenAt(s, i) PROVE FALSE
    <3>1. Need(s[i]) > m + l - i + 1 /\ \A j \in i + 1 .. m + l : s[j] = "c"
      BY <2>2, <2>3 DEF OpenAt
    <3>2. CASE i > m
      <4>1. PICK k \in 1 .. l : i = m + k
        <5>1. i - m \in 1 .. l /\ i = m + (i - m)
          BY <3>2
        <5> QED
          BY <5>1
      <4>2. Need(t[k]) > l - k + 1
        <5>1. s[i] = t[k] /\ m + l - i + 1 = l - k + 1
          BY <2>2, <4>1
        <5> QED
          BY <3>1, <5>1
      <4>3. ASSUME NEW j \in k + 1 .. l PROVE t[j] = "c"
        <5>1. m + j \in i + 1 .. m + l /\ j \in 1 .. l
          BY <4>1
        <5> QED
          BY <2>2, <3>1, <5>1
      <4> QED
        BY <1>2, <2>1, <4>2, <4>3 DEF OpenAt
    <3>3. CASE i \in 1 .. m
      <4>1. PICK n \in 0 .. 4 : n = Need(d[i]) /\ s[i] = d[i]
        BY <2>2, <3>3, NeedIs
      <4>2. n > m - i + 1
        BY <3>1, <3>3, <4>1
      <4>3. ASSUME NEW j \in i + 1 .. m PROVE d[j] = "c"
        <5>1. j \in i + 1 .. m + l /\ j \in 1 .. m
          BY <3>3
        <5> QED
          BY <2>2, <3>1, <5>1
      <4>4. OpenAt(d, i)
        BY <2>1, <4>1, <4>2, <4>3 DEF OpenAt
      <4>5. t # <<>> /\ t[1] # "c"
        BY <2>1, <3>3, <4>4 DEF Sealed
      <4>6. 1 \in 1 .. l /\ m + 1 \in i + 1 .. m + l
        BY <2>1, <3>3, <4>5, EmptySeq
      <4> QED
        BY <2>2, <3>1, <4>5, <4>6
    <3> QED
      BY <3>2, <3>3
  <2> QED
    BY <1>2, <2>2, <2>3 DEF Sealed
<1> QED
  BY <1>1, <1>2, TailIs

-----------------------------------------------------------------------------
(* The streams.                                                            *)

\* One step on the text: what is sampled, spoken and left to say is the text
\* of the tokens.
Said(pieces, said, buf) ==
  \E d \in Seq(Bytes) : pieces = d \o buf /\ said = Sanitized(d) /\ Sealed(d, buf)

LEMMA SaidWhole ==
  ASSUME NEW p \in Seq(Bytes), NEW said, NEW buf \in Seq(Bytes), Said(p, said, buf)
  PROVE  said \in Seq(Glyph) /\ said \o Sanitized(buf) = Sanitized(p)
<1>1. PICK d \in Seq(Bytes) : p = d \o buf /\ said = Sanitized(d) /\ Sealed(d, buf)
  BY DEF Said
<1>2. Clean(d, buf)
  BY <1>1, SealedClean
<1> QED
  BY <1>1, <1>2, CutSanitized, SanitizedType

\* A piece comes into the buffer.
LEMMA SaidMore ==
  ASSUME NEW p \in Seq(Bytes), NEW said, NEW buf \in Seq(Bytes), Said(p, said, buf),
         NEW x \in Seq(Bytes)
  PROVE  buf \o x \in Seq(Bytes) /\ Said(p \o x, said, buf \o x)
<1>1. PICK d \in Seq(Bytes) : p = d \o buf /\ said = Sanitized(d) /\ Sealed(d, buf)
  BY DEF Said
<1>2. PICK t \in Seq(Bytes) : /\ t = buf \o x /\ Len(t) = Len(buf) + Len(x)
                              /\ \A j \in 1 .. Len(buf) : t[j] = buf[j]
  <2>1. buf \o x \in Seq(Bytes) /\ Len(buf \o x) = Len(buf) + Len(x)
    BY CutPlaces
  <2>2. \A j \in 1 .. Len(buf) : (buf \o x)[j] = buf[j]
    BY CutPlaces
  <2> QED
    BY <2>1, <2>2
<1>3. p \o x = d \o t
  BY <1>1, <1>2, ConcatAssociative, SMTT(30)
<1>4. ASSUME buf # <<>> PROVE t # <<>> /\ t[1] = buf[1]
  <2>1. Len(buf) \in Nat /\ Len(x) \in Nat /\ Len(buf) # 0
    BY <1>4, EmptySeq
  <2>2. 1 \in 1 .. Len(buf) /\ Len(t) # 0
    BY <1>2, <2>1
  <2> QED
    BY <1>2, <2>2
<1>5. Sealed(d, t)
  BY <1>1, <1>4 DEF Sealed
<1> QED
  BY <1>1, <1>2, <1>3, <1>5 DEF Said

\* What is complete is handed out.
LEMMA SaidEmitted ==
  ASSUME NEW p \in Seq(Bytes), NEW said, NEW t \in Seq(Bytes), Said(p, said, t)
  PROVE  Held(t) \in Seq(Bytes) /\ Said(p, said \o Sanitized(Emitted(t)), Held(t))
<1>1. PICK d \in Seq(Bytes) : p = d \o t /\ said = Sanitized(d) /\ Sealed(d, t)
  BY DEF Said
<1>2. PICK l \in Nat : l = Len(t)
  OBVIOUS
<1>3. PICK e, h \in Seq(Bytes) : /\ e = Emitted(t) /\ h = Held(t) /\ t = e \o h
                                 /\ e = <<>> \/ e[1] = t[1]
  <2>1. CASE Emitted(t) = t /\ Held(t) = <<>>
    <3>1. t \o <<>> = t /\ <<>> \in Seq(Bytes)
      OBVIOUS
    <3> QED
      BY <2>1, <3>1
  <2>2. CASE \E i \in 1 .. Len(t) : Emitted(t) = SubSeq(t, 1, i - 1) /\ Held(t) = SubSeq(t, i, Len(t))
    <3>1. PICK i \in 1 .. l : Emitted(t) = SubSeq(t, 1, i - 1) /\ Held(t) = SubSeq(t, i, l)
      BY <1>2, <2>2
    <3>2. PICK k \in 0 .. l : k = i - 1 /\ i = k + 1
      <4>1. i - 1 \in 0 .. l /\ i = i - 1 + 1
        OBVIOUS
      <4> QED
        BY <4>1
    <3>3. SubSeq(t, 1, k) \o SubSeq(t, k + 1, l) = SubSeq(t, 1, l)
      <4>1. PICK one \in 1 .. Len(t) + 1 : one = 1
        <5>1. 1 \in 1 .. Len(t) + 1
          OBVIOUS
        <5> QED
          BY <5>1
      <4>2. k \in one - 1 .. Len(t) /\ l \in k .. Len(t)
        BY <1>2, <4>1
      <4>3. SubSeq(t, one, k) \o SubSeq(t, k + 1, l) = SubSeq(t, one, l)
        BY <4>2, ConcatAdjacentSubSeq
      <4> QED
        BY <4>1, <4>3
    <3>4. SubSeq(t, 1, l) = t
      BY <1>2, SubSeqFull
    <3>5. SubSeq(t, 1, k) \in Seq(Bytes) /\ SubSeq(t, k + 1, l) \in Seq(Bytes)
      BY <1>2
    <3>6. SubSeq(t, 1, k) = <<>> \/ SubSeq(t, 1, k)[1] = t[1]
      BY <1>2
    <3> QED
      BY <3>1, <3>2, <3>3, <3>4, <3>5, <3>6
  <2> QED
    BY <2>1, <2>2, TailIs
<1>4. Clean(d, e)
  BY <1>1, <1>3, SealedClean
<1>5. d \o e \in Seq(Bytes) /\ said \o Sanitized(e) = Sanitized(d \o e)
  BY <1>1, <1>4, CutSanitized, CutPlaces
<1>6. p = (d \o e) \o h
  <2>1. (d \o e) \o h = d \o (e \o h)
    BY ConcatAssociative, SMTT(30)
  <2> QED
    BY ONLY <1>1, <1>3, <2>1, Zenon
<1>7. Sealed(d \o e, h)
  BY <1>1, <1>3, SealedEmit
<1> QED
  BY <1>3, <1>5, <1>6, <1>7 DEF Said

LEMMA SaidNothing == Said(<<>>, <<>>, <<>>)
<1>1. PICK z \in Seq(Bytes) : z = <<>> /\ Len(z) = 0 /\ z \o z = z
  <2>1. <<>> \in Seq(Bytes) /\ Len(<<>>) = 0 /\ <<>> \o <<>> = <<>>
    OBVIOUS
  <2> QED
    BY <2>1
<1>2. 1 .. Len(z) = {}
  BY <1>1
<1>3. Sealed(z, z)
  BY <1>2 DEF Sealed
<1> QED
  BY <1>1, <1>3, SanitizedType DEF Said

Fields == {"live", "accepted", "remaining", "done", "buf", "failed", "took", "said"}

\* What was handed out and what is held back are the text of the tokens; until
\* the generation ends, what was handed out is that of a beginning of them
\* in which no character is cut.
Stream(st) ==
  /\ DOMAIN st = Fields
  /\ st.took \in Seq(Seq(Bytes)) /\ st.buf \in Seq(Bytes) /\ st.said \in Seq(Glyph)
  /\ st.said \o Sanitized(st.buf) = Sanitized(Pieces(st.took))
  /\ ~st.failed => Completable(st.buf)
  /\ ~st.done => Said(Pieces(st.took), st.said, st.buf)

Streams == /\ use \in Uses /\ DOMAIN gens = Gens
           /\ \A g \in Gens : Free(g) \/ Stream(gens[g])

LEMMA StreamNew ==
  ASSUME NEW budget
  PROVE  Stream(NewGen(budget))
<1>1. PICK z : z = <<>> /\ z \in Seq(Seq(Bytes)) /\ z \in Seq(Bytes) /\ z \in Seq(Glyph)
  <2>1. <<>> \in Seq(Seq(Bytes)) /\ <<>> \in Seq(Bytes) /\ <<>> \in Seq(Glyph)
    OBVIOUS
  <2> QED
    BY <2>1
<1>2. PICK st : st = NewGen(budget)
  OBVIOUS
<1>3. DOMAIN st = Fields /\ st.buf = z /\ st.took = z /\ st.said = z
  BY <1>1, <1>2 DEF NewGen, Fields
<1>4. Pieces(z) = z
  BY <1>1, FlattenAppend DEF Pieces
<1>5. Said(z, z, z) /\ Completable(z)
  <2>1. Completable(<<>>)
    BY <1>1, HeldCompletable
  <2> QED
    BY <1>1, <2>1, SaidNothing
<1>6. z \o Sanitized(z) = Sanitized(z)
  <2>1. Sanitized(z) = z /\ z \o z = z
    BY <1>1, SanitizedType
  <2> QED
    BY <2>1
<1>7. Stream(st)
  BY <1>1, <1>3, <1>4, <1>5, <1>6 DEF Stream
<1> QED
  BY <1>2, <1>7

\* The state of one handle changes.
LEMMA OneChanges ==
  ASSUME Streams, NEW g \in Gens, NEW st, Stream(st),
         gens' = [gens EXCEPT ![g] = st], use' = use
  PROVE  Streams'
<1>1. gens'[g] = st /\ DOMAIN gens' = Gens /\ \A h \in Gens : h # g => gens'[h] = gens[h]
  BY DEF Streams
<1>2. ASSUME NEW h \in Gens PROVE gens'[h] = NoGen \/ Stream(gens'[h])
  BY <1>1 DEF Streams, Free
<1> QED
  BY <1>1, <1>2 DEF Streams, Free

LEMMA NoneChanges ==
  ASSUME Streams, gens' = gens, use' = use
  PROVE  Streams'
BY DEF Streams, Free

\* A token is sampled: its piece is the end of the text, and what is complete
\* may be handed out.
LEMMA StreamSampled ==
  ASSUME Streams, NEW g \in Gens, ~Free(g), ~gens[g].done, NEW x \in Seq(Bytes)
  PROVE  /\ Stream(Spoken(Sampled(g, x)))
         /\ Stream([Sampled(g, x) EXCEPT !.done = TRUE, !.failed = TRUE])
<1>1. PICK st : st = gens[g] /\ Stream(st)
  BY DEF Streams
<1>2. PICK toks, buf, said, p :
         /\ toks = st.took /\ buf = st.buf /\ said = st.said /\ p = Pieces(toks)
         /\ toks \in Seq(Seq(Bytes)) /\ buf \in Seq(Bytes) /\ said \in Seq(Glyph)
         /\ p \in Seq(Bytes) /\ Said(p, said, buf)
  <2>1. Pieces(st.took) \in Seq(Bytes)
    BY <1>1, FlattenAppend DEF Stream, Pieces
  <2> QED
    BY <1>1, <2>1 DEF Stream
<1>3. PICK m : m = Sampled(g, x)
  OBVIOUS
<1>4. /\ DOMAIN m = Fields /\ m.took = Append(toks, x) /\ m.buf = buf \o x
      /\ m.said = said /\ m.done = st.done /\ m.failed = st.failed
  BY <1>1, <1>2, <1>3 DEF Sampled, Stream, Fields
<1>5. PICK t, q \in Seq(Bytes) :
         t = buf \o x /\ q = p \o x /\ Pieces(m.took) = q /\ Said(q, said, t)
  <2>1. Pieces(Append(toks, x)) = p \o x
    BY <1>2, FlattenAppend DEF Pieces
  <2>2. buf \o x \in Seq(Bytes) /\ Said(p \o x, said, buf \o x)
    BY <1>2, SaidMore
  <2>3. p \o x \in Seq(Bytes)
    BY <1>2, CutPlaces
  <2> QED
    BY <1>4, <2>1, <2>2, <2>3
<1>6. m.took \in Seq(Seq(Bytes))
  BY <1>2, <1>4
<1>7. Stream(Spoken(m))
  <2>1. PICK o : o = Spoken(m)
    OBVIOUS
  <2>2. PICK h, w : h = Held(t) /\ w = said \o Sanitized(Emitted(t))
    OBVIOUS
  <2>3. /\ DOMAIN o = Fields /\ o.took = m.took /\ o.buf = h /\ o.said = w
        /\ o.done = m.done /\ o.failed = m.failed
    BY <1>4, <1>5, <2>1, <2>2 DEF Spoken, Fields
  <2>4. h \in Seq(Bytes) /\ Said(q, w, h) /\ Completable(h)
    BY <1>5, <2>2, SaidEmitted, HeldCompletable
  <2>5. w \in Seq(Glyph) /\ w \o Sanitized(h) = Sanitized(q)
    BY <2>4, SaidWhole
  <2>6. Stream(o)
    BY <1>5, <1>6, <2>3, <2>4, <2>5 DEF Stream
  <2> QED
    BY <2>1, <2>6
<1>8. Stream([m EXCEPT !.done = TRUE, !.failed = TRUE])
  <2>1. PICK o : o = [m EXCEPT !.done = TRUE, !.failed = TRUE]
    OBVIOUS
  <2>2. /\ DOMAIN o = Fields /\ o.took = m.took /\ o.buf = t /\ o.said = said
        /\ o.done /\ o.failed
    BY <1>4, <1>5, <2>1 DEF Fields
  <2>3. said \o Sanitized(t) = Sanitized(q)
    BY <1>5, SaidWhole
  <2>4. Stream(o)
    BY <1>2, <1>5, <1>6, <2>2, <2>3 DEF Stream
  <2> QED
    BY <2>1, <2>4
<1> QED
  BY <1>3, <1>7, <1>8

\* A generation ends, with or without what it held back.
LEMMA StreamEnds ==
  ASSUME NEW st, Stream(st)
  PROVE  /\ Stream([st EXCEPT !.done = TRUE])
         /\ \A a : Stream([st EXCEPT !.accepted = a, !.done = TRUE])
         /\ Stream([st EXCEPT !.done = TRUE, !.said = @ \o Sanitized(st.buf), !.buf = <<>>])
<1>1. ASSUME NEW o, DOMAIN o = Fields, o.took = st.took, o.buf = st.buf, o.said = st.said,
             o.done, o.failed = st.failed
      PROVE  Stream(o)
  BY <1>1 DEF Stream
<1>2. Stream([st EXCEPT !.done = TRUE])
  <2>1. PICK o : o = [st EXCEPT !.done = TRUE]
    OBVIOUS
  <2>2. /\ DOMAIN o = Fields /\ o.took = st.took /\ o.buf = st.buf /\ o.said = st.said
        /\ o.done /\ o.failed = st.failed
    BY <2>1 DEF Fields, Stream
  <2> QED
    BY <1>1, <2>1, <2>2
<1>3. ASSUME NEW a PROVE Stream([st EXCEPT !.accepted = a, !.done = TRUE])
  <2>1. PICK o : o = [st EXCEPT !.accepted = a, !.done = TRUE]
    OBVIOUS
  <2>2. /\ DOMAIN o = Fields /\ o.took = st.took /\ o.buf = st.buf /\ o.said = st.said
        /\ o.done /\ o.failed = st.failed
    BY <2>1 DEF Fields, Stream
  <2> QED
    BY <1>1, <2>1, <2>2
<1>4. Stream([st EXCEPT !.done = TRUE, !.said = @ \o Sanitized(st.buf), !.buf = <<>>])
  <2>1. PICK o : o = [st EXCEPT !.done = TRUE, !.said = @ \o Sanitized(st.buf), !.buf = <<>>]
    OBVIOUS
  <2>2. PICK z, w : z = <<>> /\ z \in Seq(Bytes) /\ w = st.said \o Sanitized(st.buf)
    <3>1. <<>> \in Seq(Bytes)
      OBVIOUS
    <3> QED
      BY <3>1
  <2>3. /\ DOMAIN o = Fields /\ o.took = st.took /\ o.buf = z /\ o.said = w
        /\ o.done /\ o.failed = st.failed
    BY <2>1, <2>2 DEF Fields, Stream
  <2>4. w \in Seq(Glyph) /\ w = Sanitized(Pieces(st.took))
    <3>1. Sanitized(st.buf) \in Seq(Glyph) /\ st.said \in Seq(Glyph)
      BY SanitizedType DEF Stream
    <3>2. st.said \o Sanitized(st.buf) \in Seq(Glyph)
      BY <3>1
    <3> QED
      BY <2>2, <3>2 DEF Stream
  <2>5. w \o Sanitized(z) = w
    <3>1. Sanitized(z) = z
      BY <2>2, SanitizedType
    <3>2. w \o z = w
      BY <2>2, <2>4
    <3> QED
      BY <3>1, <3>2
  <2>6. Completable(z)
    BY <2>2, HeldCompletable
  <2>7. Stream(o)
    BY <2>2, <2>3, <2>4, <2>5, <2>6 DEF Stream
  <2> QED
    BY <2>1, <2>7
<1> QED
  BY <1>2, <1>3, <1>4

-----------------------------------------------------------------------------
LEMMA InitStreams == Init => Streams
BY DEF Init, Streams, Free

LEMMA NextStreams == Streams /\ [Next]_vars => Streams'
<1> SUFFICES ASSUME Streams, [Next]_vars PROVE Streams'
  OBVIOUS
<1>1. Handles \subseteq Gens /\ \A g \in Handles : use.vocab[g] \subseteq Seq(Bytes)
  BY UsesAssumption DEF Streams, Handles
<1>2. ASSUME NEW g \in Gens, ~Free(g) PROVE Stream(gens[g])
  BY <1>2 DEF Streams
<1>3. ASSUME NEW g \in Handles, NextEnded(g) PROVE Streams'
  <2>1. ~Free(g) /\ use' = use /\ gens' = [gens EXCEPT ![g] = [gens[g] EXCEPT !.done = TRUE]]
    BY <1>3 DEF NextEnded
  <2>2. Stream([gens[g] EXCEPT !.done = TRUE])
    BY <1>1, <1>2, <2>1, StreamEnds
  <2> QED
    BY <1>1, <2>1, <2>2, OneChanges
<1>4. ASSUME NEW g \in Handles, NextAborts(g) PROVE Streams'
  BY <1>4, NoneChanges DEF NextAborts
<1>5. ASSUME NEW g \in Handles, NextEog(g) PROVE Streams'
  <2>1. PICK a : a = Append(gens[g].accepted, Eog)
    OBVIOUS
  <2>2. /\ ~Free(g) /\ use' = use
        /\ gens' = [gens EXCEPT ![g] = [gens[g] EXCEPT !.accepted = a, !.done = TRUE]]
    BY <1>5, <2>1 DEF NextEog, Samples
  <2>3. Stream([gens[g] EXCEPT !.accepted = a, !.done = TRUE])
    BY <1>1, <1>2, <2>2, StreamEnds
  <2> QED
    BY <1>1, <2>2, <2>3, OneChanges
<1>6. ASSUME NEW g \in Handles, NEW t \in use.vocab[g], NextToken(g, t) \/ NextFails(g, t)
      PROVE  Streams'
  <2>1. ~Free(g) /\ ~gens[g].done /\ use' = use
    BY <1>6 DEF NextToken, NextFails, Samples
  <2>2. g \in Gens /\ t \in Seq(Bytes)
    BY <1>1
  <2>3. /\ Stream(Spoken(Sampled(g, t)))
        /\ Stream([Sampled(g, t) EXCEPT !.done = TRUE, !.failed = TRUE])
    BY <2>1, <2>2, StreamSampled
  <2>4. \/ gens' = [gens EXCEPT ![g] = Spoken(Sampled(g, t))]
        \/ gens' = [gens EXCEPT ![g] = [Sampled(g, t) EXCEPT !.done = TRUE, !.failed = TRUE]]
    BY <1>6 DEF NextToken, NextFails
  <2> QED
    BY <2>1, <2>2, <2>3, <2>4, OneChanges
<1>7. ASSUME NEW g \in Handles, End(g) PROVE Streams'
  <2>1. PICK st : st = [gens[g] EXCEPT !.done = TRUE, !.said = @ \o Sanitized(gens[g].buf),
                                      !.buf = <<>>]
    OBVIOUS
  <2>2. ~Free(g) /\ use' = use /\ gens' = [gens EXCEPT ![g] = st]
    BY <1>7, <2>1 DEF End
  <2>3. Stream(st)
    BY <1>1, <1>2, <2>1, <2>2, StreamEnds
  <2> QED
    BY <1>1, <2>2, <2>3, OneChanges
<1>8. ASSUME NEW g \in Handles, NEW n, BeginAt(g, n) PROVE Streams'
  BY <1>1, <1>8, StreamNew, OneChanges DEF BeginAt
<1>9. ASSUME NEW g \in Handles, NEW n, NEW p, Begin(g, p, n) PROVE Streams'
  <2>1. use' = use /\ (gens' = gens \/ gens' = [gens EXCEPT ![g] = NewGen(n)])
    BY <1>9 DEF Begin
  <2> QED
    BY <1>1, <2>1, StreamNew, OneChanges, NoneChanges
<1>10. ASSUME Clear \/ \E p \in use.prompts : Load(p) \/ Generate(p) PROVE Streams'
  BY <1>10, NoneChanges DEF Clear, Load, Generate
<1>11. ASSUME \/ \E ps \in use.lists, n \in use.limits : BatchBegin(ps, n)
              \/ BatchStep
       PROVE  Streams'
  BY <1>11, NoneChanges DEF BatchBegin, BatchStep
<1>12. CASE UNCHANGED vars
  BY <1>12, NoneChanges DEF vars
<1> QED
  BY <1>3, <1>4, <1>5, <1>6, <1>7, <1>8, <1>9, <1>10, <1>11, <1>12 DEF Next

\* Whatever the calls, every stream has said and holds back the text of its
\* tokens.
THEOREM StreamsInvariance == Spec => []Streams
BY InitStreams, NextStreams, PTL DEF Spec

\* The chunks of a stream are the text of its tokens, and no byte waits for
\* what cannot come: utf8_incomplete_tail() and utf8_sanitize() together lose,
\* double and replace nothing because of where the bytes were cut.
THEOREM TextWholeCorrect == Spec => []TextWhole
<1>1. Streams => TextWhole
  BY DEF Streams, Stream, TextWhole
<1> QED
  BY <1>1, StreamsInvariance, PTL

-----------------------------------------------------------------------------
(* Numbers and sequences.                                                  *)

\* What a sequence flattens to.
LEMMA FlattenType ==
  ASSUME NEW V, NEW s \in Seq(Seq(V))
  PROVE  FlattenSeq(s) \in Seq(V)
<1>1. PICK g : Flattens(Len(s), V, s, g) /\ FlattenSeq(s) = g[Len(s)]
  BY FlattenSteps
<1> QED
  BY <1>1 DEF Flattens

\* Nothing flattens to nothing.
LEMMA FlattenNothing ==
  ASSUME NEW n \in Nat, NEW s, s = [i \in 1 .. n |-> <<>>]
  PROVE  FlattenSeq(s) = <<>>
<1>1. s \in Seq(Seq({})) /\ Len(s) = n
  <2>1. <<>> \in Seq({})
    OBVIOUS
  <2> QED
    BY <2>1
<1>2. PICK g : Flattens(n, {}, s, g) /\ FlattenSeq(s) = g[n]
  BY <1>1, FlattenSteps
<1>3. g[n] \in Seq({})
  BY <1>2 DEF Flattens
<1> QED
  BY <1>2, <1>3

\* Sequences of one element flatten to the elements.
LEMMA FlattenOnes ==
  ASSUME NEW V, NEW p \in Seq(V), NEW s, s = [i \in 1 .. Len(p) |-> <<p[i]>>]
  PROVE  FlattenSeq(s) = p
<1>1. PICK n \in Nat : n = Len(p) /\ Len(s) = n /\ s \in Seq(Seq(V))
  OBVIOUS
<1>2. PICK g : Flattens(n, V, s, g) /\ FlattenSeq(s) = g[n]
  BY <1>1, FlattenSteps
<1> DEFINE S == {k \in 0 .. n : g[k] = SubSeq(p, 1, k)}
<1>3. 0 \in S
  <2>1. SubSeq(p, 1, 0) = <<>>
    BY SubSeqEmpty
  <2> QED
    BY <1>2, <2>1 DEF Flattens
<1>4. ASSUME NEW k \in 0 .. n - 1, k \in S PROVE k + 1 \in S
  <2>1. g[k + 1] = g[k] \o s[k + 1]
    BY <1>2 DEF Flattens
  <2>2. g[k] = SubSeq(p, 1, k)
    BY <1>4
  <2>3. s[k + 1] = <<p[k + 1]>>
    BY <1>1
  <2>4. SubSeq(p, 1, k + 1) = SubSeq(p, 1, k) \o <<p[k + 1]>>
    BY <1>1
  <2>5. g[k + 1] = SubSeq(p, 1, k + 1)
    BY ONLY <2>1, <2>2, <2>3, <2>4
  <2>6. k + 1 \in 0 .. n
    OBVIOUS
  <2> QED
    BY ONLY <2>5, <2>6
<1> HIDE DEF S
<1>5. 0 .. n \subseteq S
  BY <1>3, <1>4, UpTo
<1>6. n \in S /\ SubSeq(p, 1, n) = p
  BY <1>1, <1>5, SubSeqFull
<1> QED
  BY <1>2, <1>6 DEF S

\* The first elements of a sequence, and what stands for them beyond its end.
LEMMA FirstIs ==
  ASSUME NEW V, NEW x \in Seq(V), NEW n \in Nat
  PROVE  SubSeq(x, 1, n) = [i \in 1 .. n |-> x[i]]
OBVIOUS

-----------------------------------------------------------------------------
(* Batches and what a decode takes of them.                                *)

\* A batch, of whatever tokens.
IsBatch(b) == \E E : b \in Seq(E)

\* What the assumptions on the constants say of the sequences and the rows.
LEMMA SeqsAre ==
  /\ 0 \in Seqs /\ Seqs \subseteq Nat /\ IsFiniteSet(Seqs)
  /\ Cardinality(Seqs) \in Nat \ {0} /\ Rows = 1 .. Cardinality(Seqs)
  /\ NUbatch \in Nat \ {0} /\ NBatch \in Nat \ {0} /\ Cardinality(Seqs) <= NUbatch
<1>1. IsFiniteSet(Seqs) /\ Seqs = 0 .. Cardinality(Seqs) - 1 /\ Seqs # {}
  BY SeqsAssumption
<1>2. Cardinality(Seqs) \in Nat
  BY <1>1, FS_CardinalityType
<1>3. PICK n \in Nat : n = Cardinality(Seqs) /\ Seqs = 0 .. n - 1
  BY <1>1, <1>2
<1>4. n # 0
  <2>1. 0 .. 0 - 1 = {}
    OBVIOUS
  <2> QED
    BY <1>1, <1>3, <2>1
<1>5. 0 \in Seqs /\ Seqs \subseteq Nat
  <2>1. 0 \in 0 .. n - 1 /\ 0 .. n - 1 \subseteq Nat
    BY <1>4
  <2> QED
    BY ONLY <1>3, <2>1
<1> QED
  BY <1>1, <1>3, <1>4, <1>5, SizesAssumption DEF Rows

\* A batch has a number of tokens for every sequence.
LEMMA CountType ==
  ASSUME NEW b, IsBatch(b)
  PROVE  Count(b) \in [Seqs -> Nat]
<1>1. PICK n \in Nat : n = Len(b)
  BY DEF IsBatch
<1>2. ASSUME NEW s \in Seqs PROVE Cardinality({i \in 1 .. Len(b) : b[i].seq = s}) \in Nat
  <2>1. IsFiniteSet(1 .. n)
    BY CountUpTo
  <2>2. {i \in 1 .. n : b[i].seq = s} \in SUBSET (1 .. n)
    OBVIOUS
  <2>3. IsFiniteSet({i \in 1 .. n : b[i].seq = s})
    BY <2>1, <2>2, FS_Subset
  <2> QED
    BY <1>1, <2>3, FS_CardinalityType
<1> QED
  BY <1>2 DEF Count

\* What a ubatch takes: the same number of tokens of some of the sequences that
\* are not finished.
Takes(left, rest) ==
  \/ rest = left /\ \A s \in Seqs : left[s] = 0
  \/ \E n \in Nat \ {0}, run \in SUBSET Seqs :
       /\ run # {} /\ \A s \in run : n <= left[s]
       /\ rest = [s \in Seqs |-> left[s] - (IF s \in run THEN n ELSE 0)]

\* The code takes as many tokens of some sequences as the shortest of them has, or as
\* fit in a ubatch: at least one.
LEMMA AfterUbatchIs ==
  ASSUME NEW left \in [Seqs -> Nat]
  PROVE  Takes(left, AfterUbatch(left))
<1> DEFINE live == {s \in Seqs : left[s] > 0}
           run  == {s \in live : \A t \in Min(live) .. s : t \in live}
           A    == {left[s] : s \in run} \cup {NUbatch \div Cardinality(run)}
           n    == Min(A)
<1>1. AfterUbatch(left) = IF live = {} THEN left
                          ELSE [s \in Seqs |-> left[s] - (IF s \in run THEN n ELSE 0)]
  BY DEF AfterUbatch
<1>2. CASE live = {}
  BY <1>1, <1>2 DEF Takes
<1>3. CASE live # {}
  <2>1. Min(live) \in live
    <3>1. live \in SUBSET Nat
      BY SeqsAre
    <3> QED
      BY <1>3, <3>1, LeastIs
  <2>2. Min(live) \in run
    <3>1. PICK m \in live : m = Min(live)
      BY <2>1
    <3>2. m .. m = {m}
      BY <3>1, SeqsAre
    <3> QED
      BY <3>1, <3>2
  <2>3. run \in SUBSET Seqs /\ run # {} /\ \A s \in run : left[s] \in Nat \ {0}
    BY <2>2
  <2> HIDE DEF run
  <2>4. NUbatch \div Cardinality(run) \in Nat \ {0}
    <3>1. IsFiniteSet(run) /\ Cardinality(run) <= Cardinality(Seqs)
      BY <2>3, SeqsAre, FS_Subset
    <3>2. Cardinality(run) \in Nat /\ Cardinality(run) # 0
      BY <2>3, <3>1, FS_CardinalityType, FS_EmptySet
    <3>3. PICK c \in Nat \ {0} : c = Cardinality(run) /\ c <= NUbatch
      BY <3>1, <3>2, SeqsAre
    <3>4. NUbatch \div c \in Nat \ {0}
      BY <3>3, SeqsAre
    <3> QED
      BY <3>3, <3>4
  <2>5. n \in A /\ \A y \in A : n <= y
    <3>1. A \in SUBSET Nat /\ A # {}
      BY <2>3, <2>4
    <3> HIDE DEF A
    <3> QED
      BY <3>1, LeastIs
  <2>6. n \in Nat \ {0} /\ \A s \in run : n <= left[s]
    <3>1. \A s \in run : left[s] \in A
      OBVIOUS
    <3>2. A \subseteq Nat \ {0}
      BY <2>3, <2>4
    <3> HIDE DEF A
    <3> QED
      BY <2>5, <3>1, <3>2
  <2> HIDE DEF n, live
  <2> QED
    BY <1>1, <1>3, <2>3, <2>6 DEF Takes
<1> QED
  BY <1>2, <1>3

\* A ubatch never takes more than is left.
LEMMA AfterUbatchType ==
  ASSUME NEW left \in [Seqs -> Nat]
  PROVE  /\ AfterUbatch(left) \in [Seqs -> Nat]
         /\ \A s \in Seqs : AfterUbatch(left)[s] <= left[s]
BY AfterUbatchIs DEF Takes

\* The tokens left after each ubatch.
Lefts(b, g) ==
  /\ g \in [0 .. Len(b) -> [Seqs -> Nat]] /\ g[0] = Count(b)
  /\ \A k \in 0 .. Len(b) - 1 : g[k + 1] = AfterUbatch(g[k])

\* The recursion of Left, step by step: at the end nothing is left.
LEMMA LeftIs ==
  ASSUME NEW b, IsBatch(b)
  PROVE  Lefts(b, Left(b))
<1>1. PICK n \in Nat : n = Len(b)
  BY DEF IsBatch
<1> DEFINE Step(e) == [k \in 0 .. n |-> IF k = 0 THEN Count(b) ELSE AfterUbatch(e[k - 1])]
           left == CHOOSE e : e = Step(e)
           N == [Seqs -> Nat]
           H == [i \in 0 .. n - 1 |-> [x \in N |-> AfterUbatch(x)]]
<1>2. Left(b) = left
  BY <1>1 DEF Left
<1>3. \E g : Steps(n, N, Count(b), H, g)
  <2>1. H \in [0 .. n - 1 -> [N -> N]]
    BY AfterUbatchType
  <2>2. Count(b) \in N
    BY CountType
  <2> HIDE DEF N, H
  <2> QED
    BY <2>1, <2>2, StepsExist
<1>4. \E e : e = Step(e)
  <2>1. PICK g : Steps(n, N, Count(b), H, g)
    BY <1>3
  <2>2. g \in [0 .. n -> N] /\ g[0] = Count(b) /\ \A i \in 0 .. n - 1 : g[i + 1] = H[i][g[i]]
    BY <2>1 DEF Steps
  <2>3. ASSUME NEW k \in 0 .. n, k # 0 PROVE g[k] = AfterUbatch(g[k - 1])
    <3>1. PICK i \in 0 .. n - 1 : k = i + 1 /\ i = k - 1
      <4>1. k - 1 \in 0 .. n - 1 /\ k = (k - 1) + 1
        BY <2>3
      <4> QED
        BY <4>1
    <3>2. g[i] \in N
      <4>1. i \in 0 .. n
        OBVIOUS
      <4> QED
        BY ONLY <2>2, <4>1
    <3>3. g[i + 1] = H[i][g[i]]
      BY ONLY <2>2
    <3>4. H[i][g[i]] = AfterUbatch(g[i])
      BY <3>2
    <3> QED
      BY <3>1, <3>4, <3>3
  <2>4. g = Step(g)
    BY <2>2, <2>3
  <2> HIDE DEF Step
  <2> QED
    BY <2>4
<1>5. left = Step(left)
  <2> HIDE DEF Step
  <2> QED
    BY <1>4
<1>6. PICK f : f = Left(b) /\ f = Step(f)
  <2> HIDE DEF Step
  <2> QED
    BY <1>2, <1>5
<1>7. DOMAIN f = 0 .. n /\ f[0] = Count(b) /\ f = [k \in 0 .. n |-> f[k]]
  BY <1>6
<1>8. ASSUME NEW k \in 0 .. n - 1 PROVE f[k + 1] = AfterUbatch(f[k])
  <2>1. k + 1 \in 0 .. n /\ k + 1 # 0 /\ k + 1 - 1 = k
    OBVIOUS
  <2>2. \A e : Step(e)[k + 1] = AfterUbatch(e[k + 1 - 1])
    BY <2>1
  <2> HIDE DEF Step
  <2> QED
    BY <1>6, <2>1, <2>2
<1>9. ASSUME NEW k \in 0 .. n PROVE f[k] \in N
  <2> DEFINE S == {i \in 0 .. n : f[i] \in N}
  <2>1. 0 \in S
    BY <1>7, CountType
  <2>2. ASSUME NEW i \in 0 .. n - 1, i \in S PROVE i + 1 \in S
    <3>1. f[i] \in N
      BY <2>2
    <3>2. AfterUbatch(f[i]) \in N
      BY <3>1, AfterUbatchType
    <3>3. f[i + 1] \in N /\ i + 1 \in 0 .. n
      BY <1>8, <3>2
    <3> QED
      BY <3>3
  <2> HIDE DEF S
  <2>3. 0 .. n \subseteq S
    BY <2>1, <2>2, UpTo
  <2> QED
    BY <2>3 DEF S
<1> QED
  BY <1>1, <1>6, <1>7, <1>8, <1>9 DEF Lefts

-----------------------------------------------------------------------------
(* The context.                                                            *)

\* The fields of the context, and its memory: sequences of whatever tokens.
CtxFields == {"mem", "rows", "nOut", "ids"}
MemOK(mem) == \E V : mem \in [Seqs -> Seq(V)]
CtxOK(c)   == DOMAIN c = CtxFields /\ MemOK(c.mem)

\* The tokens stored are tokens of the batch.
LEMMA TokensType ==
  ASSUME NEW b, IsBatch(b)
  PROVE  \E V : \A s, k : Tokens(b, s, k) \in Seq(V)
<1>1. PICK n \in Nat : n = Len(b)
  BY DEF IsBatch
<1>2. PICK V : V = {b[i].tok : i \in 1 .. n}
  OBVIOUS
<1>3. ASSUME NEW s, NEW k PROVE Tokens(b, s, k) \in Seq(V)
  <2>1. PICK f : f = [i \in 1 .. n |-> IF b[i].seq = s /\ Place(b, i) <= Count(b)[s] - Left(b)[k][s]
                                       THEN <<b[i].tok>> ELSE <<>>]
    OBVIOUS
  <2>2. f \in Seq(Seq(V))
    <3>1. \A i \in 1 .. n : <<b[i].tok>> \in Seq(V) /\ <<>> \in Seq(V)
      BY <1>2
    <3> QED
      BY <2>1, <3>1
  <2>3. Tokens(b, s, k) = FlattenSeq(f)
    BY <1>1, <2>1 DEF Tokens
  <2> QED
    BY <2>2, <2>3, FlattenType
<1> QED
  BY <1>3

\* A memory with the tokens of a batch is a memory.
LEMMA StoredOK ==
  ASSUME NEW mem, MemOK(mem), NEW b, IsBatch(b), NEW k
  PROVE  MemOK(Stored(mem, b, k))
<1>1. PICK V : mem \in [Seqs -> Seq(V)]
  BY DEF MemOK
<1>2. PICK W : \A s, j : Tokens(b, s, j) \in Seq(W)
  BY TokensType
<1>3. PICK U : U = V \cup W
  OBVIOUS
<1>4. ASSUME NEW s \in Seqs PROVE mem[s] \o Tokens(b, s, k) \in Seq(U)
  <2>1. PICK x, y : x = mem[s] /\ y = Tokens(b, s, k) /\ x \in Seq(V) /\ y \in Seq(W)
    BY <1>1, <1>2
  <2>2. x \in Seq(U) /\ y \in Seq(U)
    BY <1>3, <2>1
  <2> QED
    BY <2>1, <2>2
<1>5. Stored(mem, b, k) \in [Seqs -> Seq(U)]
  BY <1>4 DEF Stored
<1> QED
  BY <1>5 DEF MemOK

\* Its sequences have a length.
LEMMA StoredLen ==
  ASSUME NEW mem, MemOK(mem), NEW b, IsBatch(b), NEW k, NEW s \in Seqs
  PROVE  Len(Stored(mem, b, k)[s]) \in Nat
<1>1. PICK V : Stored(mem, b, k) \in [Seqs -> Seq(V)]
  BY StoredOK DEF MemOK
<1>2. Stored(mem, b, k)[s] \in Seq(V)
  BY <1>1
<1> QED
  BY <1>2

\* So is one from which the tokens of a failed ubatch were removed.
LEMMA CleanedUpOK ==
  ASSUME NEW mem, MemOK(mem), NEW c, MemOK(c.mem), NEW b, IsBatch(b), NEW k
  PROVE  MemOK(CleanedUp(mem, c, b, k))
<1>1. PICK V : mem \in [Seqs -> Seq(V)]
  BY DEF MemOK
<1>2. PICK len : len = [s \in Seqs |-> Len(Stored(c.mem, b, k - 1)[s])]
  OBVIOUS
<1>3. len \in [Seqs -> Nat]
  BY <1>2, StoredLen
<1>4. PICK W : W = UNION {{mem[s][i] : i \in 1 .. len[s]} : s \in Seqs}
  OBVIOUS
<1>5. ASSUME NEW s \in Seqs PROVE SubSeq(mem[s], 1, len[s]) \in Seq(W)
  <2>1. PICK x, n : x = mem[s] /\ n = len[s] /\ x \in Seq(V) /\ n \in Nat
    BY <1>1, <1>3
  <2>2. SubSeq(x, 1, n) = [i \in 1 .. n |-> x[i]]
    BY <2>1, FirstIs
  <2>3. \A i \in 1 .. n : x[i] \in W
    BY <1>4, <2>1
  <2>4. [i \in 1 .. n |-> x[i]] \in Seq(W)
    BY <2>1, <2>3
  <2> QED
    BY <2>1, <2>2, <2>4
<1>6. CleanedUp(mem, c, b, k) = [s \in Seqs |-> SubSeq(mem[s], 1, len[s])]
  BY <1>2 DEF CleanedUp
<1>7. CleanedUp(mem, c, b, k) \in [Seqs -> Seq(W)]
  BY <1>5, <1>6
<1> QED
  BY <1>7 DEF MemOK

\* A decode leaves a context, whether it succeeds or fails.
LEMMA DecodedOK ==
  ASSUME NEW c, CtxOK(c), NEW b, IsBatch(b)
  PROVE  CtxOK(Decoded(c, b)) /\ \A k : CtxOK(Broken(c, b, k))
<1>1. MemOK(Stored(c.mem, b, NUbatches(b)))
  BY StoredOK DEF CtxOK
<1>2. CtxOK(Decoded(c, b))
  BY <1>1 DEF CtxOK, Decoded, CtxFields
<1>3. ASSUME NEW k PROVE CtxOK(Broken(c, b, k))
  <2>1. MemOK(CleanedUp(Stored(c.mem, b, k), c, b, k))
    BY StoredOK, CleanedUpOK DEF CtxOK
  <2> QED
    BY <2>1 DEF CtxOK, Broken, CtxFields
<1> QED
  BY <1>2, <1>3

\* Removing sequences leaves the number of rows and the other sequences.
LEMMA WithoutOK ==
  ASSUME NEW c, CtxOK(c), NEW S
  PROVE  /\ CtxOK(Without(c, S)) /\ Without(c, S).nOut = c.nOut
         /\ \A s \in Seqs : Without(c, S).mem[s] = (IF s \in S THEN <<>> ELSE c.mem[s])
<1>1. PICK V : c.mem \in [Seqs -> Seq(V)]
  BY DEF CtxOK, MemOK
<1>2. PICK mem : mem = [s \in Seqs |-> IF s \in S THEN <<>> ELSE c.mem[s]]
  OBVIOUS
<1>3. mem \in [Seqs -> Seq(V)]
  <2>1. <<>> \in Seq(V)
    OBVIOUS
  <2> QED
    BY <1>1, <1>2, <2>1
<1>4. PICK rows : rows = Aged(c, mem)
  OBVIOUS
<1>5. Without(c, S) = [c EXCEPT !.mem = mem, !.rows = rows]
  BY <1>2, <1>4 DEF Without
<1>6. PICK d : d = Without(c, S)
  OBVIOUS
<1>7. DOMAIN d = CtxFields /\ d.mem = mem /\ d.nOut = c.nOut
  BY <1>5, <1>6 DEF CtxOK, CtxFields
<1> QED
  BY <1>2, <1>3, <1>6, <1>7 DEF CtxOK, MemOK

-----------------------------------------------------------------------------
(* All tokens of a batch.                                                  *)

\* The entries of sequence s, and its tokens in the order of the batch.
Entries(b, s)  == {i \in 1 .. Len(b) : b[i].seq = s}
TokensOf(b, s) == FlattenSeq([i \in 1 .. Len(b) |-> IF b[i].seq = s THEN <<b[i].tok>> ELSE <<>>])

\* The places of the entries of a sequence number them from 1.
LEMMA PlacesAre ==
  ASSUME NEW b, IsBatch(b), NEW s
  PROVE  /\ Cardinality(Entries(b, s)) \in Nat
         /\ \A i \in Entries(b, s) : Place(b, i) \in 1 .. Cardinality(Entries(b, s))
         /\ \A k \in 1 .. Cardinality(Entries(b, s)) : \E i \in Entries(b, s) : Place(b, i) = k
         /\ \A i \in Entries(b, s) : (\A j \in Entries(b, s) : j <= i)
                                       => Place(b, i) = Cardinality(Entries(b, s))
<1>1. PICK n \in Nat : n = Len(b)
  BY DEF IsBatch
<1>2. PICK F : F = Entries(b, s) /\ F \in SUBSET (1 .. n) /\ F = {i \in 1 .. n : b[i].seq = s}
  BY <1>1 DEF Entries
<1>3. IsFiniteSet(F) /\ F \in SUBSET Nat
  <2>1. IsFiniteSet(1 .. n)
    BY CountUpTo
  <2> QED
    BY <1>2, <2>1, FS_Subset
<1>4. ASSUME NEW i \in F PROVE Place(b, i) = Rank(F, i)
  <2>1. {j \in 1 .. i : b[j].seq = b[i].seq} = {j \in F : j <= i}
    BY <1>2
  <2> QED
    BY <2>1 DEF Place, Rank
<1>5. ASSUME NEW i \in F, \A j \in F : j <= i PROVE Place(b, i) = Cardinality(F)
  <2>1. {j \in F : j <= i} = F
    BY <1>5
  <2> QED
    BY <1>4, <2>1 DEF Rank
<1>6. /\ Cardinality(F) \in Nat
      /\ \A i \in F : Rank(F, i) \in 1 .. Cardinality(F)
      /\ \A k \in 1 .. Cardinality(F) : \E i \in F : Rank(F, i) = k
  BY <1>3, RanksAre
<1>7. /\ \A i \in F : Place(b, i) \in 1 .. Cardinality(F)
      /\ \A k \in 1 .. Cardinality(F) : \E i \in F : Place(b, i) = k
  BY <1>4, <1>6
<1>8. F = Entries(b, s)
  BY <1>2
<1> QED
  BY ONLY <1>5, <1>6, <1>7, <1>8

\* After each ubatch that found tokens left, one more entry at least is taken, so that as
\* many ubatches as there are entries take all.
LEMMA AllTaken ==
  ASSUME NEW b, IsBatch(b)
  PROVE  /\ NUbatches(b) \in 0 .. Len(b)
         /\ \A k \in {Len(b), NUbatches(b)} : \A s \in Seqs : Left(b)[k][s] = 0
<1>1. PICK n \in Nat : n = Len(b)
  BY DEF IsBatch
<1>2. PICK l : l = Left(b) /\ l \in [0 .. n -> [Seqs -> Nat]] /\ l[0] = Count(b)
               /\ \A k \in 0 .. n - 1 : l[k + 1] = AfterUbatch(l[k])
  BY <1>1, LeftIs DEF Lefts
<1>3. PICK c \in [Seqs -> Nat] : c = Count(b) /\ \A s \in Seqs : c[s] = Cardinality(Entries(b, s))
  <2>1. Count(b) \in [Seqs -> Nat]
    BY CountType
  <2>2. \A s \in Seqs : Count(b)[s] = Cardinality(Entries(b, s))
    BY DEF Count, Entries
  <2> QED
    BY <2>1, <2>2
<1> DEFINE done(f) == {i \in 1 .. n : b[i].seq \in Seqs /\ Place(b, i) <= c[b[i].seq] - f[b[i].seq]}
           none(f) == \A s \in Seqs : f[s] = 0
<1>4. ASSUME NEW f PROVE IsFiniteSet(done(f)) /\ Cardinality(done(f)) \in 0 .. n
  <2>1. IsFiniteSet(1 .. n) /\ Cardinality(1 .. n) = n /\ done(f) \in SUBSET (1 .. n)
    BY CountUpTo
  <2> HIDE DEF done
  <2>2. IsFiniteSet(done(f)) /\ Cardinality(done(f)) <= n
    BY <2>1, FS_Subset
  <2> QED
    BY <2>2, FS_CardinalityType
<1>5. ASSUME NEW f \in [Seqs -> Nat], \A s \in Seqs : f[s] <= c[s], NEW g, g = AfterUbatch(f)
      PROVE  /\ g \in [Seqs -> Nat] /\ \A s \in Seqs : g[s] <= c[s]
             /\ none(f) => none(g)
             /\ ~ none(f) => Cardinality(done(f)) < Cardinality(done(g))
  <2>1. g \in [Seqs -> Nat] /\ \A s \in Seqs : g[s] <= f[s]
    BY <1>5, AfterUbatchType
  <2>2. \A s \in Seqs : g[s] <= c[s]
    BY <1>5, <2>1
  <2>3. none(f) => none(g)
    BY <2>1
  <2>4. ASSUME ~ none(f) PROVE Cardinality(done(f)) < Cardinality(done(g))
    <3>1. PICK m \in Nat \ {0}, run \in SUBSET Seqs :
            /\ run # {} /\ \A s \in run : m <= f[s]
            /\ g = [s \in Seqs |-> f[s] - (IF s \in run THEN m ELSE 0)]
      BY <1>5, <2>4, AfterUbatchIs DEF Takes
    <3>2. PICK s \in Seqs : f[s] \in Nat \ {0} /\ g[s] < f[s]
      BY <3>1
    <3>3. c[s] - f[s] + 1 \in 1 .. Cardinality(Entries(b, s))
      BY <1>3, <1>5, <3>2
    <3>4. PICK i \in Entries(b, s) : Place(b, i) = c[s] - f[s] + 1
      BY <3>3, PlacesAre
    <3>5. i \in 1 .. n /\ b[i].seq = s
      BY <1>1, <3>4 DEF Entries
    <3>6. i \notin done(f) /\ i \in done(g)
      <4>1. /\ c[s] \in Nat /\ f[s] \in Nat /\ g[s] \in Nat
        BY <1>3, <1>5, <2>1
      <4> QED
        BY <3>2, <3>4, <3>5, <4>1
    <3>7. ASSUME NEW j \in done(f) PROVE j \in done(g)
      <4>1. PICK t \in Seqs : t = b[j].seq /\ j \in 1 .. n /\ Place(b, j) <= c[t] - f[t]
        OBVIOUS
      <4>2. Place(b, j) \in Nat
        <5>1. j \in Entries(b, t)
          BY <1>1, <4>1 DEF Entries
        <5> QED
          BY <5>1, PlacesAre
      <4>3. /\ c[t] \in Nat /\ f[t] \in Nat /\ g[t] \in Nat /\ g[t] <= f[t]
        BY <1>3, <1>5, <2>1
      <4>4. Place(b, j) <= c[t] - g[t]
        BY <4>1, <4>2, <4>3
      <4> QED
        BY <4>1, <4>4
    <3> HIDE DEF done
    <3>8. done(f) \in SUBSET done(g) /\ done(f) # done(g)
      BY <3>6, <3>7
    <3>9. Cardinality(done(f)) <= Cardinality(done(g)) /\ Cardinality(done(f)) # Cardinality(done(g))
      BY <1>4, <3>8, FS_Subset
    <3> QED
      BY <1>4, <3>9
  <2> QED
    BY <2>1, <2>2, <2>3, <2>4
<1> HIDE DEF done
<1> DEFINE S == {k \in 0 .. n : /\ \A s \in Seqs : l[k][s] <= c[s]
                                /\ none(l[k]) \/ k <= Cardinality(done(l[k]))}
<1>6. 0 \in S
  <2>1. l[0] = c
    BY <1>2, <1>3
  <2>2. 0 <= Cardinality(done(l[0]))
    BY <1>4
  <2> QED
    BY <1>3, <2>1, <2>2
<1>7. ASSUME NEW k \in 0 .. n - 1, k \in S PROVE k + 1 \in S
  <2>1. k \in 0 .. n /\ k + 1 \in 0 .. n
    OBVIOUS
  <2>2. PICK f, g : f = l[k] /\ g = l[k + 1] /\ f \in [Seqs -> Nat] /\ g = AfterUbatch(f)
    BY <1>2, <2>1
  <2>3. /\ \A s \in Seqs : f[s] <= c[s]
        /\ none(f) \/ k <= Cardinality(done(f))
    BY <1>7, <2>2
  <2>4. /\ \A s \in Seqs : g[s] <= c[s]
        /\ none(f) => none(g)
        /\ ~ none(f) => Cardinality(done(f)) < Cardinality(done(g))
    BY <1>5, <2>2, <2>3
  <2>5. Cardinality(done(f)) \in Nat /\ Cardinality(done(g)) \in Nat
    BY <1>4
  <2> HIDE DEF none
  <2>6. none(g) \/ k + 1 <= Cardinality(done(g))
    BY <2>3, <2>4, <2>5
  <2> QED
    BY <2>1, <2>2, <2>4, <2>6
<1> HIDE DEF S
<1>8. n \in S
  <2>1. 0 .. n \subseteq S
    BY <1>6, <1>7, UpTo
  <2> QED
    BY <2>1
<1>9. none(l[n])
  <2> SUFFICES ASSUME NEW s \in Seqs, l[n][s] # 0 PROVE FALSE
    OBVIOUS
  <2>1. n <= Cardinality(done(l[n])) /\ \A t \in Seqs : l[n][t] <= c[t]
    BY <1>8 DEF S
  <2>2. l[n][s] \in Nat \ {0} /\ c[s] \in Nat /\ l[n][s] <= c[s]
    <3>1. l[n] \in [Seqs -> Nat]
      BY <1>2
    <3> QED
      BY <1>3, <2>1, <3>1
  <2>3. c[s] \in 1 .. Cardinality(Entries(b, s))
    BY <1>3, <2>2
  <2>4. PICK i \in Entries(b, s) : Place(b, i) = c[s]
    BY <2>3, PlacesAre
  <2>5. i \in 1 .. n /\ b[i].seq = s
    BY <1>1 DEF Entries
  <2>6. i \notin done(l[n])
    BY <2>2, <2>4, <2>5 DEF done
  <2>7. done(l[n]) \in SUBSET (1 .. n) /\ done(l[n]) # 1 .. n
    BY <2>5, <2>6 DEF done
  <2>8. IsFiniteSet(1 .. n) /\ Cardinality(1 .. n) = n
    BY CountUpTo
  <2>9. Cardinality(done(l[n])) <= n /\ Cardinality(done(l[n])) # n
    <3>1. PICK D, T : D = done(l[n]) /\ T = 1 .. n
      OBVIOUS
    <3>2. D \in SUBSET T /\ D # T /\ IsFiniteSet(T) /\ Cardinality(T) = n
      BY <2>7, <2>8, <3>1
    <3>3. Cardinality(D) <= n /\ Cardinality(D) # n
      BY ONLY <3>2, FS_Subset
    <3> QED
      BY <3>1, <3>3
  <2>10. Cardinality(done(l[n])) \in Nat
    BY <1>4
  <2> QED
    BY <2>1, <2>9, <2>10
<1> DEFINE K == {k \in 0 .. n : none(l[k])}
<1>10. NUbatches(b) = Min(K)
  BY <1>1, <1>2 DEF NUbatches
<1>11. K \in SUBSET Nat /\ n \in K
  BY <1>9
<1>12. \A k \in K : k \in 0 .. n /\ none(l[k])
  OBVIOUS
<1> HIDE DEF K, none
<1>13. NUbatches(b) \in 0 .. n /\ none(l[NUbatches(b)])
  BY <1>10, <1>11, <1>12, LeastIs
<1> QED
  BY <1>1, <1>2, <1>9, <1>13 DEF none

\* So the tokens stored of a sequence are all it has in the batch.
LEMMA AllTokens ==
  ASSUME NEW b, IsBatch(b), NEW s \in Seqs
  PROVE  Tokens(b, s, NUbatches(b)) = TokensOf(b, s)
<1>1. PICK n \in Nat : n = Len(b)
  BY DEF IsBatch
<1>2. PICK m \in Nat : m = Count(b)[s] /\ m = Cardinality(Entries(b, s))
  <2>1. Count(b)[s] \in Nat
    BY CountType
  <2>2. Count(b)[s] = Cardinality(Entries(b, s))
    BY DEF Count, Entries
  <2> QED
    BY <2>1, <2>2
<1>3. Count(b)[s] - Left(b)[NUbatches(b)][s] = m
  <2>1. Left(b)[NUbatches(b)][s] = 0
    BY AllTaken
  <2> QED
    BY <1>2, <2>1
<1>4. ASSUME NEW i \in 1 .. n, b[i].seq = s PROVE Place(b, i) <= m
  <2>1. i \in Entries(b, s)
    BY <1>1, <1>4 DEF Entries
  <2> QED
    BY <1>2, <2>1, PlacesAre
<1>5. [i \in 1 .. n |-> IF b[i].seq = s /\ Place(b, i) <= m THEN <<b[i].tok>> ELSE <<>>]
        = [i \in 1 .. n |-> IF b[i].seq = s THEN <<b[i].tok>> ELSE <<>>]
  BY <1>4
<1> QED
  BY <1>1, <1>3, <1>5 DEF Tokens, TokensOf

\* They are as many as its entries.
LEMMA TokensCount ==
  ASSUME NEW b, IsBatch(b), NEW s \in Seqs
  PROVE  \E V : TokensOf(b, s) \in Seq(V) /\ Len(TokensOf(b, s)) = Count(b)[s]
<1>1. PICK n \in Nat : n = Len(b)
  BY DEF IsBatch
<1>2. PICK V : V = {b[i].tok : i \in 1 .. n}
  OBVIOUS
<1>3. PICK f : f = [i \in 1 .. n |-> IF b[i].seq = s THEN <<b[i].tok>> ELSE <<>>]
  OBVIOUS
<1>4. f \in Seq(Seq(V)) /\ Len(f) = n
  <2>1. \A i \in 1 .. n : <<b[i].tok>> \in Seq(V) /\ <<>> \in Seq(V)
    BY <1>2
  <2> QED
    BY <1>3, <2>1
<1>5. PICK g : Flattens(n, V, f, g) /\ FlattenSeq(f) = g[n]
  BY <1>4, FlattenSteps
<1>6. /\ g \in [0 .. n -> Seq(V)] /\ g[0] = <<>>
      /\ \A i \in 0 .. n - 1 : g[i + 1] = g[i] \o f[i + 1]
  BY <1>5 DEF Flattens
<1> DEFINE upto(k) == {i \in 1 .. k : b[i].seq = s}
           S == {k \in 0 .. n : Len(g[k]) = Cardinality(upto(k))}
<1>7. 0 \in S
  <2>1. upto(0) = {}
    OBVIOUS
  <2>2. Len(g[0]) = 0
    BY <1>6
  <2> QED
    BY <2>1, <2>2, FS_EmptySet
<1>8. ASSUME NEW k \in 0 .. n - 1, k \in S PROVE k + 1 \in S
  <2>1. k + 1 \in 0 .. n /\ k + 1 \in 1 .. n /\ k \in 0 .. n
    OBVIOUS
  <2>2. PICK a \in Seq(V) : a = g[k] /\ g[k + 1] = a \o f[k + 1]
    BY <1>6, <2>1
  <2>3. IsFiniteSet(upto(k)) /\ Cardinality(upto(k)) \in Nat
    <3>1. IsFiniteSet(1 .. k) /\ upto(k) \in SUBSET (1 .. k)
      BY CountUpTo
    <3> HIDE DEF upto
    <3> QED
      BY <3>1, FS_Subset, FS_CardinalityType
  <2>4. Len(a) = Cardinality(upto(k))
    BY <1>8, <2>2
  <2>5. CASE b[k + 1].seq = s
    <3>1. PICK x : x = b[k + 1].tok /\ f[k + 1] = <<x>> /\ x \in V
      BY <1>2, <1>3, <2>1, <2>5
    <3>2. Len(a \o <<x>>) = Len(a) + 1
      BY <3>1
    <3>3. upto(k + 1) = upto(k) \cup {k + 1} /\ k + 1 \notin upto(k)
      BY <2>5
    <3> HIDE DEF upto
    <3>4. Cardinality(upto(k + 1)) = Cardinality(upto(k)) + 1
      BY <2>3, <3>3, FS_AddElement
    <3> QED
      BY <2>1, <2>2, <2>4, <3>1, <3>2, <3>4
  <2>6. CASE b[k + 1].seq # s
    <3>1. f[k + 1] = <<>>
      BY <1>3, <2>1, <2>6
    <3>2. a \o <<>> = a
      OBVIOUS
    <3>3. upto(k + 1) = upto(k)
      BY <2>6
    <3> HIDE DEF upto
    <3> QED
      BY <2>1, <2>2, <2>4, <3>1, <3>2, <3>3
  <2> QED
    BY <2>5, <2>6
<1>9. n \in S
  <2> HIDE DEF S
  <2>1. 0 .. n \subseteq S
    BY <1>7, <1>8, UpTo
  <2> QED
    BY <2>1
<1>10. TokensOf(b, s) = g[n] /\ g[n] \in Seq(V)
  BY <1>1, <1>3, <1>5, <1>6 DEF TokensOf
<1>11. Count(b)[s] = Cardinality(upto(n))
  BY <1>1 DEF Count
<1> QED
  BY <1>9, <1>10, <1>11

\* The tokens of a sequence in two batches, one after the other.
LEMMA TokensConcat ==
  ASSUME NEW E, NEW a \in Seq(E), NEW b \in Seq(E), NEW s
  PROVE  TokensOf(a \o b, s) = TokensOf(a, s) \o TokensOf(b, s)
<1>1. PICK m \in Nat, n \in Nat : m = Len(a) /\ n = Len(b)
  OBVIOUS
<1>2. PICK V : V = {e.tok : e \in E}
  OBVIOUS
<1> DEFINE of(d) == [i \in 1 .. Len(d) |-> IF d[i].seq = s THEN <<d[i].tok>> ELSE <<>>]
<1>3. ASSUME NEW d \in Seq(E) PROVE of(d) \in Seq(Seq(V)) /\ Len(of(d)) = Len(d)
  <2>1. \A i \in 1 .. Len(d) : <<d[i].tok>> \in Seq(V) /\ <<>> \in Seq(V)
    BY <1>2
  <2> QED
    BY <2>1
<1>4. PICK d \in Seq(E) : /\ d = a \o b /\ Len(d) = m + n
                          /\ \A i \in 1 .. m : d[i] = a[i]
                          /\ \A i \in 1 .. n : d[m + i] = b[i]
  <2>1. PICK d : d = a \o b /\ d \in Seq(E)
    BY ConcatBegins
  <2>2. /\ Len(d) = Len(a) + Len(b) /\ Begins(a, d)
        /\ \A i \in 1 .. Len(b) : d[Len(a) + i] = b[i]
    BY <2>1, ConcatBegins
  <2> QED
    BY <1>1, <2>1, <2>2 DEF Begins
<1>5. PICK x, y, z \in Seq(Seq(V)) : x = of(a) /\ y = of(b) /\ z = of(d)
  BY <1>3
<1>6. Len(x) = m /\ Len(y) = n /\ Len(z) = m + n
  BY <1>1, <1>3, <1>4, <1>5
<1>7. /\ \A i \in 1 .. m : x[i] = IF a[i].seq = s THEN <<a[i].tok>> ELSE <<>>
      /\ \A i \in 1 .. n : y[i] = IF b[i].seq = s THEN <<b[i].tok>> ELSE <<>>
      /\ \A i \in 1 .. m + n : z[i] = IF d[i].seq = s THEN <<d[i].tok>> ELSE <<>>
  BY <1>1, <1>4, <1>5
<1> HIDE DEF of
<1>8. ASSUME NEW i \in 1 .. m PROVE z[i] = x[i]
  <2>1. i \in 1 .. m + n /\ i \in 1 .. m
    OBVIOUS
  <2>2. d[i] = a[i]
    BY <1>4
  <2> QED
    BY <1>7, <2>1, <2>2
<1>9. ASSUME NEW i \in 1 .. n PROVE z[m + i] = y[i]
  <2>1. m + i \in 1 .. m + n
    OBVIOUS
  <2>2. d[m + i] = b[i]
    BY <1>4
  <2> QED
    BY <1>7, <2>1, <2>2
<1>10. z = x \o y
  <2>1. PICK w : w = x \o y /\ w \in Seq(Seq(V))
    <3>1. PICK W : W = Seq(V) /\ x \in Seq(W) /\ y \in Seq(W)
      BY <1>5
    <3>2. x \o y \in Seq(W)
      BY <3>1
    <3> QED
      BY <3>1, <3>2
  <2>2. /\ Len(w) = m + n /\ \A i \in 1 .. m : w[i] = x[i]
        /\ \A i \in 1 .. n : w[m + i] = y[i]
    <3>1. /\ Len(w) = Len(x) + Len(y) /\ Begins(x, w)
          /\ \A i \in 1 .. Len(y) : w[Len(x) + i] = y[i]
      <4>1. PICK W : W = Seq(V)
        OBVIOUS
      <4>2. x \in Seq(W) /\ y \in Seq(W) /\ w = x \o y
        BY <1>5, <2>1, <4>1
      <4>3. Len(x \o y) = Len(x) + Len(y) /\ Begins(x, x \o y)
        BY ONLY <4>2, ConcatBegins
      <4>4. \A i \in 1 .. Len(y) : (x \o y)[Len(x) + i] = y[i]
        BY ONLY <4>2, ConcatBegins
      <4> QED
        BY ONLY <4>2, <4>3, <4>4
    <3> QED
      BY <1>6, <3>1 DEF Begins
  <2>3. ASSUME NEW i \in 1 .. m + n PROVE z[i] = w[i]
    <3>1. CASE i \in 1 .. m
      BY <1>8, <2>2, <3>1
    <3>2. CASE i \notin 1 .. m
      <4>1. PICK k \in 1 .. n : i = m + k
        <5>1. i - m \in 1 .. n /\ i = m + (i - m)
          BY <3>2
        <5> QED
          BY <5>1
      <4> QED
        BY <1>9, <2>2, <4>1
    <3> QED
      BY <3>1, <3>2
  <2> QED
    <3>1. PICK W : z \in Seq(W) /\ w \in Seq(W)
      BY <1>5, <2>1
    <3>2. Len(z) = Len(w) /\ \A i \in 1 .. Len(z) : z[i] = w[i]
      BY <1>6, <2>2, <2>3
    <3> QED
      BY <2>1, <3>1, <3>2, SeqEqual
<1>11. FlattenSeq(z) = FlattenSeq(x) \o FlattenSeq(y)
  BY <1>10, FlattenConcat
<1> QED
  BY <1>4, <1>5, <1>11 DEF TokensOf, of

\* A sequence of x alone, and of nothing.
LEMMA OneSeq ==
  ASSUME NEW x
  PROVE  <<x>> \in Seq({x}) /\ <<>> \in Seq({x})
OBVIOUS

\* One token among nothing.
LEMMA FlattenOne ==
  ASSUME NEW n \in Nat, NEW r \in 1 .. n, NEW x, NEW s,
         s = [i \in 1 .. n |-> IF i = r THEN <<x>> ELSE <<>>]
  PROVE  FlattenSeq(s) = <<x>>
<1>1. s \in Seq(Seq({x})) /\ Len(s) = n
  <2>1. PICK W, y, z : W = Seq({x}) /\ y = <<x>> /\ z = <<>> /\ y \in W /\ z \in W
    BY OneSeq
  <2>2. s = [i \in 1 .. n |-> IF i = r THEN y ELSE z]
    BY <2>1
  <2>3. y \in W /\ z \in W
    BY <2>1
  <2>4. s \in [1 .. n -> W]
    BY ONLY <2>2, <2>3
  <2>5. s \in Seq(W) /\ Len(s) = n
    BY ONLY <2>4, n \in Nat
  <2> QED
    BY <2>1, <2>5
<1>2. PICK g : Flattens(n, {x}, s, g) /\ FlattenSeq(s) = g[n]
  BY <1>1, FlattenSteps
<1>3. /\ g \in [0 .. n -> Seq({x})] /\ g[0] = <<>>
      /\ \A i \in 0 .. n - 1 : g[i + 1] = g[i] \o s[i + 1]
  BY <1>2 DEF Flattens
<1> DEFINE S == {k \in 0 .. n : g[k] = IF k < r THEN <<>> ELSE <<x>>}
<1>4. 0 \in S
  BY <1>3
<1>5. ASSUME NEW k \in 0 .. n - 1, k \in S PROVE k + 1 \in S
  <2>1. k + 1 \in 0 .. n /\ k + 1 \in 1 .. n
    OBVIOUS
  <2>2. g[k + 1] = g[k] \o s[k + 1] /\ g[k] = IF k < r THEN <<>> ELSE <<x>>
    BY <1>3, <1>5
  <2>3. s[k + 1] = IF k + 1 = r THEN <<x>> ELSE <<>>
    BY <2>1
  <2>4. <<>> \o <<x>> = <<x>> /\ <<>> \o <<>> = <<>> /\ <<x>> \o <<>> = <<x>>
    OBVIOUS
  <2>5. CASE k + 1 < r
    <3>1. k < r /\ k + 1 # r
      BY <2>5
    <3> QED
      BY <2>1, <2>2, <2>3, <2>4, <2>5, <3>1
  <2>6. CASE k + 1 = r
    <3>1. k < r /\ ~ (k + 1 < r)
      BY <2>6
    <3> QED
      BY <2>1, <2>2, <2>3, <2>4, <2>6, <3>1
  <2>7. CASE k + 1 > r
    <3>1. ~ (k < r) /\ k + 1 # r /\ ~ (k + 1 < r)
      BY <2>7
    <3> QED
      BY <2>1, <2>2, <2>3, <2>4, <2>7, <3>1
  <2> QED
    BY <2>5, <2>6, <2>7
<1> HIDE DEF S
<1>6. n \in S
  <2>1. 0 .. n \subseteq S
    BY <1>4, <1>5, UpTo
  <2> QED
    BY <2>1
<1>7. g[n] = <<x>>
  BY <1>6 DEF S
<1> QED
  BY <1>2, <1>7

-----------------------------------------------------------------------------
(* Decoding tokens of sequence 0 alone.                                    *)

\* b is the batch of the tokens p, with output for the last one.
OneOf(b, p, n) ==
  /\ n \in Nat \ {0} /\ n = Len(p) /\ n = Len(b) /\ IsBatch(b)
  /\ \A i \in 1 .. n : b[i].seq = 0 /\ b[i].tok = p[i] /\ (b[i].out <=> i = n)

\* llama_batch_get_one() makes such a batch.
LEMMA GetOneIs ==
  ASSUME NEW V, NEW p \in Seq(V), p # <<>>
  PROVE  OneOf(GetOne(p), p, Len(p))
<1>1. PICK n \in Nat \ {0} : n = Len(p)
  BY EmptySeq
<1>2. PICK b : b = GetOne(p)
  OBVIOUS
<1>3. b = [i \in 1 .. n |-> Entry(0, p[i], i = n)]
  BY <1>1, <1>2 DEF GetOne
<1>4. PICK E : E = {Entry(0, p[i], i = n) : i \in 1 .. n}
  OBVIOUS
<1>5. b \in Seq(E) /\ Len(b) = n
  BY <1>3, <1>4
<1>6. \A i \in 1 .. n : b[i].seq = 0 /\ b[i].tok = p[i] /\ (b[i].out <=> i = n)
  BY <1>3 DEF Entry
<1> QED
  BY <1>1, <1>2, <1>5, <1>6 DEF OneOf, IsBatch

\* Its tokens are in order, all of sequence 0, and the last has the output.
LEMMA OneCounts ==
  ASSUME NEW b, NEW p, NEW n, OneOf(b, p, n)
  PROVE  /\ \A i \in 1 .. n : Place(b, i) = i
         /\ Count(b) = [s \in Seqs |-> IF s = 0 THEN n ELSE 0]
         /\ Outputs(b) = {n} /\ Cardinality(Outputs(b)) = 1
<1>1. ASSUME NEW i \in 1 .. n PROVE Place(b, i) = i
  <2>1. {j \in 1 .. i : b[j].seq = b[i].seq} = 1 .. i
    BY DEF OneOf
  <2>2. Cardinality(1 .. i) = i
    BY CountUpTo DEF OneOf
  <2> QED
    BY <2>1, <2>2 DEF Place
<1>2. ASSUME NEW s \in Seqs
      PROVE  Cardinality({i \in 1 .. Len(b) : b[i].seq = s}) = IF s = 0 THEN n ELSE 0
  <2>1. CASE s = 0
    <3>1. {i \in 1 .. Len(b) : b[i].seq = s} = 1 .. n
      BY <2>1 DEF OneOf
    <3>2. Cardinality(1 .. n) = n
      <4>1. n \in Nat \ {0}
        BY DEF OneOf
      <4> QED
        BY <4>1, CountUpTo
    <3> QED
      BY <2>1, <3>1, <3>2
  <2>2. CASE s # 0
    <3>1. {i \in 1 .. Len(b) : b[i].seq = s} = {}
      BY <2>2 DEF OneOf
    <3> QED
      BY <2>2, <3>1, FS_EmptySet
  <2> QED
    BY <2>1, <2>2
<1>3. Outputs(b) = {n}
  BY DEF Outputs, OneOf
<1>4. Cardinality(Outputs(b)) = 1
  BY <1>3, FS_Singleton
<1> QED
  BY <1>1, <1>2, <1>3, <1>4 DEF Count

\* At the end none of them is left.
LEMMA OneTaken ==
  ASSUME NEW b, NEW p, NEW n, OneOf(b, p, n)
  PROVE  /\ NUbatches(b) \in 1 .. n
         /\ Left(b)[0] = Count(b)
         /\ \A k \in {n, NUbatches(b)} : \A s \in Seqs : Left(b)[k][s] = 0
<1>1. n \in Nat \ {0} /\ n = Len(b) /\ IsBatch(b)
  BY DEF OneOf
<1>2. Left(b)[0] = Count(b)
  BY <1>1, LeftIs DEF Lefts
<1>3. /\ NUbatches(b) \in 0 .. n
      /\ \A k \in {n, NUbatches(b)} : \A s \in Seqs : Left(b)[k][s] = 0
  BY <1>1, AllTaken
<1>4. Left(b)[0][0] = n
  BY <1>2, OneCounts, SeqsAre
<1>5. NUbatches(b) # 0
  BY <1>1, <1>3, <1>4, SeqsAre
<1> QED
  BY <1>1, <1>2, <1>3, <1>5

\* What is stored in the end, and before the first ubatch.
Stores(b, p, n) ==
  /\ \A k \in {n, NUbatches(b)} : \A s \in Seqs : Tokens(b, s, k) = IF s = 0 THEN p ELSE <<>>
  /\ \A s \in Seqs : Tokens(b, s, 0) = <<>>

\* All its tokens are stored in the end, and none in the beginning.
LEMMA OneStored ==
  ASSUME NEW V, NEW p \in Seq(V), NEW b, NEW n, OneOf(b, p, n)
  PROVE  Stores(b, p, n)
<1> SUFFICES ASSUME NEW k, NEW s \in Seqs
             PROVE  /\ k \in {n, NUbatches(b)} => Tokens(b, s, k) = IF s = 0 THEN p ELSE <<>>
                    /\ Tokens(b, s, 0) = <<>>
  BY DEF Stores
<1>1. PICK f : f = [i \in 1 .. n |-> IF b[i].seq = s /\ Place(b, i) <= Count(b)[s] - Left(b)[k][s]
                                     THEN <<b[i].tok>> ELSE <<>>]
  OBVIOUS
<1>2. Tokens(b, s, k) = FlattenSeq(f)
  BY <1>1 DEF Tokens, OneOf
<1>3. ASSUME k \in {n, NUbatches(b)} PROVE Tokens(b, s, k) = IF s = 0 THEN p ELSE <<>>
  <2>1. Left(b)[k][s] = 0 /\ Count(b)[s] = IF s = 0 THEN n ELSE 0
    BY <1>3, OneTaken, OneCounts
  <2>2. CASE s = 0
    <3>1. \A i \in 1 .. n : b[i].seq = s /\ b[i].tok = p[i] /\ Place(b, i) = i
      <4>1. \A i \in 1 .. n : Place(b, i) = i
        BY OneCounts
      <4> QED
        BY <2>2, <4>1 DEF OneOf
    <3>2. n \in Nat /\ Count(b)[s] - Left(b)[k][s] = n
      BY <2>1, <2>2 DEF OneOf
    <3>3. f = [i \in 1 .. n |-> <<p[i]>>]
      BY <1>1, <3>1, <3>2
    <3>4. FlattenSeq(f) = p
      BY <3>3, FlattenOnes DEF OneOf
    <3> QED
      BY <1>2, <2>2, <3>4
  <2>3. CASE s # 0
    <3>1. f = [i \in 1 .. n |-> <<>>]
      BY <1>1, <2>3 DEF OneOf
    <3>2. FlattenSeq(f) = <<>>
      BY <3>1, FlattenNothing DEF OneOf
    <3> QED
      BY <1>2, <2>3, <3>2
  <2> QED
    BY <2>2, <2>3
<1>4. Tokens(b, s, 0) = <<>>
  <2>1. Count(b)[s] - Left(b)[0][s] = 0
    <3>1. Left(b)[0][s] = Count(b)[s] /\ Count(b)[s] \in Nat
      <4>1. Left(b)[0] = Count(b)
        BY OneTaken
      <4>2. Count(b) = [q \in Seqs |-> IF q = 0 THEN n ELSE 0]
        BY OneCounts
      <4> QED
        BY <4>1, <4>2 DEF OneOf
    <3> QED
      BY <3>1
  <2>2. \A i \in 1 .. n : ~(Place(b, i) <= 0)
    <3>1. \A i \in 1 .. n : Place(b, i) = i
      BY OneCounts
    <3>2. n \in Nat
      BY DEF OneOf
    <3> QED
      BY <3>1, <3>2
  <2>3. PICK h : h = [i \in 1 .. n |-> IF b[i].seq = s /\ Place(b, i) <= Count(b)[s] - Left(b)[0][s]
                                       THEN <<b[i].tok>> ELSE <<>>]
    OBVIOUS
  <2>4. Tokens(b, s, 0) = FlattenSeq(h)
    BY <2>3 DEF Tokens, OneOf
  <2>5. h = [i \in 1 .. n |-> <<>>]
    BY <2>1, <2>2, <2>3
  <2>6. FlattenSeq(h) = <<>>
    BY <2>5, FlattenNothing DEF OneOf
  <2> QED
    BY <2>4, <2>6
<1> QED
  BY <1>3, <1>4

\* The last row of c follows the memory of sequence 0.
Follows(c) == HasRow(c, -1) /\ c.rows[Row(c, -1)] = 0

\* One row is the last row.
LEMMA OneFollows ==
  ASSUME NEW c, c.nOut = 1
  PROVE  Row(c, -1) = 1 /\ HasRow(c, -1) /\ (Follows(c) <=> c.rows[1] = 0)
<1>1. Row(c, -1) = 1
  BY DEF Row
<1> QED
  BY <1>1 DEF HasRow, Follows

\* The tokens go into the memory of sequence 0, and the row left follows them.
Continues(c, d, p) ==
  /\ CtxOK(d) /\ d.mem[0] = c.mem[0] \o p
  /\ d.nOut = 1 /\ d.rows[1] = 0

\* That is what a decode of tokens of sequence 0 does.
LEMMA DecodedOne ==
  ASSUME NEW c, CtxOK(c), NEW V, NEW p \in Seq(V), NEW b, NEW n, OneOf(b, p, n)
  PROVE  Continues(c, Decoded(c, b), p)
<1>1. PICK mem : mem = Stored(c.mem, b, NUbatches(b))
  OBVIOUS
<1>2. PICK row : row = InOrder(Outputs(b))
  OBVIOUS
<1>3. PICK d : d = Decoded(c, b)
  OBVIOUS
<1>4. d.mem = mem /\ d.nOut = Cardinality(Outputs(b)) /\ d.rows = Written(c, b, row, mem)
  BY <1>1, <1>2, <1>3 DEF Decoded
<1>5. n \in Nat \ {0} /\ n = Len(p) /\ b[n].seq = 0
  BY DEF OneOf
<1>6. mem[0] = c.mem[0] \o p
  <2>1. Tokens(b, 0, NUbatches(b)) = p
    BY OneStored, SeqsAre DEF Stores
  <2> QED
    BY <1>1, <2>1, SeqsAre DEF Stored
<1>7. Len(mem[0]) = Len(c.mem[0]) + Place(b, n)
  <2>1. Place(b, n) = n
    BY <1>5, OneCounts
  <2>2. PICK W : c.mem \in [Seqs -> Seq(W)]
    BY DEF CtxOK, MemOK
  <2>3. c.mem[0] \in Seq(W)
    BY <2>2, SeqsAre
  <2>4. PICK x : x = c.mem[0] /\ x \in Seq(V \cup W) /\ p \in Seq(V \cup W)
    BY <2>3
  <2>5. Len(x \o p) = Len(x) + Len(p)
    BY <2>4
  <2> QED
    BY <1>5, <1>6, <2>1, <2>4, <2>5
<1>8. DOMAIN row = {n} /\ row[n] = 1
  <2>1. Outputs(b) = {n}
    BY OneCounts
  <2>2. {j \in {n} : j <= n} = {n}
    BY <1>5
  <2>3. Cardinality({n}) = 1
    BY FS_Singleton
  <2>4. row = [i \in {n} |-> Cardinality({j \in {n} : j <= i})]
    BY <1>2, <2>1 DEF InOrder
  <2> QED
    BY <2>2, <2>3, <2>4
<1>9. Written(c, b, row, mem)[1] = 0
  <2>1. 1 \in Rows
    BY SeqsAre
  <2>2. (CHOOSE i \in DOMAIN row : row[i] = 1) = n
    BY <1>8
  <2>3. ~ \A i \in DOMAIN row : row[i] # 1
    BY <1>8
  <2>4. Written(c, b, row, mem)[1] =
          LET e == CHOOSE i \in DOMAIN row : row[i] = 1
              s == b[e].seq
          IN IF Len(mem[s]) = Len(c.mem[s]) + Place(b, e) THEN s ELSE Stale
    BY <2>1, <2>3 DEF Written
  <2> QED
    BY <1>5, <1>7, <2>2, <2>4
<1>10. Cardinality(Outputs(b)) = 1
  BY OneCounts
<1>11. CtxOK(d)
  BY <1>3, DecodedOK DEF OneOf
<1> QED
  BY <1>3, <1>4, <1>6, <1>9, <1>10, <1>11 DEF Continues

\* One token whose decode fails leaves the memory, and the row, as they are.
LEMMA BrokenOne ==
  ASSUME NEW c, CtxOK(c), NEW t, NEW b, OneOf(b, <<t>>, 1), c.nOut = 1, c.rows[1] = 0
  PROVE  /\ Broken(c, b, 1).mem = c.mem
         /\ Broken(c, b, 1).nOut = 1 /\ Broken(c, b, 1).rows[1] = 0
<1>1. PICK V : c.mem \in [Seqs -> Seq(V)]
  BY DEF CtxOK, MemOK
<1>2. PICK mem : mem = CleanedUp(Stored(c.mem, b, 1), c, b, 1)
  OBVIOUS
<1>3. PICK d : d = Broken(c, b, 1)
  OBVIOUS
<1>4. PICK early : early = {i \in Outputs(b) : UbatchOf(b, i) < 1}
  OBVIOUS
<1>5. /\ d.mem = mem /\ d.nOut = Cardinality({i \in Outputs(b) : UbatchOf(b, i) = 1})
      /\ d.rows = Written(c, b, AsComputed(b, early), mem)
  BY <1>2, <1>3, <1>4 DEF Broken
<1>6. UbatchOf(b, 1) = 1
  <2>1. /\ Place(b, 1) = 1 /\ b[1].seq = 0 /\ Len(b) = 1
        /\ Count(b)[0] = 1 /\ Left(b)[1][0] = 0
    <3>1. Count(b) = [s \in Seqs |-> IF s = 0 THEN 1 ELSE 0] /\ \A i \in 1 .. 1 : Place(b, i) = i
      BY OneCounts
    <3>2. \A s \in Seqs : Left(b)[1][s] = 0
      BY OneTaken
    <3> QED
      BY <3>1, <3>2, SeqsAre DEF OneOf
  <2>2. {k \in 1 .. 1 : Place(b, 1) <= Count(b)[0] - Left(b)[k][0]} = {1}
    BY <2>1
  <2>3. Min({1}) = 1
    BY DEF Min
  <2> QED
    BY <2>1, <2>2, <2>3 DEF UbatchOf
<1>7. Outputs(b) = {1} /\ early = {} /\ {i \in Outputs(b) : UbatchOf(b, i) = 1} = {1}
  <2>1. Outputs(b) = {1}
    BY OneCounts
  <2> QED
    BY <1>4, <1>6, <2>1
<1>8. mem = c.mem
  <2>1. ASSUME NEW s \in Seqs PROVE mem[s] = c.mem[s]
    <3>1. PICK x : x = c.mem[s] /\ x \in Seq(V)
      BY <1>1
    <3>2. Tokens(b, s, 0) = <<>> /\ Tokens(b, s, 1) = IF s = 0 THEN <<t>> ELSE <<>>
      <4>1. PICK p \in Seq({t}), n \in {1} : p = <<t>> /\ OneOf(b, p, n)
        <5>1. <<t>> \in Seq({t})
          OBVIOUS
        <5> QED
          BY <5>1
      <4>2. Stores(b, p, n)
        BY <4>1, OneStored
      <4> QED
        BY <4>1, <4>2 DEF Stores
    <3>3. PICK y : y = Tokens(b, s, 1) /\ y \in Seq({t})
      <4>1. <<t>> \in Seq({t}) /\ <<>> \in Seq({t})
        OBVIOUS
      <4> QED
        BY <3>2, <4>1
    <3>4. Stored(c.mem, b, 1)[s] = x \o y /\ Stored(c.mem, b, 0)[s] = x \o <<>>
      BY <3>1, <3>2, <3>3 DEF Stored
    <3>5. x \o <<>> = x /\ Len(x) \in Nat
      BY <3>1
    <3>6. SubSeq(x \o y, 1, Len(x)) = x
      <4>1. x \in Seq(V \cup {t}) /\ y \in Seq(V \cup {t})
        BY <3>1, <3>3
      <4> QED
        BY <4>1
    <3>7. mem[s] = SubSeq(Stored(c.mem, b, 1)[s], 1, Len(Stored(c.mem, b, 0)[s]))
      BY <1>2 DEF CleanedUp
    <3> QED
      BY <3>1, <3>4, <3>5, <3>6, <3>7
  <2>2. mem = [s \in Seqs |-> mem[s]]
    BY <1>2 DEF CleanedUp
  <2> QED
    BY <1>1, <2>1, <2>2
<1>9. Written(c, b, AsComputed(b, early), mem)[1] = 0
  <2>1. 1 \in Rows
    BY SeqsAre
  <2>2. DOMAIN AsComputed(b, early) = {}
    BY <1>7 DEF AsComputed
  <2>3. Written(c, b, AsComputed(b, early), mem)[1] = Aged(c, mem)[1]
    BY <2>1, <2>2 DEF Written
  <2>4. Aged(c, mem)[1] = 0
    BY <1>8, <2>1 DEF Aged, Stale
  <2> QED
    BY <2>3, <2>4
<1>10. Cardinality({1}) = 1
  BY FS_Singleton
<1> QED
  BY <1>3, <1>5, <1>7, <1>8, <1>9, <1>10

-----------------------------------------------------------------------------
(* The prefill of a prompt.                                                *)

\* The smaller of two numbers.
LEMMA MinTwo ==
  ASSUME NEW a \in Nat, NEW b \in Nat
  PROVE  Min({a, b}) = IF a <= b THEN a ELSE b
<1>1. Min({a, b}) \in {a, b} /\ \A y \in {a, b} : Min({a, b}) <= y
  BY LeastIs
<1>2. PICK m : m = Min({a, b}) /\ m \in Nat /\ (m = a \/ m = b) /\ m <= a /\ m <= b
  BY <1>1
<1> QED
  BY <1>2

\* There are as many chunks as it takes to hold l tokens.
LEMMA ChunkCount ==
  ASSUME NEW l \in Nat \ {0}, NEW n \in Nat \ {0}
  PROVE  \E m \in Nat \ {0} :
           /\ m = (l + n - 1) \div n /\ m * n >= l
           /\ \A k \in 0 .. m - 1 : k * n \in Nat /\ (k + 1) * n = k * n + n /\ k * n < l
<1>1. PICK m \in Int : m = (l + n - 1) \div n
  OBVIOUS
<1>2. n * m <= l + n - 1 /\ l + n - 1 < n * m + n
  BY <1>1
<1>3. m \in Nat \ {0}
  BY <1>2
<1>4. m * n = n * m
  OBVIOUS
<1>5. ASSUME NEW k \in 0 .. m - 1
      PROVE  k * n \in Nat /\ (k + 1) * n = k * n + n /\ k * n < l
  <2>1. k * n \in Nat /\ (k + 1) * n = k * n + n
    BY <1>3
  <2>2. (m - 1 - k) * n >= 0
    <3>1. m - 1 - k \in Nat
      BY <1>3
    <3> QED
      BY <3>1
  <2>3. (m - 1 - k) * n = m * n - n - k * n
    BY <1>3
  <2> QED
    BY <1>2, <1>4, <2>1, <2>2, <2>3
<1> QED
  BY <1>1, <1>2, <1>3, <1>4, <1>5

\* What of p the first k chunks hold.
Until(p, k) == IF k * NBatch <= Len(p) THEN k * NBatch ELSE Len(p)

\* Chunk k of the prompt takes it up to the next multiple of n_batch.
IsChunk(p, V, k, x) ==
  /\ x \in Seq(V) /\ x # <<>> /\ Len(x) <= NBatch
  /\ SubSeq(p, 1, Until(p, k)) \o x = SubSeq(p, 1, Until(p, k + 1))

\* The chunks of a prompt are its parts, in order, none empty or over n_batch.
LEMMA ChunksAre ==
  ASSUME NEW V, NEW p \in Seq(V), p # <<>>
  PROVE  \E m \in Nat \ {0} :
           /\ m = Len(Chunks(p)) /\ Until(p, 0) = 0 /\ Until(p, m) = Len(p)
           /\ \A k \in 0 .. m - 1 : IsChunk(p, V, k, Chunks(p)[k + 1])
<1>1. PICK l \in Nat \ {0} : l = Len(p)
  BY EmptySeq
<1>2. PICK n \in Nat \ {0} : n = NBatch
  BY SeqsAre
<1>3. PICK m \in Nat \ {0} :
        /\ m = (l + n - 1) \div n /\ m * n >= l
        /\ \A k \in 0 .. m - 1 : k * n \in Nat /\ (k + 1) * n = k * n + n /\ k * n < l
  BY ChunkCount
<1>4. Chunks(p) = [i \in 1 .. m |-> SubSeq(p, (i - 1) * n + 1, Min({i * n, l}))]
  BY <1>1, <1>2, <1>3 DEF Chunks
<1>5. Len(Chunks(p)) = m
  BY <1>4
<1>6. ASSUME NEW k \in 0 .. m - 1 PROVE IsChunk(p, V, k, Chunks(p)[k + 1])
  <2>1. PICK a, z \in Nat : /\ a = k * n /\ a + n = (k + 1) * n /\ a < l
                            /\ z = IF a + n <= l THEN a + n ELSE l
    <3>1. k * n \in Nat /\ (k + 1) * n = k * n + n /\ k * n < l
      BY <1>3
    <3>2. PICK a \in Nat : a = k * n
      BY <3>1
    <3>3. (IF a + n <= l THEN a + n ELSE l) \in Nat
      OBVIOUS
    <3> QED
      BY <3>1, <3>2, <3>3
  <2>2. Until(p, k) = a /\ Until(p, k + 1) = z
    BY <1>1, <1>2, <2>1 DEF Until
  <2>3. Chunks(p)[k + 1] = SubSeq(p, a + 1, z)
    <3>1. PICK i \in 1 .. m : i = k + 1 /\ i - 1 = k
      <4>1. k + 1 \in 1 .. m /\ k + 1 - 1 = k
        OBVIOUS
      <4> QED
        BY <4>1
    <3>2. Chunks(p)[i] = SubSeq(p, (i - 1) * n + 1, Min({i * n, l}))
      BY <1>4
    <3>3. Chunks(p)[k + 1] = SubSeq(p, k * n + 1, Min({(k + 1) * n, l}))
      BY ONLY <3>1, <3>2
    <3>4. Min({a + n, l}) = z
      <4>1. a + n \in Nat
        OBVIOUS
      <4> QED
        BY <2>1, <4>1, MinTwo
    <3> QED
      BY <2>1, <3>3, <3>4
  <2>4. a < z /\ z <= l /\ z - a <= n
    BY <2>1
  <2>5. PICK x \in Seq(V) : x = SubSeq(p, a + 1, z) /\ Len(x) = z - a
    <3>1. SubSeq(p, a + 1, z) \in Seq(V) /\ Len(SubSeq(p, a + 1, z)) = z - a
      BY <1>1, <2>4
    <3> QED
      BY <3>1
  <2>6. x # <<>> /\ Len(x) <= n
    <3>1. Len(x) # 0
      BY <2>4, <2>5
    <3> QED
      BY <2>4, <2>5, <3>1
  <2>7. SubSeq(p, 1, a) \o x = SubSeq(p, 1, z)
    <3>1. PICK one \in 1 .. Len(p) + 1 : one = 1
      <4>1. 1 \in 1 .. Len(p) + 1
        BY <1>1
      <4> QED
        BY <4>1
    <3>2. a \in one - 1 .. Len(p) /\ z \in a .. Len(p)
      BY <1>1, <2>4, <3>1
    <3>3. SubSeq(p, one, a) \o SubSeq(p, a + 1, z) = SubSeq(p, one, z)
      BY <3>2, ConcatAdjacentSubSeq
    <3> QED
      BY <2>5, <3>1, <3>3
  <2> QED
    BY <1>2, <2>2, <2>3, <2>5, <2>6, <2>7 DEF IsChunk
<1>7. Until(p, 0) = 0 /\ Until(p, m) = l
  <2>1. 0 * n = 0 /\ m * n \in Nat
    OBVIOUS
  <2> QED
    BY <1>1, <1>2, <1>3, <2>1 DEF Until
<1> QED
  BY <1>1, <1>3, <1>5, <1>6, <1>7

\* The contexts of a prefill, one after each chunk.
Prefills(p, n, g) ==
  /\ g[0] = Cleared(ctx)
  /\ \A k \in 0 .. n - 1 : g[k + 1] = Decoded(g[k], GetOne(Chunks(p)[k + 1]))

\* One chunk is decoded after the other.
LEMMA PrefilledIs ==
  ASSUME NEW p, NEW n \in Nat
  PROVE  \E g : Prefills(p, n, g) /\ Prefilled(p, n) = g[n]
<1> DEFINE Step(e) == [k \in 0 .. n |-> IF k = 0 THEN Cleared(ctx)
                                        ELSE Decoded(e[k - 1], GetOne(Chunks(p)[k]))]
           after == CHOOSE e : e = Step(e)
           S == {k \in 0 .. n : \E g : DOMAIN g = 0 .. k /\ Prefills(p, k, g)}
<1>1. Prefilled(p, n) = after[n]
  BY DEF Prefilled
<1>2. 0 \in S
  <2>1. PICK g : g = [k \in 0 .. 0 |-> Cleared(ctx)]
    OBVIOUS
  <2>2. g[0] = Cleared(ctx) /\ DOMAIN g = 0 .. 0
    BY <2>1
  <2>3. Prefills(p, 0, g)
    BY <2>2 DEF Prefills
  <2> QED
    BY <2>2, <2>3
<1>3. ASSUME NEW k \in 0 .. n - 1, k \in S PROVE k + 1 \in S
  <2>1. PICK g : DOMAIN g = 0 .. k /\ Prefills(p, k, g)
    BY <1>3
  <2>2. PICK h : h = [i \in 0 .. k + 1 |-> IF i <= k THEN g[i]
                                           ELSE Decoded(g[k], GetOne(Chunks(p)[k + 1]))]
    OBVIOUS
  <2>3. h[0] = Cleared(ctx)
    BY <2>1, <2>2 DEF Prefills
  <2>4. ASSUME NEW i \in 0 .. k PROVE h[i + 1] = Decoded(h[i], GetOne(Chunks(p)[i + 1]))
    <3>1. h[i] = g[i]
      BY <2>2
    <3>2. CASE i = k
      <4>1. h[k + 1] = Decoded(g[k], GetOne(Chunks(p)[k + 1]))
        BY <2>2
      <4> QED
        BY <3>1, <3>2, <4>1
    <3>3. CASE i < k
      <4>1. h[i + 1] = g[i + 1] /\ i \in 0 .. k - 1
        BY <2>2, <3>3
      <4>2. g[i + 1] = Decoded(g[i], GetOne(Chunks(p)[i + 1]))
        BY <2>1, <4>1 DEF Prefills
      <4> QED
        BY <3>1, <4>1, <4>2
    <3> QED
      BY <3>2, <3>3
  <2>5. DOMAIN h = 0 .. k + 1 /\ 0 .. k + 1 - 1 = 0 .. k /\ k + 1 \in 0 .. n
    BY <2>2
  <2>6. Prefills(p, k + 1, h)
    BY <2>3, <2>4, <2>5 DEF Prefills
  <2> QED
    BY <2>5, <2>6
<1>4. \E e : e = Step(e)
  <2> HIDE DEF S
  <2>1. 0 .. n \subseteq S
    BY <1>2, <1>3, UpTo
  <2>2. n \in S
    BY <2>1
  <2>3. PICK g : DOMAIN g = 0 .. n /\ Prefills(p, n, g)
    BY <2>2 DEF S
  <2>4. ASSUME NEW k \in 0 .. n, k # 0 PROVE g[k] = Decoded(g[k - 1], GetOne(Chunks(p)[k]))
    <3>1. PICK i \in 0 .. n - 1 : k = i + 1 /\ i = k - 1
      <4>1. k - 1 \in 0 .. n - 1 /\ k = (k - 1) + 1
        BY <2>4
      <4> QED
        BY <4>1
    <3>2. g[i + 1] = Decoded(g[i], GetOne(Chunks(p)[i + 1]))
      BY <2>3 DEF Prefills
    <3> QED
      BY <3>1, <3>2
  <2>5. PICK e : e = [k \in 0 .. n |-> g[k]]
    OBVIOUS
  <2>6. ASSUME NEW k \in 0 .. n
        PROVE  e[k] = IF k = 0 THEN Cleared(ctx) ELSE Decoded(e[k - 1], GetOne(Chunks(p)[k]))
    <3>1. CASE k = 0
      BY <2>3, <2>5, <3>1 DEF Prefills
    <3>2. CASE k # 0
      <4>1. k - 1 \in 0 .. n
        BY <3>2
      <4>2. e[k] = g[k] /\ e[k - 1] = g[k - 1]
        BY <2>5, <4>1
      <4> QED
        BY <2>4, <3>2, <4>2
    <3> QED
      BY <3>1, <3>2
  <2>7. e = Step(e)
    BY <2>5, <2>6
  <2> HIDE DEF Step
  <2> QED
    BY <2>7
<1>5. PICK f : f = after /\ f = Step(f)
  <2> HIDE DEF Step
  <2> QED
    BY <1>4
<1>6. f[0] = Cleared(ctx)
  <2>1. \A e : Step(e)[0] = Cleared(ctx)
    OBVIOUS
  <2> HIDE DEF Step
  <2> QED
    BY <1>5, <2>1
<1>7. ASSUME NEW k \in 0 .. n - 1 PROVE f[k + 1] = Decoded(f[k], GetOne(Chunks(p)[k + 1]))
  <2>1. k + 1 \in 0 .. n /\ k + 1 # 0 /\ k + 1 - 1 = k
    OBVIOUS
  <2>2. \A e : Step(e)[k + 1] = Decoded(e[k + 1 - 1], GetOne(Chunks(p)[k + 1]))
    BY <2>1
  <2> HIDE DEF Step
  <2> QED
    BY <1>5, <2>1, <2>2
<1> HIDE DEF after
<1> QED
  BY <1>1, <1>5, <1>6, <1>7 DEF Prefills

\* The context after some of the chunks.
Filled(p, k, c) ==
  /\ CtxOK(c) /\ c.mem[0] = SubSeq(p, 1, Until(p, k))
  /\ k = 0 => c.nOut = ctx.nOut
  /\ k # 0 => c.nOut = 1 /\ c.rows[1] = 0

\* After each chunk of the prefill, the context holds the prompt up to there.
LEMMA PrefilledFills ==
  ASSUME CtxOK(ctx), NEW V, NEW p \in Seq(V), p # <<>>, NEW n \in 0 .. Len(Chunks(p))
  PROVE  Filled(p, n, Prefilled(p, n))
<1>1. PICK m \in Nat \ {0} :
        /\ m = Len(Chunks(p)) /\ Until(p, 0) = 0
        /\ \A k \in 0 .. m - 1 : IsChunk(p, V, k, Chunks(p)[k + 1])
  BY ChunksAre
<1>2. n \in Nat /\ n <= m
  BY <1>1
<1>3. PICK g : Prefills(p, n, g) /\ Prefilled(p, n) = g[n]
  BY <1>2, PrefilledIs
<1> DEFINE S == {k \in 0 .. n : Filled(p, k, g[k])}
<1>4. 0 \in S
  <2>1. g[0] = Without(ctx, Seqs)
    BY <1>3 DEF Prefills, Cleared
  <2>2. CtxOK(g[0]) /\ g[0].nOut = ctx.nOut /\ g[0].mem[0] = <<>>
    BY <2>1, WithoutOK, SeqsAre
  <2>3. SubSeq(p, 1, 0) = <<>>
    BY SubSeqEmpty
  <2>4. Filled(p, 0, g[0])
    BY <1>1, <2>2, <2>3 DEF Filled
  <2> QED
    BY <1>2, <2>4
<1>5. ASSUME NEW k \in 0 .. n - 1, k \in S PROVE k + 1 \in S
  <2>1. PICK c : c = g[k] /\ Filled(p, k, c)
    BY <1>5
  <2>2. PICK x \in Seq(V) : x = Chunks(p)[k + 1] /\ IsChunk(p, V, k, x)
    <3>1. k \in 0 .. m - 1
      BY <1>2
    <3> QED
      BY <1>1, <3>1 DEF IsChunk
  <2>3. PICK d, b : b = GetOne(x) /\ d = Decoded(c, b) /\ d = g[k + 1]
    BY <1>3, <2>1, <2>2 DEF Prefills
  <2>4. OneOf(b, x, Len(x))
    BY <2>2, <2>3, GetOneIs DEF IsChunk
  <2>5. CtxOK(d) /\ d.mem[0] = c.mem[0] \o x /\ d.nOut = 1 /\ d.rows[1] = 0
    <3>1. CtxOK(c)
      BY <2>1 DEF Filled
    <3>2. Continues(c, d, x)
      BY <2>3, <2>4, <3>1, DecodedOne
    <3> QED
      BY <3>2 DEF Continues
  <2>6. d.mem[0] = SubSeq(p, 1, Until(p, k + 1))
    BY <2>1, <2>2, <2>5 DEF Filled, IsChunk
  <2>7. Filled(p, k + 1, d)
    BY <2>5, <2>6 DEF Filled
  <2>8. k + 1 \in 0 .. n
    BY <1>2
  <2> QED
    BY <2>3, <2>7, <2>8
<1> HIDE DEF S
<1>6. 0 .. n \subseteq S
  BY <1>2, <1>4, <1>5, UpTo
<1>7. n \in S
  BY <1>2, <1>6
<1> QED
  BY <1>3, <1>7 DEF S

-----------------------------------------------------------------------------
(* Where the rows of a batch stand, and what they follow.                  *)

\* Only the last entry of a sequence may have output.
LastOnly(b) ==
  \A i \in Outputs(b) : b[i].seq \in Seqs /\ \A j \in Entries(b, b[i].seq) : j <= i

\* The row of an output follows the memory of its sequence.
LEMMA RowFollows ==
  ASSUME NEW c, CtxOK(c), NEW b, IsBatch(b), Len(b) <= NBatch, LastOnly(b),
         NEW i \in Outputs(b)
  PROVE  Decoded(c, b).rows[Row(Decoded(c, b), i)] = b[i].seq
<1>1. PICK n \in Nat : n = Len(b) /\ n <= NBatch
  BY DEF IsBatch
<1>2. PICK E : E = Outputs(b) /\ E \subseteq 1 .. n /\ i \in E
  BY <1>1 DEF Outputs
<1>3. IsFiniteSet(E) /\ E \in SUBSET Nat
  <2>1. IsFiniteSet(1 .. n)
    BY CountUpTo
  <2> QED
    BY <1>2, <2>1, FS_Subset
<1>4. PICK row : row = InOrder(E) /\ row = [j \in E |-> Rank(E, j)]
  BY DEF InOrder, Rank
<1>5. /\ Cardinality(E) \in Nat /\ row[i] \in 1 .. Cardinality(E)
      /\ \A j, k \in E : row[j] = row[k] => j = k
  <2>1. /\ Cardinality(E) \in Nat /\ Rank(E, i) \in 1 .. Cardinality(E)
        /\ \A j, k \in E : Rank(E, j) = Rank(E, k) => j = k
    BY <1>2, <1>3, RanksAre
  <2> QED
    BY <1>2, <1>4, <2>1
<1>6. Cardinality(E) <= Cardinality(Seqs)
  <2>1. PICK f : f = [j \in E |-> b[j].seq]
    OBVIOUS
  <2>2. \A j \in E : f[j] \in Seqs
    BY <1>2, <2>1 DEF LastOnly
  <2>3. ASSUME NEW j \in E, NEW k \in E, f[j] = f[k] PROVE j = k
    <3>1. j \in Entries(b, b[k].seq) /\ k \in Entries(b, b[j].seq)
      BY <1>1, <1>2, <2>1, <2>3 DEF Entries
    <3>2. j <= k /\ k <= j
      BY <1>2, <3>1 DEF LastOnly
    <3> QED
      BY <1>2, <3>2
  <2>4. f \in Injection(E, Seqs)
    BY <2>1, <2>2, <2>3 DEF Injection, IsInjective
  <2> QED
    BY <2>4, SeqsAre, FS_Injection
<1>7. PICK d : d = Decoded(c, b)
  OBVIOUS
<1>8. PICK mem : mem = Stored(c.mem, b, NUbatches(b))
  OBVIOUS
<1>9. PICK r \in Rows : r = row[i] /\ Row(d, i) = r
  <2>1. row[i] \in Rows
    BY <1>5, <1>6, SeqsAre
  <2>2. i \in 1 .. NBatch /\ i \in Outputs(b) /\ ~ (i < 0)
    BY <1>1, <1>2, SeqsAre
  <2>3. d.ids[i] = row[i]
    BY <1>2, <1>4, <1>7, <2>2 DEF Decoded
  <2>4. Row(d, i) = row[i]
    BY <2>2, <2>3 DEF Row
  <2> QED
    BY <2>1, <2>4
<1>10. d.rows = Written(c, b, row, mem)
  BY <1>2, <1>4, <1>7, <1>8 DEF Decoded
<1>11. PICK s \in Seqs : s = b[i].seq
  BY DEF LastOnly
<1>12. Len(mem[s]) = Len(c.mem[s]) + Place(b, i)
  <2>1. mem[s] = c.mem[s] \o TokensOf(b, s)
    BY <1>8, AllTokens DEF Stored
  <2>2. PICK V : TokensOf(b, s) \in Seq(V) /\ Len(TokensOf(b, s)) = Count(b)[s]
    BY TokensCount
  <2>3. PICK W : c.mem[s] \in Seq(W)
    BY DEF CtxOK, MemOK
  <2>4. PICK x, y : x = c.mem[s] /\ y = TokensOf(b, s) /\ x \in Seq(V \cup W) /\ y \in Seq(V \cup W)
    BY <2>2, <2>3
  <2>5. Len(x \o y) = Len(x) + Len(y)
    BY <2>4
  <2>6. Place(b, i) = Count(b)[s]
    <3>1. i \in Entries(b, s) /\ \A j \in Entries(b, s) : j <= i
      BY <1>1, <1>2, <1>11 DEF LastOnly, Entries
    <3>2. Place(b, i) = Cardinality(Entries(b, s))
      BY <3>1, PlacesAre
    <3> QED
      BY <3>2 DEF Count, Entries
  <2> QED
    BY <2>1, <2>2, <2>4, <2>5, <2>6
<1>13. DOMAIN row = E
  BY <1>4
<1>14. (CHOOSE j \in DOMAIN row : row[j] = r) = i
  BY <1>2, <1>5, <1>9, <1>13
<1>15. ~ \A j \in DOMAIN row : row[j] # r
  BY <1>2, <1>9, <1>13
<1>16. Written(c, b, row, mem)[r] =
         LET e == CHOOSE j \in DOMAIN row : row[j] = r
             q == b[e].seq
         IN IF Len(mem[q]) = Len(c.mem[q]) + Place(b, e) THEN q ELSE Stale
  BY <1>15 DEF Written
<1>17. Written(c, b, row, mem)[r] = s
  BY <1>11, <1>12, <1>14, <1>16
<1> QED
  BY <1>7, <1>9, <1>10, <1>11, <1>17

-----------------------------------------------------------------------------
(* The rows of a batch.                                                    *)

\* Every output of a batch has a row of the context.
LEMMA OutputHasRow ==
  ASSUME NEW c, NEW b, IsBatch(b), Len(b) <= NBatch, NEW i \in Outputs(b)
  PROVE  HasRow(Decoded(c, b), i) /\ Decoded(c, b).nOut \in Nat \ {0}
<1>1. PICK n \in Nat : n = Len(b) /\ n <= NBatch
  BY DEF IsBatch
<1>2. PICK E : E = Outputs(b) /\ E \subseteq 1 .. n /\ i \in E
  BY <1>1 DEF Outputs
<1>3. IsFiniteSet(E)
  <2>1. IsFiniteSet(1 .. n)
    BY CountUpTo
  <2> QED
    BY <1>2, <2>1, FS_Subset
<1>4. PICK F : F = {j \in E : j <= i}
  OBVIOUS
<1>5. IsFiniteSet(F) /\ Cardinality(F) <= Cardinality(E) /\ F # {}
  BY <1>2, <1>3, <1>4, FS_Subset
<1>6. PICK k, m \in Nat : k = Cardinality(F) /\ m = Cardinality(E) /\ k <= m /\ k # 0
  BY <1>3, <1>5, FS_CardinalityType, FS_EmptySet
<1>7. PICK d : d = Decoded(c, b)
  OBVIOUS
<1>8. d.nOut = m
  BY <1>2, <1>6, <1>7 DEF Decoded
<1>9. d.ids[i] = k
  <2>1. i \in 1 .. NBatch /\ i \in Outputs(b)
    BY <1>1, <1>2, SeqsAre
  <2>2. InOrder(Outputs(b))[i] = k
    BY <1>2, <1>4, <1>6 DEF InOrder
  <2> QED
    BY <1>7, <2>1, <2>2 DEF Decoded
<1>10. Row(d, i) = k
  BY <1>1, <1>2, <1>9 DEF Row
<1> QED
  BY <1>6, <1>7, <1>8, <1>10 DEF HasRow

\* The batch b has the tokens q[s] of each active sequence s, the last one with output
\* at the index idx[s], and nothing of the others.
Feeds(b, q, idx, active) ==
  /\ IsBatch(b) /\ Len(b) <= NBatch /\ LastOnly(b)
  /\ \A s \in Seqs : TokensOf(b, s) = IF s \in active THEN q[s] ELSE <<>>
  /\ \A s \in active : idx[s] \in Outputs(b) /\ b[idx[s]].seq = s

\* The context d has these tokens more than c, and a row for every active sequence that
\* follows its own.
Grown(c, d, q, idx, active) ==
  /\ \A s \in Seqs : d.mem[s] = c.mem[s] \o (IF s \in active THEN q[s] ELSE <<>>)
  /\ \A s \in active : /\ HasRow(d, idx[s]) /\ d.nOut \in Nat \ {0}
                       /\ d.rows[Row(d, idx[s])] = s

\* The decode of such a batch leaves such a context.
LEMMA DecodedFeeds ==
  ASSUME NEW c, CtxOK(c), NEW b, NEW q, NEW idx, NEW active, Feeds(b, q, idx, active)
  PROVE  Grown(c, Decoded(c, b), q, idx, active)
<1>1. PICK d : d = Decoded(c, b)
  OBVIOUS
<1>2. ASSUME NEW s \in Seqs PROVE d.mem[s] = c.mem[s] \o (IF s \in active THEN q[s] ELSE <<>>)
  <2>1. d.mem[s] = c.mem[s] \o Tokens(b, s, NUbatches(b))
    BY <1>1 DEF Decoded, Stored
  <2>2. Tokens(b, s, NUbatches(b)) = TokensOf(b, s)
    BY AllTokens DEF Feeds
  <2>3. TokensOf(b, s) = IF s \in active THEN q[s] ELSE <<>>
    BY DEF Feeds
  <2> QED
    BY ONLY <2>1, <2>2, <2>3
<1>3. ASSUME NEW s \in active
      PROVE  HasRow(d, idx[s]) /\ d.nOut \in Nat \ {0} /\ d.rows[Row(d, idx[s])] = s
  <2>1. PICK i \in Outputs(b) : i = idx[s] /\ b[i].seq = s
    BY DEF Feeds
  <2>2. HasRow(d, i) /\ d.nOut \in Nat \ {0}
    BY <1>1, OutputHasRow DEF Feeds
  <2>3. d.rows[Row(d, i)] = b[i].seq
    BY <1>1, RowFollows DEF Feeds
  <2> QED
    BY <2>1, <2>2, <2>3
<1> QED
  BY <1>1, <1>2, <1>3 DEF Grown

\* The running sequences: the token of each stands where the count of those before says.
LEMMA StepFeeds ==
  ASSUME NEW toks, NEW active \in SUBSET Seqs, NEW q,
         \A s \in active : q[s] = <<Last(toks[s])>>
  PROVE  Feeds(StepBatch(toks, active), q, StepIndex(active), active)
<1>1. PICK b : b = StepBatch(toks, active)
  OBVIOUS
<1>2. PICK n \in Nat : n = Cardinality(active) /\ n <= NBatch /\ IsFiniteSet(active)
  <2>1. IsFiniteSet(active) /\ Cardinality(active) <= Cardinality(Seqs)
    BY SeqsAre, FS_Subset
  <2>2. Cardinality(active) \in Nat
    BY <2>1, FS_CardinalityType
  <2> QED
    BY <2>1, <2>2, SeqsAre, SizesAssumption
<1>3. /\ \A s \in active : Rank(active, s) \in 1 .. n
      /\ \A s, t \in active : Rank(active, s) = Rank(active, t) => s = t
      /\ \A k \in 1 .. n : \E s \in active : Rank(active, s) = k
  BY <1>2, SeqsAre, RanksAre
<1>4. ASSUME NEW i \in 1 .. n PROVE Nth(active, i) \in active /\ Rank(active, Nth(active, i)) = i
  <2>1. \E s \in active : Rank(active, s) = i
    BY <1>3
  <2> QED
    BY <2>1 DEF Nth, Rank
<1>5. b = [i \in 1 .. n |-> Entry(Nth(active, i), Last(toks[Nth(active, i)]), TRUE)]
  BY <1>1, <1>2 DEF StepBatch
<1>6. Len(b) = n /\ \A i \in 1 .. n : /\ b[i].out /\ b[i].seq = Nth(active, i)
                                      /\ b[i].tok = Last(toks[Nth(active, i)])
  BY <1>5 DEF Entry
<1>7. IsBatch(b)
  <2>1. PICK E : E = {b[i] : i \in 1 .. n}
    OBVIOUS
  <2>2. b \in Seq(E)
    <3>1. b \in [1 .. n -> E]
      BY <1>5, <2>1
    <3> QED
      BY <3>1
  <2> QED
    BY <2>2 DEF IsBatch
<1>8. LastOnly(b)
  <2>1. ASSUME NEW i \in 1 .. n PROVE b[i].seq \in Seqs
    BY <1>4, <1>6
  <2>2. ASSUME NEW i \in 1 .. n, NEW j \in 1 .. n, b[j].seq = b[i].seq PROVE j <= i
    <3>1. i = j
      BY <1>4, <1>6, <2>2
    <3> QED
      BY <3>1
  <2>3. Outputs(b) \subseteq 1 .. n /\ \A s : Entries(b, s) = {j \in 1 .. n : b[j].seq = s}
    BY <1>6 DEF Outputs, Entries
  <2> QED
    BY <2>1, <2>2, <2>3 DEF LastOnly
<1>9. ASSUME NEW s \in active PROVE StepIndex(active)[s] = Rank(active, s)
  BY DEF StepIndex, Rank
<1>10. ASSUME NEW s \in active
       PROVE  /\ Rank(active, s) \in 1 .. n /\ Nth(active, Rank(active, s)) = s
              /\ \A i \in 1 .. n : Nth(active, i) = s => i = Rank(active, s)
  BY <1>3, <1>4
<1>11. ASSUME NEW s \in active PROVE TokensOf(b, s) = <<Last(toks[s])>>
  <2>1. PICK r \in 1 .. n : r = Rank(active, s)
    BY <1>3
  <2>2. PICK x : x = Last(toks[s])
    OBVIOUS
  <2>3. ASSUME NEW i \in 1 .. n
        PROVE  (b[i].seq = s <=> i = r) /\ (i = r => b[i].tok = x)
    BY <1>6, <1>10, <2>2, <2>1
  <2>4. PICK f : f = [i \in 1 .. n |-> IF i = r THEN <<x>> ELSE <<>>]
    OBVIOUS
  <2>5. [i \in 1 .. n |-> IF b[i].seq = s THEN <<b[i].tok>> ELSE <<>>] = f
    BY <2>3, <2>4
  <2>6. FlattenSeq(f) = <<x>>
    BY ONLY n \in Nat, r \in 1 .. n, <2>4, FlattenOne, Zenon
  <2> QED
    BY <1>6, <2>2, <2>5, <2>6 DEF TokensOf
<1>12. ASSUME NEW s \in Seqs, s \notin active PROVE TokensOf(b, s) = <<>>
  <2>1. \A i \in 1 .. n : b[i].seq # s
    BY <1>4, <1>6, <1>12
  <2>2. [i \in 1 .. n |-> IF b[i].seq = s THEN <<b[i].tok>> ELSE <<>>] = [i \in 1 .. n |-> <<>>]
    BY <2>1
  <2>3. FlattenSeq([i \in 1 .. n |-> <<>>]) = <<>>
    BY FlattenNothing
  <2> QED
    BY <1>6, <2>2, <2>3 DEF TokensOf
<1>13. ASSUME NEW s \in active
       PROVE  StepIndex(active)[s] \in Outputs(b) /\ b[StepIndex(active)[s]].seq = s
  BY <1>6, <1>9, <1>10 DEF Outputs
<1> QED
  BY <1>1, <1>2, <1>6, <1>7, <1>8, <1>11, <1>12, <1>13 DEF Feeds

\* The lists of prompts that R passes.
IsList(ps) ==
  /\ DOMAIN ps # {} /\ DOMAIN ps \subseteq Seqs
  /\ DOMAIN ps = 0 .. Cardinality(DOMAIN ps) - 1
  /\ \A s \in DOMAIN ps : Prompt(ps[s])

\* The batch b has the first k prompts of ps: the entries with output are the last ones
\* of their sequences, each sequence has one and the tokens of its prompt.
Prompts(ps, b, k) ==
  /\ \A j \in 1 .. Len(b) : b[j].seq \in 0 .. k - 1
  /\ \A i \in 1 .. Len(b) : b[i].out => \A j \in 1 .. Len(b) : b[j].seq = b[i].seq => j <= i
  /\ \A s \in 0 .. k - 1 : \E i \in 1 .. Len(b) : b[i].seq = s /\ b[i].out
  /\ \A s \in Seqs : TokensOf(b, s) = IF s \in 0 .. k - 1 THEN ps[s] ELSE <<>>

\* The entries of one prompt.
PromptEntries(ps, k) == [j \in 1 .. Len(ps[k]) |-> Entry(k, ps[k][j], j = Len(ps[k]))]

\* One more prompt.
LEMMA PromptsGrow ==
  ASSUME NEW ps, IsList(ps), NEW k \in Nat, k \in DOMAIN ps, NEW E, NEW a \in Seq(E),
         NEW x \in Seq(E), x = PromptEntries(ps, k), Prompts(ps, a, k)
  PROVE  Prompts(ps, a \o x, k + 1)
<1>1. PICK p, V : p = ps[k] /\ p \in Seq(V) /\ p # <<>>
  BY DEF IsList, Prompt
<1>2. PICK l \in Nat \ {0} : l = Len(p)
  BY <1>1, EmptySeq
<1>3. /\ Len(x) = l
      /\ \A j \in 1 .. l : x[j].seq = k /\ x[j].tok = p[j] /\ (x[j].out <=> j = l)
  <2>1. x = [j \in 1 .. l |-> Entry(k, p[j], j = l)]
    BY <1>1, <1>2 DEF PromptEntries
  <2>2. Len(x) = l
    BY ONLY <2>1, l \in Nat \ {0}
  <2>3. \A j \in 1 .. l : x[j].seq = k /\ x[j].tok = p[j] /\ (x[j].out <=> j = l)
    BY ONLY <2>1 DEF Entry
  <2> QED
    BY <2>2, <2>3
<1>4. PICK m \in Nat : m = Len(a)
  OBVIOUS
<1>5. PICK b : /\ b = a \o x /\ Len(b) = m + l
               /\ \A j \in 1 .. m : b[j] = a[j]
               /\ \A j \in m + 1 .. m + l : b[j] = x[j - m]
  <2>1. PICK b : b = a \o x
    OBVIOUS
  <2>2. /\ Len(b) = Len(a) + Len(x) /\ Begins(a, b)
        /\ \A i \in 1 .. Len(x) : b[Len(a) + i] = x[i]
    BY <2>1, ConcatBegins
  <2>3. /\ Len(b) = m + l /\ \A j \in 1 .. m : b[j] = a[j]
        /\ \A i \in 1 .. l : b[m + i] = x[i]
    BY <1>3, <1>4, <2>2 DEF Begins
  <2>4. ASSUME NEW j \in m + 1 .. m + l PROVE b[j] = x[j - m]
    <3>1. PICK i \in 1 .. l : i = j - m /\ m + i = j
      OBVIOUS
    <3> QED
      BY <2>3, <3>1
  <2> QED
    BY <2>1, <2>3, <2>4
<1>6. /\ \A j \in 1 .. m : b[j].seq \in 0 .. k - 1
      /\ \A i \in 1 .. m : b[i].out => \A j \in 1 .. m : b[j].seq = b[i].seq => j <= i
      /\ \A s \in 0 .. k - 1 : \E i \in 1 .. m : b[i].seq = s /\ b[i].out
  <2>1. /\ \A j \in 1 .. m : a[j].seq \in 0 .. k - 1
        /\ \A i \in 1 .. m : a[i].out => \A j \in 1 .. m : a[j].seq = a[i].seq => j <= i
        /\ \A s \in 0 .. k - 1 : \E i \in 1 .. m : a[i].seq = s /\ a[i].out
    BY <1>4 DEF Prompts
  <2>2. \A j \in 1 .. m : b[j] = a[j]
    BY <1>5
  <2>3. \A j \in 1 .. m : b[j].seq \in 0 .. k - 1
    BY ONLY <2>1, <2>2
  <2>4. \A i \in 1 .. m : b[i].out => \A j \in 1 .. m : b[j].seq = b[i].seq => j <= i
    BY ONLY <2>1, <2>2
  <2>5. \A s \in 0 .. k - 1 : \E i \in 1 .. m : b[i].seq = s /\ b[i].out
    BY ONLY <2>1, <2>2
  <2> QED
    BY <2>3, <2>4, <2>5
<1>7. ASSUME NEW j \in m + 1 .. m + l PROVE b[j].seq = k /\ (b[j].out <=> j = m + l)
  <2>1. j - m \in 1 .. l /\ (j - m = l <=> j = m + l)
    OBVIOUS
  <2> QED
    BY <1>3, <1>5, <2>1
<1>8. ASSUME NEW j \in 1 .. m + l PROVE j \in 1 .. m \/ j \in m + 1 .. m + l
  OBVIOUS
<1>9. 0 .. k + 1 - 1 = (0 .. k - 1) \cup {k} /\ k \notin 0 .. k - 1
  OBVIOUS
<1>10. \A j \in 1 .. Len(b) : b[j].seq \in 0 .. k + 1 - 1
  BY <1>5, <1>6, <1>7, <1>8, <1>9
<1>11. ASSUME NEW i \in 1 .. m + l, b[i].out, NEW j \in 1 .. m + l, b[j].seq = b[i].seq
       PROVE  j <= i
  <2>1. CASE i \in 1 .. m
    <3>1. j \in 1 .. m
      BY <1>6, <1>7, <1>8, <1>9, <1>11, <2>1
    <3> QED
      BY <1>6, <1>11, <2>1, <3>1
  <2>2. CASE i \notin 1 .. m
    <3>1. i = m + l
      BY <1>7, <1>8, <1>11, <2>2
    <3> QED
      BY <3>1
  <2> QED
    BY <2>1, <2>2
<1>12. ASSUME NEW s \in 0 .. k + 1 - 1 PROVE \E i \in 1 .. m + l : b[i].seq = s /\ b[i].out
  <2>1. CASE s \in 0 .. k - 1
    <3>1. PICK i \in 1 .. m : b[i].seq = s /\ b[i].out
      BY <1>6, <2>1
    <3>2. i \in 1 .. m + l
      OBVIOUS
    <3> QED
      BY <3>1, <3>2
  <2>2. CASE s = k
    <3>1. m + l \in m + 1 .. m + l /\ m + l \in 1 .. m + l
      OBVIOUS
    <3> QED
      BY <1>7, <2>2, <3>1
  <2> QED
    BY <1>9, <2>1, <2>2
<1>13. ASSUME NEW s \in Seqs
       PROVE  TokensOf(b, s) = IF s \in 0 .. k + 1 - 1 THEN ps[s] ELSE <<>>
  <2>1. TokensOf(b, s) = TokensOf(a, s) \o TokensOf(x, s)
    <3>1. TokensOf(a \o x, s) = TokensOf(a, s) \o TokensOf(x, s)
      BY ONLY a \in Seq(E), x \in Seq(E), TokensConcat
    <3> QED
      BY <1>5, <3>1
  <2>2. TokensOf(a, s) = IF s \in 0 .. k - 1 THEN ps[s] ELSE <<>>
    BY DEF Prompts
  <2>3. CASE s = k
    <3>1. [i \in 1 .. l |-> IF x[i].seq = s THEN <<x[i].tok>> ELSE <<>>]
            = [i \in 1 .. Len(p) |-> <<p[i]>>]
      BY <1>2, <1>3, <2>3
    <3>2. FlattenSeq([i \in 1 .. Len(p) |-> <<p[i]>>]) = p
      BY <1>1, FlattenOnes
    <3>3. TokensOf(x, s) = p
      BY <1>3, <3>1, <3>2 DEF TokensOf
    <3>4. TokensOf(a, s) = <<>> /\ <<>> \o p = p
      BY <1>1, <1>9, <2>2, <2>3
    <3> QED
      BY <1>1, <1>9, <2>1, <2>3, <3>3, <3>4
  <2>4. CASE s # k
    <3>1. [i \in 1 .. l |-> IF x[i].seq = s THEN <<x[i].tok>> ELSE <<>>] = [i \in 1 .. l |-> <<>>]
      BY <1>3, <2>4
    <3>2. FlattenSeq([i \in 1 .. l |-> <<>>]) = <<>>
      BY FlattenNothing
    <3>3. TokensOf(x, s) = <<>>
      BY <1>3, <3>1, <3>2 DEF TokensOf
    <3>4. s \in 0 .. k + 1 - 1 <=> s \in 0 .. k - 1
      BY <1>9, <2>4
    <3>5. PICK y, W : y = TokensOf(a, s) /\ y \in Seq(W)
      <4>1. s \in 0 .. k - 1 => s \in DOMAIN ps
        <5>1. IsFiniteSet(DOMAIN ps)
          BY SeqsAre, FS_Subset DEF IsList
        <5>2. PICK n \in Nat : DOMAIN ps = 0 .. n - 1
          BY <5>1, FS_CardinalityType DEF IsList
        <5> QED
          BY <5>2
      <4>2. CASE s \in 0 .. k - 1
        BY <2>2, <4>1, <4>2 DEF IsList, Prompt
      <4>3. CASE s \notin 0 .. k - 1
        <5>1. <<>> \in Seq({})
          OBVIOUS
        <5> QED
          BY <2>2, <4>3, <5>1
      <4> QED
        BY <4>2, <4>3
    <3>6. y \o <<>> = y
      BY <3>5
    <3> QED
      BY <2>1, <2>2, <3>3, <3>4, <3>5, <3>6
  <2> QED
    BY <2>3, <2>4
<1>14. Len(b) = m + l /\ b = a \o x
  BY <1>5
<1>15. \A i \in 1 .. Len(b) : b[i].out => \A j \in 1 .. Len(b) : b[j].seq = b[i].seq => j <= i
  BY ONLY <1>11, <1>14
<1>16. \A s \in 0 .. k + 1 - 1 : \E i \in 1 .. Len(b) : b[i].seq = s /\ b[i].out
  BY ONLY <1>12, <1>14
<1>17. Prompts(ps, b, k + 1)
  BY <1>10, <1>13, <1>15, <1>16 DEF Prompts
<1> QED
  BY <1>14, <1>17

\* The batch of the prompts has all of them.
LEMMA PromptsAll ==
  ASSUME NEW ps, IsList(ps)
  PROVE  IsBatch(PromptBatch(ps)) /\ Prompts(ps, PromptBatch(ps), Cardinality(DOMAIN ps))
<1>1. PICK n \in Nat : n = Cardinality(DOMAIN ps) /\ DOMAIN ps = 0 .. n - 1
  <2>1. IsFiniteSet(DOMAIN ps)
    BY SeqsAre, FS_Subset DEF IsList
  <2> QED
    BY <2>1, FS_CardinalityType DEF IsList
<1>2. PICK f : f = [i \in 1 .. n |-> PromptEntries(ps, i - 1)]
  OBVIOUS
<1>3. PromptBatch(ps) = FlattenSeq(f)
  BY <1>1, <1>2 DEF PromptBatch, PromptEntries
<1>4. PICK E : E = UNION {{f[i][j] : j \in 1 .. Len(ps[i - 1])} : i \in 1 .. n}
  OBVIOUS
<1>5. f \in Seq(Seq(E)) /\ Len(f) = n
  <2>1. ASSUME NEW i \in 1 .. n PROVE f[i] \in Seq(E)
    <3>1. PICK p, V : p = ps[i - 1] /\ p \in Seq(V)
      <4>1. i - 1 \in 0 .. n - 1
        OBVIOUS
      <4>2. i - 1 \in DOMAIN ps
        BY <1>1, <4>1
      <4> QED
        BY <4>2 DEF IsList, Prompt
    <3>2. PICK l \in Nat : l = Len(p)
      BY <3>1
    <3>3. \A j \in 1 .. l : f[i][j] \in E
      BY <1>4, <3>1, <3>2
    <3>4. f[i] \in [1 .. l -> E]
      BY <1>2, <3>1, <3>2, <3>3 DEF PromptEntries
    <3> QED
      BY <3>4
  <2> QED
    BY <1>2, <2>1
<1>6. PICK g : Flattens(n, E, f, g) /\ FlattenSeq(f) = g[n]
  BY <1>5, FlattenSteps
<1>7. /\ g \in [0 .. n -> Seq(E)] /\ g[0] = <<>>
      /\ \A i \in 0 .. n - 1 : g[i + 1] = g[i] \o f[i + 1]
  BY <1>6 DEF Flattens
<1> DEFINE S == {k \in 0 .. n : Prompts(ps, g[k], k)}
<1>8. 0 \in S
  <2>1. Len(<<>>) = 0 /\ 1 .. 0 = {} /\ 0 .. 0 - 1 = {}
    OBVIOUS
  <2>2. ASSUME NEW s \in Seqs PROVE TokensOf(<<>>, s) = <<>>
    <3>1. FlattenSeq([i \in 1 .. 0 |-> <<>>]) = <<>>
      BY FlattenNothing
    <3>2. [i \in 1 .. 0 |-> IF <<>>[i].seq = s THEN << <<>>[i].tok >> ELSE <<>>] = [i \in 1 .. 0 |-> <<>>]
      BY <2>1
    <3> QED
      BY <2>1, <3>1, <3>2 DEF TokensOf
  <2>3. Prompts(ps, g[0], 0)
    BY <1>7, <2>1, <2>2 DEF Prompts
  <2> QED
    BY <2>3
<1>9. ASSUME NEW k \in 0 .. n - 1, k \in S PROVE k + 1 \in S
  <2>1. k \in 0 .. n /\ k + 1 \in 1 .. n
    OBVIOUS
  <2>2. PICK a \in Seq(E) : a = g[k]
    BY <1>7, <2>1
  <2>3. PICK x \in Seq(E) : x = f[k + 1]
    BY <1>5, <2>1
  <2>4. a = g[k] /\ x = f[k + 1]
    BY <2>2, <2>3
  <2>5. k \in Nat /\ k \in DOMAIN ps /\ k + 1 \in 1 .. n /\ k + 1 - 1 = k /\ k + 1 \in 0 .. n
    <3>1. k \in DOMAIN ps
      BY ONLY <1>1, k \in 0 .. n - 1
    <3>2. k \in Nat /\ k + 1 \in 1 .. n /\ k + 1 - 1 = k /\ k + 1 \in 0 .. n
      OBVIOUS
    <3> QED
      BY <3>1, <3>2
  <2>6. x = PromptEntries(ps, k)
    BY <1>2, <2>4, <2>5
  <2>7. Prompts(ps, a, k)
    BY <1>9, <2>4
  <2>8. Prompts(ps, a \o x, k + 1)
    BY <2>5, <2>6, <2>7, PromptsGrow
  <2>9. g[k + 1] = a \o x
    BY <1>7, <2>4
  <2> QED
    BY <2>5, <2>8, <2>9
<1> HIDE DEF S
<1>10. n \in S
  <2>1. 0 .. n \subseteq S
    BY <1>8, <1>9, UpTo
  <2> QED
    BY <2>1
<1>11. Prompts(ps, g[n], n) /\ g[n] \in Seq(E)
  BY <1>7, <1>10 DEF S
<1> QED
  BY <1>1, <1>3, <1>6, <1>11 DEF IsBatch

\* Their last tokens stand where last_logits_idx says.
LEMMA PromptFeeds ==
  ASSUME NEW ps, IsList(ps), Len(PromptBatch(ps)) <= NBatch
  PROVE  Feeds(PromptBatch(ps), ps, LastIndex(ps), DOMAIN ps)
<1>1. PICK b : b = PromptBatch(ps) /\ IsBatch(b) /\ Prompts(ps, b, Cardinality(DOMAIN ps))
  BY PromptsAll
<1>2. PICK n \in Nat : n = Len(b)
  BY <1>1 DEF IsBatch
<1>3. DOMAIN ps = 0 .. Cardinality(DOMAIN ps) - 1 /\ DOMAIN ps \subseteq Seqs
  BY DEF IsList
<1>4. /\ \A j \in 1 .. n : b[j].seq \in DOMAIN ps
      /\ \A i \in 1 .. n : b[i].out => \A j \in 1 .. n : b[j].seq = b[i].seq => j <= i
      /\ \A s \in DOMAIN ps : \E i \in 1 .. n : b[i].seq = s /\ b[i].out
      /\ \A s \in Seqs : TokensOf(b, s) = IF s \in DOMAIN ps THEN ps[s] ELSE <<>>
  BY <1>1, <1>2, <1>3, Zenon DEF Prompts
<1>5. LastOnly(b)
  BY <1>2, <1>3, <1>4 DEF LastOnly, Outputs, Entries
<1>6. ASSUME NEW s \in DOMAIN ps
      PROVE  LastIndex(ps)[s] \in Outputs(b) /\ b[LastIndex(ps)[s]].seq = s
  <2>1. PICK i \in 1 .. n : b[i].seq = s /\ b[i].out /\ \A j \in 1 .. n : b[j].seq = s => j <= i
    <3>1. PICK r \in 1 .. n : b[r].seq = s /\ b[r].out
      BY <1>4
    <3>2. \A j \in 1 .. n : b[j].seq = s => j <= r
      BY <1>4, <3>1
    <3> QED
      BY <3>1, <3>2
  <2>2. PICK F : F = {j \in 1 .. n : b[j].seq = s}
    OBVIOUS
  <2>3. Max(F) = i
    <3>1. i \in F /\ \A j \in F : i >= j
      BY <2>1, <2>2
    <3>2. \A x \in F : (\A j \in F : x >= j) => x = i
      BY <2>1, <2>2, <3>1
    <3> QED
      BY <3>1, <3>2 DEF Max
  <2>4. LastIndex(ps)[s] = Max(F)
    BY <1>1, <1>2, <2>2 DEF LastIndex
  <2> QED
    BY <1>2, <2>1, <2>3, <2>4 DEF Outputs
<1> QED
  BY <1>1, <1>4, <1>5, <1>6 DEF Feeds

-----------------------------------------------------------------------------
(* The generations and the context.                                        *)

JobFields == {"on", "prompts", "max", "active", "first", "toks", "read"}

\* While a batch runs some of its sequences do, and no generation is alone.
Runs(j) == /\ DOMAIN j = JobFields /\ j.on /\ j.active \in SUBSET Seqs /\ j.active # {}
Jobs    == job = Idle \/ (Runs(job) /\ sole = Nobody)

\* The context follows `base` and the own tokens of generation g.
Goes(c, base, g, st) ==
  /\ c.mem[0] = base \o Own(g, Len(st.took)) /\ Follows(c)
  /\ st.accepted = Own(g, Len(st.took))

\* The generation that is alone, if there is one.
Sole ==
  \A g \in Gens : sole.gen = g =>
    /\ ~Free(g) /\ \E V : sole.base \in Seq(V)
    /\ ~gens[g].done => Goes(ctx, sole.base, g, gens[g])

\* Unless nothing was decoded or a decode failed in the middle, there is a row
\* to sample from.
Ready(c, none) == ~none => HasRow(c, -1)
Aborts == KnownAborts /\ (dead = "" => Ready(ctx, blank))

\* The inductive invariant.
Contexts == Streams /\ CtxOK(ctx) /\ Jobs /\ Sole /\ Aborts

\* The last row is there as soon as there is one.
LEMMA HasLast ==
  ASSUME NEW c, c.nOut \in Nat \ {0}
  PROVE  HasRow(c, -1)
BY DEF HasRow, Row

\* Whether there is one depends on n_outputs alone.
LEMMA SameLast ==
  ASSUME NEW c, NEW d, d.nOut = c.nOut
  PROVE  HasRow(c, -1) => HasRow(d, -1)
<1>1. PICK m : m = -1 /\ m < 0
  OBVIOUS
<1>2. Row(c, m) = c.nOut + 1 + m /\ Row(d, m) = d.nOut + 1 + m
  BY <1>1 DEF Row
<1>3. HasRow(c, m) => HasRow(d, m)
  BY <1>2, Zenon DEF HasRow
<1> QED
  BY <1>1, <1>3

\* The next token of a generation.
LEMMA OwnMore ==
  ASSUME NEW g, NEW n \in Nat
  PROVE  /\ Own(g, n) \in Seq({g} \X Nat) /\ Own(g, 0) = <<>>
         /\ Own(g, n + 1) = Append(Own(g, n), <<g, n + 1>>)
         /\ Own(g, n + 1) = Own(g, n) \o << <<g, n + 1>> >>
<1>1. Own(g, n) \in Seq({g} \X Nat) /\ Len(Own(g, n)) = n
  BY DEF Own
<1>2. Own(g, 0) = <<>>
  BY DEF Own
<1>3. PICK s \in Seq({g} \X Nat), e \in {g} \X Nat : s = Own(g, n) /\ Len(s) = n /\ e = <<g, n + 1>>
  <2>1. <<g, n + 1>> \in {g} \X Nat
    OBVIOUS
  <2> QED
    BY <1>1, <2>1
<1>4. Append(s, e) = Own(g, n + 1)
  <2>1. Append(s, e) = [i \in 1 .. n + 1 |-> IF i = n + 1 THEN e ELSE s[i]]
    BY <1>3
  <2>2. \A i \in 1 .. n : s[i] = <<g, i>>
    BY <1>3 DEF Own
  <2> QED
    BY <1>3, <2>1, <2>2 DEF Own
<1>5. Append(s, e) = s \o <<e>>
  OBVIOUS
<1> QED
  BY <1>1, <1>2, <1>3, <1>4, <1>5

\* Nothing is claimed of a context that nobody has to himself.
LEMMA NobodySole ==
  ASSUME sole' = Nobody
  PROVE  Sole'
BY GensAssumption DEF Sole, Nobody

\* A stream is not the absent one.
LEMMA StreamLives ==
  ASSUME NEW st, Stream(st)
  PROVE  st # NoGen
<1>1. "buf" \in DOMAIN st
  BY DEF Stream, Fields
<1>2. "buf" \notin DOMAIN NoGen
  BY DEF NoGen
<1> QED
  BY <1>1, <1>2

\* A generation has ended.
LEMMA DoneSole ==
  ASSUME Sole, Streams, NEW g \in Gens, NEW st, Stream(st), st.done,
         gens' = [gens EXCEPT ![g] = st],
         sole' = Mine(g) \/ (sole' = sole /\ ctx' = ctx)
  PROVE  Sole'
<1>1. gens'[g] = st /\ \A h \in Gens : h # g => gens'[h] = gens[h]
  BY DEF Streams
<1> SUFFICES ASSUME NEW h \in Gens, sole'.gen = h
             PROVE  /\ gens'[h] # NoGen /\ \E V : sole'.base \in Seq(V)
                    /\ ~gens'[h].done => Goes(ctx', sole'.base, h, gens'[h])
  BY DEF Sole, Free, Goes, Follows, HasRow, Row
<1>2. sole' = sole
  BY GensAssumption DEF Mine, Nobody
<1>3. ~Free(h) /\ \E V : sole.base \in Seq(V)
  BY <1>2 DEF Sole
<1>4. CASE h = g
  BY <1>1, <1>2, <1>3, <1>4, StreamLives
<1>5. CASE h # g
  <2>1. ctx' = ctx
    BY <1>2, <1>5, GensAssumption DEF Mine, Nobody
  <2>2. gens'[h] = gens[h]
    BY <1>1, <1>5
  <2>3. ~gens[h].done => Goes(ctx, sole.base, h, gens[h])
    BY <1>2 DEF Sole
  <2> QED
    BY <1>2, <1>3, <2>1, <2>2, <2>3 DEF Free
<1> QED
  BY <1>4, <1>5

\* A generation begins.
LEMMA NewSole ==
  ASSUME Streams, NEW g \in Gens, NEW n, gens' = [gens EXCEPT ![g] = NewGen(n)],
         NEW V, NEW base \in Seq(V), sole' = Alone(g, base),
         ctx'.mem[0] = base, Follows(ctx')
  PROVE  Sole'
<1>1. gens'[g] = NewGen(n) /\ sole'.gen = g /\ sole'.base = base
  BY DEF Streams, Alone
<1>2. PICK st : st = NewGen(n)
  OBVIOUS
<1>3. st.took = <<>> /\ st.accepted = <<>> /\ Len(<<>>) = 0
  BY <1>2 DEF NewGen
<1>4. Own(g, 0) = <<>> /\ base \o <<>> = base
  <2>1. Own(g, 0) = <<>>
    BY DEF Own
  <2> QED
    BY <2>1
<1>5. Goes(ctx', base, g, st)
  BY <1>3, <1>4 DEF Goes
<1>6. st # NoGen
  BY <1>2, StreamNew, StreamLives
<1> SUFFICES ASSUME NEW h \in Gens, sole'.gen = h
             PROVE  /\ gens'[h] # NoGen /\ \E W : sole'.base \in Seq(W)
                    /\ ~gens'[h].done => Goes(ctx', sole'.base, h, gens'[h])
  BY DEF Sole, Free, Goes, Follows, HasRow, Row
<1> QED
  BY <1>1, <1>2, <1>5, <1>6

\* What the prefill of a prompt leaves.
LEMMA PrefillLeaves ==
  ASSUME CtxOK(ctx), NEW p, Prompt(p)
  PROVE  /\ ~TooLarge(p)
         /\ PrefillDone(p) => /\ CtxOK(ctx') /\ ctx'.mem[0] = p /\ ~blank'
                              /\ ctx'.nOut = 1 /\ ctx'.rows[1] = 0
         /\ PrefillFails(p) =>
              /\ CtxOK(ctx')
              /\ \/ blank'
                 \/ ctx'.nOut = 1
                 \/ (blank' <=> blank) /\ ctx'.nOut = ctx.nOut /\ ctx'.mem[0] = <<>>
<1>1. PICK V : p \in Seq(V) /\ p # <<>>
  BY DEF Prompt
<1>2. PICK m \in Nat \ {0} :
        /\ m = Len(Chunks(p)) /\ Until(p, 0) = 0 /\ Until(p, m) = Len(p)
        /\ \A k \in 0 .. m - 1 : IsChunk(p, V, k, Chunks(p)[k + 1])
  BY <1>1, ChunksAre
<1>3. ASSUME NEW n \in 1 .. m
      PROVE  \E k \in 0 .. m - 1 : k = n - 1 /\ n = k + 1
  BY <1>3
<1>4. ASSUME NEW n \in 0 .. m PROVE Filled(p, n, Prefilled(p, n))
  BY <1>1, <1>2, PrefilledFills
<1>5. ~TooLarge(p)
  <2>1. ASSUME NEW n \in 1 .. m PROVE ~(Len(Chunks(p)[n]) > NBatch)
    <3>1. PICK k \in 0 .. m - 1 : n = k + 1
      BY <1>3
    <3>2. PICK x \in Seq(V) : x = Chunks(p)[n] /\ Len(x) <= NBatch
      BY <1>2, <3>1 DEF IsChunk
    <3> QED
      BY <3>2, SeqsAre
  <2> QED
    BY <1>2, <2>1 DEF TooLarge
<1>6. ASSUME PrefillDone(p)
      PROVE  /\ CtxOK(ctx') /\ ctx'.mem[0] = p /\ ~blank'
             /\ ctx'.nOut = 1 /\ ctx'.rows[1] = 0
  <2>1. ctx' = Prefilled(p, m) /\ ~blank'
    BY <1>2, <1>6 DEF PrefillDone
  <2>2. Filled(p, m, ctx')
    BY <1>4, <2>1
  <2>3. SubSeq(p, 1, Len(p)) = p
    BY <1>1, SubSeqFull
  <2> QED
    BY <1>2, <2>1, <2>2, <2>3 DEF Filled
<1>7. ASSUME PrefillFails(p)
      PROVE  /\ CtxOK(ctx')
             /\ \/ blank'
                \/ ctx'.nOut = 1
                \/ (blank' <=> blank) /\ ctx'.nOut = ctx.nOut /\ ctx'.mem[0] = <<>>
  <2>1. PICK n \in 1 .. m :
          \/ ctx' = Prefilled(p, n - 1) /\ blank' = (blank /\ n = 1)
          \/ (\E k : ctx' = Broken(Prefilled(p, n - 1), GetOne(Chunks(p)[n]), k)) /\ blank'
    BY <1>2, <1>7 DEF PrefillFails
  <2>2. PICK k \in 0 .. m - 1 : k = n - 1 /\ n = k + 1
    BY <1>3
  <2>3. PICK c : c = Prefilled(p, k) /\ Filled(p, k, c) /\ CtxOK(c)
    BY <1>4 DEF Filled
  <2>4. CASE ctx' = Prefilled(p, n - 1) /\ blank' = (blank /\ n = 1)
    <3>1. ctx' = c
      BY <2>2, <2>3, <2>4
    <3>2. CASE k = 0
      <4>1. SubSeq(p, 1, 0) = <<>>
        BY SubSeqEmpty
      <4>2. c.mem[0] = <<>> /\ c.nOut = ctx.nOut
        BY <1>2, <2>3, <3>2, <4>1 DEF Filled
      <4>3. blank' <=> blank
        <5>1. n = 1
          BY <2>2, <3>2
        <5> QED
          BY <2>4, <5>1
      <4> QED
        BY <2>3, <3>1, <4>2, <4>3
    <3>3. CASE k # 0
      BY <2>3, <3>1, <3>3 DEF Filled
    <3> QED
      BY <3>2, <3>3
  <2>5. CASE (\E i : ctx' = Broken(Prefilled(p, n - 1), GetOne(Chunks(p)[n]), i)) /\ blank'
    <3>1. PICK x \in Seq(V) : x = Chunks(p)[n] /\ x # <<>>
      BY <1>2, <2>2 DEF IsChunk
    <3>2. PICK b : b = GetOne(x) /\ IsBatch(b)
      BY <3>1, GetOneIs DEF OneOf
    <3>3. \A i : CtxOK(Broken(c, b, i))
      BY <2>3, <3>2, DecodedOK
    <3> QED
      BY <2>2, <2>3, <2>5, <3>1, <3>2, <3>3
  <2> QED
    BY <2>1, <2>4, <2>5
<1> QED
  BY <1>5, <1>6, <1>7

\* What a decode of a batch of sequences and the sampling after it leave.
LEMMA DecodeLeaves ==
  ASSUME NEW c, CtxOK(c), Ready(c, blank), dead = "", gens' = gens, sole' = Nobody,
         NEW j, Runs(j), NEW b, IsBatch(b), NEW idx,
         \A s \in j.active : HasRow(Decoded(c, b), idx[s]) /\ Decoded(c, b).nOut \in Nat \ {0},
         DecodeAndSample(c, j, b, idx)
  PROVE  CtxOK(ctx') /\ Jobs' /\ Aborts'
<1>1. PICK d : d = Decoded(c, b) /\ CtxOK(d) /\ HasRow(d, -1) /\ d.nOut \in Nat \ {0}
  BY DecodedOK, HasLast DEF Runs
<1>2. \A x, f : Ready(x, f)' <=> Ready(x, f)
  BY DEF Ready, HasRow, Row
<1>3. CASE \E eog \in SUBSET j.active : SampleEach(d, j, eog, idx) /\ ~blank' /\ dead' = dead
  <2>1. PICK eog \in SUBSET j.active : SampleEach(d, j, eog, idx) /\ ~blank' /\ dead' = dead
    BY <1>3
  <2>2. PICK stops : /\ stops \subseteq j.active /\ ctx' = Without(d, stops)
                     /\ job' = Idle \/ Runs(job')
    <3> DEFINE took(s)  == s \in j.active \ eog /\ j.max > 0
               toks     == [s \in DOMAIN j.toks |->
                              IF took(s) THEN Append(j.toks[s], <<s, Len(j.toks[s]) + 1>>)
                              ELSE j.toks[s]]
               ends     == {s \in j.active : ~took(s) \/ Len(toks[s]) >= j.max}
               stops    == IF j.first THEN {s \in j.active : ~took(s)} ELSE ends
               read(r)  == [s \in DOMAIN r |->
                              IF s \in j.active THEN d.rows[Row(d, idx[s])] ELSE r[s]]
    <3>1. stops \subseteq j.active /\ ctx' = Without(d, stops)
      BY <2>1 DEF SampleEach
    <3>2. job' = IF j.active = stops THEN Idle
                 ELSE [j EXCEPT !.toks = toks, !.active = @ \ stops, !.first = FALSE,
                                !.read = [s \in DOMAIN @ |->
                                   IF s \in j.active THEN d.rows[Row(d, idx[s])] ELSE @[s]]]
      BY <2>1 DEF SampleEach
    <3> HIDE DEF toks, stops
    <3>3. CASE j.active # stops
      <4>1. PICK k : k = [j EXCEPT !.toks = toks, !.active = @ \ stops, !.first = FALSE,
                                !.read = [s \in DOMAIN @ |->
                                   IF s \in j.active THEN d.rows[Row(d, idx[s])] ELSE @[s]]]
        OBVIOUS
      <4>2. DOMAIN k = JobFields /\ k.on /\ k.active = j.active \ stops
        BY <4>1 DEF Runs, JobFields
      <4>3. Runs(k)
        BY <3>1, <3>3, <4>2 DEF Runs
      <4> QED
        BY <3>1, <3>2, <3>3, <4>1, <4>3
    <3>4. CASE j.active = stops
      BY <3>1, <3>2, <3>4
    <3> QED
      BY <3>3, <3>4
  <2>3. CtxOK(ctx') /\ ctx'.nOut = d.nOut
    BY <1>1, <2>2, WithoutOK
  <2>4. HasRow(ctx', -1)
    <3>1. PICK e : e = ctx' /\ e.nOut \in Nat \ {0}
      BY <1>1, <2>3
    <3> QED
      BY <3>1, HasLast
  <2>5. Aborts'
    <3>1. KnownAborts'
      BY <2>1 DEF KnownAborts
    <3>2. Ready(ctx, blank)'
      BY <2>4 DEF Ready
    <3> QED
      BY <3>1, <3>2 DEF Aborts
  <2>6. Jobs'
    BY <2>2 DEF Jobs, Runs
  <2> QED
    BY <2>3, <2>5, <2>6
<1>4. CASE (\E k : ctx' = Broken(c, b, k)) /\ job' = Idle /\ blank' /\ dead' = dead
  <2>1. CtxOK(ctx')
    BY <1>4, DecodedOK
  <2> QED
    BY <1>4, <2>1 DEF Jobs, Aborts, Ready, KnownAborts
<1>5. CASE ctx' = c /\ job' = Idle /\ blank' = blank /\ dead' = dead
  BY <1>5 DEF Jobs, Aborts, Ready, KnownAborts, HasRow, Row
<1> QED
  BY <1>1, <1>3, <1>4, <1>5 DEF DecodeAndSample

\* Calls from R find no batch running.
LEMMA CalmJobs ==
  ASSUME Jobs, Calm, job' = job
  PROVE  job = Idle /\ Jobs'
BY DEF Jobs, Calm, Runs, Idle

\* A call that leaves the context leaves its rows.
LEMMA KeptAborts ==
  ASSUME Aborts, ctx' = ctx, blank' = blank, dead' = dead
  PROVE  Aborts'
<1>1. dead = "" /\ ~blank => HasRow(ctx, -1)
  BY DEF Aborts, Ready
<1>2. dead' = "" => Ready(ctx, blank)'
  BY <1>1 DEF Ready
<1> QED
  BY <1>2 DEF Aborts, KnownAborts

\* After a failure, or with a row at hand, the next sampling is accounted for.
LEMMA RowAborts ==
  ASSUME dead = "", dead' = dead, blank' \/ HasRow(ctx', -1)
  PROVE  Aborts'
<1>1. Ready(ctx, blank)'
  BY DEF Ready
<1> QED
  BY <1>1 DEF Aborts, KnownAborts

\* llama_gen_next() keeps the context with its own generation ...
LEMMA SampledContext ==
  ASSUME Contexts, NEW g \in Gens, NEW x, NextToken(g, x)
  PROVE  CtxOK(ctx') /\ Sole' /\ Aborts'
<1>1. PICK st : st = gens[g] /\ Stream(st)
  BY DEF NextToken, Samples, Contexts, Streams
<1>2. PICK n \in Nat : n = Len(st.took) /\ n + 1 = Len(Append(st.took, x))
  BY <1>1 DEF Stream
<1>3. PICK t : t = Fresh(g) /\ t = <<g, n + 1>>
  BY <1>1, <1>2 DEF Fresh
<1>4. PICK p \in Seq({t}) : p = <<t>> /\ p # <<>>
  <2>1. <<t>> \in Seq({t}) /\ <<t>> # <<>>
    OBVIOUS
  <2> QED
    BY <2>1
<1>5. PICK b : b = GetOne(p) /\ OneOf(b, p, Len(p))
  BY <1>4, GetOneIs
<1>6. PICK d : d = ctx' /\ d = Decoded(ctx, b)
  BY <1>3, <1>4, <1>5 DEF NextToken
<1>7. Continues(ctx, d, p)
  BY <1>4, <1>5, <1>6, DecodedOne DEF Contexts
<1>8. CtxOK(d) /\ d.mem[0] = ctx.mem[0] \o p /\ d.nOut = 1 /\ d.rows[1] = 0
  BY <1>7 DEF Continues
<1>9. HasRow(d, -1) /\ Follows(d)
  BY <1>8, OneFollows
<1>10. Aborts'
  BY <1>6, <1>9, RowAborts DEF NextToken, Samples, Calm
<1>11. PICK o : o = Spoken(Sampled(g, x))
  OBVIOUS
<1>12. gens'[g] = o /\ \A h \in Gens : h # g => gens'[h] = gens[h]
  BY <1>11 DEF NextToken, Contexts, Streams
<1>13. /\ o.took = Append(st.took, x) /\ o.accepted = Append(st.accepted, t)
       /\ o.done = st.done
  <2>1. PICK m : m = Sampled(g, x)
    OBVIOUS
  <2>2. /\ DOMAIN m = Fields /\ m.took = Append(st.took, x)
        /\ m.accepted = Append(st.accepted, t) /\ m.done = st.done
    BY <1>1, <1>3, <2>1 DEF Sampled, Stream, Fields
  <2> QED
    BY <1>11, <2>1, <2>2 DEF Spoken, Fields
<1>14. Sole'
  <2> SUFFICES ASSUME NEW h \in Gens, sole'.gen = h
               PROVE  /\ gens'[h] # NoGen /\ \E V : sole'.base \in Seq(V)
                      /\ ~gens'[h].done => Goes(ctx', sole'.base, h, gens'[h])
    BY DEF Sole, Free, Goes, Follows, HasRow, Row
  <2>1. sole' = sole /\ h = g
    BY GensAssumption DEF NextToken, Mine, Nobody
  <2>2. PICK base, V : base = sole.base /\ base \in Seq(V)
    BY <2>1 DEF Contexts, Sole
  <2>3. ~st.done => ctx.mem[0] = base \o Own(g, n) /\ st.accepted = Own(g, n)
    BY <1>1, <1>2, <2>1, <2>2 DEF Contexts, Sole, Goes
  <2>4. PICK w, v : /\ w = Own(g, n) /\ v = Own(g, n + 1) /\ v = w \o p /\ v = Append(w, t)
                    /\ w \in Seq({g} \X Nat)
    BY <1>2, <1>3, <1>4, OwnMore
  <2>5. (base \o w) \o p = base \o (w \o p)
    <3>1. PICK W : W = V \cup ({g} \X Nat) \cup {t}
      OBVIOUS
    <3>2. base \in Seq(W) /\ w \in Seq(W) /\ p \in Seq(W)
      BY <1>4, <2>2, <2>4, <3>1
    <3> QED
      BY <3>2, ConcatAssociative
  <2>6. ~o.done => Goes(d, base, g, o)
    <3>1. ~o.done => d.mem[0] = base \o v /\ o.accepted = v
      BY <1>8, <1>13, <2>3, <2>4, <2>5
    <3>2. Len(o.took) = n + 1
      BY <1>2, <1>13
    <3> QED
      BY <1>9, <2>4, <3>1, <3>2 DEF Goes
  <2>7. o # NoGen
    <3>1. DOMAIN o = Fields
      <4>1. PICK m : m = Sampled(g, x)
        OBVIOUS
      <4>2. DOMAIN m = Fields
        BY <1>1, <4>1 DEF Sampled, Stream
      <4> QED
        BY <1>11, <4>1, <4>2 DEF Spoken
    <3> QED
      BY <3>1 DEF NoGen, Fields
  <2> QED
    BY <1>6, <1>12, <2>1, <2>2, <2>6, <2>7
<1> QED
  BY <1>6, <1>8, <1>10, <1>14

\* ... and loses nothing of the invariant if the decode fails.
LEMMA FailedContext ==
  ASSUME Contexts, NEW g \in Gens, NEW x \in Seq(Bytes), NextFails(g, x)
  PROVE  CtxOK(ctx') /\ Sole' /\ Aborts'
<1>1. PICK t : t = Fresh(g)
  OBVIOUS
<1>2. PICK p \in Seq({t}) : p = <<t>> /\ p # <<>>
  <2>1. <<t>> \in Seq({t}) /\ <<t>> # <<>>
    OBVIOUS
  <2> QED
    BY <2>1
<1>3. PICK b : b = GetOne(p) /\ IsBatch(b)
  BY <1>2, GetOneIs DEF OneOf
<1>4. \/ ctx' = Broken(ctx, b, 1) /\ blank'
      \/ ctx' = ctx /\ blank' = blank
  BY <1>1, <1>3, <1>2 DEF NextFails
<1>5. CtxOK(ctx')
  BY <1>3, <1>4, DecodedOK DEF Contexts
<1>6. PICK st : st = [Sampled(g, x) EXCEPT !.done = TRUE, !.failed = TRUE]
  OBVIOUS
<1>7. Stream(st) /\ st.done
  <2>1. Stream(st)
    BY <1>6, StreamSampled DEF NextFails, Samples, Contexts
  <2>2. st.done = TRUE
    BY <1>6, <2>1 DEF Stream, Fields
  <2> QED
    BY <2>1, <2>2
<1>8. Sole'
  BY <1>6, <1>7, DoneSole DEF NextFails, Contexts
<1>9. Aborts'
  <2>1. dead = "" /\ dead' = dead /\ ~Free(g)
    BY DEF NextFails, Samples, Calm
  <2> QED
    BY <1>4, <2>1, KeptAborts, RowAborts DEF Contexts
<1> QED
  BY <1>5, <1>8, <1>9

\* llama_gen_begin(): the prefill, complete or failed.
LEMMA BegunContext ==
  ASSUME Contexts, NEW g \in Gens, NEW p, Prompt(p), NEW n, Begin(g, p, n)
  PROVE  CtxOK(ctx') /\ Sole' /\ Aborts'
<1>1. /\ dead = "" /\ dead' = dead
      /\ \/ PrefillDone(p) /\ gens' = [gens EXCEPT ![g] = NewGen(n)] /\ sole' = Alone(g, p)
         \/ PrefillFails(p) /\ sole' = Nobody /\ gens' = gens
  <2>1. ~TooLarge(p)
    BY PrefillLeaves DEF Contexts
  <2> QED
    BY <2>1 DEF Begin, Calm
<1>2. CASE PrefillDone(p) /\ gens' = [gens EXCEPT ![g] = NewGen(n)] /\ sole' = Alone(g, p)
  <2>1. PICK d : d = ctx' /\ CtxOK(d) /\ d.mem[0] = p /\ d.nOut = 1 /\ d.rows[1] = 0
    BY <1>2, PrefillLeaves DEF Contexts
  <2>2. HasRow(d, -1) /\ Follows(d)
    BY <2>1, OneFollows
  <2>3. Aborts'
    BY <1>1, <2>1, <2>2, RowAborts
  <2>4. PICK V : p \in Seq(V)
    BY DEF Prompt
  <2>5. Sole'
    BY <1>2, <2>1, <2>2, <2>4, NewSole DEF Contexts
  <2> QED
    BY <2>1, <2>3, <2>5
<1>3. CASE PrefillFails(p) /\ sole' = Nobody /\ gens' = gens
  <2>1. PICK d : /\ d = ctx' /\ CtxOK(d)
                 /\ \/ blank' \/ d.nOut = 1
                    \/ (blank' <=> blank) /\ d.nOut = ctx.nOut /\ d.mem[0] = <<>>
    BY <1>3, PrefillLeaves DEF Contexts
  <2>2. CASE blank' \/ d.nOut = 1
    <3>1. blank' \/ HasRow(d, -1)
      BY <2>2, OneFollows
    <3> QED
      BY <1>1, <1>3, <2>1, <3>1, RowAborts, NobodySole
  <2>3. CASE (blank' <=> blank) /\ d.nOut = ctx.nOut /\ d.mem[0] = <<>>
    <3>1. Ready(ctx, blank)
      BY <1>1 DEF Contexts, Aborts
    <3>2. HasRow(ctx, -1) => HasRow(d, -1)
      BY <2>3, SameLast
    <3>3. ~blank' => HasRow(d, -1)
      BY <2>3, <3>1, <3>2 DEF Ready
    <3>4. Ready(ctx, blank)'
      BY <2>1, <3>3 DEF Ready
    <3>5. Aborts'
      BY <1>1, <3>4 DEF Aborts, KnownAborts
    <3> QED
      BY <1>3, <2>1, <3>5, NobodySole
  <2> QED
    BY <2>1, <2>2, <2>3
<1> QED
  BY <1>1, <1>2, <1>3

\* llama_gen_begin_at(): the context as another call left it.
LEMMA BegunAtContext ==
  ASSUME Contexts, NEW g \in Gens, NEW n, BeginAt(g, n)
  PROVE  CtxOK(ctx') /\ Sole' /\ Aborts'
<1>1. /\ ctx' = ctx /\ blank' = blank /\ dead = "" /\ dead' = dead
      /\ gens' = [gens EXCEPT ![g] = NewGen(n)]
  BY DEF BeginAt, Calm
<1>2. Aborts'
  BY <1>1, KeptAborts DEF Contexts
<1>3. CASE sole' = Nobody
  BY <1>1, <1>2, <1>3, NobodySole DEF Contexts
<1>4. CASE Follows(ctx) /\ sole' = Alone(g, ctx.mem[0])
  <2>1. PICK V : ctx.mem \in [Seqs -> Seq(V)]
    BY DEF Contexts, CtxOK, MemOK
  <2>2. PICK base \in Seq(V) : base = ctx.mem[0]
    BY <2>1, SeqsAre
  <2>3. Follows(ctx') /\ ctx'.mem[0] = base
    BY <1>1, <1>4, <2>2
  <2>4. Sole'
    BY <1>1, <1>4, <2>2, <2>3, NewSole DEF Contexts
  <2> QED
    BY <1>1, <1>2, <2>4 DEF Contexts
<1> QED
  BY <1>3, <1>4 DEF BeginAt, Follows

\* The memory is cleared, as it is before a batch of prompts.
LEMMA ClearedReady ==
  ASSUME Contexts, dead = ""
  PROVE  CtxOK(Cleared(ctx)) /\ Ready(Cleared(ctx), blank)
<1>1. PICK d : d = Cleared(ctx) /\ CtxOK(d) /\ d.nOut = ctx.nOut /\ d.mem[0] = <<>>
  <2>1. PICK d : d = Without(ctx, Seqs)
    OBVIOUS
  <2>2. CtxOK(d) /\ d.nOut = ctx.nOut /\ \A s \in Seqs : d.mem[s] = IF s \in Seqs THEN <<>> ELSE ctx.mem[s]
    BY <2>1, WithoutOK DEF Contexts
  <2> QED
    BY <2>1, <2>2, SeqsAre DEF Cleared
<1>2. HasRow(ctx, -1) => HasRow(d, -1)
  BY <1>1, SameLast
<1>3. Ready(ctx, blank)
  BY DEF Contexts, Aborts
<1>4. Ready(d, blank)
  BY <1>1, <1>2, <1>3 DEF Ready
<1> QED
  BY <1>1, <1>4

\* The memory is restored.
LEMMA RestoredReady ==
  ASSUME Contexts, dead = "", NEW p, Prompt(p)
  PROVE  CtxOK(Restored(ctx, p)) /\ Ready(Restored(ctx, p), blank)
<1>1. PICK V : p \in Seq(V)
  BY DEF Prompt
<1>2. PICK mem : mem = [s \in Seqs |-> IF s = 0 THEN p ELSE <<>>]
  OBVIOUS
<1>3. mem \in [Seqs -> Seq(V)]
  <2>1. PICK none : none = <<>> /\ none \in Seq(V)
    <3>1. <<>> \in Seq(V)
      BY EmptySeq
    <3> QED
      BY <3>1
  <2>2. mem = [s \in Seqs |-> IF s = 0 THEN p ELSE none]
    BY <1>2, <2>1
  <2> QED
    BY <1>1, <2>1, <2>2
<1>4. PICK rows : rows = Aged(ctx, mem)
  OBVIOUS
<1>5. Restored(ctx, p) = [ctx EXCEPT !.mem = mem, !.rows = rows]
  BY <1>2, <1>4 DEF Restored
<1>6. PICK d : d = Restored(ctx, p)
  OBVIOUS
<1>7. DOMAIN d = CtxFields /\ d.mem = mem /\ d.nOut = ctx.nOut
  BY <1>5, <1>6 DEF Contexts, CtxOK, CtxFields
<1>8. CtxOK(d)
  BY <1>3, <1>7 DEF CtxOK, MemOK
<1>9. HasRow(ctx, -1) => HasRow(d, -1)
  BY <1>7, SameLast
<1>10. Ready(d, blank)
  BY <1>9 DEF Contexts, Aborts, Ready
<1> QED
  BY <1>6, <1>8, <1>10

\* llama_generate_batch(): the first decode, of all prompts.
LEMMA BatchBegun ==
  ASSUME Contexts, NEW ps, IsList(ps), NEW max, BatchBegin(ps, max)
  PROVE  CtxOK(ctx') /\ Jobs' /\ Sole' /\ Aborts'
<1>1. dead = "" /\ job = Idle /\ sole' = Nobody /\ gens' = gens
  BY DEF BatchBegin, Calm, Contexts, Jobs, Runs
<1>2. CASE /\ Len(PromptBatch(ps)) > NBatch
           /\ dead' = "prompts too large" /\ ctx' = ctx /\ job' = job /\ blank' = blank
  BY <1>1, <1>2, NobodySole DEF Contexts, Jobs, Aborts, KnownAborts
<1>3. ASSUME NEW j,
             j = [on |-> TRUE, prompts |-> ps, max |-> max, active |-> DOMAIN ps, first |-> TRUE,
                  toks |-> [s \in DOMAIN ps |-> <<>>], read |-> [s \in DOMAIN ps |-> Stale]],
             ~(Len(PromptBatch(ps)) > NBatch),
             DecodeAndSample(Cleared(ctx), j, PromptBatch(ps), LastIndex(ps))
      PROVE  CtxOK(ctx') /\ Jobs' /\ Sole' /\ Aborts'
  <2>1. Runs(j) /\ j.active = DOMAIN ps
    BY <1>3 DEF Runs, JobFields, IsList
  <2>2. IsBatch(PromptBatch(ps))
    BY PromptsAll
  <2>3. Len(PromptBatch(ps)) <= NBatch
    <3>1. Len(PromptBatch(ps)) \in Nat
      BY <2>2 DEF IsBatch
    <3> QED
      BY <1>3, <3>1, SeqsAre
  <2>4. PICK c : c = Cleared(ctx) /\ CtxOK(c) /\ Ready(c, blank)
    BY <1>1, ClearedReady
  <2>5. \A s \in j.active :
          /\ HasRow(Decoded(c, PromptBatch(ps)), LastIndex(ps)[s])
          /\ Decoded(c, PromptBatch(ps)).nOut \in Nat \ {0}
    <3>1. Feeds(PromptBatch(ps), ps, LastIndex(ps), DOMAIN ps)
      BY <2>3, PromptFeeds
    <3>2. Grown(c, Decoded(c, PromptBatch(ps)), ps, LastIndex(ps), DOMAIN ps)
      BY <2>4, <3>1, DecodedFeeds
    <3> QED
      BY <2>1, <3>2 DEF Grown
  <2>6. CtxOK(ctx') /\ Jobs' /\ Aborts'
    BY <1>1, <1>3, <2>1, <2>2, <2>4, <2>5, DecodeLeaves
  <2> QED
    BY <1>1, <2>6, NobodySole
<1> QED
  BY <1>2, <1>3 DEF BatchBegin

\* Its next decode, of one token for each running sequence.
LEMMA BatchStepped ==
  ASSUME Contexts, BatchStep
  PROVE  CtxOK(ctx') /\ Jobs' /\ Sole' /\ Aborts'
<1>1. /\ dead = "" /\ Runs(job) /\ sole = Nobody /\ sole' = Nobody /\ gens' = gens
      /\ CtxOK(ctx) /\ Ready(ctx, blank)
  <2>1. dead = "" /\ job.on /\ sole' = sole /\ gens' = gens
    BY DEF BatchStep
  <2>2. Runs(job) /\ sole = Nobody
    <3>1. ~Idle.on
      BY DEF Idle
    <3>2. job # Idle
      BY <2>1, <3>1
    <3> QED
      BY <3>2 DEF Contexts, Jobs
  <2> QED
    BY <2>1, <2>2 DEF Contexts, Aborts
<1>2. PICK b, idx : /\ b = StepBatch(job.toks, job.active) /\ idx = StepIndex(job.active)
                    /\ DecodeAndSample(ctx, job, b, idx)
  BY DEF BatchStep
<1>3. IsBatch(b) /\ \A s \in job.active : /\ HasRow(Decoded(ctx, b), idx[s])
                                          /\ Decoded(ctx, b).nOut \in Nat \ {0}
  <2>1. PICK q : q = [s \in job.active |-> <<Last(job.toks[s])>>]
    OBVIOUS
  <2>2. Feeds(b, q, idx, job.active)
    BY <1>1, <1>2, <2>1, StepFeeds DEF Runs
  <2>3. IsBatch(b)
    BY <2>2 DEF Feeds
  <2>4. Grown(ctx, Decoded(ctx, b), q, idx, job.active)
    BY <1>1, <2>2, DecodedFeeds
  <2> QED
    BY <2>3, <2>4 DEF Grown
<1>4. CtxOK(ctx') /\ Jobs' /\ Aborts'
  BY <1>1, <1>2, <1>3, DecodeLeaves
<1> QED
  BY <1>1, <1>4, NobodySole

-----------------------------------------------------------------------------
\* The invariant holds in the beginning ...
LEMMA InitContexts == Init => Contexts
<1> SUFFICES ASSUME Init PROVE Contexts
  OBVIOUS
<1>1. CtxOK(ctx)
  <2>1. PICK mem : mem = [s \in Seqs |-> <<>>] /\ ctx.mem = mem /\ DOMAIN ctx = CtxFields
    BY DEF Init, CtxFields
  <2>2. mem \in [Seqs -> Seq({})]
    <3>1. <<>> \in Seq({})
      OBVIOUS
    <3> QED
      BY <2>1, <3>1
  <2> QED
    BY <2>1, <2>2 DEF CtxOK, MemOK
<1>2. Jobs
  BY DEF Init, Jobs
<1>3. Sole
  BY GensAssumption DEF Init, Sole, Nobody
<1>4. Aborts
  <2>1. blank /\ dead = ""
    BY DEF Init
  <2> QED
    BY <2>1 DEF Aborts, KnownAborts, Ready
<1> QED
  BY <1>1, <1>2, <1>3, <1>4, InitStreams DEF Contexts

\* ... and every call keeps it.
LEMMA NextContexts == Contexts /\ [Next]_vars => Contexts'
<1> SUFFICES ASSUME Contexts, [Next]_vars PROVE Contexts'
  OBVIOUS
<1>1. Streams'
  BY NextStreams DEF Contexts
<1>2. /\ Handles \subseteq Gens /\ \A g \in Handles : use.vocab[g] \subseteq Seq(Bytes)
      /\ \A p \in use.prompts : Prompt(p)
      /\ \A ps \in use.lists : IsList(ps)
  BY UsesAssumption DEF Contexts, Streams, Handles, IsList
<1>3. ASSUME NEW g \in Gens, ~Free(g) PROVE Stream(gens[g])
  BY <1>3 DEF Contexts, Streams
<1>4. ASSUME Calm, job' = job PROVE Jobs'
  BY <1>4, CalmJobs DEF Contexts
<1>5. ASSUME NEW g \in Handles, NextEnded(g) PROVE Contexts'
  <2>1. PICK st : st = [gens[g] EXCEPT !.done = TRUE]
    OBVIOUS
  <2>2. /\ g \in Gens /\ ~Free(g) /\ gens' = [gens EXCEPT ![g] = st]
        /\ ctx' = ctx /\ sole' = sole /\ blank' = blank /\ dead' = dead
    BY <1>2, <1>5, <2>1 DEF NextEnded
  <2>3. Stream(st) /\ st.done
    <3>1. Stream(gens[g])
      BY <1>3, <2>2
    <3>2. Stream(st)
      BY <2>1, <3>1, StreamEnds
    <3> QED
      BY <2>1, <3>1, <3>2 DEF Stream, Fields
  <2>4. Sole' /\ Aborts'
    BY <2>2, <2>3, DoneSole, KeptAborts DEF Contexts
  <2>5. Jobs'
    BY <1>4, <1>5 DEF NextEnded
  <2> QED
    BY <1>1, <2>2, <2>4, <2>5 DEF Contexts
<1>6. ASSUME NEW g \in Handles, NextAborts(g) PROVE Contexts'
  <2>1. /\ g \in Gens /\ ~Free(g) /\ dead = "" /\ dead' = "no row" /\ ~HasRow(ctx, -1)
        /\ ctx' = ctx /\ sole' = sole /\ blank' = blank /\ gens' = gens
    BY <1>2, <1>6 DEF NextAborts, Samples, Calm
  <2>2. blank
    BY <2>1 DEF Contexts, Aborts, Ready
  <2>3. Aborts'
    BY <2>1, <2>2 DEF Aborts, KnownAborts
  <2>4. Sole'
    BY <2>1 DEF Contexts, Sole, Free, Goes, Follows, HasRow, Row
  <2>5. Jobs'
    BY <1>4, <1>6 DEF NextAborts, Samples
  <2> QED
    BY <1>1, <2>1, <2>3, <2>4, <2>5 DEF Contexts
<1>7. ASSUME NEW g \in Handles, NextEog(g) PROVE Contexts'
  <2>1. PICK a, st : a = Append(gens[g].accepted, Eog) /\ st = [gens[g] EXCEPT !.accepted = a, !.done = TRUE]
    OBVIOUS
  <2>2. /\ g \in Gens /\ ~Free(g) /\ gens' = [gens EXCEPT ![g] = st]
        /\ ctx' = ctx /\ sole' = sole /\ blank' = blank /\ dead' = dead
    BY <1>2, <1>7, <2>1 DEF NextEog, Samples
  <2>3. Stream(st) /\ st.done
    <3>1. Stream(gens[g])
      BY <1>3, <2>2
    <3>2. Stream(st)
      BY <2>1, <3>1, StreamEnds
    <3> QED
      BY <2>1, <3>1, <3>2 DEF Stream, Fields
  <2>4. Sole' /\ Aborts'
    BY <2>2, <2>3, DoneSole, KeptAborts DEF Contexts
  <2>5. Jobs'
    BY <1>4, <1>7 DEF NextEog, Samples
  <2> QED
    BY <1>1, <2>2, <2>4, <2>5 DEF Contexts
<1>8. ASSUME NEW g \in Handles, NEW x \in use.vocab[g], NextToken(g, x) \/ NextFails(g, x)
      PROVE  Contexts'
  <2>1. g \in Gens /\ x \in Seq(Bytes)
    BY <1>2
  <2>2. CtxOK(ctx') /\ Sole' /\ Aborts'
    BY <1>8, <2>1, SampledContext, FailedContext
  <2>3. Jobs'
    BY <1>4, <1>8 DEF NextToken, NextFails, Samples
  <2> QED
    BY <1>1, <2>2, <2>3 DEF Contexts, CtxOK
<1>9. ASSUME NEW g \in Handles, End(g) PROVE Contexts'
  <2>1. PICK st : st = [gens[g] EXCEPT !.done = TRUE, !.said = @ \o Sanitized(gens[g].buf),
                                      !.buf = <<>>]
    OBVIOUS
  <2>2. /\ g \in Gens /\ ~Free(g) /\ gens' = [gens EXCEPT ![g] = st]
        /\ ctx' = ctx /\ sole' = sole /\ blank' = blank /\ dead' = dead
    BY <1>2, <1>9, <2>1 DEF End
  <2>3. Stream(st) /\ st.done
    <3>1. Stream(gens[g])
      BY <1>3, <2>2
    <3>2. Stream(st)
      BY <2>1, <3>1, StreamEnds
    <3> QED
      BY <2>1, <3>1, <3>2 DEF Stream, Fields
  <2>4. Sole' /\ Aborts'
    BY <2>2, <2>3, DoneSole, KeptAborts DEF Contexts
  <2>5. Jobs'
    BY <1>4, <1>9 DEF End
  <2> QED
    BY <1>1, <2>2, <2>4, <2>5 DEF Contexts
<1>10. ASSUME NEW g \in Handles, NEW n, BeginAt(g, n) PROVE Contexts'
  <2>1. CtxOK(ctx') /\ Sole' /\ Aborts'
    BY <1>2, <1>10, BegunAtContext
  <2>2. Jobs'
    BY <1>4, <1>10 DEF BeginAt
  <2> QED
    BY <1>1, <2>1, <2>2 DEF Contexts, CtxOK
<1>11. ASSUME NEW g \in Handles, NEW n, NEW p \in use.prompts, Begin(g, p, n) PROVE Contexts'
  <2>1. CtxOK(ctx') /\ Sole' /\ Aborts'
    BY <1>2, <1>11, BegunContext
  <2>2. Jobs'
    BY <1>4, <1>11 DEF Begin
  <2> QED
    BY <1>1, <2>1, <2>2 DEF Contexts, CtxOK
<1>12. ASSUME Clear PROVE Contexts'
  <2>1. dead = "" /\ dead' = dead /\ gens' = gens /\ blank' = blank /\ sole' = Nobody
    BY <1>12 DEF Clear, Calm
  <2>2. PICK c : c = Cleared(ctx) /\ ctx' = c
    BY <1>12 DEF Clear
  <2>3. CtxOK(c) /\ Ready(c, blank)
    BY <2>1, <2>2, ClearedReady
  <2>4. Ready(ctx, blank)'
    BY <2>1, <2>2, <2>3 DEF Ready
  <2>5. Aborts'
    BY <2>1, <2>4 DEF Aborts, KnownAborts
  <2>6. Jobs'
    BY <1>4, <1>12 DEF Clear
  <2> QED
    BY <1>1, <2>1, <2>2, <2>3, <2>5, <2>6, NobodySole DEF Contexts, CtxOK
<1>13. ASSUME NEW p \in use.prompts, Generate(p) PROVE Contexts'
  <2>1. /\ dead = "" /\ dead' = dead /\ gens' = gens /\ sole' = Nobody
        /\ PrefillDone(p) \/ PrefillFails(p)
    BY <1>13 DEF Generate, Calm
  <2>2. PICK d : d = ctx'
    OBVIOUS
  <2>3. /\ CtxOK(d)
        /\ \/ blank' \/ d.nOut = 1
           \/ (blank' <=> blank) /\ d.nOut = ctx.nOut /\ d.mem[0] = <<>>
    BY <1>2, <2>1, <2>2, PrefillLeaves DEF Contexts
  <2>4. Ready(ctx, blank)
    BY <2>1 DEF Contexts, Aborts
  <2>5. Ready(ctx, blank)'
    <3>1. d.nOut = 1 => HasRow(d, -1)
      BY OneFollows
    <3>2. d.nOut = ctx.nOut /\ HasRow(ctx, -1) => HasRow(d, -1)
      BY SameLast
    <3>3. ~blank' => HasRow(d, -1)
      BY <2>3, <2>4, <3>1, <3>2 DEF Ready
    <3> QED
      BY <2>2, <3>3 DEF Ready
  <2>6. Aborts'
    BY <2>1, <2>5 DEF Aborts, KnownAborts
  <2>7. Jobs'
    BY <1>4, <1>13 DEF Generate
  <2> QED
    BY <1>1, <2>1, <2>2, <2>3, <2>6, <2>7, NobodySole DEF Contexts, CtxOK
<1>14. ASSUME NEW p \in use.prompts, Load(p) PROVE Contexts'
  <2>1. dead = "" /\ dead' = dead /\ gens' = gens /\ blank' = blank /\ sole' = Nobody
    BY <1>14 DEF Load, Calm
  <2>2. PICK c : c = Restored(ctx, p) /\ ctx' = c
    BY <1>14 DEF Load
  <2>3. CtxOK(c) /\ Ready(c, blank)
    BY <1>2, <2>1, <2>2, RestoredReady
  <2>4. Ready(ctx, blank)'
    BY <2>1, <2>2, <2>3 DEF Ready
  <2>5. Aborts'
    BY <2>1, <2>4 DEF Aborts, KnownAborts
  <2>6. Jobs'
    BY <1>4, <1>14 DEF Load
  <2> QED
    BY <1>1, <2>1, <2>2, <2>3, <2>5, <2>6, NobodySole DEF Contexts, CtxOK
<1>15. ASSUME NEW ps \in use.lists, NEW n, BatchBegin(ps, n) PROVE Contexts'
  <2>1. CtxOK(ctx') /\ Jobs' /\ Sole' /\ Aborts'
    BY <1>2, <1>15, BatchBegun
  <2> QED
    BY <1>1, <2>1 DEF Contexts, CtxOK
<1>16. ASSUME BatchStep PROVE Contexts'
  <2>1. CtxOK(ctx') /\ Jobs' /\ Sole' /\ Aborts'
    BY <1>16, BatchStepped
  <2> QED
    BY <1>1, <2>1 DEF Contexts, CtxOK
<1>17. CASE UNCHANGED vars
  <2>1. /\ ctx' = ctx /\ gens' = gens /\ job' = job /\ dead' = dead /\ sole' = sole
        /\ blank' = blank
    BY <1>17 DEF vars
  <2>2. Sole'
    BY <2>1 DEF Contexts, Sole, Free, Goes, Follows, HasRow, Row
  <2>3. Aborts'
    BY <2>1 DEF Contexts, Aborts, KnownAborts, Ready, HasRow, Row
  <2>4. Jobs'
    BY <2>1 DEF Contexts, Jobs, Runs
  <2> QED
    BY <1>1, <2>1, <2>2, <2>3, <2>4 DEF Contexts, CtxOK
<1>18. CASE \/ Clear \/ BatchStep
            \/ \E p \in use.prompts : Load(p) \/ Generate(p)
            \/ \E ps \in use.lists, n \in use.limits : BatchBegin(ps, n)
  BY <1>12, <1>13, <1>15, <1>16, <1>18, <1>14
<1>19. CASE \E g \in Handles : \/ NextEnded(g) \/ NextAborts(g) \/ NextEog(g)
                               \/ \E t \in use.vocab[g] : NextToken(g, t) \/ NextFails(g, t)
                               \/ End(g)
  BY <1>5, <1>6, <1>7, <1>8, <1>9, <1>19
<1>20. CASE \E g \in Handles : \E n \in use.budgets[g] :
              BeginAt(g, n) \/ \E p \in use.prompts : Begin(g, p, n)
  BY <1>10, <1>11, <1>20
<1> QED
  BY <1>17, <1>18, <1>19, <1>20 DEF Next

\* Whatever the calls and whichever decodes fail, the context, the batch and
\* the generations agree.
THEOREM ContextsInvariance == Spec => []Contexts
BY InitContexts, NextContexts, PTL DEF Spec

\* A generation that alone used the context samples after exactly its own text:
\* in every prefill by chunks, r_llama_gen_begin() and _next() and the rows of
\* llama_context::decode() keep them together.
THEOREM ExactCorrect == Spec => []Exact
<1>1. Contexts => Exact
  BY DEF Contexts, Sole, Goes, Follows, Exact
<1> QED
  BY <1>1, ContextsInvariance, PTL

\* The process is aborted for prompts that together exceed n_batch, and for a
\* row that is not there because nothing was decoded or a decode failed in the
\* middle, only: the prefill of a stream never exceeds n_batch, in
\* r_llama_generate_batch() every index that is sampled has a row, and no call
\* that changes the memory takes the rows away.
THEOREM KnownAbortsCorrect == Spec => []KnownAborts
<1>1. Contexts => KnownAborts
  BY DEF Contexts, Aborts
<1> QED
  BY <1>1, ContextsInvariance, PTL

-----------------------------------------------------------------------------
(* The sequences of a batch of prompts.                                    *)

\* The batch of prompts is a list, and each has its tokens and its row.
Batched(j) ==
  /\ Runs(j) /\ IsList(j.prompts) /\ j.active \subseteq DOMAIN j.prompts /\ j.max \in Int
  /\ DOMAIN j.toks = DOMAIN j.prompts /\ DOMAIN j.read = DOMAIN j.prompts
  /\ \E V : \A s \in DOMAIN j.prompts : j.toks[s] \in Seq(V)

\* No sequence has run over its limit, and one that goes on may have one token more.
Within(j) ==
  /\ j.max > 0
  /\ \A s \in DOMAIN j.prompts : Len(j.toks[s]) <= (IF j.max = 1 THEN 2 ELSE j.max)
  /\ \A s \in j.active : j.toks[s] # <<>> /\ (Len(j.toks[s]) = 1 \/ Len(j.toks[s]) < j.max)

\* Between two calls the last token of each sequence is not in the memory yet.
Between(j, c) ==
  /\ Batched(j) /\ ~j.first /\ Within(j)
  /\ \A s \in j.active : c.mem[s] = j.prompts[s] \o Front(j.toks[s]) /\ j.read[s] = s
  /\ \A s \in DOMAIN j.prompts : s \notin j.active => c.mem[s] = <<>>

\* After the decode it is, and the sequence has a row of its own.
Fed(j, d, idx) ==
  /\ Batched(j)
  /\ IF j.first THEN \A s \in DOMAIN j.prompts : s \in j.active /\ j.toks[s] = <<>> ELSE Within(j)
  /\ \A s \in j.active : d.mem[s] = j.prompts[s] \o j.toks[s] /\ d.rows[Row(d, idx[s])] = s
  /\ \A s \in DOMAIN j.prompts : s \notin j.active => d.mem[s] = <<>>

\* The inductive invariant, next to Contexts.
Apart == job.on /\ dead = "" => Between(job, ctx)

\* A sequence without its last token, and with it again.
LEMMA FrontLast ==
  ASSUME NEW V, NEW x \in Seq(V)
  PROVE  /\ \A e : Front(Append(x, e)) = x
         /\ x # <<>> => /\ Front(x) \in Seq(V) /\ Last(x) \in V
                        /\ Front(x) \o <<Last(x)>> = x
<1>1. PICK n \in Nat : n = Len(x)
  OBVIOUS
<1>2. ASSUME NEW e PROVE Front(Append(x, e)) = x
  <2>1. PICK W : W = V \cup {e}
    OBVIOUS
  <2>2. PICK y : y = Append(x, e)
    OBVIOUS
  <2>3. x \in Seq(W) /\ e \in W
    BY <2>1
  <2>4. y \in Seq(W) /\ Len(y) = n + 1 /\ \A i \in 1 .. n : y[i] = x[i]
    BY <1>1, <2>2, <2>3
  <2>5. Front(y) = SubSeq(y, 1, n)
    BY <1>1, <2>4 DEF Front
  <2>6. SubSeq(y, 1, n) = [i \in 1 .. n |-> y[i]]
    BY <2>4, FirstIs
  <2>7. x = [i \in 1 .. n |-> x[i]]
    BY <1>1
  <2> QED
    BY ONLY <2>4, <2>5, <2>6, <2>2, <2>7
<1>3. ASSUME x # <<>> PROVE Front(x) \in Seq(V) /\ Last(x) \in V /\ Front(x) \o <<Last(x)>> = x
  <2>1. n \in 1 .. Len(x) /\ n \in Nat \ {0}
    BY <1>1, <1>3, EmptySeq
  <2>2. Front(x) = SubSeq(x, 1, n - 1) /\ Last(x) = x[n]
    BY <1>1 DEF Front, Last
  <2>3. x[n] \in V
    BY <2>1, ElementOfSeq
  <2>4. x = SubSeq(x, 1, n - 1) \o <<x[n]>>
    <3>1. 1 \in 1 .. Len(x) /\ n \in 1 .. Len(x)
      BY <1>1, <2>1
    <3>2. SubSeq(x, 1, n) = SubSeq(x, 1, n - 1) \o <<x[n]>>
      BY <3>1, SubSeqRecursiveSecond
    <3>3. SubSeq(x, 1, n) = x
      BY <1>1, SubSeqFull
    <3> QED
      BY <3>2, <3>3
  <2>5. SubSeq(x, 1, n - 1) \in Seq(V)
    <3>1. PICK m : m = n - 1 /\ m \in Int
      BY <2>1
    <3>2. \A i \in 1 .. m : x[i] \in V
      <4>1. \A i \in 1 .. m : i \in 1 .. Len(x)
        BY <1>1, <2>1, <3>1
      <4> QED
        BY <4>1, ElementOfSeq
    <3>3. SubSeq(x, 1, m) \in Seq(V)
      BY <3>1, <3>2, SubSeqProperties
    <3> QED
      BY <3>1, <3>3
  <2> QED
    BY <2>2, <2>3, <2>4, <2>5
<1> QED
  BY <1>2, <1>3

\* Every sequence samples its own row: those that go on have one token more, those that
\* have ended leave the memory.
LEMMA SampledApart ==
  ASSUME NEW j, NEW d, CtxOK(d), NEW idx, Fed(j, d, idx),
         NEW eog \in SUBSET j.active, SampleEach(d, j, eog, idx), job'.on
  PROVE  Between(job', ctx')
<1> DEFINE took(s) == s \in j.active \ eog /\ j.max > 0
           toks    == [s \in DOMAIN j.toks |->
                         IF took(s) THEN Append(j.toks[s], <<s, Len(j.toks[s]) + 1>>)
                         ELSE j.toks[s]]
           ends    == {s \in j.active : ~took(s) \/ Len(toks[s]) >= j.max}
           stops   == IF j.first THEN {s \in j.active : ~took(s)} ELSE ends
           read    == [s \in DOMAIN j.read |->
                         IF s \in j.active THEN d.rows[Row(d, idx[s])] ELSE j.read[s]]
<1>1. /\ DOMAIN j = JobFields /\ j.active \in SUBSET Seqs /\ j.max \in Int
      /\ DOMAIN j.toks = DOMAIN j.prompts /\ DOMAIN j.read = DOMAIN j.prompts
      /\ j.active \subseteq DOMAIN j.prompts /\ IsList(j.prompts)
  BY DEF Fed, Batched, Runs
<1>2. PICK V : \A s \in DOMAIN j.prompts : j.toks[s] \in Seq(V)
  BY DEF Fed, Batched
<1>3. /\ ctx' = Without(d, stops)
      /\ job' = IF j.active = stops THEN Idle
                ELSE [j EXCEPT !.toks = toks, !.active = @ \ stops, !.first = FALSE, !.read = read]
  BY DEF SampleEach
<1>4. PICK k : k = [j EXCEPT !.toks = toks, !.active = @ \ stops, !.first = FALSE, !.read = read]
  OBVIOUS
<1>5. job' = k /\ j.active # stops
  BY <1>3, <1>4 DEF Idle
<1>6. /\ DOMAIN k = JobFields /\ k.on = j.on /\ k.prompts = j.prompts /\ k.max = j.max
      /\ k.active = j.active \ stops /\ k.first = FALSE /\ k.toks = toks /\ k.read = read
  BY <1>1, <1>4 DEF JobFields
<1>7. \A s \in stops : s \in j.active
  OBVIOUS
<1>8. ASSUME NEW s \in j.active, s \notin stops
      PROVE  took(s) /\ (j.first \/ ~ (Len(toks[s]) >= j.max))
  BY <1>8
<1>9. ASSUME NEW s \in DOMAIN j.prompts, took(s)
      PROVE  /\ toks[s] = Append(j.toks[s], <<s, Len(j.toks[s]) + 1>>)
             /\ Len(toks[s]) = Len(j.toks[s]) + 1 /\ Len(j.toks[s]) \in Nat
             /\ toks[s] # <<>> /\ Front(toks[s]) = j.toks[s]
  <2>1. toks[s] = Append(j.toks[s], <<s, Len(j.toks[s]) + 1>>)
    BY <1>1, <1>9
  <2>2. PICK x, e : x = j.toks[s] /\ e = <<s, Len(j.toks[s]) + 1>>
    OBVIOUS
  <2>3. x \in Seq(V)
    BY <1>2, <2>2
  <2>4. Len(Append(x, e)) = Len(x) + 1 /\ Len(x) \in Nat
    BY <2>3
  <2>5. Append(x, e) # <<>>
    <3>1. Len(<<>>) = 0
      OBVIOUS
    <3>2. Append(x, e) = <<>> => Len(x) + 1 = 0
      BY ONLY <2>4, <3>1
    <3> QED
      BY ONLY <2>4, <3>2
  <2>6. Front(Append(x, e)) = x
    BY <2>3, FrontLast
  <2> QED
    BY ONLY <2>1, <2>2, <2>4, <2>5, <2>6
<1>10. ASSUME NEW s \in DOMAIN j.prompts, ~took(s) PROVE toks[s] = j.toks[s]
  BY <1>1, <1>10
<1>11. ASSUME NEW s \in j.active PROVE read[s] = s
  <2>1. d.rows[Row(d, idx[s])] = s
    BY DEF Fed
  <2> QED
    BY <1>1, <2>1
<1>12. DOMAIN toks = DOMAIN j.prompts /\ DOMAIN read = DOMAIN j.prompts
  BY <1>1
<1>13. PICK W : W = V \cup {<<s, Len(j.toks[s]) + 1>> : s \in DOMAIN j.prompts}
  OBVIOUS
<1>14. ASSUME NEW s \in DOMAIN j.prompts PROVE toks[s] \in Seq(W)
  <2>1. PICK x, e : x = j.toks[s] /\ e = <<s, Len(j.toks[s]) + 1>> /\ e \in W
    BY <1>13
  <2>2. x \in Seq(W) /\ Append(x, e) \in Seq(W)
    BY <1>2, <1>13, <2>1
  <2> QED
    BY <1>9, <1>10, <2>1, <2>2
<1>15. \A s \in j.active : took(s) => j.max > 0
  OBVIOUS
<1> HIDE DEF took, toks, stops, read
<1>16. PICK t \in j.active : t \notin stops
  BY <1>5, <1>7
<1>17. k.max > 0
  BY <1>6, <1>8, <1>15, <1>16
<1>18. ASSUME NEW s \in DOMAIN j.prompts
       PROVE  /\ j.first => j.toks[s] = <<>>
              /\ ~j.first => /\ Len(j.toks[s]) <= (IF j.max = 1 THEN 2 ELSE j.max)
                             /\ s \in j.active => Len(j.toks[s]) = 1 \/ Len(j.toks[s]) < j.max
  BY DEF Fed, Within
<1>19. ASSUME NEW s \in DOMAIN j.prompts
       PROVE  Len(toks[s]) <= (IF j.max = 1 THEN 2 ELSE j.max)
  <2>1. Len(j.toks[s]) \in Nat /\ j.max \in Int /\ j.max > 0
    BY <1>1, <1>2, <1>6, <1>17
  <2>2. j.first => Len(j.toks[s]) = 0
    <3>1. Len(<<>>) = 0
      OBVIOUS
    <3> QED
      BY <1>18, <3>1
  <2>3. CASE took(s)
    <3>1. Len(toks[s]) = Len(j.toks[s]) + 1
      BY <1>9, <2>3
    <3>2. s \in j.active
      BY <2>3 DEF took
    <3>3. PICK l : l = Len(j.toks[s])
      OBVIOUS
    <3>4. PICK m : m = j.max
      OBVIOUS
    <3>5. l = 0 \/ l = 1 \/ l < m
      BY <1>18, <2>2, <3>2, <3>3, <3>4
    <3>6. l + 1 <= (IF m = 1 THEN 2 ELSE m)
      <4>1. l \in Nat /\ m \in Int /\ m > 0
        BY <2>1, <3>3, <3>4
      <4>2. CASE m = 1
        BY ONLY <3>5, <4>1, <4>2
      <4>3. CASE m # 1
        BY ONLY <3>5, <4>1, <4>3
      <4> QED
        BY ONLY <4>2, <4>3
    <3> QED
      BY <3>1, <3>3, <3>4, <3>6
  <2>4. CASE ~took(s)
    BY <1>10, <1>18, <2>1, <2>2, <2>4
  <2> QED
    BY <2>3, <2>4
<1>20. ASSUME NEW s \in j.active, s \notin stops
       PROVE  toks[s] # <<>> /\ (Len(toks[s]) = 1 \/ Len(toks[s]) < j.max)
  <2>1. s \in DOMAIN j.prompts /\ took(s) /\ (j.first \/ ~ (Len(toks[s]) >= j.max))
    BY <1>1, <1>8, <1>20
  <2>2. toks[s] # <<>> /\ Len(toks[s]) = Len(j.toks[s]) + 1 /\ Len(j.toks[s]) \in Nat
    BY <1>9, <2>1
  <2>3. j.first => Len(j.toks[s]) = 0
    <3>1. Len(<<>>) = 0
      OBVIOUS
    <3> QED
      BY <1>18, <2>1, <3>1
  <2> QED
    BY <1>1, <2>1, <2>2, <2>3
<1>21. Within(k)
  <2>1. \A s \in DOMAIN k.prompts : Len(k.toks[s]) <= (IF k.max = 1 THEN 2 ELSE k.max)
    BY <1>6, <1>19
  <2>2. \A s \in k.active : k.toks[s] # <<>> /\ (Len(k.toks[s]) = 1 \/ Len(k.toks[s]) < k.max)
    BY <1>6, <1>20
  <2> QED
    BY <1>17, <2>1, <2>2 DEF Within
<1>22. Batched(k)
  <2>1. Runs(k)
    <3>1. j.on
      BY DEF Fed, Batched, Runs
    <3> QED
      BY <1>1, <1>6, <1>16, <3>1 DEF Runs
  <2> QED
    BY <1>1, <1>6, <1>12, <1>14, <2>1 DEF Batched
<1>23. PICK c : c = ctx' /\ \A s \in Seqs : c.mem[s] = IF s \in stops THEN <<>> ELSE d.mem[s]
  BY <1>3, WithoutOK
<1>24. ASSUME NEW s \in k.active
       PROVE  c.mem[s] = k.prompts[s] \o Front(k.toks[s]) /\ k.read[s] = s
  <2>1. s \in j.active /\ s \notin stops /\ s \in Seqs /\ s \in DOMAIN j.prompts
    BY <1>1, <1>6
  <2>2. c.mem[s] = d.mem[s] /\ d.mem[s] = j.prompts[s] \o j.toks[s]
    BY <1>23, <2>1 DEF Fed
  <2>3. Front(toks[s]) = j.toks[s] /\ read[s] = s
    BY <1>8, <1>9, <1>11, <2>1
  <2> QED
    BY <1>6, <2>2, <2>3
<1>25. ASSUME NEW s \in DOMAIN k.prompts, s \notin k.active PROVE c.mem[s] = <<>>
  <2>1. s \in DOMAIN j.prompts /\ s \in Seqs /\ (s \in stops \/ s \notin j.active)
    BY <1>1, <1>6, <1>25 DEF IsList
  <2>2. s \notin j.active => d.mem[s] = <<>>
    BY <2>1 DEF Fed
  <2> QED
    BY <1>23, <2>1, <2>2
<1>26. Between(k, c)
  BY <1>6, <1>21, <1>22, <1>24, <1>25 DEF Between
<1> QED
  BY <1>5, <1>23, <1>26

\* One decode of a batch and the sampling after it.
LEMMA DecodedApart ==
  ASSUME NEW c, CtxOK(c), NEW j, NEW b, NEW idx, IsBatch(b), Fed(j, Decoded(c, b), idx),
         \A s \in j.active : HasRow(Decoded(c, b), idx[s]),
         DecodeAndSample(c, j, b, idx)
  PROVE  Apart'
<1> SUFFICES ASSUME job'.on PROVE Between(job', ctx')
  BY DEF Apart, Between, Batched, Within, Runs
<1>1. job' # Idle
  BY DEF Idle
<1>2. PICK d : d = Decoded(c, b) /\ CtxOK(d)
  BY DecodedOK
<1>3. PICK eog \in SUBSET j.active : SampleEach(d, j, eog, idx)
  BY <1>1, <1>2 DEF DecodeAndSample
<1> QED
  BY <1>2, <1>3, SampledApart

\* llama_generate_batch(): the first decode, of all prompts.
LEMMA BegunApart ==
  ASSUME Contexts, NEW ps, IsList(ps), NEW max \in Int, BatchBegin(ps, max)
  PROVE  Apart'
<1>1. PICK j :
        j = [on |-> TRUE, prompts |-> ps, max |-> max, active |-> DOMAIN ps, first |-> TRUE,
             toks |-> [s \in DOMAIN ps |-> <<>>], read |-> [s \in DOMAIN ps |-> Stale]]
  OBVIOUS
<1>2. CASE Len(PromptBatch(ps)) > NBatch
  BY <1>2 DEF BatchBegin, Apart
<1>3. CASE ~(Len(PromptBatch(ps)) > NBatch)
  <2>1. PICK c : c = Cleared(ctx) /\ CtxOK(c) /\ \A s \in Seqs : c.mem[s] = <<>>
    BY WithoutOK DEF Contexts, Cleared
  <2>2. PICK b, idx : /\ b = PromptBatch(ps) /\ idx = LastIndex(ps)
                      /\ DecodeAndSample(c, j, b, idx)
    BY <1>1, <1>3, <2>1 DEF BatchBegin
  <2>3. Feeds(b, ps, idx, DOMAIN ps) /\ IsBatch(b)
    <3>1. IsBatch(b)
      BY <2>2, PromptsAll
    <3>2. Len(b) <= NBatch
      <4>1. Len(b) \in Nat
        BY <3>1 DEF IsBatch
      <4> QED
        BY <1>3, <2>2, <4>1, SeqsAre
    <3> QED
      BY <2>2, <3>1, <3>2, PromptFeeds
  <2>4. PICK d : d = Decoded(c, b)
    OBVIOUS
  <2>5. /\ \A s \in Seqs : d.mem[s] = c.mem[s] \o (IF s \in DOMAIN ps THEN ps[s] ELSE <<>>)
        /\ \A s \in DOMAIN ps : HasRow(d, idx[s]) /\ d.rows[Row(d, idx[s])] = s
    <3>1. CtxOK(c) /\ Feeds(b, ps, idx, DOMAIN ps)
      BY <2>1, <2>3
    <3>2. Grown(c, d, ps, idx, DOMAIN ps)
      BY <2>4, <3>1, DecodedFeeds
    <3> QED
      BY <3>2 DEF Grown
  <2>6. /\ DOMAIN j = JobFields /\ j.on /\ j.prompts = ps /\ j.max = max /\ j.active = DOMAIN ps
        /\ j.first /\ DOMAIN j.toks = DOMAIN ps /\ DOMAIN j.read = DOMAIN ps
        /\ \A s \in DOMAIN ps : j.toks[s] = <<>>
    BY <1>1 DEF JobFields
  <2>7. Batched(j)
    <3>1. Runs(j)
      BY <2>6 DEF Runs, IsList
    <3>2. <<>> \in Seq({})
      OBVIOUS
    <3>3. \A s \in DOMAIN j.prompts : j.toks[s] \in Seq({})
      BY <2>6, <3>2
    <3> QED
      BY <2>6, <3>1, <3>3 DEF Batched
  <2>8. ASSUME NEW s \in DOMAIN ps PROVE d.mem[s] = j.prompts[s] \o j.toks[s]
    <3>1. d.mem[s] = <<>> \o ps[s]
      BY <2>1, <2>5 DEF IsList
    <3>2. PICK p, V : p = ps[s] /\ p \in Seq(V)
      BY DEF IsList, Prompt
    <3>3. <<>> \o p = p \o <<>>
      BY <3>2
    <3> QED
      BY <2>6, <3>1, <3>2, <3>3
  <2>9. Fed(j, d, idx)
    BY <2>5, <2>6, <2>7, <2>8 DEF Fed
  <2> QED
    BY <2>1, <2>2, <2>3, <2>5, <2>6, <2>9, <2>4, DecodedApart
<1> QED
  BY <1>2, <1>3

\* Its next decode, of one token for each running sequence.
LEMMA SteppedApart ==
  ASSUME Contexts, Apart, BatchStep
  PROVE  Apart'
<1>1. PICK j, c : j = job /\ c = ctx /\ CtxOK(c) /\ Between(j, c)
  BY DEF Contexts, Apart, BatchStep
<1>2. PICK b, idx : /\ b = StepBatch(j.toks, j.active) /\ idx = StepIndex(j.active)
                    /\ DecodeAndSample(c, j, b, idx)
  BY <1>1 DEF BatchStep
<1>3. PICK q : q = [s \in j.active |-> <<Last(j.toks[s])>>]
  OBVIOUS
<1>4. Feeds(b, q, idx, j.active) /\ IsBatch(b)
  <2>1. j.active \in SUBSET Seqs
    BY <1>1 DEF Between, Batched, Runs
  <2>2. Feeds(b, q, idx, j.active)
    BY <1>2, <1>3, <2>1, StepFeeds
  <2> QED
    BY <2>2 DEF Feeds
<1>5. PICK d : d = Decoded(c, b)
  OBVIOUS
<1>6. /\ \A s \in Seqs : d.mem[s] = c.mem[s] \o (IF s \in j.active THEN q[s] ELSE <<>>)
      /\ \A s \in j.active : HasRow(d, idx[s]) /\ d.rows[Row(d, idx[s])] = s
  <2>1. CtxOK(c) /\ Feeds(b, q, idx, j.active)
    BY <1>1, <1>4
  <2>2. Grown(c, d, q, idx, j.active)
    BY <1>5, <2>1, DecodedFeeds
  <2> QED
    BY <2>2 DEF Grown
<1>7. ASSUME NEW s \in j.active PROVE d.mem[s] = j.prompts[s] \o j.toks[s]
  <2>1. s \in Seqs /\ s \in DOMAIN j.prompts
    BY <1>1 DEF Between, Batched, Runs
  <2>2. PICK p, U : p = j.prompts[s] /\ p \in Seq(U)
    BY <1>1, <2>1 DEF Between, Batched, IsList, Prompt
  <2>3. PICK x, V : x = j.toks[s] /\ x \in Seq(V) /\ x # <<>>
    BY <1>1, <2>1 DEF Between, Batched, Within
  <2>4. PICK y, z : y = Front(x) /\ z = <<Last(x)>> /\ y \in Seq(V) /\ z \in Seq(V) /\ y \o z = x
    <3>1. Front(x) \in Seq(V) /\ Last(x) \in V /\ Front(x) \o <<Last(x)>> = x
      BY <2>3, FrontLast
    <3>2. PICK e \in V : e = Last(x)
      BY <3>1
    <3>3. <<e>> \in Seq(V)
      OBVIOUS
    <3> QED
      BY <3>1, <3>2, <3>3
  <2>5. d.mem[s] = (p \o y) \o z
    <3>1. c.mem[s] = p \o y /\ q[s] = z
      BY <1>1, <1>3, <2>2, <2>3, <2>4 DEF Between
    <3> QED
      BY <1>6, <2>1, <3>1
  <2>6. (p \o y) \o z = p \o (y \o z)
    <3>1. PICK W : W = U \cup V
      OBVIOUS
    <3>2. p \in Seq(W) /\ y \in Seq(W) /\ z \in Seq(W)
      BY <2>2, <2>4, <3>1
    <3> QED
      BY <3>2, ConcatAssociative
  <2> QED
    BY ONLY <2>2, <2>3, <2>4, <2>5, <2>6
<1>8. ASSUME NEW s \in DOMAIN j.prompts, s \notin j.active PROVE d.mem[s] = <<>>
  <2>1. s \in Seqs /\ c.mem[s] = <<>>
    BY <1>1, <1>8 DEF Between, Batched, IsList
  <2>2. <<>> \o <<>> = <<>>
    OBVIOUS
  <2> QED
    BY <1>6, <1>8, <2>1, <2>2
<1>9. Fed(j, d, idx)
  BY <1>1, <1>6, <1>7, <1>8 DEF Fed, Between
<1> QED
  BY <1>1, <1>2, <1>4, <1>6, <1>9, <1>5, DecodedApart

\* Every call keeps the sequences apart: the others find no batch running.
LEMMA NextApart == Contexts /\ Apart /\ [Next]_vars => Apart'
<1> SUFFICES ASSUME Contexts, Apart, [Next]_vars PROVE Apart'
  OBVIOUS
<1>1. /\ \A ps \in use.lists : IsList(ps)
      /\ use.limits \subseteq Int
  BY UsesAssumption DEF Contexts, Streams, IsList
<1>2. ASSUME ~job.on, job' = job PROVE Apart'
  BY <1>2 DEF Apart
<1>3. CASE \E g \in Handles : \/ NextEnded(g) \/ NextAborts(g) \/ NextEog(g)
                              \/ \E t \in use.vocab[g] : NextToken(g, t) \/ NextFails(g, t)
                              \/ End(g)
  BY <1>2, <1>3 DEF NextEnded, NextAborts, NextEog, NextToken, NextFails, End, Samples, Calm
<1>4. CASE \E g \in Handles : \E n \in use.budgets[g] :
             BeginAt(g, n) \/ \E p \in use.prompts : Begin(g, p, n)
  BY <1>2, <1>4 DEF BeginAt, Begin, Calm
<1>5. CASE Clear \/ \E p \in use.prompts : Load(p) \/ Generate(p)
  BY <1>2, <1>5 DEF Clear, Load, Generate, Calm
<1>6. CASE \E ps \in use.lists, n \in use.limits : BatchBegin(ps, n)
  BY <1>1, <1>6, BegunApart
<1>7. CASE BatchStep
  BY <1>7, SteppedApart
<1>8. CASE UNCHANGED vars
  BY <1>8 DEF vars, Apart
<1> QED
  BY <1>3, <1>4, <1>5, <1>6, <1>7, <1>8 DEF Next

\* The sequences of a batch of prompts are generated apart, whatever came before and
\* whichever end early: each samples the row that follows its own prompt and tokens, one
\* that has ended has left no token in the memory, and none runs over its limit.
THEOREM SeqsApartCorrect == Spec => []SeqsApart
<1>1. Init => Apart
  <2>1. Init => job = Idle
    BY DEF Init
  <2>2. Idle.on = FALSE
    BY DEF Idle
  <2> QED
    BY <2>1, <2>2 DEF Apart
<1>2. Contexts /\ Apart /\ [Next]_vars => Apart'
  BY NextApart
<1>3. Apart => SeqsApart
  <2> SUFFICES ASSUME Between(job, ctx), NEW s \in DOMAIN job.prompts
               PROVE  /\ s \in job.active =>
                           /\ ctx.mem[s] = job.prompts[s] \o Front(job.toks[s])
                           /\ job.read[s] = s
                      /\ s \notin job.active => ctx.mem[s] = <<>>
                      /\ Len(job.toks[s]) <= (IF job.max = 1 THEN 2 ELSE job.max)
    BY DEF Apart, SeqsApart
  <2> QED
    BY DEF Between, Within
<1> QED
  BY <1>1, <1>2, <1>3, ContextsInvariance, PTL DEF Spec

\* What Resumes says of a step.
ResumesStep ==
  \A g \in Gens :
    sole.gen = g /\ ctx.nOut = 1 /\ ~gens[g].failed /\ gens'[g].failed =>
      /\ ctx'.mem = ctx.mem
      /\ HasRow(ctx', -1) /\ ctx'.rows[Row(ctx', -1)] = 0

\* Only a failed decode of its own makes a generation a failed one.
LEMMA OnlyFailing ==
  ASSUME Contexts, Next, NEW g \in Gens, ~Free(g), ~gens[g].failed, gens'[g].failed
  PROVE  \E x \in Seq(Bytes) : NextFails(g, x)
<1>1. /\ DOMAIN gens = Gens /\ gens' # gens
      /\ \A h \in Handles : use.vocab[h] \subseteq Seq(Bytes)
  BY UsesAssumption DEF Contexts, Streams, Handles
<1>2. ASSUME NEW h, Free(h), \A k \in Gens : k # h => gens'[k] = gens[k] PROVE FALSE
  <2>1. g # h
    BY <1>2
  <2> QED
    BY <1>2, <2>1
<1>3. ASSUME NEW st, st.failed = gens[g].failed, gens'[g] = st PROVE FALSE
  BY <1>3
<1>4. ASSUME NEW h, NEW st, gens' = [gens EXCEPT ![h] = st],
             h = g => st.failed = gens[g].failed
      PROVE  FALSE
  BY <1>1, <1>4
<1>5. ASSUME NEW h \in Handles, NextEnded(h) PROVE FALSE
  <2>1. PICK st : st = [gens[h] EXCEPT !.done = TRUE] /\ gens' = [gens EXCEPT ![h] = st]
    BY <1>5 DEF NextEnded
  <2>2. h = g => st.failed = gens[g].failed
    BY <2>1
  <2> QED
    BY <1>4, <2>1, <2>2
<1>6. ASSUME NEW h \in Handles, NextEog(h) PROVE FALSE
  <2>1. PICK a, st : /\ a = Append(gens[h].accepted, Eog)
                     /\ st = [gens[h] EXCEPT !.accepted = a, !.done = TRUE]
                     /\ gens' = [gens EXCEPT ![h] = st]
    <3>1. PICK a : a = Append(gens[h].accepted, Eog)
      OBVIOUS
    <3> QED
      BY <1>6, <3>1 DEF NextEog
  <2>2. h = g => st.failed = gens[g].failed
    BY <2>1
  <2> QED
    BY <1>4, <2>1, <2>2
<1>7. ASSUME NEW h \in Handles, End(h) PROVE FALSE
  <2>1. PICK s, st : /\ s = gens[h].said \o Sanitized(gens[h].buf)
                     /\ st = [gens[h] EXCEPT !.done = TRUE, !.said = s, !.buf = <<>>]
                     /\ gens' = [gens EXCEPT ![h] = st]
    <3>1. PICK s : s = gens[h].said \o Sanitized(gens[h].buf)
      OBVIOUS
    <3> QED
      BY <1>7, <3>1 DEF End
  <2>2. h = g => st.failed = gens[g].failed
    BY <2>1
  <2> QED
    BY <1>4, <2>1, <2>2
<1>8. ASSUME NEW h \in Handles, NEW x, NextToken(h, x) PROVE FALSE
  <2>1. PICK st : st = Spoken(Sampled(h, x)) /\ gens' = [gens EXCEPT ![h] = st]
    BY <1>8 DEF NextToken
  <2>2. h = g => st.failed = gens[g].failed
    <3> SUFFICES ASSUME h = g PROVE st.failed = gens[g].failed
      OBVIOUS
    <3>1. PICK y : y = Sampled(h, x) /\ y.failed = gens[h].failed
      <4>1. PICK o : o = gens[h] /\ DOMAIN o = Fields
        BY DEF Contexts, Streams, Stream
      <4>2. PICK a, r, k, u : /\ a = Append(o.accepted, Fresh(h)) /\ r = o.remaining - 1
                              /\ k = Append(o.took, x) /\ u = o.buf \o x
        OBVIOUS
      <4>3. PICK e : e = [o EXCEPT !.accepted = a, !.remaining = r, !.took = k, !.buf = u]
        OBVIOUS
      <4>4. Sampled(h, x) = e
        BY <4>1, <4>2, <4>3, Zenon DEF Sampled
      <4>5. e.failed = o.failed
        BY <4>1, <4>3 DEF Fields
      <4> QED
        BY <4>1, <4>4, <4>5
    <3>2. Spoken(y).failed = y.failed
      BY DEF Spoken
    <3> QED
      BY <2>1, <3>1, <3>2
  <2> QED
    BY <1>4, <2>1, <2>2
<1>9. ASSUME NEW h \in Handles, NEW x \in use.vocab[h], NextFails(h, x)
      PROVE  NextFails(g, x) /\ x \in Seq(Bytes)
  <2>1. g = h
    BY <1>1, <1>9 DEF NextFails
  <2> QED
    BY <1>1, <1>9, <2>1
<1>10. ASSUME NEW h \in Handles, NEW n, NEW p, BeginAt(h, n) \/ Begin(h, p, n) PROVE FALSE
  <2>1. Free(h) /\ (gens' = gens \/ gens' = [gens EXCEPT ![h] = NewGen(n)])
    BY <1>10 DEF BeginAt, Begin
  <2> QED
    BY <1>1, <1>2, <2>1
<1>11. ASSUME NEW h \in Handles, NextAborts(h) PROVE FALSE
  BY <1>1, <1>11 DEF NextAborts
<1>12. /\ ~Clear /\ ~BatchStep /\ \A p : ~Load(p) /\ ~Generate(p)
       /\ \A ps, n : ~BatchBegin(ps, n)
  BY <1>1 DEF Clear, Load, BatchStep, Generate, BatchBegin
<1>13. CASE \E h \in Handles : \/ NextEnded(h) \/ NextAborts(h) \/ NextEog(h)
                               \/ \E t \in use.vocab[h] : NextToken(h, t) \/ NextFails(h, t)
                               \/ End(h)
  BY <1>5, <1>6, <1>7, <1>8, <1>9, <1>11, <1>13
<1>14. CASE \E h \in Handles : \E n \in use.budgets[h] :
              BeginAt(h, n) \/ \E p \in use.prompts : Begin(h, p, n)
  BY <1>10, <1>14
<1> QED
  BY <1>12, <1>13, <1>14 DEF Next

\* A step of the system is a step that Resumes allows.
LEMMA StepResumes == Contexts /\ [Next]_vars => [ResumesStep]_vars
<1> SUFFICES ASSUME Contexts, Next, NEW g \in Gens, sole.gen = g, ctx.nOut = 1,
                    ~gens[g].failed, gens'[g].failed
             PROVE  /\ ctx'.mem = ctx.mem
                    /\ HasRow(ctx', -1) /\ ctx'.rows[Row(ctx', -1)] = 0
  BY DEF ResumesStep
<1>1. ~Free(g)
  BY DEF Contexts, Sole
<1>2. PICK x \in Seq(Bytes) : NextFails(g, x)
  BY <1>1, OnlyFailing
<1>3. Follows(ctx) /\ ctx.rows[1] = 0
  <2>1. Follows(ctx)
    BY <1>2 DEF NextFails, Samples, Contexts, Sole, Goes
  <2> QED
    BY <2>1, OneFollows
<1>4. PICK t : t = Fresh(g)
  OBVIOUS
<1>5. PICK b : b = GetOne(<<t>>)
  OBVIOUS
<1>6. OneOf(b, <<t>>, 1)
  <2>1. PICK p \in Seq({t}) : p = <<t>> /\ p # <<>> /\ Len(p) = 1
    <3>1. <<t>> \in Seq({t}) /\ <<t>> # <<>> /\ Len(<<t>>) = 1
      OBVIOUS
    <3> QED
      BY <3>1
  <2>2. OneOf(GetOne(p), p, Len(p))
    BY <2>1, GetOneIs
  <2> QED
    BY <1>5, <2>1, <2>2
<1>7. PICK d : d = ctx'
  OBVIOUS
<1>8. d = Broken(ctx, b, 1) \/ d = ctx
  BY <1>2, <1>4, <1>5, <1>7 DEF NextFails
<1>9. d.mem = ctx.mem /\ d.nOut = 1 /\ d.rows[1] = 0
  <2>1. CtxOK(ctx)
    BY DEF Contexts
  <2>2. /\ Broken(ctx, b, 1).mem = ctx.mem
        /\ Broken(ctx, b, 1).nOut = 1 /\ Broken(ctx, b, 1).rows[1] = 0
    BY <1>3, <1>6, <2>1, BrokenOne
  <2> QED
    BY <1>3, <1>8, <2>2
<1>10. Follows(d)
  BY <1>9, OneFollows
<1> QED
  BY <1>7, <1>9, <1>10 DEF Follows

\* A decode that fails in llama_gen_next() leaves the memory and the logits of
\* a generation that is alone as they were: the generation is not lost with it.
THEOREM ResumesCorrect == Spec => Resumes
<1>1. Contexts /\ [Next]_vars => [ResumesStep]_vars
  BY StepResumes
<1> QED
  BY <1>1, ContextsInvariance, PTL DEF Resumes, ResumesStep, Spec
=============================================================================
