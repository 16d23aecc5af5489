--------------------------- MODULE KVCellsProofs ---------------------------
(***************************************************************************)
(* Proofs about the cell array, for every number of cells, every set of    *)
(* sequences and every largest position: the cached fields agree with the  *)
(* cells after any sequence of method calls.                               *)
(***************************************************************************)
EXTENDS KVCellArray, FiniteSetTheorems, TLAPS

(* What cell i adds to the number of holders of position p for s. *)
Counts(c, i, s, p) == IF c.pos[i] = p /\ s \in c.seq[i] THEN 1 ELSE 0

(* The two arrays hold the same positions and sequences outside cell i.     *)
SameBut(c, d, i) ==
  \A j \in Cells \ {i} : d.pos[j] = c.pos[j] /\ d.seq[j] = c.seq[j]

(* A record whose counts are integers, before they are known to agree. *)
LooseArray ==
  [pos : [Cells -> Pos \cup {-1}], shift : [Cells -> Int],
   seq : [Cells -> SUBSET Seqs], used : SUBSET Cells,
   seqPos : [Seqs -> [Pos -> Int]], hasShift : BOOLEAN]

-----------------------------------------------------------------------------
(* The cells holding p for s are finitely many.                             *)
LEMMA HoldersFinite ==
  ASSUME NEW c, NEW s, NEW p
  PROVE  IsFiniteSet(Holders(c, s, p)) /\ Cardinality(Holders(c, s, p)) \in Nat
<1>1. IsFiniteSet(Cells)
  <2>1. Size - 1 \in Int BY KVCellsAssumption
  <2> QED BY <2>1, FS_Interval DEF Cells
<1>2. Holders(c, s, p) \subseteq Cells BY DEF Holders
<1> QED BY <1>1, <1>2, FS_Subset, FS_CardinalityType

(* A finite set has one element more than it has without x, if x is in it.  *)
LEMMA CardinalityStep ==
  ASSUME NEW S, IsFiniteSet(S), NEW x
  PROVE  /\ Cardinality(S \ {x}) \in Nat
         /\ Cardinality(S) = Cardinality(S \ {x}) + IF x \in S THEN 1 ELSE 0
<1>1. IsFiniteSet(S \ {x}) /\ Cardinality(S) \in Nat
  BY FS_RemoveElement, FS_CardinalityType
<1>2. Cardinality(S \ {x}) \in Nat BY <1>1, FS_CardinalityType
<1>3. Cardinality(S \ {x})
        = IF x \in S THEN Cardinality(S) - 1 ELSE Cardinality(S)
  BY FS_RemoveElement
<1> QED BY <1>1, <1>2, <1>3

(* Two arrays that differ in cell i only: the number of holders changes by  *)
(* what that cell contributes.                                              *)
LEMMA HoldersStep ==
  ASSUME NEW c, NEW d, NEW i \in Cells, NEW s, NEW p,
         SameBut(c, d, i)
  PROVE  Cardinality(Holders(d, s, p))
           = Cardinality(Holders(c, s, p)) - Counts(c, i, s, p)
                                           + Counts(d, i, s, p)
<1> DEFINE Hc == Holders(c, s, p)
           Hd == Holders(d, s, p)
<1>1. /\ IsFiniteSet(Hc) /\ Cardinality(Hc) \in Nat
      /\ IsFiniteSet(Hd) /\ Cardinality(Hd) \in Nat
  BY HoldersFinite
<1>2. Hc \ {i} = Hd \ {i} BY DEF Holders, SameBut
<1>3. /\ Cardinality(Hc \ {i}) \in Nat
      /\ Cardinality(Hc) = Cardinality(Hc \ {i}) + IF i \in Hc THEN 1 ELSE 0
      /\ Cardinality(Hd) = Cardinality(Hd \ {i}) + IF i \in Hd THEN 1 ELSE 0
  BY <1>1, CardinalityStep
<1>4. Counts(c, i, s, p) = IF i \in Hc THEN 1 ELSE 0
  BY DEF Counts, Holders
<1>5. Counts(d, i, s, p) = IF i \in Hd THEN 1 ELSE 0
  BY DEF Counts, Holders
<1>6. Cardinality(Hd \ {i}) = Cardinality(Hc \ {i}) BY <1>2
<1> HIDE DEF Hc, Hd
<1>7. Cardinality(Hc) = Cardinality(Hc \ {i}) + Counts(c, i, s, p)
  BY <1>3, <1>4
<1>8. Cardinality(Hd) = Cardinality(Hc \ {i}) + Counts(d, i, s, p)
  BY <1>3, <1>5, <1>6
<1>9. Counts(c, i, s, p) \in Int /\ Counts(d, i, s, p) \in Int
  BY DEF Counts
<1>10. Cardinality(Hd) = Cardinality(Hc) - Counts(c, i, s, p)
                                         + Counts(d, i, s, p)
  BY <1>1, <1>3, <1>7, <1>8, <1>9
<1> QED BY <1>10 DEF Hc, Hd

(* The step of every method that touches one cell: when the counts moved by *)
(* the contributions of that cell, they agree again.                        *)
LEMMA CellUpdate ==
  ASSUME NEW c \in CellArray, SeqPosAgrees(c),
         NEW d \in LooseArray, NEW i \in Cells,
         SameBut(c, d, i),
         \A s \in Seqs, p \in Pos :
           d.seqPos[s][p] = c.seqPos[s][p] - Counts(c, i, s, p)
                                           + Counts(d, i, s, p)
  PROVE  d \in CellArray /\ SeqPosAgrees(d)
<1>1. ASSUME NEW s \in Seqs, NEW p \in Pos
      PROVE  d.seqPos[s][p] = Cardinality(Holders(d, s, p))
  <2>1. c.seqPos[s][p] = Cardinality(Holders(c, s, p)) BY DEF SeqPosAgrees
  <2>2. Cardinality(Holders(d, s, p))
           = Cardinality(Holders(c, s, p)) - Counts(c, i, s, p)
                                           + Counts(d, i, s, p)
    BY HoldersStep
  <2> QED BY <2>1, <2>2
<1>2. \A s \in Seqs, p \in Pos : d.seqPos[s][p] \in Nat
  BY <1>1, HoldersFinite
<1>3. d.seqPos \in [Seqs -> [Pos -> Nat]]
  BY <1>2 DEF LooseArray
<1> QED BY <1>1, <1>3 DEF LooseArray, CellArray, SeqPosAgrees

(* seq_pos_rm and seq_pos_add move the count of one position, for the       *)
(* sequences of the cell, by one.                                           *)
LEMMA SeqPosRmValue ==
  ASSUME NEW sp \in [Seqs -> [Pos -> Int]], NEW S, NEW p \in Pos
  PROVE  /\ SeqPosRm(sp, S, p) \in [Seqs -> [Pos -> Int]]
         /\ \A s \in Seqs, q \in Pos :
              SeqPosRm(sp, S, p)[s][q]
                = sp[s][q] - IF q = p /\ s \in S THEN 1 ELSE 0
BY DEF SeqPosRm

(* seq_pos_add() counts the cell once more for its sequences.               *)
LEMMA SeqPosAddValue ==
  ASSUME NEW sp \in [Seqs -> [Pos -> Int]], NEW S, NEW p \in Pos
  PROVE  /\ SeqPosAdd(sp, S, p) \in [Seqs -> [Pos -> Int]]
         /\ \A s \in Seqs, q \in Pos :
              SeqPosAdd(sp, S, p)[s][q]
                = sp[s][q] + IF q = p /\ s \in S THEN 1 ELSE 0
BY DEF SeqPosAdd

-----------------------------------------------------------------------------
(* d has the fields of an array and nothing else; with the type of each     *)
(* field this puts it in the set of records.                                *)
Shape(d) ==
  /\ DOMAIN d = {"pos", "shift", "seq", "used", "seqPos", "hasShift"}
  /\ d = [x \in DOMAIN d |-> d[x]]

(* A typed array has the fields of a cell array.                            *)
LEMMA ShapeOfArray ==
  ASSUME NEW c \in CellArray
  PROVE  Shape(c)
BY DEF CellArray, Shape

(* So it stays when the counts are exchanged.                               *)
LEMMA ShapeSeqPos ==
  ASSUME NEW c, Shape(c), NEW x
  PROVE  Shape([c EXCEPT !.seqPos = x])
BY DEF Shape

(* And when a cell is emptied.                                              *)
LEMMA ShapeEmptied ==
  ASSUME NEW c, Shape(c), NEW i
  PROVE  Shape(Emptied(c, i))
BY DEF Shape, Emptied

(* The types of the fields, the counts being integers for now.              *)
Typed(d) ==
  /\ d.pos \in [Cells -> Pos \cup {-1}] /\ d.shift \in [Cells -> Int]
  /\ d.seq \in [Cells -> SUBSET Seqs] /\ d.used \in SUBSET Cells
  /\ d.seqPos \in [Seqs -> [Pos -> Int]] /\ d.hasShift \in BOOLEAN

(* The fields of a typed array have their types.                            *)
LEMMA TypedArray ==
  ASSUME NEW c \in CellArray
  PROVE  Typed(c) /\ Shape(c)
<1>1. c.seqPos \in [Seqs -> [Pos -> Int]] BY DEF CellArray
<1> QED BY <1>1, ShapeOfArray DEF CellArray, Typed

(* An array is loose if its fields have their types.                        *)
LEMMA LooseByFields ==
  ASSUME NEW d, Shape(d), Typed(d)
  PROVE  d \in LooseArray
<1>1. d = [pos |-> d.pos, shift |-> d.shift, seq |-> d.seq, used |-> d.used,
           seqPos |-> d.seqPos, hasShift |-> d.hasShift]
  BY DEF Shape
<1> QED BY <1>1 DEF LooseArray, Typed

(* One lemma per method: it keeps a sound array sound.                      *)
Sound(c) == c \in CellArray /\ IndexAgrees(c)

(* Counts that agree are natural numbers: a sound array is typed.           *)
LEMMA SoundIsTyped ==
  ASSUME NEW c, Sound(c)
  PROVE  c \in CellArray /\ Typed(c) /\ Shape(c) /\ IndexAgrees(c)
BY TypedArray DEF Sound

(* The argument common to the methods that change one cell.                 *)
LEMMA OneCell ==
  ASSUME NEW c, Sound(c), NEW d, Shape(d), Typed(d), NEW i \in Cells,
         SameBut(c, d, i),
         \A s \in Seqs, p \in Pos :
           d.seqPos[s][p] = c.seqPos[s][p] - Counts(c, i, s, p)
                                           + Counts(d, i, s, p),
         UsedAgrees(d), EmptyIsClean(d)
  PROVE  Sound(d)
<1>1. d \in LooseArray BY LooseByFields
<1>2. c \in CellArray /\ SeqPosAgrees(c) BY DEF Sound, IndexAgrees
<1>3. d \in CellArray /\ SeqPosAgrees(d) BY <1>1, <1>2, CellUpdate
<1> QED BY <1>3 DEF Sound, IndexAgrees

(* The empty array is sound.                                                *)
LEMMA ResetSound == Sound(Reset)
<1>1. Reset \in CellArray BY DEF Reset, CellArray
<1>2. ASSUME NEW s \in Seqs, NEW p \in Pos
      PROVE  Cardinality(Holders(Reset, s, p)) = 0
  <2>1. Holders(Reset, s, p) = {} BY DEF Holders, Reset, Pos
  <2> QED BY <2>1, FS_EmptySet
<1>3. SeqPosAgrees(Reset)
  BY <1>2 DEF SeqPosAgrees, Reset
<1>4. UsedAgrees(Reset) /\ EmptyIsClean(Reset)
  BY DEF UsedAgrees, EmptyIsClean, Reset
<1> QED BY <1>1, <1>3, <1>4 DEF Sound, IndexAgrees

(* reset_shift() touches no cached field.                                   *)
LEMMA ResetShiftSound ==
  ASSUME NEW c, Sound(c)
  PROVE  Sound(ResetShift(c))
<1> DEFINE d == ResetShift(c)
<1>0. c \in CellArray /\ Typed(c) /\ Shape(c) BY SoundIsTyped
<1>1. /\ d.pos = c.pos /\ d.seq = c.seq /\ d.used = c.used
      /\ d.seqPos = c.seqPos
      /\ d.shift = [i \in Cells |-> 0]
      /\ d.hasShift = FALSE
  BY <1>0 DEF ResetShift, CellArray
<1>2. Shape(d) BY <1>0 DEF Shape, ResetShift
<1> HIDE DEF d
<1>3. \A s \in Seqs, p \in Pos : Holders(d, s, p) = Holders(c, s, p)
  BY <1>1 DEF Holders
<1>4. IndexAgrees(d)
  BY <1>1, <1>3 DEF Sound, IndexAgrees, UsedAgrees, SeqPosAgrees, EmptyIsClean
<1>9. d.shift \in [Cells -> Int] BY <1>1
<1>7. Typed(d)
  <2>1. /\ d.pos \in [Cells -> Pos \cup {-1}] /\ d.seq \in [Cells -> SUBSET Seqs]
        /\ d.used \in SUBSET Cells /\ d.seqPos \in [Seqs -> [Pos -> Int]]
    BY <1>0, <1>1, Zenon DEF Typed
  <2> QED BY <1>1, <1>9, <2>1, Zenon DEF Typed
<1>5. d \in LooseArray BY <1>2, <1>7, LooseByFields
<1>8. d.seqPos \in [Seqs -> [Pos -> Nat]] BY <1>0, <1>1 DEF CellArray
<1>6. d \in CellArray
  BY <1>5, <1>8 DEF LooseArray, CellArray
<1> QED BY <1>4, <1>6 DEF Sound, d

(* rm() keeps the array sound.                                              *)
LEMMA RmSound ==
  ASSUME NEW c, Sound(c), NEW i \in Cells, c.pos[i] # -1
  PROVE  Sound(Rm(c, i))
<1> DEFINE d == Rm(c, i)
<1>1. c \in CellArray /\ Typed(c) /\ Shape(c) /\ c.pos[i] \in Pos
  BY SoundIsTyped DEF Typed
<1>2. /\ d.pos = [c.pos EXCEPT ![i] = -1]
      /\ d.shift = [c.shift EXCEPT ![i] = 0]
      /\ d.seq = [c.seq EXCEPT ![i] = {}]
      /\ d.used = c.used \ {i}
      /\ d.seqPos = SeqPosRm(c.seqPos, c.seq[i], c.pos[i])
      /\ d.hasShift = c.hasShift
  BY <1>1 DEF Rm, Emptied, CellArray
<1>3. Shape(d)
  BY <1>1, ShapeSeqPos, ShapeEmptied DEF Rm
<1> HIDE DEF d
<1>4. Typed(d) BY <1>1, <1>2, SeqPosRmValue DEF Typed
<1>5. SameBut(c, d, i) BY <1>1, <1>2 DEF SameBut, Typed
<1>6. \A s \in Seqs, p \in Pos :
        d.seqPos[s][p] = c.seqPos[s][p] - Counts(c, i, s, p)
                                        + Counts(d, i, s, p)
  BY <1>1, <1>2, SeqPosRmValue DEF Counts, Typed
<1>7. UsedAgrees(d) /\ EmptyIsClean(d)
  BY <1>1, <1>2 DEF Sound, IndexAgrees, UsedAgrees, EmptyIsClean, Typed
<1> QED BY <1>3, <1>4, <1>5, <1>6, <1>7, OneCell DEF d

(* seq_rm() does, whether the cell keeps a sequence or is emptied.          *)
LEMMA SeqRmSound ==
  ASSUME NEW c, Sound(c), NEW i \in Cells, NEW s \in Seqs,
         c.pos[i] # -1, s \in c.seq[i]
  PROVE  Sound(SeqRm(c, i, s))
<1> DEFINE e == [c EXCEPT !.seq[i] = @ \ {s},
                          !.seqPos = SeqPosRm(@, {s}, c.pos[i])]
           d == SeqRm(c, i, s)
<1>1. c \in CellArray /\ Typed(c) /\ Shape(c) /\ c.pos[i] \in Pos
  BY SoundIsTyped DEF Typed
<1>2. /\ e.pos = c.pos /\ e.shift = c.shift /\ e.used = c.used
      /\ e.seq = [c.seq EXCEPT ![i] = @ \ {s}]
      /\ e.seqPos = SeqPosRm(c.seqPos, {s}, c.pos[i])
      /\ e.hasShift = c.hasShift
  BY <1>1 DEF CellArray
<1>3. Shape(e) BY <1>1 DEF Shape
<1>4. d = IF e.seq[i] = {} THEN Emptied(e, i) ELSE e BY DEF SeqRm
<1> HIDE DEF d, e
<1>5. Typed(e) BY <1>1, <1>2, SeqPosRmValue DEF Typed
<1>6. \A t \in Seqs, p \in Pos :
        e.seqPos[t][p] = c.seqPos[t][p] - IF p = c.pos[i] /\ t = s THEN 1 ELSE 0
  BY <1>1, <1>2, SeqPosRmValue DEF Typed
<1>9. \A t \in Seqs, p \in Pos : c.seqPos[t][p] \in Int
  BY <1>1 DEF Typed
<1>7. CASE e.seq[i] # {}
  <2>1. SameBut(c, e, i) BY <1>1, <1>2 DEF SameBut, Typed
  <2>4. ASSUME NEW t \in Seqs, NEW p \in Pos
        PROVE  Counts(c, i, t, p) - Counts(e, i, t, p)
                 = IF p = c.pos[i] /\ t = s THEN 1 ELSE 0
    <3>1. e.pos[i] = c.pos[i] /\ e.seq[i] = c.seq[i] \ {s}
      BY <1>1, <1>2 DEF Typed
    <3> QED BY <3>1 DEF Counts
  <2>2. \A t \in Seqs, p \in Pos :
          e.seqPos[t][p] = c.seqPos[t][p] - Counts(c, i, t, p)
                                          + Counts(e, i, t, p)
    BY <1>6, <1>9, <2>4 DEF Counts
  <2>3. UsedAgrees(e) /\ EmptyIsClean(e)
    BY <1>1, <1>2 DEF Sound, IndexAgrees, UsedAgrees, EmptyIsClean, Typed
  <2> QED BY <1>3, <1>4, <1>5, <1>7, <2>1, <2>2, <2>3, OneCell DEF d
<1>8. CASE e.seq[i] = {}
  <2> DEFINE f == Emptied(e, i)
  <2>1. /\ f.pos = [c.pos EXCEPT ![i] = -1]
        /\ f.shift = [c.shift EXCEPT ![i] = 0]
        /\ f.seq = [e.seq EXCEPT ![i] = {}]
        /\ f.used = c.used \ {i}
        /\ f.seqPos = e.seqPos
        /\ f.hasShift = c.hasShift
    BY <1>2, <1>3 DEF Emptied, Shape
  <2>2. Shape(f) BY <1>3, ShapeEmptied
  <2> HIDE DEF f
  <2>3. Typed(f)
    <3>1. /\ f.pos \in [Cells -> Pos \cup {-1}] /\ f.shift \in [Cells -> Int]
          /\ f.used \in SUBSET Cells
      BY <1>1, <2>1 DEF Typed
    <3>2. f.seq \in [Cells -> SUBSET Seqs]
      BY <1>5, <2>1 DEF Typed
    <3>3. f.seqPos \in [Seqs -> [Pos -> Int]] /\ f.hasShift \in BOOLEAN
      BY <1>1, <1>5, <2>1 DEF Typed
    <3> QED BY <3>1, <3>2, <3>3 DEF Typed
  <2>4. SameBut(c, f, i) BY <1>1, <1>2, <2>1 DEF SameBut, Typed
  <2>5. c.seq[i] = {s} BY <1>1, <1>2, <1>8 DEF Typed
  <2>9. ASSUME NEW t \in Seqs, NEW p \in Pos
        PROVE  Counts(c, i, t, p) - Counts(f, i, t, p)
                 = IF p = c.pos[i] /\ t = s THEN 1 ELSE 0
    <3>1. f.seq[i] = {}
      BY <1>5, <2>1 DEF Typed
    <3> QED BY <2>5, <3>1 DEF Counts
  <2>6. \A t \in Seqs, p \in Pos :
          f.seqPos[t][p] = c.seqPos[t][p] - Counts(c, i, t, p)
                                          + Counts(f, i, t, p)
    BY <1>6, <1>9, <2>1, <2>9 DEF Counts
  <2>7. UsedAgrees(f) /\ EmptyIsClean(f)
    BY <1>1, <1>2, <2>1 DEF Sound, IndexAgrees, UsedAgrees, EmptyIsClean, Typed
  <2>8. Sound(f) BY <2>2, <2>3, <2>4, <2>6, <2>7, OneCell
  <2> QED BY <1>4, <1>8, <2>8 DEF d, f
<1> QED BY <1>7, <1>8 DEF d

(* seq_keep() does, whether the cell had the sequence or not.               *)
LEMMA SeqKeepSound ==
  ASSUME NEW c, Sound(c), NEW i \in Cells, NEW s \in Seqs
  PROVE  Sound(SeqKeep(c, i, s))
<1> DEFINE d == [c EXCEPT !.seq[i] = {s},
                          !.seqPos = SeqPosRm(@, c.seq[i] \ {s}, c.pos[i])]
<1>1. c \in CellArray /\ Typed(c) /\ Shape(c) /\ IndexAgrees(c)
  BY SoundIsTyped
<1>2. c.seq[i] # {} => c.pos[i] # -1
  BY <1>1 DEF IndexAgrees, EmptyIsClean
<1>3. CASE s \in c.seq[i]
  <2>1. c.pos[i] \in Pos BY <1>1, <1>2, <1>3 DEF Typed
  <2>2. /\ d.pos = c.pos /\ d.shift = c.shift /\ d.used = c.used
        /\ d.seq = [c.seq EXCEPT ![i] = {s}]
        /\ d.seqPos = SeqPosRm(c.seqPos, c.seq[i] \ {s}, c.pos[i])
        /\ d.hasShift = c.hasShift
    BY <1>1 DEF CellArray
  <2>3. Shape(d) BY <1>1 DEF Shape
  <2>4. SeqKeep(c, i, s) = d BY <1>3 DEF SeqKeep, SeqHas
  <2> HIDE DEF d
  <2>5. Typed(d) BY <1>1, <2>1, <2>2, SeqPosRmValue DEF Typed
  <2>6. SameBut(c, d, i) BY <1>1, <2>2 DEF SameBut, Typed
  <2>7. \A t \in Seqs, p \in Pos :
          d.seqPos[t][p] = c.seqPos[t][p] - Counts(c, i, t, p)
                                          + Counts(d, i, t, p)
    BY <1>1, <1>3, <2>1, <2>2, SeqPosRmValue DEF Counts, Typed
  <2>8. UsedAgrees(d) /\ EmptyIsClean(d)
    BY <1>1, <2>1, <2>2
       DEF IndexAgrees, UsedAgrees, EmptyIsClean, Typed, Pos
  <2>9. Sound(d) BY <2>3, <2>5, <2>6, <2>7, <2>8, OneCell
  <2> QED BY <2>4, <2>9
<1>4. CASE s \notin c.seq[i] /\ c.seq[i] # {}
  BY <1>2, <1>4, RmSound DEF SeqKeep, SeqHas
<1>5. CASE s \notin c.seq[i] /\ c.seq[i] = {}
  BY <1>5 DEF SeqKeep, SeqHas
<1> QED BY <1>3, <1>4, <1>5

(* seq_add() does, for a sequence that is new to the cell.                  *)
LEMMA SeqAddSound ==
  ASSUME NEW c, Sound(c), NEW i \in Cells, NEW s \in Seqs,
         c.pos[i] # -1, s \notin c.seq[i]
  PROVE  Sound(SeqAdd(c, i, s))
<1> DEFINE d == SeqAdd(c, i, s)
<1>1. c \in CellArray /\ Typed(c) /\ Shape(c) /\ c.pos[i] \in Pos
  BY SoundIsTyped DEF Typed
<1>2. /\ d.pos = c.pos /\ d.shift = c.shift /\ d.used = c.used
      /\ d.seq = [c.seq EXCEPT ![i] = @ \cup {s}]
      /\ d.seqPos = SeqPosAdd(c.seqPos, {s}, c.pos[i])
      /\ d.hasShift = c.hasShift
  BY <1>1 DEF CellArray, SeqAdd
<1>3. Shape(d) BY <1>1 DEF Shape, SeqAdd
<1> HIDE DEF d
<1>4. Typed(d) BY <1>1, <1>2, SeqPosAddValue DEF Typed
<1>5. SameBut(c, d, i) BY <1>1, <1>2 DEF SameBut, Typed
<1>6. ASSUME NEW t \in Seqs, NEW p \in Pos
      PROVE  Counts(d, i, t, p) - Counts(c, i, t, p)
               = IF p = c.pos[i] /\ t = s THEN 1 ELSE 0
  <2>1. d.pos[i] = c.pos[i] /\ d.seq[i] = c.seq[i] \cup {s}
    BY <1>1, <1>2 DEF Typed
  <2> QED BY <2>1 DEF Counts
<1>7. \A t \in Seqs, p \in Pos :
        /\ c.seqPos[t][p] \in Int
        /\ d.seqPos[t][p] = c.seqPos[t][p] + IF p = c.pos[i] /\ t = s THEN 1 ELSE 0
  BY <1>1, <1>2, SeqPosAddValue DEF Typed
<1>8. \A t \in Seqs, p \in Pos :
        d.seqPos[t][p] = c.seqPos[t][p] - Counts(c, i, t, p)
                                        + Counts(d, i, t, p)
  BY <1>6, <1>7 DEF Counts
<1>9. UsedAgrees(d) /\ EmptyIsClean(d)
  BY <1>1, <1>2 DEF Sound, IndexAgrees, UsedAgrees, EmptyIsClean, Typed, Pos
<1> QED BY <1>3, <1>4, <1>5, <1>8, <1>9, OneCell DEF d

(* pos_set() does, on an empty cell.                                        *)
LEMMA PosSetSound ==
  ASSUME NEW c, Sound(c), NEW i \in Cells, NEW p \in Pos, c.pos[i] = -1
  PROVE  Sound(PosSet(c, i, p))
<1> DEFINE d == PosSet(c, i, p)
<1>1. c \in CellArray /\ Typed(c) /\ Shape(c) /\ IndexAgrees(c)
  BY SoundIsTyped
<1>2. /\ d.pos = [c.pos EXCEPT ![i] = p] /\ d.shift = c.shift
      /\ d.seq = c.seq /\ d.used = c.used \cup {i}
      /\ d.seqPos = c.seqPos /\ d.hasShift = c.hasShift
  BY <1>1 DEF CellArray, PosSet
<1>3. Shape(d) BY <1>1 DEF Shape, PosSet
<1> HIDE DEF d
<1>4. Typed(d) BY <1>1, <1>2 DEF Typed
<1>5. SameBut(c, d, i) BY <1>1, <1>2 DEF SameBut, Typed
<1>6. c.seq[i] = {} BY <1>1 DEF IndexAgrees, EmptyIsClean
<1>7. \A t \in Seqs, q \in Pos :
        d.seqPos[t][q] = c.seqPos[t][q] - Counts(c, i, t, q)
                                        + Counts(d, i, t, q)
  BY <1>1, <1>2, <1>6 DEF Counts, Typed
<1>8. UsedAgrees(d) /\ EmptyIsClean(d)
  BY <1>1, <1>2 DEF IndexAgrees, UsedAgrees, EmptyIsClean, Typed, Pos
<1> QED BY <1>3, <1>4, <1>5, <1>7, <1>8, OneCell DEF d

(* pos_add and pos_div recount the sequences of the cell at its new         *)
(* position.                                                                *)
Recount(c, i, q) ==
  SeqPosAdd(SeqPosRm(c.seqPos, c.seq[i], c.pos[i]), c.seq[i], q)

(* Taking the counts of a cell away and adding those of its new position.   *)
LEMMA RecountValue ==
  ASSUME NEW c, Typed(c), NEW i \in Cells, c.pos[i] \in Pos, NEW q \in Pos
  PROVE  /\ Recount(c, i, q) \in [Seqs -> [Pos -> Int]]
         /\ \A t \in Seqs, p \in Pos :
              /\ c.seqPos[t][p] \in Int
              /\ Recount(c, i, q)[t][p]
                   = c.seqPos[t][p] - (IF p = c.pos[i] /\ t \in c.seq[i] THEN 1 ELSE 0)
                                    + (IF p = q /\ t \in c.seq[i] THEN 1 ELSE 0)
<1> DEFINE m == SeqPosRm(c.seqPos, c.seq[i], c.pos[i])
<1>1. c.seqPos \in [Seqs -> [Pos -> Int]] BY DEF Typed
<1>2. /\ m \in [Seqs -> [Pos -> Int]]
      /\ \A t \in Seqs, p \in Pos :
           m[t][p] = c.seqPos[t][p] - IF p = c.pos[i] /\ t \in c.seq[i] THEN 1 ELSE 0
  BY <1>1, SeqPosRmValue
<1> HIDE DEF m
<1>3. /\ SeqPosAdd(m, c.seq[i], q) \in [Seqs -> [Pos -> Int]]
      /\ \A t \in Seqs, p \in Pos :
           SeqPosAdd(m, c.seq[i], q)[t][p]
             = m[t][p] + IF p = q /\ t \in c.seq[i] THEN 1 ELSE 0
  BY <1>2, SeqPosAddValue
<1>4. Recount(c, i, q) = SeqPosAdd(m, c.seq[i], q) BY DEF Recount, m
<1> QED BY <1>1, <1>2, <1>3, <1>4

(* A cell that keeps its sequences and moves to position q.                 *)
LEMMA MovedSound ==
  ASSUME NEW c, Sound(c), NEW i \in Cells, c.pos[i] # -1, NEW q \in Pos,
         NEW d, Shape(d), NEW k \in Int,
         d.pos = [c.pos EXCEPT ![i] = q], d.shift = [c.shift EXCEPT ![i] = k],
         d.seq = c.seq, d.used = c.used, d.hasShift \in BOOLEAN,
         d.seqPos = Recount(c, i, q)
  PROVE  Sound(d)
<1>1. c \in CellArray /\ Typed(c) /\ Shape(c) /\ c.pos[i] \in Pos
  BY SoundIsTyped DEF Typed
<1>2. Typed(d) BY <1>1, RecountValue DEF Typed
<1>3. SameBut(c, d, i) BY <1>1 DEF SameBut, Typed
<1>4. d.pos[i] = q /\ d.seq[i] = c.seq[i] BY <1>1 DEF Typed
<1>5. \A t \in Seqs, p \in Pos :
        d.seqPos[t][p] = c.seqPos[t][p] - Counts(c, i, t, p)
                                        + Counts(d, i, t, p)
  BY <1>1, <1>4, RecountValue DEF Counts
<1>6. UsedAgrees(d) /\ EmptyIsClean(d)
  BY <1>1 DEF Sound, IndexAgrees, UsedAgrees, EmptyIsClean, Typed, Pos
<1> QED BY <1>2, <1>3, <1>5, <1>6, OneCell

(* pos_add() does, also when the cell falls off the low end.                *)
LEMMA PosAddSound ==
  ASSUME NEW c, Sound(c), NEW i \in Cells, c.pos[i] # -1,
         NEW k \in Int, c.pos[i] + k <= MaxPos
  PROVE  Sound(PosAdd(c, i, k))
<1> DEFINE m == [c EXCEPT !.hasShift = TRUE]
<1>1. c \in CellArray /\ Typed(c) /\ Shape(c) /\ IndexAgrees(c)
  BY SoundIsTyped
<1>2. /\ m.pos = c.pos /\ m.shift = c.shift /\ m.seq = c.seq
      /\ m.used = c.used /\ m.seqPos = c.seqPos /\ m.hasShift = TRUE
  BY <1>1 DEF CellArray
<1>3. Shape(m) BY <1>1 DEF Shape
<1>4. c.pos[i] \in Int /\ MaxPos \in Int
  BY <1>1, KVCellsAssumption DEF Typed, Pos
<1>5. CASE c.pos[i] + k < 0
  <2>1. PosAdd(c, i, k) = Rm(m, i) BY <1>5 DEF PosAdd
  <2> HIDE DEF m
  <2>2. m.hasShift \in BOOLEAN BY <1>2
  <2>3. Typed(m) BY <1>1, <1>2, <2>2, Zenon DEF Typed
  <2>4. m \in LooseArray BY <1>3, <2>3, LooseByFields
  <2>5. m.seqPos \in [Seqs -> [Pos -> Nat]] BY <1>1, <1>2 DEF CellArray
  <2>6. m \in CellArray BY <2>4, <2>5 DEF LooseArray, CellArray
  <2>7. \A s \in Seqs, p \in Pos : Holders(m, s, p) = Holders(c, s, p)
    BY <1>2 DEF Holders
  <2>8. IndexAgrees(m)
    BY <1>1, <1>2, <2>7 DEF IndexAgrees, UsedAgrees, SeqPosAgrees, EmptyIsClean
  <2>9. Sound(m) BY <2>6, <2>8 DEF Sound
  <2> QED BY <1>2, <2>1, <2>9, RmSound
<1>6. CASE ~(c.pos[i] + k < 0)
  <2> DEFINE q == c.pos[i] + k
             d == PosAdd(c, i, k)
  <2>1. q \in Pos BY <1>4, <1>6 DEF Pos
  <2>2. /\ d.pos = [c.pos EXCEPT ![i] = q]
        /\ d.shift = [c.shift EXCEPT ![i] = @ + k]
        /\ d.seq = c.seq /\ d.used = c.used /\ d.hasShift = TRUE
        /\ d.seqPos = Recount(c, i, q)
    BY <1>1, <1>6 DEF PosAdd, CellArray, Recount
  <2>3. Shape(d) BY <1>1, <1>6 DEF Shape, PosAdd
  <2>4. c.shift[i] + k \in Int BY <1>1 DEF Typed
  <2> HIDE DEF d, q
  <2>5. Sound(d) BY <2>1, <2>2, <2>3, <2>4, MovedSound
  <2> QED BY <2>5 DEF d
<1> QED BY <1>5, <1>6

(* pos_div() does.                                                          *)
LEMMA PosDivSound ==
  ASSUME NEW c, Sound(c), NEW i \in Cells, c.pos[i] # -1,
         NEW k \in Nat \ {0}
  PROVE  Sound(PosDiv(c, i, k))
<1> DEFINE q == c.pos[i] \div k
           d == PosDiv(c, i, k)
<1>1. c \in CellArray /\ Typed(c) /\ Shape(c) /\ c.pos[i] \in Pos
  BY SoundIsTyped DEF Typed
<1>2. q \in Pos
  <2>1. c.pos[i] \in Nat /\ c.pos[i] <= MaxPos /\ MaxPos \in Nat
    BY <1>1, KVCellsAssumption DEF Pos
  <2>2. q \in Int /\ 0 <= q /\ q <= c.pos[i] BY <2>1
  <2> QED BY <2>1, <2>2 DEF Pos
<1>3. /\ d.pos = [c.pos EXCEPT ![i] = q]
      /\ d.shift = [c.shift EXCEPT ![i] = @ + (c.pos[i] - q)]
      /\ d.seq = c.seq /\ d.used = c.used /\ d.hasShift = TRUE
      /\ d.seqPos = Recount(c, i, q)
  BY <1>1 DEF PosDiv, CellArray, Recount
<1>4. Shape(d) BY <1>1 DEF Shape, PosDiv
<1>5. c.shift[i] + (c.pos[i] - q) \in Int
  BY <1>1, <1>2 DEF Typed, Pos
<1> HIDE DEF d, q
<1>6. Sound(d) BY <1>2, <1>3, <1>4, <1>5, MovedSound
<1> QED BY <1>6 DEF d

(* What cp() saved of one cell, and when it can be put back.                *)
CleanSave(v) ==
  v \in [pos : Pos \cup {-1}, seq : SUBSET Seqs] /\ (v.pos = -1 => v.seq = {})

(* Writing back a saved cell does, over an empty or a used one.             *)
LEMMA SetCellSound ==
  ASSUME NEW c, Sound(c), NEW i \in Cells, c.shift[i] = 0,
         NEW v, CleanSave(v)
  PROVE  Sound(SetCell(c, i, v))
<1> DEFINE without == IF IsEmpty(c, i) THEN c.seqPos
                      ELSE SeqPosRm(c.seqPos, c.seq[i], c.pos[i])
           with == IF v.pos = -1 THEN without
                   ELSE SeqPosAdd(without, v.seq, v.pos)
           d == SetCell(c, i, v)
<1>1. c \in CellArray /\ Typed(c) /\ Shape(c) /\ IndexAgrees(c)
  BY SoundIsTyped
<1>2. v.pos \in Pos \cup {-1} /\ v.seq \in SUBSET Seqs
  BY DEF CleanSave
<1>3. /\ d.pos = [c.pos EXCEPT ![i] = v.pos] /\ d.shift = c.shift
      /\ d.seq = [c.seq EXCEPT ![i] = v.seq]
      /\ d.used = IF v.pos = -1 THEN c.used \ {i} ELSE c.used \cup {i}
      /\ d.seqPos = with /\ d.hasShift = c.hasShift
  BY <1>1 DEF SetCell, CellArray
<1>4. Shape(d) BY <1>1 DEF Shape, SetCell
<1>5. c.seq[i] # {} => c.pos[i] \in Pos
  BY <1>1 DEF Typed, IndexAgrees, EmptyIsClean
<1>6. /\ without \in [Seqs -> [Pos -> Int]]
      /\ \A s \in Seqs, p \in Pos :
           without[s][p] = c.seqPos[s][p] - Counts(c, i, s, p)
  <2>1. c.seqPos \in [Seqs -> [Pos -> Int]] BY <1>1 DEF Typed
  <2>2. CASE IsEmpty(c, i)
    <3>1. c.seq[i] = {} BY <1>1, <2>2 DEF IsEmpty, IndexAgrees, EmptyIsClean
    <3> QED BY <2>1, <2>2, <3>1 DEF Counts
  <2>3. CASE ~IsEmpty(c, i)
    <3>1. c.pos[i] \in Pos BY <1>1, <2>3 DEF IsEmpty, Typed
    <3> QED BY <2>1, <2>3, <3>1, SeqPosRmValue DEF Counts
  <2> QED BY <2>2, <2>3
<1> HIDE DEF without
<1>7. d.pos[i] = v.pos /\ d.seq[i] = v.seq BY <1>1, <1>3 DEF Typed
<1>8. /\ with \in [Seqs -> [Pos -> Int]]
      /\ \A s \in Seqs, p \in Pos :
           with[s][p] = without[s][p] + Counts(d, i, s, p)
  <2>1. CASE v.pos = -1
    <3>1. v.seq = {} BY <2>1 DEF CleanSave
    <3> QED BY <1>6, <1>7, <2>1, <3>1 DEF Counts
  <2>2. CASE v.pos # -1
    <3>1. v.pos \in Pos BY <1>2, <2>2
    <3> QED BY <1>6, <1>7, <2>2, <3>1, SeqPosAddValue DEF Counts
  <2> QED BY <2>1, <2>2
<1> HIDE DEF d, with
<1>9. Typed(d)
  <2>1. d.used \in SUBSET Cells BY <1>1, <1>3 DEF Typed
  <2>2. d.pos \in [Cells -> Pos \cup {-1}] /\ d.shift \in [Cells -> Int]
        /\ d.seq \in [Cells -> SUBSET Seqs] /\ d.hasShift \in BOOLEAN
    BY <1>1, <1>2, <1>3 DEF Typed
  <2> QED BY <1>3, <1>8, <2>1, <2>2 DEF Typed
<1>10. SameBut(c, d, i) BY <1>1, <1>3 DEF SameBut, Typed
<1>11. \A s \in Seqs, p \in Pos :
         d.seqPos[s][p] = c.seqPos[s][p] - Counts(c, i, s, p)
                                         + Counts(d, i, s, p)
  BY <1>3, <1>6, <1>8
<1>12. UsedAgrees(d)
  BY <1>1, <1>2, <1>3 DEF IndexAgrees, UsedAgrees, Typed
<1>13. EmptyIsClean(d)
  BY <1>1, <1>2, <1>3 DEF IndexAgrees, EmptyIsClean, Typed, CleanSave
<1> QED BY <1>4, <1>9, <1>10, <1>11, <1>12, <1>13, OneCell DEF d

-----------------------------------------------------------------------------
(* The inductive invariant.  Agreement of the cached fields is inductive    *)
(* only together with a fact about the copy that set() puts back: an empty  *)
(* saved cell holds no sequence.  ShiftAccounts rests on the same facts.    *)
SavedClean == \A i \in DOMAIN saved : CleanSave(saved[i])

IInv == TypeOK /\ IndexOK /\ SavedClean

(* What makes a function of saved cells.                                    *)
LEMMA SavedType ==
  ASSUME NEW I \in SUBSET Cells, NEW v,
         v = [i \in I |-> v[i]],
         \A i \in I : v[i] \in [pos : Pos \cup {-1}, seq : SUBSET Seqs]
  PROVE  v \in Saved
<1>1. v \in [I -> [pos : Pos \cup {-1}, seq : SUBSET Seqs]] OBVIOUS
<1> QED BY <1>1 DEF Saved

(* What a function of saved cells holds.                                    *)
LEMMA SavedFields ==
  ASSUME NEW v \in Saved
  PROVE  /\ DOMAIN v \in SUBSET Cells
         /\ v = [i \in DOMAIN v |-> v[i]]
         /\ \A i \in DOMAIN v :
              v[i] \in [pos : Pos \cup {-1}, seq : SUBSET Seqs]
BY DEF Saved

(* The empty array satisfies the invariant.                                 *)
LEMMA InitIInv == Init => IInv
<1> SUFFICES ASSUME Init PROVE IInv OBVIOUS
<1>1. Sound(cells) BY ResetSound DEF Init
<1>2. saved = [i \in {} |-> saved[i]] /\ DOMAIN saved = {}
  BY DEF Init, Cp
<1>3. saved \in Saved BY <1>2, SavedType, Zenon
<1>4. base \in [Cells -> Pos \cup {-1}] /\ divided \in SUBSET Cells
  BY DEF Init
<1> QED BY <1>1, <1>2, <1>3, <1>4 DEF IInv, TypeOK, IndexOK, SavedClean, Sound

(* Every method keeps it.                                                   *)
LEMMA NextIInv == IInv /\ [Next]_vars => IInv'
<1> SUFFICES ASSUME IInv, [Next]_vars PROVE IInv' OBVIOUS
<1>1. /\ cells \in CellArray /\ IndexAgrees(cells) /\ Sound(cells)
      /\ Typed(cells) /\ saved \in Saved /\ SavedClean
      /\ base \in [Cells -> Pos \cup {-1}] /\ divided \in SUBSET Cells
  BY SoundIsTyped DEF IInv, TypeOK, IndexOK, Sound
<1>2. ASSUME Sound(cells'), base' \in [Cells -> Pos \cup {-1}],
             divided' \in SUBSET Cells, saved' = saved
      PROVE  IInv'
  BY <1>1, <1>2 DEF IInv, TypeOK, IndexOK, SavedClean, Sound
<1>3. ASSUME Sound(cells'), Keep PROVE IInv'
  BY <1>1, <1>2, <1>3 DEF Keep
<1>4. CASE DoReset
  <2>1. Sound(cells') BY <1>4, ResetSound DEF DoReset
  <2> QED BY <1>2, <1>4, <2>1 DEF DoReset
<1>5. CASE DoResetShift
  <2>1. Sound(cells') BY <1>1, <1>5, ResetShiftSound DEF DoResetShift
  <2>2. base' \in [Cells -> Pos \cup {-1}] BY <1>1, <1>5 DEF DoResetShift, Typed
  <2> QED BY <1>2, <1>5, <2>1, <2>2 DEF DoResetShift
<1>6. ASSUME NEW i \in Cells, CellStep(i) PROVE IInv'
  <2>1. CASE DoRm(i)
    BY <1>1, <1>3, <2>1, RmSound DEF DoRm, IsEmpty
  <2>2. ASSUME NEW s \in Seqs, DoSeqRm(i, s) PROVE IInv'
    BY <1>1, <1>3, <2>2, SeqRmSound DEF DoSeqRm, IsEmpty, SeqHas
  <2>3. ASSUME NEW s \in Seqs, DoSeqKeep(i, s) PROVE IInv'
    BY <1>1, <1>3, <2>3, SeqKeepSound DEF DoSeqKeep
  <2>4. ASSUME NEW s \in Seqs, DoSeqAdd(i, s) PROVE IInv'
    BY <1>1, <1>3, <2>4, SeqAddSound DEF DoSeqAdd, IsEmpty, SeqHas
  <2>5. ASSUME NEW p \in Pos, DoPosSet(i, p) PROVE IInv'
    <3>1. Sound(cells') BY <1>1, <2>5, PosSetSound DEF DoPosSet, IsEmpty
    <3> QED BY <1>1, <1>2, <2>5, <3>1 DEF DoPosSet
  <2>6. ASSUME NEW d \in Deltas, DoPosAdd(i, d) PROVE IInv'
    <3>1. d \in Int BY KVCellArrayAssumption
    <3> QED BY <1>1, <1>3, <2>6, <3>1, PosAddSound DEF DoPosAdd, IsEmpty
  <2>7. ASSUME NEW d \in Divisors, DoPosDiv(i, d) PROVE IInv'
    <3>1. d \in Nat \ {0} BY KVCellArrayAssumption
    <3>2. Sound(cells')
      BY <1>1, <2>7, <3>1, PosDivSound DEF DoPosDiv, IsEmpty
    <3> QED BY <1>1, <1>2, <2>7, <3>2 DEF DoPosDiv
  <2>8. CASE DoSet(i)
    <3>1. /\ DOMAIN saved \in SUBSET Cells /\ i \in DOMAIN saved
          /\ \A j \in DOMAIN saved : CleanSave(saved[j])
      BY <1>1, <2>8, SavedFields DEF DoSet, SavedClean
    <3>2. cells.shift[i] = 0 BY <2>8 DEF DoSet, NoShift
    <3>3. Sound(cells') BY <1>1, <2>8, <3>1, <3>2, SetCellSound DEF DoSet
    <3>4. base' \in [Cells -> Pos \cup {-1}]
      BY <1>1, <2>8, <3>1 DEF DoSet, CleanSave
    <3>5. /\ DOMAIN saved' = DOMAIN saved \ {i}
          /\ \A j \in DOMAIN saved' : saved'[j] = saved[j]
          /\ saved' = [j \in DOMAIN saved' |-> saved'[j]]
      BY <2>8 DEF DoSet
    <3>6. SavedClean' BY <3>1, <3>5 DEF SavedClean
    <3>7. saved' \in Saved
      BY <3>1, <3>5, SavedType DEF CleanSave
    <3>8. divided' \in SUBSET Cells BY <1>1, <2>8 DEF DoSet
    <3> QED BY <3>3, <3>4, <3>6, <3>7, <3>8 DEF IInv, TypeOK, IndexOK, Sound
  <2> QED BY <1>6, <2>1, <2>2, <2>3, <2>4, <2>5, <2>6, <2>7, <2>8 DEF CellStep
<1>7. ASSUME NEW I \in SUBSET Cells, DoCp(I) PROVE IInv'
  <2>1. /\ cells' = cells /\ base' = base /\ divided' = divided
        /\ saved' = [i \in I |-> [pos |-> cells.pos[i], seq |-> cells.seq[i]]]
    BY <1>7 DEF DoCp, Cp
  <2>2. \A i \in I : CleanSave([pos |-> cells.pos[i], seq |-> cells.seq[i]])
    BY <1>1 DEF CleanSave, Typed, IndexAgrees, EmptyIsClean
  <2>3. SavedClean' BY <2>1, <2>2 DEF SavedClean
  <2>4. saved' \in Saved
    BY <2>1, <2>2, SavedType DEF CleanSave
  <2> QED BY <1>1, <2>1, <2>3, <2>4 DEF IInv, TypeOK, IndexOK
<1>8. CASE UNCHANGED vars
  BY <1>1, <1>2, <1>8 DEF vars
<1> QED BY <1>4, <1>5, <1>6, <1>7, <1>8 DEF Next

(* Every reachable state satisfies the invariant.                           *)
THEOREM Invariance == Spec => []IInv
<1> QED BY InitIInv, NextIInv, PTL DEF Spec

(* Type correctness: whatever methods are called, and in whatever order,    *)
(* positions stay in range and no cached count goes below zero.             *)
THEOREM TypeCorrect == Spec => []TypeOK
<1>1. IInv => TypeOK BY DEF IInv
<1> QED BY <1>1, Invariance, PTL

(* The cached `used' set and the cached counts behind seq_pos_min() and     *)
(* seq_pos_max() agree with the cells in every reachable state.             *)
THEOREM IndexCorrect == Spec => []IndexOK
<1>1. IInv => IndexOK BY DEF IInv
<1> QED BY <1>1, Invariance, PTL

-----------------------------------------------------------------------------
(* From c to d no cell got a new position: each kept its position and       *)
(* shift or was emptied, and a pending shift is still flagged.              *)
Unmoved(c, d) ==
  /\ \A j \in Cells :
       d.pos[j] = -1 \/ (d.pos[j] = c.pos[j] /\ d.shift[j] = c.shift[j])
  /\ c.hasShift => d.hasShift

(* The methods that only remove move no cell that stays: rm(),              *)
LEMMA UnmovedRm ==
  ASSUME NEW c \in CellArray, NEW i \in Cells
  PROVE  Unmoved(c, Rm(c, i))
<1>1. /\ Rm(c, i).pos = [c.pos EXCEPT ![i] = -1]
      /\ Rm(c, i).shift = [c.shift EXCEPT ![i] = 0]
      /\ Rm(c, i).hasShift = c.hasShift
  BY DEF Rm, Emptied, CellArray
<1> QED BY <1>1 DEF Unmoved, CellArray

(* seq_rm(),                                                                *)
LEMMA UnmovedSeqRm ==
  ASSUME NEW c \in CellArray, NEW i \in Cells, NEW s \in Seqs
  PROVE  Unmoved(c, SeqRm(c, i, s))
<1> DEFINE e == [c EXCEPT !.seq[i] = @ \ {s},
                          !.seqPos = SeqPosRm(@, {s}, c.pos[i])]
<1>1. e.pos = c.pos /\ e.shift = c.shift /\ e.hasShift = c.hasShift
  BY DEF CellArray
<1>2. /\ Emptied(e, i).pos = [c.pos EXCEPT ![i] = -1]
      /\ Emptied(e, i).shift = [c.shift EXCEPT ![i] = 0]
      /\ Emptied(e, i).hasShift = c.hasShift
  BY DEF Emptied, CellArray
<1>3. SeqRm(c, i, s) = e \/ SeqRm(c, i, s) = Emptied(e, i) BY DEF SeqRm
<1> HIDE DEF e
<1> QED BY <1>1, <1>2, <1>3 DEF Unmoved, CellArray

(* seq_keep(),                                                              *)
LEMMA UnmovedSeqKeep ==
  ASSUME NEW c \in CellArray, NEW i \in Cells, NEW s \in Seqs
  PROVE  Unmoved(c, SeqKeep(c, i, s))
<1> DEFINE e == [c EXCEPT !.seq[i] = {s},
                          !.seqPos = SeqPosRm(@, c.seq[i] \ {s}, c.pos[i])]
<1>1. e.pos = c.pos /\ e.shift = c.shift /\ e.hasShift = c.hasShift
  BY DEF CellArray
<1>2. \/ SeqKeep(c, i, s) = e
      \/ SeqKeep(c, i, s) = Rm(c, i)
      \/ SeqKeep(c, i, s) = c
  BY DEF SeqKeep
<1> HIDE DEF e
<1> QED BY <1>1, <1>2, UnmovedRm DEF Unmoved

(* and seq_add().                                                           *)
LEMMA UnmovedSeqAdd ==
  ASSUME NEW c \in CellArray, NEW i \in Cells, NEW s \in Seqs
  PROVE  Unmoved(c, SeqAdd(c, i, s))
<1>1. /\ SeqAdd(c, i, s).pos = c.pos /\ SeqAdd(c, i, s).shift = c.shift
      /\ SeqAdd(c, i, s).hasShift = c.hasShift
  BY DEF SeqAdd, CellArray
<1> QED BY <1>1 DEF Unmoved

(* What pos_add() does to position and shift.                               *)
LEMMA PosAddFields ==
  ASSUME NEW c \in CellArray, NEW i \in Cells, NEW k \in Int
  PROVE  /\ PosAdd(c, i, k).hasShift = TRUE
         /\ c.pos[i] + k < 0 =>
              /\ PosAdd(c, i, k).pos = [c.pos EXCEPT ![i] = -1]
              /\ PosAdd(c, i, k).shift = [c.shift EXCEPT ![i] = 0]
         /\ ~(c.pos[i] + k < 0) =>
              /\ PosAdd(c, i, k).pos = [c.pos EXCEPT ![i] = @ + k]
              /\ PosAdd(c, i, k).shift = [c.shift EXCEPT ![i] = @ + k]
<1>1. CASE c.pos[i] + k < 0
  BY <1>1 DEF PosAdd, Rm, Emptied, CellArray
<1>2. CASE ~(c.pos[i] + k < 0)
  BY <1>2 DEF PosAdd, CellArray
<1> QED BY <1>1, <1>2

-----------------------------------------------------------------------------
(* One step preserves ShiftAccounts, given the inductive invariant.         *)
LEMMA ShiftStep == IInv /\ ShiftAccounts /\ [Next]_vars => ShiftAccounts'
<1> SUFFICES ASSUME IInv, ShiftAccounts, [Next]_vars PROVE ShiftAccounts'
  OBVIOUS
<1>1. /\ cells \in CellArray /\ Typed(cells) /\ IndexAgrees(cells)
      /\ saved \in Saved /\ SavedClean
      /\ base \in [Cells -> Pos \cup {-1}] /\ divided \in SUBSET Cells
  BY TypedArray DEF IInv, TypeOK, IndexOK
<1>2. \A i \in Cells : cells.pos[i] \in Int /\ cells.shift[i] \in Int
                       /\ base[i] \in Int
  BY <1>1 DEF Typed, Pos
<1>3. ASSUME Unmoved(cells, cells'), base' = base, divided' = divided
      PROVE  ShiftAccounts'
  BY <1>3 DEF ShiftAccounts, Unmoved
<1>4. CASE DoReset
  BY <1>4 DEF DoReset, Reset, ShiftAccounts
<1>5. CASE DoResetShift
  <2>1. cells'.pos = cells.pos /\ cells'.shift = [i \in Cells |-> 0]
    BY <1>1, <1>5 DEF DoResetShift, ResetShift, CellArray
  <2>2. base' = cells.pos BY <1>5 DEF DoResetShift
  <2> QED BY <1>2, <2>1, <2>2 DEF ShiftAccounts
<1>6. ASSUME NEW i \in Cells, CellStep(i) PROVE ShiftAccounts'
  <2>1. CASE DoRm(i)
    BY <1>1, <1>3, <2>1, UnmovedRm DEF DoRm, Keep
  <2>2. ASSUME NEW s \in Seqs, DoSeqRm(i, s) PROVE ShiftAccounts'
    BY <1>1, <1>3, <2>2, UnmovedSeqRm DEF DoSeqRm, Keep
  <2>3. ASSUME NEW s \in Seqs, DoSeqKeep(i, s) PROVE ShiftAccounts'
    BY <1>1, <1>3, <2>3, UnmovedSeqKeep DEF DoSeqKeep, Keep
  <2>4. ASSUME NEW s \in Seqs, DoSeqAdd(i, s) PROVE ShiftAccounts'
    BY <1>1, <1>3, <2>4, UnmovedSeqAdd DEF DoSeqAdd, Keep
  <2>5. ASSUME NEW p \in Pos, DoPosSet(i, p) PROVE ShiftAccounts'
    <3>1. /\ cells'.pos = [cells.pos EXCEPT ![i] = p]
          /\ cells'.shift = cells.shift /\ cells'.hasShift = cells.hasShift
          /\ base' = [base EXCEPT ![i] = p] /\ divided' = divided \ {i}
      BY <1>1, <2>5 DEF DoPosSet, PosSet, CellArray
    <3>2. cells.shift[i] = 0
      BY <1>1, <2>5 DEF DoPosSet, IsEmpty, IndexAgrees, EmptyIsClean
    <3>3. p \in Int BY DEF Pos
    <3> QED BY <1>1, <1>2, <3>1, <3>2, <3>3 DEF ShiftAccounts, Typed
  <2>6. ASSUME NEW d \in Deltas, DoPosAdd(i, d) PROVE ShiftAccounts'
    <3>1. d \in Int BY KVCellArrayAssumption
    <3>2. cells' = PosAdd(cells, i, d) /\ base' = base /\ divided' = divided
      BY <2>6 DEF DoPosAdd, Keep
    <3>3. cells'.hasShift = TRUE BY <1>1, <3>1, <3>2, PosAddFields
    <3>5. cells.pos[i] # -1 BY <2>6 DEF DoPosAdd, IsEmpty
    <3>4. \A j \in Cells :
            \/ cells'.pos[j] = -1
            \/ /\ cells.pos[j] # -1
               /\ cells'.pos[j] - cells'.shift[j] = cells.pos[j] - cells.shift[j]
      <4>1. CASE cells.pos[i] + d < 0
        <5>0. cells \in CellArray /\ i \in Cells BY <1>1
        <5>1. /\ cells'.pos = [cells.pos EXCEPT ![i] = -1]
              /\ cells'.shift = [cells.shift EXCEPT ![i] = 0]
          BY ONLY <5>0, <3>1, <3>2, <4>1, PosAddFields, ZenonT(30)
        <5> QED BY <1>1, <1>2, <5>1 DEF Typed
      <4>2. CASE ~(cells.pos[i] + d < 0)
        <5>1. /\ cells'.pos = [cells.pos EXCEPT ![i] = @ + d]
              /\ cells'.shift = [cells.shift EXCEPT ![i] = @ + d]
          BY <1>1, <3>2, <4>2 DEF PosAdd, CellArray
        <5>2. /\ cells'.pos[i] = cells.pos[i] + d
              /\ cells'.shift[i] = cells.shift[i] + d
          BY <1>1, <5>1 DEF Typed
        <5>3. \A j \in Cells \ {i} : /\ cells'.pos[j] = cells.pos[j]
                                     /\ cells'.shift[j] = cells.shift[j]
          BY <1>1, <5>1 DEF Typed
        <5>4. cells'.pos[i] - cells'.shift[i] = cells.pos[i] - cells.shift[i]
          BY <1>2, <3>1, <5>2
        <5> QED BY <3>5, <5>3, <5>4
      <4> QED BY <4>1, <4>2
    <3> QED BY <1>2, <3>2, <3>3, <3>4 DEF ShiftAccounts
  <2>7. ASSUME NEW d \in Divisors, DoPosDiv(i, d) PROVE ShiftAccounts'
    <3>1. /\ cells'.pos = [cells.pos EXCEPT ![i] = @ \div d]
          /\ cells'.shift = [cells.shift EXCEPT
                               ![i] = @ + (cells.pos[i] - cells.pos[i] \div d)]
          /\ cells'.hasShift = TRUE
          /\ base' = base /\ divided' = divided \cup {i}
      BY <1>1, <2>7 DEF DoPosDiv, PosDiv, CellArray
    <3> QED BY <1>1, <1>2, <3>1 DEF ShiftAccounts, Typed
  <2>8. CASE DoSet(i)
    <3>1. /\ cells'.pos = [cells.pos EXCEPT ![i] = saved[i].pos]
          /\ cells'.shift = cells.shift /\ cells'.hasShift = cells.hasShift
          /\ base' = [base EXCEPT ![i] = saved[i].pos]
          /\ divided' = divided \ {i}
      BY <1>1, <2>8 DEF DoSet, SetCell, CellArray
    <3>2. cells.shift[i] = 0 BY <2>8 DEF DoSet, NoShift
    <3>3. saved[i].pos \in Int
      BY <1>1, <2>8 DEF DoSet, SavedClean, CleanSave, Pos
    <3> QED BY <1>1, <1>2, <3>1, <3>2, <3>3 DEF ShiftAccounts, Typed
  <2> QED BY <1>6, <2>1, <2>2, <2>3, <2>4, <2>5, <2>6, <2>7, <2>8 DEF CellStep
<1>7. ASSUME NEW I \in SUBSET Cells, DoCp(I) PROVE ShiftAccounts'
  BY <1>3, <1>7 DEF DoCp, Unmoved
<1>8. CASE UNCHANGED vars
  BY <1>8 DEF vars, ShiftAccounts
<1> QED BY <1>4, <1>5, <1>6, <1>7, <1>8 DEF Next

(* The pending shift accounts for every position that was only added to,    *)
(* and nothing is owed when no shift is flagged.                            *)
THEOREM ShiftCorrect == Spec => []ShiftAccounts
<1>1. Init => ShiftAccounts BY DEF Init, Reset, ShiftAccounts
<1>2. IInv /\ ShiftAccounts /\ [Next]_vars => ShiftAccounts' BY ShiftStep
<1> QED BY <1>1, <1>2, Invariance, PTL DEF Spec
=============================================================================
