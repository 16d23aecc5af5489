----------------------------- MODULE KVStreams -----------------------------
(***************************************************************************)
(* The K and V buffers behind the cells of KVCache, and the state files.   *)
(* A copy between streams is queued (sc_info) and a shift is recorded in   *)
(* the cells; both reach the buffers in the update that precedes the next  *)
(* decode.  A snapshot reads the buffers as they are, a restore writes     *)
(* them at once.  What a buffer holds for a cell is the token it was       *)
(* computed for and the position its K was rotated to; of an empty cell it *)
(* is forgotten when no copy is queued.  Every action of KVCache is taken  *)
(* with its effect on the buffers, but for divisions, which rotate K the   *)
(* wrong way (see KVCellArray).                                            *)
(***************************************************************************)
EXTENDS KVCache

CONSTANTS Toks,       \* the tokens of the batches
          SaveOf,     \* what snapshots are taken of: sequences, -1 for all
          MaxPending, \* bound on the queued copies
          MaxBetween  \* bound: calls after a snapshot until it is forgotten

VARIABLES data,    \* data[st][i]: what the buffers of stream st hold for cell i
          pending, \* sc_info: the queued copies, in order
          snap,    \* the last snapshot taken
          means,   \* means[st][i]: the token cell i stands for (history)
          spoiled  \* streams whose buffers were spoiled, and why (history)

buffers == <<data, pending, snap, means, spoiled>>
allVars == <<vars, buffers>>

Nothing == [tok |-> "none", rope |-> 0]
NoSnap  == [of |-> -2, cells |-> [st \in Streams |-> <<>>], torn |-> {}, left |-> 0]

(* The snapshot after one more call. *)
Aged == IF snap.left = 0 THEN NoSnap ELSE [snap EXCEPT !.left = @ - 1]

Everywhere(v) == [st \in Streams |-> [i \in Cells |-> v]]

(* The entries of f that belong to a non-empty cell of x.                   *)
InUse(x, f, none) ==
  [st \in Streams |-> [i \in Cells |->
     IF IsEmpty(x.cells[st], i) THEN none ELSE f[st][i]]]

TypeOK_Buffers ==
  /\ TypeOK
  /\ data \in [Streams -> [Cells -> [tok : Toks \cup {"none"}, rope : Int]]]
  /\ means \in [Streams -> [Cells -> Toks \cup {"none"}]]
  /\ pending \in Seq([src : Streams, dst : Streams])
  /\ spoiled \subseteq Streams /\ snap.of \in Seqs \cup {-1, -2}

InitStreams ==
  /\ Init
  /\ data = Everywhere(Nothing)
  /\ means = Everywhere("none")
  /\ pending = <<>>
  /\ snap = NoSnap
  /\ spoiled = {}

-----------------------------------------------------------------------------
(* update(): the queued copies in order, then the K-shift.                  *)
CopyBuffers(d, c) == [d EXCEPT ![c.dst] = d[c.src]]

Flushed(d) == FoldLeft(CopyBuffers, d, pending)

Rotated(d) ==
  [st \in Streams |-> [i \in Cells |->
     [d[st][i] EXCEPT !.rope = @ + kv.cells[st].shift[i]]]]

(* mutant: the K-shift precedes the copies                                  *)
UpdatedShiftFirst(shifted) == Flushed(IF shifted THEN Rotated(data) ELSE data)

UpdatedBuffers(shifted) ==
  IF shifted THEN Rotated(Flushed(data)) ELSE Flushed(data)

-----------------------------------------------------------------------------
(* The calls of KVCache.                                                    *)

(* The buffers of an empty cell matter as long as copies are queued.        *)
Tidy(d) == IF pending' = <<>> THEN InUse(kv', d, Nothing) ELSE d

(* A call that moves no data: the cells it empties stand for nothing.       *)
CellsOnly ==
  /\ UNCHANGED pending
  /\ snap' = Aged
  /\ data' = Tidy(data)
  /\ means' = InUse(kv', means, "none")

(* clear(true); the queue of copies stays                                   *)
ClearAll ==
  /\ Clear
  /\ data' = Everywhere(Nothing)
  /\ means' = Everywhere("none")
  /\ spoiled' = {}
  /\ snap' = Aged
  /\ UNCHANGED pending

SeqCall ==
  /\ \E s \in Seqs, p0 \in Froms, p1 \in Tos :
       \/ DoSeqRm(s, p0, p1)
       \/ \E d \in Seqs : DoShare(s, d, p0, p1)
       \/ \E k \in Deltas : DoSeqAdd(s, p0, p1, k)
  /\ CellsOnly
  /\ UNCHANGED spoiled

KeepCall == (\E s \in Seqs : DoSeqKeep(s)) /\ CellsOnly /\ UNCHANGED spoiled

RmAnyCall ==
  /\ \E p0 \in Froms, p1 \in Tos : DoRmAny(p0, p1)
  /\ CellsOnly
  /\ UNCHANGED spoiled

(* To another stream, which takes the whole source: a partial range aborts. *)
DoCopyStream(src, dst) ==
  /\ StreamOf(src) # StreamOf(dst)
  /\ Call("cp", <<src, dst, -1, -1>>, KVCopyStream(kv, src, dst))

(* mutant: the copy is not queued                                           *)
QueueNothing(s, d) == pending

Queue(s, d) == Append(pending, [src |-> StreamOf(s), dst |-> StreamOf(d)])

CopyCall(s, d) ==
  /\ Len(pending) < MaxPending
  /\ DoCopyStream(s, d)
  /\ pending' = Queue(s, d)
  /\ data' = data
  /\ means' = InUse(kv', [means EXCEPT ![StreamOf(d)] = means[StreamOf(s)]], "none")
  /\ spoiled' = IF StreamOf(s) \in spoiled THEN spoiled \cup {StreamOf(d)}
                ELSE spoiled \ {StreamOf(d)}
  /\ snap' = Aged

(* decode(): the update comes before the search for slots, whatever its     *)
(* outcome; a batch that is invalid is turned away before it.               *)
Invalid == (\E b \in Batches : DecodeInvalid(b)) /\ UNCHANGED buffers

BeginCall ==
  /\ \E b \in Batches : DecodeBegin(b)
  /\ pending' = <<>>
  /\ data' = Tidy(UpdatedBuffers(HasShift(kv) /\ ~HasShift(kv')))
  /\ snap' = Aged
  /\ UNCHANGED <<means, spoiled>>

(* Put vs[k] where token k of the first ubatch of the job goes.             *)
AtSlot(f, vs) ==
  FoldLeftDomain(
    LAMBDA x, k : LET at == CellOf(Head(job).sinfo, k)
                  IN  [x EXCEPT ![at.strm][at.idx] = vs[k]],
    f, vs)

DoneCall ==
  /\ UbatchDone
  /\ LET ub == Head(job).ub
     IN  /\ data' = AtSlot(data, [k \in DOMAIN ub |-> [tok |-> ub[k].tok, rope |-> ub[k].pos]])
         /\ means' = AtSlot(means, [k \in DOMAIN ub |-> ub[k].tok])
  /\ UNCHANGED <<pending, snap, spoiled>>

(* What a failed computation may have written is in cells that are empty.   *)
FailsCall == UbatchFails /\ CellsOnly /\ UNCHANGED spoiled

-----------------------------------------------------------------------------
(* State files. *)

(* state_write() of one stream: the cells of sequence s, or all for -1, in  *)
(* order, with the sequences saved for each and the contents of the buffers *)
Saved(st, s) ==
  LET c    == kv.cells[st]
      mine == SelectSeq([k \in 1 .. Size |-> k - 1],
                        LAMBDA i : ~IsEmpty(c, i) /\ (s = -1 \/ SeqHas(c, i, s)))
  IN  [k \in DOMAIN mine |->
         [pos |-> c.pos[mine[k]], ids |-> IF s = -1 THEN c.seq[mine[k]] ELSE {s},
          data |-> data[st][mine[k]], tok |-> means[st][mine[k]]]]

CopiedInto == {pending[k].dst : k \in DOMAIN pending}
CopiedFrom == {pending[k].src : k \in DOMAIN pending}

(* Streams whose buffers are not what the cells stand for, for a cause the  *)
(* code has: a queued copy, a pending shift, or spoiled before.             *)
Behind == CopiedInto \cup spoiled
            \cup {st \in Streams : \E i \in Cells : kv.cells[st].shift[i] # 0}

Save(s) ==
  /\ "save" \in Ops
  /\ job = <<>>
  /\ snap' = [of |-> s, cells |-> [st \in Streams |-> Saved(st, s)],
              torn |-> {st \in Behind : Saved(st, s) # <<>>}, left |-> MaxBetween]
  /\ Calling("save", <<s>>)
  /\ ret' = "void"
  /\ UNCHANGED <<kv, job, data, pending, means, spoiled>>

NotEmpty(sn) == SelectSeq(SetToSortSeq(Streams, <), LAMBDA st : sn.cells[st] # <<>>)

(* state_read_meta() of a whole stream: clear(true), then the cells 0, 1... *)
FillCell(c, k, e) == FoldSet(LAMBDA s, x : SeqAdd(x, k - 1, s), PosSet(c, k - 1, e.pos), e.ids)

(* mutant: what was there is not cleared                                    *)
FillOnTop(x, st, es) ==
  Put(x, st, FoldLeftDomain(LAMBDA c, k : FillCell(c, k, es[k]), Reset, es), 0)

Fill(x, st, es) ==
  Put(KVClear, st, FoldLeftDomain(LAMBDA c, k : FillCell(c, k, es[k]), Reset, es), 0)

(* state_read() of the whole cache: stream after stream, the empty ones     *)
(* skipped.                                                                 *)
LoadedAll(sts) == FoldLeft(LAMBDA x, st : Fill(x, st, snap.cells[st]), kv, sts)

Data(es)    == [k \in DOMAIN es |-> es[k].data]
Meanings(es) == [k \in DOMAIN es |-> es[k].tok]

(* The buffers: zeroed by each clear(true), so that they hold what was read *)
(* for the last stream only.                                                *)
Contents(last, vs, none) ==
  [st \in Streams |-> [i \in Cells |->
     IF st = last /\ i < Len(vs) THEN vs[i + 1] ELSE none]]

(* The copies that are still queued will overwrite what was restored.       *)
Overwritten(T) == IF T \cap (CopiedInto \cup CopiedFrom) = {} THEN {} ELSE CopiedInto

Load ==
  /\ "save" \in Ops
  /\ job = <<>>
  /\ Calling("load", <<snap.of>>)

LoadAll ==
  LET sts  == NotEmpty(snap)
      last == Last(sts)
  IN  /\ Load
      /\ snap.of = -1
      /\ sts # <<>>
      /\ kv' = LoadedAll(sts)
      /\ ret' = "loaded"
      /\ data' = Contents(last, Data(snap.cells[last]), Nothing)
      /\ means' = Contents(last, Meanings(snap.cells[last]), "none")
      /\ spoiled' = (snap.torn \cap ToSet(sts)) \cup Overwritten(Streams)
      /\ snap' = Aged
      /\ UNCHANGED <<job, pending>>

(* A snapshot without a cell is read to its end and changes nothing.        *)
LoadNothing ==
  /\ Load
  /\ snap.of # -2
  /\ NotEmpty(snap) = <<>>
  /\ ret' = "loaded"
  /\ snap' = Aged
  /\ UNCHANGED <<kv, job, data, pending, means, spoiled>>

(* state_read() of one sequence: it is removed, its tokens are placed as a  *)
(* ubatch of it.  Without room it stays removed and the call fails.         *)
AsUbatch(es, s) == [k \in DOMAIN es |-> [ids |-> <<s>>, pos |-> es[k].pos]]

(* mutant: the tokens it had stay                                           *)
NotEmptied(s) == kv

RemovedFirst(s) == KVSeqRm(kv, s, -1, -1)

Scatter(f, sinfo, vs) ==
  FoldLeftDomain(LAMBDA x, k : [x EXCEPT ![sinfo[1].strm][sinfo[1].idxs[k]] = vs[k]], f, vs)

(* whole = FALSE: the input ends before the data, which throws past the     *)
(* clean-up that follows a failed read.                                     *)
LoadSeq(s, whole) ==
  LET st      == StreamOf(s)
      cleared == RemovedFirst(s)
  IN  \E src \in {x \in Streams : snap.cells[x] # <<>>} :
        /\ Load
        /\ snap.of \in Seqs
        /\ snap' = Aged
        /\ UNCHANGED <<job, pending>>
        /\ \E es \in {snap.cells[src]} : \E sinfo \in {FindSlotFor(cleared, <<s>>, Len(es))} :
             /\ kv' = IF sinfo = <<>> THEN cleared
                      ELSE ApplyUbatch(cleared, sinfo, AsUbatch(es, s))
             /\ ret' = IF sinfo # <<>> /\ whole THEN "loaded" ELSE "failed"
             /\ means' = InUse(kv', IF sinfo = <<>> THEN means
                                    ELSE Scatter(means, sinfo, Meanings(es)), "none")
             /\ data' = Tidy(IF sinfo = <<>> \/ ~whole THEN data
                             ELSE Scatter(data, sinfo, Data(es)))
             /\ spoiled' = ((spoiled \ {st}) \cup Overwritten({st}))
                             \cup (IF src \in snap.torn \/ ~whole THEN {st} ELSE {})

LoadStep == LoadAll \/ \E s \in Seqs, whole \in BOOLEAN : LoadSeq(s, whole)

NextStreams ==
  \/ ClearAll
  \/ SeqCall
  \/ KeepCall
  \/ RmAnyCall
  \/ \E s \in Seqs, d \in Seqs : CopyCall(s, d)
  \/ Invalid
  \/ BeginCall
  \/ DoneCall
  \/ FailsCall
  \/ \E s \in SaveOf : Save(s)
  \/ LoadAll
  \/ LoadNothing
  \/ \E s \in Seqs, whole \in BOOLEAN : LoadSeq(s, whole)

SpecStreams == InitStreams /\ [][NextStreams]_allVars

-----------------------------------------------------------------------------
(* Once the queued copies and the pending shift are done, the buffers hold  *)
(* for every cell the token it stands for, rotated to its position; unless  *)
(* one of the named causes spoiled the stream: a snapshot taken while       *)
(* work was pending, a restore into a stream that a queued copy will       *)
(* overwrite or was to be read from, an input that ended early.             *)
DataMatches ==
  \A st \in Streams \ spoiled, i \in Cells :
    LET c == kv.cells[st]
    IN  ~IsEmpty(c, i) =>
          Flushed(data)[st][i] = [tok |-> means[st][i], rope |-> c.pos[i] - c.shift[i]]

(* What a stream holds: positions, sequences and contents, without places.  *)
Holds(x, d, st) ==
  ToBag([k \in 1 .. Size |->
     IF IsEmpty(x.cells[st], k - 1) THEN <<>>
     ELSE <<x.cells[st].pos[k - 1], x.cells[st].seq[k - 1], d[st][k - 1]>>])
AsSaved(es) ==
  ToBag([k \in 1 .. Size |->
     IF k > Len(es) THEN <<>> ELSE <<es[k].pos, es[k].ids, es[k].data>>])

HoldsSnapshot == \A st \in Streams : Holds(kv', data', st) = AsSaved(snap.cells[st])

(* A snapshot of the whole cache in which one stream held tokens is         *)
(* restored as it was, and nothing of what was there before stays.          *)
OneStreamExact == [][LoadAll /\ Len(NotEmpty(snap)) = 1 => HoldsSnapshot]_allVars

(* Restoring the snapshot of a sequence gives the sequence what was saved,  *)
(* wherever the search put it, and leaves the other streams alone.          *)
Renamed(e, s) == [e EXCEPT !.ids = {s}]
SeqLoadExact ==
  [][\A s \in Seqs : LoadSeq(s, TRUE) =>
       /\ \E src \in Streams :
            Holds(kv', data', StreamOf(s)) =
              AsSaved([k \in DOMAIN snap.cells[src] |-> Renamed(snap.cells[src][k], s)])
       /\ \A st \in Streams \ {StreamOf(s)} : Holds(kv', data', st) = Holds(kv, data, st)]_allVars

(* A snapshot of the whole cache is restored as it was.                     *)
RestoreReturns == [][LoadAll => HoldsSnapshot]_allVars

(* A call on the state files that changes no cell.                          *)
Quiet == LoadNothing \/ \E s \in SaveOf : Save(s)

(* seq_keep() looks at the stream of the sequence it keeps and no further:  *)
(* with a stream for each sequence it removes nothing.                      *)
KeepsItsStream == (\E s \in Seqs : DoSeqKeep(s)) /\ UNCHANGED MemBag

(* Every call has the effect SeqMemory gives THIS call, copies to another   *)
(* stream included.  Apart from restores, which have their own properties,  *)
(* one call is left out: seq_keep(), which llama_memory_seq_keep() of       *)
(* R/llama.R:2300 and llama.h promise to remove ALL other sequences, may    *)
(* leave everything as it is.                                               *)
StreamsImplementMemory ==
  Memory!Init /\ [][\/ Memory!Next
                    \/ KeepsItsStream
                    \/ LoadStep
                    \/ Quiet /\ UNCHANGED MemBag]_(Memory!memory)

(* Without that exception; refuted by seq_keep() with two streams in use.   *)
KeepRemovesOthers ==
  Memory!Init /\ [][Memory!Next \/ LoadStep \/ Quiet]_(Memory!memory)
=============================================================================
