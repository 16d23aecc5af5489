----------------------------- MODULE BatchSplit -----------------------------
(***************************************************************************)
(* One batch on its way through llama_context::decode: init() accepts or   *)
(* rejects it, the memory module splits it into ubatches until no token is *)
(* left, every ubatch writes its output rows, and at the end the rows are  *)
(* mapped back to the tokens of the batch.  rows is a history variable:    *)
(* rows[r] is the token whose logits the r-th output row holds.            *)
(***************************************************************************)
EXTENDS BatchOps

CONSTANTS Batches,    \* token sequences a caller may submit
          AutoBatches,\* token sequences submitted without positions
          Mems,       \* what the memory may report for the sequences
          NUbatches,  \* values of n_ubatch
          Kinds       \* splits: subset of {"simple", "equal", "sequential", "seq"}

(* What the caller must pass: every token lists a sequence id.              *)
Tokens == [ids : Seq(Seqs) \ {<<>>}, pos : Int, out : BOOLEAN]

ASSUME BatchSplitAssumption ==
  /\ Seqs \subseteq Nat
  /\ Batches \cup AutoBatches \subseteq Seq(Tokens)
  /\ NUbatches \subseteq Nat \ {0}
  /\ Kinds \subseteq {"simple", "equal", "sequential", "seq"}

VARIABLES phase, toks, mem, kind, n,
          ubs,       \* the ubatches, each a sequence of batch indices
          cur,       \* ubatches computed so far (i_next of the memory context)
          outIds,    \* out_ids
          outputIds, \* output_ids: row of each token, 0 for "no output"
          swaps,     \* output_swaps
          rows

vars == <<phase, toks, mem, kind, n, ubs, cur, outIds, outputIds, swaps,
          rows>>

Used == UNION {ToSet(ubs[k]) : k \in DOMAIN ubs}

Init ==
  /\ phase = "init"
  /\ mem \in Mems
  /\ kind \in Kinds
  /\ n \in NUbatches
  /\ toks \in Batches \cup {AutoPos(b, mem) : b \in AutoBatches}
  /\ cur = 0
  /\ ubs = <<>> /\ outIds = <<>> /\ swaps = <<>> /\ rows = <<>>
  /\ outputIds = [i \in DOMAIN toks |-> 0]

Given == UNCHANGED <<toks, mem, kind, n>>

Accept ==
  /\ phase = "init"
  /\ phase' = IF Accepts(toks, mem) THEN "splitting" ELSE "rejected"
  /\ Given /\ UNCHANGED <<ubs, cur, outIds, outputIds, swaps, rows>>

NextUbatch ==
  CASE kind = "simple"     -> SplitSimple(toks, Used, n)
    [] kind = "equal"      -> SplitEqual(toks, Used, n, FALSE)
    [] kind = "sequential" -> SplitEqual(toks, Used, n, TRUE)
    [] kind = "seq"        -> SplitSeq(toks, Used, n)

(* The tokens of a ubatch whose logits are wanted.                          *)
WithOutput(ub) ==
  FlattenSeq([k \in 1 .. Len(ub) |-> IF toks[ub[k]].out THEN <<ub[k]>> ELSE <<>>])

(* ubatch_add(): the indices of the output tokens go to out_ids.            *)
Split ==
  /\ phase = "splitting"
  /\ NextUbatch # <<>>
  /\ ubs' = Append(ubs, NextUbatch)
  /\ outIds' = outIds \o WithOutput(NextUbatch)
  /\ Given /\ UNCHANGED <<phase, cur, outputIds, swaps, rows>>

(* No further ubatch: init_batch() goes on when every token is used, and    *)
(* reports FAILED_PREPARE otherwise.                                        *)
SplitEnds ==
  /\ phase = "splitting"
  /\ NextUbatch = <<>>
  /\ phase' = IF Cardinality(Used) = Len(toks) THEN "compute" ELSE "failed"
  /\ Given /\ UNCHANGED <<ubs, cur, outIds, outputIds, swaps, rows>>

(* process_ubatch() of the next ubatch: its output rows follow the rows     *)
(* written so far.                                                          *)
Compute ==
  /\ phase = "compute"
  /\ cur < Len(ubs)
  /\ cur' = cur + 1
  /\ rows' = rows \o WithOutput(ubs[cur + 1])
  /\ Given /\ UNCHANGED <<phase, ubs, outIds, outputIds, swaps>>

-----------------------------------------------------------------------------
(* The selection sort of decode(): it sorts out_ids and records its swaps.  *)
Swapped(f, i, j) == [f EXCEPT ![i] = f[j], ![j] = f[i]]

(* The place of the least number from i on, of several the first.           *)
LeastFrom(ids, i) ==
  CHOOSE j \in i .. Len(ids) :
    \A l \in i .. Len(ids) : ids[j] <= ids[l] /\ (ids[l] = ids[j] => j <= l)

(* There is nothing to do for the last number.                              *)
SelectionSort(ids) ==
  LET s[i \in 0 .. Len(ids)] ==
        IF i = 0 THEN [ids |-> ids, swaps |-> <<>>]
        ELSE LET j == LeastFrom(s[i - 1].ids, i)
             IN  IF j = i THEN s[i - 1]
                 ELSE [ids   |-> Swapped(s[i - 1].ids, i, j),
                       swaps |-> Append(s[i - 1].swaps, <<i, j>>)]
  IN  s[Len(ids)]

RowOf(ids) ==
  [i \in DOMAIN toks |->
     IF i \in ToSet(ids) THEN CHOOSE r \in DOMAIN ids : ids[r] = i ELSE 0]

(* mutant: the rows are sorted but the mapping is the one from before       *)
MapOutputsUnsorted ==
  LET sorted == SelectionSort(outIds)
  IN  /\ phase = "compute"
      /\ cur = Len(ubs)
      /\ phase' = "mapped"
      /\ outIds' = sorted.ids
      /\ swaps' = sorted.swaps
      /\ outputIds' = RowOf(outIds)
      /\ Given /\ UNCHANGED <<ubs, cur, rows>>

(* After the last ubatch: set the output mappings.                          *)
MapOutputs ==
  LET sorted == SelectionSort(outIds)
  IN  /\ phase = "compute"
      /\ cur = Len(ubs)
      /\ phase' = "mapped"
      /\ outIds' = sorted.ids
      /\ swaps' = sorted.swaps
      /\ outputIds' = RowOf(sorted.ids)
      /\ Given /\ UNCHANGED <<ubs, cur, rows>>

(* Swaps done one after the other.                                          *)
Replayed(f, sw) ==
  LET g[k \in 0 .. Len(sw)] ==
        IF k = 0 THEN f ELSE Swapped(g[k - 1], sw[k][1], sw[k][2])
  IN  g[Len(sw)]

(* output_reorder(), on the first access to the outputs.                    *)
Reorder ==
  /\ phase = "mapped"
  /\ phase' = "read"
  /\ rows' = Replayed(rows, swaps)
  /\ swaps' = <<>>
  /\ Given /\ UNCHANGED <<ubs, cur, outIds, outputIds>>

Next ==
  \/ Accept \/ Split \/ SplitEnds
  \/ Compute \/ MapOutputs \/ Reorder

Spec == Init /\ [][Next]_vars

-----------------------------------------------------------------------------
(* No token is handed out twice, and a split that ends early, which decode  *)
(* reports as "no KV slot", happens only for coupled sequences in a         *)
(* sequential split.                                                        *)
EachTokenOnce ==
  /\ IsInjective(FlattenSeq(ubs))
  /\ phase \in {"compute", "mapped", "read"} => Used = DOMAIN toks
  /\ phase = "failed" => kind = "sequential" /\ Coupled(toks) # {}

(* The tokens of a sequence are computed in the order of the batch, which   *)
(* is the order of their positions: a token never precedes one it attends   *)
(* to.  WellFormed batches keep one sequence set per sequence.              *)
WellFormed ==
  \A i, j \in DOMAIN toks :
    i < j => \A s \in SeqSet(toks[i]) \cap SeqSet(toks[j]) :
               /\ SeqSet(toks[i]) = SeqSet(toks[j])
               /\ toks[i].pos < toks[j].pos

KeepsOrder ==
  LET order == FlattenSeq(ubs)
  IN  WellFormed =>
        \A k, l \in DOMAIN order :
          k < l /\ SeqSet(toks[order[k]]) \cap SeqSet(toks[order[l]]) # {} =>
            toks[order[k]].pos < toks[order[l]].pos

(* An equal split is a block of equally many tokens per sequence set.  In a *)
(* sequential one the block of the k-th unique sequence id, in increasing   *)
(* order, is the k-th block: find_slot() asserts this before it assigns the *)
(* block to the stream of that sequence.                                    *)
BlocksMatchStreams ==
  kind = "sequential" => \A k \in DOMAIN ubs :
    LET ub   == ubs[k]
        unq  == Listed(UNION {SeqSet(toks[i]) : i \in ToSet(ub)})
        size == Len(ub) \div Len(unq)
    IN  /\ Len(ub) = size * Len(unq)
        /\ \A b \in DOMAIN unq : \A x \in 1 .. size :
             toks[ub[(b - 1) * size + x]].ids = <<unq[b]>>

(* After the lazy reorder, the row a token's output is looked up in is the  *)
(* row its logits were written to, and the rows are in batch order.         *)
OutputsResolve ==
  phase = "read" => \A i \in DOMAIN toks :
    IF toks[i].out
    THEN /\ outputIds[i] # 0 /\ rows[outputIds[i]] = i
         /\ \A j \in DOMAIN toks :
              i < j /\ toks[j].out => outputIds[i] < outputIds[j]
    ELSE outputIds[i] = 0
=============================================================================
