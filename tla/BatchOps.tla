------------------------------ MODULE BatchOps ------------------------------
(***************************************************************************)
(* The batch allocator: class llama_batch_allocr of                        *)
(* src/src/llama-batch.cpp.  A batch is a sequence of tokens, a token      *)
(*   [ids |-> <<s0, ...>>, pos |-> p, out |-> BOOLEAN]                     *)
(* its sequence ids in the order the caller lists them, its position and   *)
(* whether its logits are wanted.  What the memory module reports is       *)
(* mem = [lo, hi : [Seqs -> -1 ..]], the smallest and largest position of  *)
(* each sequence.  Token ids and embedding inputs carry no control here.   *)
(***************************************************************************)
EXTENDS Integers, Sequences, FiniteSets, SequencesExt, FiniteSetsExt

CONSTANT Seqs   \* sequence ids, 0 .. n_seq_max - 1

SeqSet(t)  == ToSet(t.ids)
FirstId(t) == t.ids[1]

-----------------------------------------------------------------------------
(* init() *)

(* Positions the caller leaves out continue each sequence from the memory.  *)
AutoPos(toks, mem) ==
  LET p0[i \in 0 .. Len(toks)] ==
        IF i = 0 THEN [s \in Seqs |-> mem.hi[s] + 1]
        ELSE [s \in Seqs |-> IF s \in SeqSet(toks[i]) THEN p0[i - 1][FirstId(toks[i])] + 1
                             ELSE p0[i - 1][s]]
  IN  [i \in 1 .. Len(toks) |-> [toks[i] EXCEPT !.pos = p0[i - 1][FirstId(toks[i])]]]

(* The positions the batch holds for sequence s. *)
SeqPositionsIn(toks, s) ==
  {toks[i].pos : i \in {j \in DOMAIN toks : s \in SeqSet(toks[j])}}

(* seq_cpl[s1][s0]: a token lists s1 after its first sequence s0. *)
Coupled(toks) ==
  UNION {{<<toks[i].ids[k], FirstId(toks[i])>> : k \in 2 .. Len(toks[i].ids)} :
         i \in DOMAIN toks}

(* Each sequence continues where the memory ends, without gaps.             *)
Continues(toks, mem) ==
  \A s \in Seqs :
    LET P == SeqPositionsIn(toks, s)
    IN  P # {} => /\ mem.hi[s] >= 0 => Min(P) = mem.hi[s] + 1
                  /\ Max(P) - Min(P) + 1 <= Cardinality(P)

(* Coupled sequences have not diverged in the memory.                       *)
CouplesAgree(toks, mem) ==
  \A p \in Coupled(toks) :
    mem.lo[p[1]] = mem.lo[p[2]] /\ mem.hi[p[1]] = mem.hi[p[2]]

(* The scan that is to disallow partial sequence sub-sets and decreasing    *)
(* positions.  cur_seq_set[s] starts full and is intersected with the set   *)
(* of every token of s so far; cur_seq_pos[s] starts at -1 and stays there. *)
ScanAccepts(toks) ==
  \A i \in DOMAIN toks : \A s \in SeqSet(toks[i]) :
    /\ \E t \in Seqs : \A j \in 1 .. i :
         s \in SeqSet(toks[j]) => t \in SeqSet(toks[j])
    /\ toks[i].pos >= -1

Accepts(toks, mem) ==
  Continues(toks, mem) /\ CouplesAgree(toks, mem) /\ ScanAccepts(toks)

-----------------------------------------------------------------------------
(* The splits.  Each takes the token sequence, the set `used' of the        *)
(* indices already handed out and n_ubatch, and returns the batch indices   *)
(* of the next ubatch in order, <<>> when there is none.                    *)
Unused(toks, used) == DOMAIN toks \ used

(* The numbers of a set in increasing order.                                *)
Listed(S) ==
  [k \in 1 .. Cardinality(S) |->
     CHOOSE x \in S : Cardinality({y \in S : y <= x}) = k]

SplitSimple(toks, used, n) ==
  LET left == Unused(toks, used)
      cur  == Min(left)
      len  == Min({n, Len(toks) - cur + 1})
  IN  IF left = {} THEN <<>> ELSE [k \in 1 .. len |-> cur + k - 1]

(* mutant: the sequence ids of a sequential split need not be consecutive   *)
JoinsAnyOrder(toks, n, sequential, acc, i) ==
  /\ Len(acc) <= n
  /\ \A k \in DOMAIN acc : SeqSet(toks[acc[k]]) \cap SeqSet(toks[i]) = {}

(* Token i adds its sequence set to an equal split that has the sets of the *)
(* tokens acc: the loop stops once their number has passed n_ubatch.        *)
Joins(toks, n, sequential, acc, i) ==
  /\ Len(acc) <= n
  /\ \A k \in DOMAIN acc : SeqSet(toks[acc[k]]) \cap SeqSet(toks[i]) = {}
  /\ sequential => acc = <<>> \/ FirstId(toks[i]) = FirstId(toks[Last(acc)]) + 1

(* The first token of each sequence set of an equal split.                  *)
Leaders(toks, used, n, sequential) ==
  LET f[i \in 0 .. Len(toks)] ==
        IF i = 0 THEN <<>>
        ELSE IF i \notin used /\ Joins(toks, n, sequential, f[i - 1], i)
             THEN Append(f[i - 1], i) ELSE f[i - 1]
  IN  f[Len(toks)]

(* mutants: the tokens already used are not skipped; the last tokens of     *)
(* each set come first                                                      *)
TokensOfSetReused(toks, used, S) == Listed({i \in DOMAIN toks : SeqSet(toks[i]) = S})
TokensOfSetFromEnd(toks, used, S) ==
  Reverse(Listed({i \in Unused(toks, used) : SeqSet(toks[i]) = S}))

TokensOfSet(toks, used, S) == Listed({i \in Unused(toks, used) : SeqSet(toks[i]) = S})

(* One token of each list per round, until a list runs out or another round *)
(* would exceed n; the lists are concatenated.                              *)
Rounds(lists, n) ==
  Min({Max({1, n \div Len(lists)})} \cup {Len(lists[k]) : k \in DOMAIN lists})
FirstRounds(lists, n) ==
  FlattenSeq([k \in DOMAIN lists |-> SubSeq(lists[k], 1, Rounds(lists, n))])
ListsOf(toks, used, leaders) ==
  [k \in 1 .. Len(leaders) |-> TokensOfSet(toks, used, SeqSet(toks[leaders[k]]))]

SplitEqual(toks, used, n, sequential) ==
  IF (sequential /\ Coupled(toks) # {}) \/ Unused(toks, used) = {} THEN <<>>
  ELSE FirstRounds(ListsOf(toks, used, Leaders(toks, used, n, sequential)), n)

(* Tokens whose sequence set is contained in the set of the token before.   *)
Narrows(toks, n, acc, i) ==
  \/ acc = <<>>
  \/ Len(acc) < n /\ SeqSet(toks[i]) \subseteq SeqSet(toks[Last(acc)])

SplitSeq(toks, used, n) ==
  LET f[i \in 0 .. Len(toks)] ==
        IF i = 0 THEN <<>>
        ELSE IF i \notin used /\ Narrows(toks, n, f[i - 1], i)
             THEN Append(f[i - 1], i) ELSE f[i - 1]
  IN  f[Len(toks)]
=============================================================================
