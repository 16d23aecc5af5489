---------------------------- MODULE MCBatchSplit ----------------------------
(* Batches of up to three tokens over three sequences: all choices of the   *)
(* sequence ids of each token, of which tokens are outputs, and of where    *)
(* the memory ends.  Some come with positions (all choices of them), the    *)
(* others leave them to init().                                             *)
EXTENDS BatchSplit

IdLists == {<<0>>, <<1>>, <<2>>, <<0, 1>>, <<1, 2>>}

Tok(ids, p, out) == [ids |-> ids, pos |-> p, out |-> out]

MCMems ==
  {[lo |-> [s \in Seqs |-> -1], hi |-> [s \in Seqs |-> -1]],
   [lo |-> [s \in Seqs |-> 0], hi |-> [s \in Seqs |-> IF s = 2 THEN 1 ELSE 0]]}

(* Without positions. *)
MCAuto ==
  UNION {{[i \in 1 .. len |-> Tok(ids[i], 0, outs[i])] :
            ids \in [1 .. len -> IdLists], outs \in [1 .. len -> BOOLEAN]} :
         len \in 1 .. 3}

(* With positions, all tokens being outputs. *)
MCGiven ==
  UNION {{[i \in 1 .. len |-> Tok(ids[i], ps[i], TRUE)] :
            ids \in [1 .. len -> {<<0>>, <<1>>, <<0, 1>>}],
            ps \in [1 .. len -> 0 .. 2]} :
         len \in 1 .. 3}

(* Four tokens in two or three sequences: a sort with several swaps. *)
MCLong == {[i \in 1 .. 4 |-> Tok(ids[i], 0, TRUE)] : ids \in [1 .. 4 -> {<<0>>, <<1>>, <<2>>}]}

MCAutoAll == MCAuto \cup MCLong
=============================================================================
