----------------------------- MODULE MCKVCache -----------------------------
(* Model-checking instance of KVCache: two sequences, batches of at most    *)
(* three tokens.                                                            *)
EXTENDS KVCache, TLC

MCSeqs2 == 0 .. 1

Tok(ids) == [ids |-> ids, pos |-> -1, out |-> TRUE]

\* The first position is given: it is refused when the sequence is not empty.
MCThree     == {<<[ids |-> <<0>>, pos |-> 0, out |-> TRUE]>>, <<Tok(<<1>>)>>,
                <<Tok(<<0>>), Tok(<<1>>), Tok(<<1>>)>>, <<Tok(<<0, 1>>), Tok(<<1>>)>>}

\* A state in which a position is counted too often is checked but not left:
\* the counts would grow without end.
InScope == CountsRight

\* The last answer is read by no action and decides no property but that of
\* the step that gives it.
MCView == <<kv, job, IF job = <<>> THEN Memory!NoCall ELSE call>>

MCFroms  == {-1, 1}
MCTos    == {-1, 1}
MCBack   == {-1}

MoveOps == {"clear", "rm", "rm_any", "cp", "keep", "add", "div"}
=============================================================================
