----------------------------- MODULE MCMemories -----------------------------
(* Instances of Memories: three sequences in a recurrent memory, so that a  *)
(* third one lies between two of a ubatch; one or two with the KV caches.   *)
EXTENDS Memories, TLC

Tok(s) == [ids |-> <<s>>, pos |-> -1, out |-> TRUE]

MCBatchesOf(k) ==
  IF k = "recurrent"
  THEN {<<Tok(2), Tok(1)>>, <<Tok(0), Tok(1)>>}
  ELSE {<<Tok(0)>>, <<Tok(1)>>, <<Tok(0), Tok(0)>>, <<Tok(0), Tok(1)>>}

MCSeqsOf(k) ==
  CASE k = "recurrent" -> 0 .. 2 [] k = "hybrid" -> 0 .. 1 [] OTHER -> {0}

MCOpsOf(k) ==
  CASE k = "recurrent" -> {"clear", "rm", "rm_any", "cp", "keep"}
    [] k = "iswa" -> {"clear", "rm"}
    [] k = "hybrid" -> {"clear", "rm", "cp"}
    [] OTHER -> {"clear", "rm", "div"}

MCMaxPosOf(k) == IF k \in {"recurrent", "hybrid"} THEN 1 ELSE MaxPos

MCFroms  == {-1, 1, 2}
MCTos    == {-1}

(* What the last call returned is read by no action, but that the process   *)
(* is gone.                                                                 *)
MCView == <<kind, mem, job, ret = "abort">>
=============================================================================
