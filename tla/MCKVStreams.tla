---------------------------- MODULE MCKVStreams ----------------------------
(* Instances of KVStreams: a stream for each of two sequences.             *)
EXTENDS KVStreams, TLC

MCSeqs == 0 .. 1
Tok(s, p, x) == [ids |-> <<s>>, pos |-> p, out |-> TRUE, tok |-> x]

\* The first position is given: it is refused when the sequence is not empty.
MCBatches == {<<Tok(0, 0, "a")>>, <<Tok(0, -1, "a"), Tok(1, -1, "b")>>}

MCFroms  == {-1}
MCEnds   == {-1}
MCDeltas == {1}
MCSaveOf == {-1, 0}
AllOps   == {"clear", "rm", "rm_any", "cp", "keep", "add", "save"}

\* What no action and no property tells apart: the last answer, and the
\* contents of streams that are spoiled already.
Seen(d) == [st \in Streams \ spoiled |-> d[st]]
Unspoiled(sn) == [sn EXCEPT !.cells = [st \in Streams |->
                   [k \in DOMAIN @[st] |->
                      IF st \in sn.torn THEN [@[st][k] EXCEPT !.data = Nothing, !.tok = "none"]
                      ELSE @[st][k]]]]
MCView == <<kv, job, IF job = <<>> THEN Memory!NoCall ELSE call, Seen(data), pending, Unspoiled(snap), Seen(means), spoiled>>
=============================================================================
