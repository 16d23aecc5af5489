----------------------------- MODULE MCLogQueue -----------------------------
(* A ring of two entries that five messages make grow twice, and three        *)
(* calls of the controller.                                                   *)
EXTENDS LogQueue
=============================================================================
