------------------------- MODULE MCSamplerHandles -------------------------
(* Samplers and handles are interchangeable among themselves.              *)
EXTENDS SamplerHandles, TLC

Symmetry == Permutations(Sampler) \cup Permutations(Handle)
=============================================================================
