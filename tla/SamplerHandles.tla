--------------------------- MODULE SamplerHandles ---------------------------
(***************************************************************************)
(* Who owns a sampler: the R handles of r_llama_interface.cpp (struct      *)
(* llamar_sampler_handle and the r_llama_sampler_* entry points) over the  *)
(* sampler chains of llama-sampling.cpp, which own their members.          *)
(*                                                                         *)
(* A sampler is an allocation: never made, live, or freed.  It holds no    *)
(* more than the samplers a chain contains; their order does not matter to *)
(* who owns them.  The liveness record of a chain (llamar_chain_life) is   *)
(* kept at the chain sampler it was made for, and outlives it, as the      *)
(* shared pointers do.  A handle whose smpl is Null is one that R does not *)
(* have, or one that was freed: every entry point refuses both.            *)
(*                                                                         *)
(* An operation through a handle that passes its check and whose sampler   *)
(* is freed is undefined behaviour: the model has no step for it, and      *)
(* HandleSafe says when such a handle exists.                              *)
(***************************************************************************)
EXTENDS Integers, FiniteSets

CONSTANTS Sampler,        \* the samplers that can ever be allocated
          Handle,         \* the handles R can have at a time
          Null,
          MaxGeneration   \* bound on the generation of a chain

ASSUME SamplerAssumption ==
  /\ Null \notin Sampler
  /\ MaxGeneration \in Nat

VARIABLES mem,       \* "unborn", "live" or "freed", of each sampler
          members,   \* the samplers inside a chain
          alive,     \* llamar_chain_life::alive of the chain's record
          gen,       \* llamar_chain_life::generation
          smpl, owned, isChain,  \* of each handle
          parent,    \* the chain whose life is the handle's parent_life
          pgen,      \* parent_generation
          nested     \* history: the samplers that ever joined a chain

memory  == <<mem, members>>
life    == <<alive, gen>>
handles == <<smpl, owned, isChain, parent, pgen>>
vars    == <<mem, members, alive, gen, smpl, owned, isChain, parent, pgen,
             nested>>

Init ==
  /\ mem = [s \in Sampler |-> "unborn"]
  /\ members = [s \in Sampler |-> {}]
  /\ alive = [s \in Sampler |-> FALSE]
  /\ gen = [s \in Sampler |-> 0]
  /\ smpl = [h \in Handle |-> Null]
  /\ owned = [h \in Handle |-> FALSE]
  /\ isChain = [h \in Handle |-> FALSE]
  /\ parent = [h \in Handle |-> Null]
  /\ pgen = [h \in Handle |-> 0]
  /\ nested = {}

-----------------------------------------------------------------------------
(* The check every entry point makes, and what allocates and frees.        *)

\* A handle that passes: its sampler was not freed through it, and the chain
\* it belongs to, if any, is alive in the generation the handle has seen.
Passes(h) ==
  /\ smpl[h] # Null
  /\ parent[h] # Null => alive[parent[h]] /\ gen[parent[h]] = pgen[h]

Live(s) == s \in Sampler /\ mem[s] = "live"

\* A handle R does not have becomes one for sampler s.
SetHandle(h, s, own, chain, par, g) ==
  /\ smpl' = [smpl EXCEPT ![h] = s]
  /\ owned' = [owned EXCEPT ![h] = own]
  /\ isChain' = [isChain EXCEPT ![h] = chain]
  /\ parent' = [parent EXCEPT ![h] = par]
  /\ pgen' = [pgen EXCEPT ![h] = g]

ClearHandle(h) == SetHandle(h, Null, FALSE, FALSE, Null, 0)

\* The liveness record of a new chain handle.
NewLife(s, chain) ==
  /\ alive' = [alive EXCEPT ![s] = chain]
  /\ gen' = [gen EXCEPT ![s] = IF chain THEN 1 ELSE 0]

\* The samplers freed or copied with s: s and what its chain contains, down to
\* the last.
Closed(S) == \A s \in S : members[s] \subseteq S
Within(s) ==
  {t \in Sampler : \A S \in SUBSET Sampler : s \in S /\ Closed(S) => t \in S}

-----------------------------------------------------------------------------
(* The entry points.                                                       *)

\* chain_new() and sampler_new().
New(s, h, chain) ==
  /\ mem[s] = "unborn" /\ smpl[h] = Null
  /\ mem' = [mem EXCEPT ![s] = "live"]
  /\ SetHandle(h, s, TRUE, chain, Null, 0)
  /\ NewLife(s, chain)
  /\ UNCHANGED <<members, nested>>

\* chain_from_params(): a chain with samplers R has no handle for; one of them
\* stands for all.
ChainFromParams(s, m, h) ==
  /\ s # m /\ mem[s] = "unborn" /\ mem[m] = "unborn" /\ smpl[h] = Null
  /\ mem' = [mem EXCEPT ![s] = "live", ![m] = "live"]
  /\ members' = [members EXCEPT ![s] = {m}]
  /\ nested' = nested \cup {m}
  /\ SetHandle(h, s, TRUE, TRUE, Null, 0)
  /\ NewLife(s, TRUE)

\* (mutant) chain_add() leaves the handle the owner of its sampler.
ChainAddKeeps(c, h) ==
  /\ Passes(c) /\ isChain[c] /\ Live(smpl[c])
  /\ Passes(h) /\ owned[h] /\ h # c
  /\ members' = [members EXCEPT ![smpl[c]] = @ \cup {smpl[h]}]
  /\ SetHandle(h, smpl[h], TRUE, isChain[h], smpl[c], gen[smpl[c]])
  /\ nested' = nested \cup {smpl[h]}
  /\ UNCHANGED <<mem, life>>

\* chain_add(): the chain of handle c takes the sampler of handle h over.
ChainAdd(c, h) ==
  /\ Passes(c) /\ isChain[c] /\ Live(smpl[c])
  /\ Passes(h) /\ owned[h] /\ h # c
  /\ members' = [members EXCEPT ![smpl[c]] = @ \cup {smpl[h]}]
  /\ SetHandle(h, smpl[h], FALSE, isChain[h], smpl[c], gen[smpl[c]])
  /\ nested' = nested \cup {smpl[h]}
  /\ UNCHANGED <<mem, life>>

\* chain_get(): a borrowed handle of a member, or of the chain itself.
ChainGet(c, s, h) ==
  /\ Passes(c) /\ isChain[c] /\ Live(smpl[c])
  /\ s \in members[smpl[c]] \cup {smpl[c]}
  /\ smpl[h] = Null
  /\ SetHandle(h, s, FALSE, FALSE, smpl[c], gen[smpl[c]])
  /\ UNCHANGED <<memory, life, nested>>

\* (mutant) A generation of one bit.
ChainRemoveWraps(c, s, h) ==
  /\ Passes(c) /\ isChain[c] /\ Live(smpl[c])
  /\ s \in members[smpl[c]]
  /\ smpl[h] = Null
  /\ members' = [members EXCEPT ![smpl[c]] = @ \ {s}]
  /\ gen' = [gen EXCEPT ![smpl[c]] = (@ + 1) % 2]
  /\ SetHandle(h, s, TRUE, FALSE, Null, 0)
  /\ UNCHANGED <<mem, alive, nested>>

\* (mutant) chain_remove() leaves the generation as it was.
ChainRemoveSilent(c, s, h) ==
  /\ Passes(c) /\ isChain[c] /\ Live(smpl[c])
  /\ s \in members[smpl[c]]
  /\ smpl[h] = Null
  /\ members' = [members EXCEPT ![smpl[c]] = @ \ {s}]
  /\ SetHandle(h, s, TRUE, FALSE, Null, 0)
  /\ UNCHANGED <<mem, alive, gen, nested>>

\* chain_remove(): a member comes back to R under a new handle, and the chain's
\* generation retires the handles that joined before.
ChainRemove(c, s, h) ==
  /\ Passes(c) /\ isChain[c] /\ Live(smpl[c])
  /\ s \in members[smpl[c]]
  /\ smpl[h] = Null
  /\ gen[smpl[c]] < MaxGeneration
  /\ members' = [members EXCEPT ![smpl[c]] = @ \ {s}]
  /\ gen' = [gen EXCEPT ![smpl[c]] = @ + 1]
  /\ SetHandle(h, s, TRUE, FALSE, Null, 0)
  /\ UNCHANGED <<mem, alive, nested>>

\* clone(): a copy of the sampler and of everything within it, each at a fresh
\* place.  A chain that contains itself has no end to copy.
Fresh == {s \in Sampler : mem[s] = "unborn"}

Clonable(x) ==
  /\ Passes(x) /\ Live(smpl[x])
  /\ \A s \in Within(smpl[x]) : smpl[x] \notin members[s]

Clone(x, h, copy) ==
  /\ smpl[h] = Null
  /\ \A s, t \in DOMAIN copy : copy[s] = copy[t] => s = t
  /\ LET new == {copy[s] : s \in DOMAIN copy}
         Of(t) == CHOOSE s \in DOMAIN copy : copy[s] = t
     IN  /\ mem' = [t \in Sampler |-> IF t \in new THEN "live" ELSE mem[t]]
         /\ members' = [t \in Sampler |->
              IF t \in new THEN {copy[s] : s \in members[Of(t)]}
                           ELSE members[t]]
         /\ nested' = nested \cup (new \ {copy[smpl[x]]})
  /\ SetHandle(h, copy[smpl[x]], TRUE, isChain[x], Null, 0)
  /\ NewLife(copy[smpl[x]], isChain[x])

\* The sampler of an owned handle is freed with all that is within it; a chain
\* handle also marks its liveness record.
Release(h) ==
  /\ LET gone == Within(smpl[h])
     IN  mem' = [s \in Sampler |-> IF s \in gone THEN "freed" ELSE mem[s]]
  /\ IF isChain[h]
     THEN /\ alive' = [alive EXCEPT ![smpl[h]] = FALSE]
          /\ gen' = [gen EXCEPT ![smpl[h]] = @ + 1]
     ELSE UNCHANGED life

\* free(): refused on a handle that does not own its sampler.
Free(h) ==
  /\ smpl[h] # Null /\ owned[h]
  /\ Release(h)
  /\ ClearHandle(h)
  /\ UNCHANGED <<members, nested>>

\* The garbage collector runs the finalizer of a handle R no longer holds.
Finalize(h) ==
  /\ smpl[h] # Null
  /\ IF owned[h] THEN Release(h) ELSE UNCHANGED <<mem, life>>
  /\ ClearHandle(h)
  /\ UNCHANGED <<members, nested>>

Next ==
  \E h \in Handle :
    \/ \E s \in Sampler, chain \in BOOLEAN : New(s, h, chain)
    \/ \E s, m \in Sampler : ChainFromParams(s, m, h)
    \/ \E c \in Handle : ChainAdd(c, h)
    \/ \E c \in Handle, s \in Sampler : ChainGet(c, s, h)
    \/ \E c \in Handle, s \in Sampler : ChainRemove(c, s, h)
    \/ \E x \in Handle :
         /\ Clonable(x)
         /\ \E copy \in [Within(smpl[x]) -> Fresh] : Clone(x, h, copy)
    \/ Free(h)
    \/ Finalize(h)

Spec == Init /\ [][Next]_vars

-----------------------------------------------------------------------------
(* Properties.                                                             *)

\* Every variable has its type.
TypeOK ==
  /\ mem \in [Sampler -> {"unborn", "live", "freed"}]
  /\ members \in [Sampler -> SUBSET Sampler]
  /\ alive \in [Sampler -> BOOLEAN]
  /\ gen \in [Sampler -> Nat]
  /\ smpl \in [Handle -> Sampler \cup {Null}]
  /\ owned \in [Handle -> BOOLEAN]
  /\ isChain \in [Handle -> BOOLEAN]
  /\ parent \in [Handle -> Sampler \cup {Null}]
  /\ pgen \in [Handle -> Nat]
  /\ nested \in SUBSET Sampler

\* The handles and the chains that will free a sampler.
OwnerHandles(s) == {h \in Handle : smpl[h] = s /\ owned[h]}
OwnerChains(s)  == {c \in Sampler : mem[c] = "live" /\ s \in members[c]}

\* A live sampler has one owner, R or one chain, and one that is not live has
\* none: whatever is added, taken out, cloned and collected, no sampler is freed
\* twice, and none is left that nothing will free (but a cycle of chains).
OneOwner(s) ==
  \/ OwnerChains(s) = {} /\ \E h \in Handle : OwnerHandles(s) = {h}
  \/ OwnerHandles(s) = {} /\ \E c \in Sampler : OwnerChains(s) = {c}
NoOwner(s) == OwnerHandles(s) = {} /\ OwnerChains(s) = {}

SingleOwner ==
  \A s \in Sampler : IF mem[s] = "live" THEN OneOwner(s) ELSE NoOwner(s)

\* A handle that passes the check does not reach freed memory, when its chain
\* never joined another chain.
FlatHandleSafe ==
  \A h \in Handle : Passes(h) /\ parent[h] \notin nested => Live(smpl[h])

\* The same of every handle, as the comment on the handles promises: a stale
\* one fails the check instead of touching freed memory.  It is false of samplers
\* in a chain inside a chain that is freed; no run checks this formula.
HandleSafe == \A h \in Handle : Passes(h) => Live(smpl[h])

Retired(h) == smpl[h] # Null /\ ~Passes(h)

\* A handle that was retired is never valid again, by whatever its chain or its
\* sampler go through later.
RetiredForGood ==
  [][\A h \in Handle : Retired(h) => Retired(h)' \/ smpl'[h] = Null]_vars
-----------------------------------------------------------------------------
(* What SingleOwner and FlatHandleSafe rest on.                            *)

\* A handle owns its sampler exactly if no chain is its parent; it never saw a
\* later generation than the chain's, and while it passes, its sampler is in
\* the chain, or is the chain.
Link(h) ==
  smpl[h] # Null =>
    /\ owned[h] <=> parent[h] = Null
    /\ parent[h] # Null =>
         /\ mem[parent[h]] # "unborn"
         /\ pgen[h] <= gen[parent[h]]
         /\ alive[parent[h]] /\ gen[parent[h]] = pgen[h] =>
              smpl[h] \in members[parent[h]] \cup {parent[h]}
Links == \A h \in Handle : Link(h)

\* A chain that never joined another one and whose record is alive is owned by
\* the handle it was made with.
Held(s) == \E h \in Handle : smpl[h] = s /\ owned[h] /\ isChain[h]
ChainsHeld == \A s \in Sampler : alive[s] /\ s \notin nested => Held(s)

UnbornClean == \A s \in Sampler : mem[s] = "unborn" => ~alive[s] /\ members[s] = {}

IInv == TypeOK /\ SingleOwner /\ Links /\ ChainsHeld /\ UnbornClean
=============================================================================
