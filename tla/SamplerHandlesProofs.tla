------------------------ MODULE SamplerHandlesProofs ------------------------
(***************************************************************************)
(* Proofs about SamplerHandles: for any number of samplers and handles,    *)
(* every live sampler keeps exactly one owner, and a handle that passes    *)
(* its check under a chain that never joined another chain is safe.        *)
(***************************************************************************)
EXTENDS SamplerHandles, TLAPS

-----------------------------------------------------------------------------
(* What lies within a sampler.                                             *)

\* A sampler lies within itself, and what a chain within it contains does too.
LEMMA WithinClosed ==
  ASSUME TypeOK, NEW s \in Sampler
  PROVE  /\ s \in Within(s)
         /\ Within(s) \subseteq Sampler
         /\ \A c \in Within(s) : \A t \in members[c] : t \in Within(s)
<1>1. s \in Within(s) /\ Within(s) \subseteq Sampler
  BY DEF Within
<1>2. ASSUME NEW c \in Within(s), NEW t \in members[c]
      PROVE  t \in Within(s)
  <2>1. t \in Sampler
    BY <1>1, <1>2 DEF TypeOK
  <2>2. ASSUME NEW S \in SUBSET Sampler, s \in S, Closed(S)
        PROVE  t \in S
    <3>1. c \in S
      BY <1>2, <2>2 DEF Within
    <3>. QED
      BY <3>1, <1>2, <2>2 DEF Closed
  <2>. QED
    BY <2>1, <2>2 DEF Within
<1>. QED
  BY <1>1, <1>2

\* Every other sampler within s is contained in a chain within s.
LEMMA WithinContained ==
  ASSUME TypeOK, NEW s \in Sampler, NEW t \in Within(s), t # s
  PROVE  \E c \in Within(s) : t \in members[c]
<1>. SUFFICES ASSUME \A c \in Within(s) : t \notin members[c]
              PROVE  FALSE
  OBVIOUS
<1>. DEFINE S == Within(s) \ {t}
<1>1. S \in SUBSET Sampler /\ s \in S
  BY WithinClosed
<1>2. Closed(S)
  BY WithinClosed DEF Closed
<1>3. t \in S
  BY <1>1, <1>2 DEF Within
<1>. QED
  BY <1>3

\* What the chains that are live contain is live.
LEMMA MembersLive ==
  ASSUME TypeOK, SingleOwner, NEW c \in Sampler, mem[c] = "live",
         NEW t \in members[c]
  PROVE  t \in Sampler /\ mem[t] = "live" /\ c \in OwnerChains(t)
<1>1. t \in Sampler
  BY DEF TypeOK
<1>2. c \in OwnerChains(t)
  BY DEF OwnerChains
<1>. QED
  BY <1>1, <1>2 DEF SingleOwner, NoOwner

\* All that lies within a live sampler is live.
LEMMA WithinLive ==
  ASSUME TypeOK, SingleOwner, NEW s \in Sampler, mem[s] = "live",
         NEW t \in Within(s)
  PROVE  mem[t] = "live"
<1>. DEFINE S == {u \in Sampler : mem[u] = "live"}
<1>1. S \in SUBSET Sampler /\ s \in S
  OBVIOUS
<1>2. Closed(S)
  BY MembersLive DEF Closed
<1>3. t \in S
  BY <1>1, <1>2 DEF Within
<1>. QED
  BY <1>3

\* A sampler an owned handle refers to is live, and no chain contains it.
LEMMA OwnedLive ==
  ASSUME TypeOK, SingleOwner, NEW h \in Handle, smpl[h] # Null, owned[h]
  PROVE  /\ smpl[h] \in Sampler
         /\ mem[smpl[h]] = "live"
         /\ OwnerHandles(smpl[h]) = {h}
         /\ OwnerChains(smpl[h]) = {}
<1>1. smpl[h] \in Sampler
  BY DEF TypeOK
<1>2. h \in OwnerHandles(smpl[h])
  BY DEF OwnerHandles
<1>. QED
  BY <1>1, <1>2 DEF SingleOwner, OneOwner, NoOwner

-----------------------------------------------------------------------------
(* The invariant holds initially and types are kept.                       *)

\* The first state has no sampler and no handle.
LEMMA InitInv == Init => IInv
<1>. SUFFICES ASSUME Init PROVE IInv
  OBVIOUS
<1>1. TypeOK
  BY DEF Init, TypeOK
<1>2. SingleOwner
  BY SamplerAssumption DEF Init, SingleOwner, NoOwner, OwnerHandles, OwnerChains
<1>3. Links /\ ChainsHeld /\ UnbornClean
  BY DEF Init, Links, Link, ChainsHeld, UnbornClean
<1>. QED
  BY <1>1, <1>2, <1>3 DEF IInv

\* What freeing a handle does to memory and to the liveness records.
LEMMA ReleaseType ==
  ASSUME TypeOK, NEW h \in Handle, smpl[h] # Null, Release(h)
  PROVE  /\ mem' \in [Sampler -> {"unborn", "live", "freed"}]
         /\ alive' \in [Sampler -> BOOLEAN] /\ gen' \in [Sampler -> Nat]
<1>1. mem' \in [Sampler -> {"unborn", "live", "freed"}]
  BY DEF TypeOK, Release
<1>2. alive' \in [Sampler -> BOOLEAN] /\ gen' \in [Sampler -> Nat]
  <2>0. smpl[h] \in Sampler
    BY DEF TypeOK
  <2>1. CASE isChain[h]
    <3>1. gen' = [gen EXCEPT ![smpl[h]] = gen[smpl[h]] + 1]
      BY <2>1 DEF Release
    <3>2. alive' = [alive EXCEPT ![smpl[h]] = FALSE]
      BY <2>1 DEF Release
    <3>. QED
      BY <2>0, <3>1, <3>2 DEF TypeOK
  <2>2. CASE ~isChain[h]
    BY <2>2 DEF TypeOK, Release, life
  <2>. QED
    BY <2>1, <2>2
<1>. QED
  BY <1>1, <1>2

\* The copy of a sampler: a clone has a fresh place for each sampler within the
\* original, and the copy of a chain contains the copies of its members.
LEMMA CloneMembers ==
  ASSUME TypeOK, NEW h \in Handle, NEW x \in Handle, Clonable(x),
         NEW copy \in [Within(smpl[x]) -> Fresh], Clone(x, h, copy)
  PROVE  /\ smpl[x] \in Sampler /\ smpl[x] \in Within(smpl[x])
         /\ members' \in [Sampler -> SUBSET Sampler]
         /\ \A s \in Within(smpl[x]) :
              members'[copy[s]] = {copy[u] : u \in members[s]}
         /\ \A t \in Sampler : (\A s \in Within(smpl[x]) : t # copy[s])
              => members'[t] = members[t] /\ mem'[t] = mem[t]
<1>. DEFINE W == Within(smpl[x])
            new == {copy[s] : s \in DOMAIN copy}
            Of(t) == CHOOSE s \in DOMAIN copy : copy[s] = t
<1>0. DOMAIN copy = W
  OBVIOUS
<1>1. smpl[x] \in Sampler /\ smpl[x] \in W
  BY WithinClosed DEF Clonable, Passes, TypeOK
<1>2. W \subseteq Sampler /\ \A s \in W : copy[s] \in Sampler
  BY <1>1, WithinClosed DEF Fresh
<1>3. \A s \in W : members[s] \subseteq W
  BY <1>1, WithinClosed, <1>2 DEF TypeOK
<1>4. \A s \in W : Of(copy[s]) = s
  BY <1>0 DEF Clone
<1>5. members' = [t \in Sampler |-> IF t \in new
                    THEN {copy[s] : s \in members[Of(t)]} ELSE members[t]]
  BY DEF Clone
<1>6. mem' = [t \in Sampler |-> IF t \in new THEN "live" ELSE mem[t]]
  BY DEF Clone
<1>. HIDE DEF Of
<1>7. ASSUME NEW s \in W PROVE members'[copy[s]] = {copy[u] : u \in members[s]}
  BY <1>0, <1>2, <1>4, <1>5
<1>8. ASSUME NEW t \in Sampler, \A s \in W : t # copy[s]
      PROVE  members'[t] = members[t] /\ mem'[t] = mem[t]
  BY <1>0, <1>5, <1>6, <1>8
<1>9. ASSUME NEW t \in Sampler PROVE members'[t] \in SUBSET Sampler
  <2>1. CASE \E s \in W : t = copy[s]
    BY <2>1, <1>2, <1>3, <1>7
  <2>2. CASE \A s \in W : t # copy[s]
    BY <2>2, <1>8 DEF TypeOK
  <2>. QED
    BY <2>1, <2>2
<1>. QED
  BY <1>1, <1>5, <1>7, <1>8, <1>9

\* A handle that passes refers to a sampler.
LEMMA PassesSampler ==
  ASSUME TypeOK, NEW h \in Handle, Passes(h)
  PROVE  smpl[h] \in Sampler
  BY DEF TypeOK, Passes

\* No step breaks a type.
LEMMA TypeStep == TypeOK /\ [Next]_vars => TypeOK'
<1>. SUFFICES ASSUME TypeOK, [Next]_vars PROVE TypeOK'
  OBVIOUS
<1>. USE SamplerAssumption
<1>1. CASE UNCHANGED vars
  BY <1>1 DEF vars, TypeOK
<1>2. ASSUME NEW h \in Handle, NEW s \in Sampler, NEW chain \in BOOLEAN,
             New(s, h, chain)
      PROVE  TypeOK'
  BY <1>2 DEF New, TypeOK, SetHandle, NewLife
<1>3. ASSUME NEW h \in Handle, NEW s \in Sampler, NEW m \in Sampler,
             ChainFromParams(s, m, h)
      PROVE  TypeOK'
  BY <1>3 DEF ChainFromParams, TypeOK, SetHandle, NewLife
<1>4. ASSUME NEW h \in Handle, NEW c \in Handle, ChainAdd(c, h)
      PROVE  TypeOK'
  <2>1. smpl[c] \in Sampler /\ smpl[h] \in Sampler
    BY <1>4, PassesSampler DEF ChainAdd
  <2>. QED
    BY <1>4, <2>1 DEF ChainAdd, TypeOK, SetHandle, life
<1>5. ASSUME NEW h \in Handle, NEW c \in Handle, NEW s \in Sampler,
             ChainGet(c, s, h)
      PROVE  TypeOK'
  <2>1. smpl[c] \in Sampler
    BY <1>5, PassesSampler DEF ChainGet
  <2>. QED
    BY <1>5, <2>1 DEF ChainGet, TypeOK, SetHandle, life, memory
<1>6. ASSUME NEW h \in Handle, NEW c \in Handle, NEW s \in Sampler,
             ChainRemove(c, s, h)
      PROVE  TypeOK'
  <2>1. smpl[c] \in Sampler
    BY <1>6, PassesSampler DEF ChainRemove
  <2>. QED
    BY <1>6, <2>1 DEF ChainRemove, TypeOK, SetHandle
<1>7. ASSUME NEW h \in Handle, NEW x \in Handle, Clonable(x),
             NEW copy \in [Within(smpl[x]) -> Fresh], Clone(x, h, copy)
      PROVE  TypeOK'
  <2>1. smpl[x] \in Sampler /\ smpl[x] \in Within(smpl[x])
    BY <1>7, PassesSampler, WithinClosed DEF Clonable
  <2>2. copy[smpl[x]] \in Sampler
    BY <2>1 DEF Fresh
  <2>3. \A s \in Within(smpl[x]) : copy[s] \in Sampler
    BY DEF Fresh
  <2>4. \A t \in Sampler : members[t] \subseteq Sampler
    BY DEF TypeOK
  <2>5. mem' \in [Sampler -> {"unborn", "live", "freed"}]
    BY <1>7 DEF Clone, TypeOK
  <2>6. nested' \in SUBSET Sampler
    BY <1>7, <2>3 DEF Clone, TypeOK
  <2>7. members' \in [Sampler -> SUBSET Sampler]
    BY <1>7, CloneMembers
  <2>. QED
    BY <1>7, <2>1, <2>2, <2>5, <2>6, <2>7
    DEF Clone, TypeOK, SetHandle, NewLife
<1>8. ASSUME NEW h \in Handle, Free(h)
      PROVE  TypeOK'
  BY <1>8, ReleaseType DEF Free, ClearHandle, SetHandle, TypeOK
<1>9. ASSUME NEW h \in Handle, Finalize(h)
      PROVE  TypeOK'
  <2>1. CASE owned[h]
    BY <1>9, <2>1, ReleaseType DEF Finalize, ClearHandle, SetHandle, TypeOK
  <2>2. CASE ~owned[h]
    BY <1>9, <2>2 DEF Finalize, ClearHandle, SetHandle, TypeOK, life
  <2>. QED
    BY <2>1, <2>2
<1>. QED
  BY <1>1, <1>2, <1>3, <1>4, <1>5, <1>6, <1>7, <1>8, <1>9 DEF Next

-----------------------------------------------------------------------------
(* One owner.  Each lemma is about one action.                             *)

\* A fresh sampler has no owner; every other one has the owners it had.
LEMMA OwnerNew ==
  ASSUME IInv, NEW h \in Handle, NEW s \in Sampler, NEW chain \in BOOLEAN,
         New(s, h, chain)
  PROVE  SingleOwner'
<1>. USE DEF IInv
<1>1. NoOwner(s) /\ members[s] = {} /\ mem'[s] = "live"
  BY DEF SingleOwner, UnbornClean, New, TypeOK
<1>2. \A t \in Sampler : OwnerChains(t)' = OwnerChains(t)
  BY <1>1 DEF New, OwnerChains, TypeOK
<1>3. OwnerHandles(s)' = {h}
  BY <1>1, SamplerAssumption DEF New, OwnerHandles, NoOwner, SetHandle, TypeOK
<1>4. \A t \in Sampler \ {s} : /\ OwnerHandles(t)' = OwnerHandles(t)
                               /\ mem'[t] = mem[t]
  BY SamplerAssumption DEF New, OwnerHandles, SetHandle, TypeOK
<1>5. (OneOwner(s))'
  BY <1>1, <1>2, <1>3 DEF OneOwner, NoOwner
<1>6. ASSUME NEW t \in Sampler \ {s}
      PROVE  (OneOwner(t))' = OneOwner(t) /\ (NoOwner(t))' = NoOwner(t)
  BY <1>2, <1>4 DEF OneOwner, NoOwner
<1>. QED
  BY <1>1, <1>4, <1>5, <1>6 DEF SingleOwner

\* A chain made from parameters owns its member, and the new handle the chain.
LEMMA OwnerFromParams ==
  ASSUME IInv, NEW h \in Handle, NEW s \in Sampler, NEW m \in Sampler,
         ChainFromParams(s, m, h)
  PROVE  SingleOwner'
<1>. USE DEF IInv
<1>0. s # m /\ mem'[s] = "live" /\ mem'[m] = "live"
  BY DEF ChainFromParams, TypeOK
<1>1. NoOwner(s) /\ NoOwner(m) /\ members[m] = {} /\ members'[s] = {m}
  BY DEF SingleOwner, UnbornClean, ChainFromParams, TypeOK
<1>2. OwnerChains(m)' = {s}
  BY <1>0, <1>1 DEF ChainFromParams, OwnerChains, NoOwner, TypeOK
<1>3. OwnerHandles(s)' = {h} /\ OwnerHandles(m)' = {}
  BY <1>0, <1>1, SamplerAssumption
  DEF ChainFromParams, OwnerHandles, NoOwner, SetHandle, TypeOK
<1>4. \A t \in Sampler \ {m} : OwnerChains(t)' = OwnerChains(t)
  BY <1>0, <1>1 DEF ChainFromParams, OwnerChains, TypeOK
<1>5. \A t \in Sampler \ {s, m} : /\ OwnerHandles(t)' = OwnerHandles(t)
                                  /\ mem'[t] = mem[t]
  BY SamplerAssumption DEF ChainFromParams, OwnerHandles, SetHandle, TypeOK
<1>6. (OneOwner(s))' /\ (OneOwner(m))'
  BY <1>0, <1>1, <1>2, <1>3, <1>4 DEF OneOwner, NoOwner
<1>7. ASSUME NEW t \in Sampler \ {s, m}
      PROVE  (OneOwner(t))' = OneOwner(t) /\ (NoOwner(t))' = NoOwner(t)
  BY <1>4, <1>5 DEF OneOwner, NoOwner
<1>. QED
  BY <1>0, <1>5, <1>6, <1>7 DEF SingleOwner

\* The added sampler passes from its handle to the chain.
LEMMA OwnerChainAdd ==
  ASSUME IInv, NEW h \in Handle, NEW c \in Handle, ChainAdd(c, h)
  PROVE  SingleOwner'
<1>. USE DEF IInv
<1>1. PICK o \in Sampler : o = smpl[h] /\ mem[o] = "live"
                           /\ OwnerHandles(o) = {h} /\ OwnerChains(o) = {}
  BY OwnedLive DEF ChainAdd, Passes
<1>2. PICK ch \in Sampler : ch = smpl[c] /\ mem[ch] = "live" /\ mem' = mem
  BY DEF ChainAdd, Live
<1>3. members' = [members EXCEPT ![ch] = members[ch] \cup {o}]
  BY <1>1, <1>2 DEF ChainAdd
<1>4. OwnerChains(o)' = {ch}
  BY <1>1, <1>2, <1>3 DEF OwnerChains, TypeOK
<1>5. OwnerHandles(o)' = {}
  BY <1>1 DEF ChainAdd, SetHandle, OwnerHandles, TypeOK
<1>6. \A t \in Sampler \ {o} : OwnerChains(t)' = OwnerChains(t)
  BY <1>1, <1>2, <1>3 DEF OwnerChains, TypeOK
<1>7. \A t \in Sampler \ {o} : OwnerHandles(t)' = OwnerHandles(t)
  BY <1>1 DEF ChainAdd, SetHandle, OwnerHandles, TypeOK
<1>8. (OneOwner(o))'
  BY <1>2, <1>4, <1>5 DEF OneOwner
<1>9. ASSUME NEW t \in Sampler \ {o}
      PROVE  (OneOwner(t))' = OneOwner(t) /\ (NoOwner(t))' = NoOwner(t)
  BY <1>6, <1>7 DEF OneOwner, NoOwner
<1>. QED
  BY <1>1, <1>2, <1>8, <1>9 DEF SingleOwner

\* A borrowed handle owns nothing.
LEMMA OwnerChainGet ==
  ASSUME IInv, NEW h \in Handle, NEW c \in Handle, NEW s \in Sampler,
         ChainGet(c, s, h)
  PROVE  SingleOwner'
<1>. USE DEF IInv
<1>1. mem' = mem /\ members' = members
  BY DEF ChainGet, memory
<1>2. \A t \in Sampler : OwnerHandles(t)' = OwnerHandles(t)
  BY SamplerAssumption DEF ChainGet, SetHandle, OwnerHandles, TypeOK
<1>3. \A t \in Sampler : OwnerChains(t)' = OwnerChains(t)
  BY <1>1 DEF OwnerChains
<1>4. ASSUME NEW t \in Sampler
      PROVE  (OneOwner(t))' = OneOwner(t) /\ (NoOwner(t))' = NoOwner(t)
  BY <1>2, <1>3 DEF OneOwner, NoOwner
<1>. QED
  BY <1>1, <1>4 DEF SingleOwner

\* The removed sampler passes from the chain to the new handle.
LEMMA OwnerChainRemove ==
  ASSUME IInv, NEW h \in Handle, NEW c \in Handle, NEW s \in Sampler,
         ChainRemove(c, s, h)
  PROVE  SingleOwner'
<1>. USE DEF IInv
<1>. DEFINE ch == smpl[c]
<1>1. ch \in Sampler /\ mem[ch] = "live" /\ s \in members[ch] /\ mem' = mem
  BY DEF ChainRemove, Live
<1>2. mem[s] = "live" /\ ch \in OwnerChains(s)
  BY <1>1, MembersLive
<1>3. OwnerChains(s) = {ch} /\ OwnerHandles(s) = {}
  BY <1>2 DEF SingleOwner, OneOwner
<1>4. members' = [members EXCEPT ![ch] = members[ch] \ {s}]
  BY DEF ChainRemove
<1>5. OwnerChains(s)' = {}
  BY <1>1, <1>3, <1>4 DEF OwnerChains, TypeOK
<1>6. OwnerHandles(s)' = {h}
  BY <1>3, SamplerAssumption DEF ChainRemove, SetHandle, OwnerHandles, TypeOK
<1>7. \A t \in Sampler \ {s} : OwnerChains(t)' = OwnerChains(t)
  BY <1>1, <1>4 DEF OwnerChains, TypeOK
<1>8. \A t \in Sampler \ {s} : OwnerHandles(t)' = OwnerHandles(t)
  BY SamplerAssumption DEF ChainRemove, SetHandle, OwnerHandles, TypeOK
<1>9. (OneOwner(s))'
  BY <1>5, <1>6 DEF OneOwner
<1>10. ASSUME NEW t \in Sampler \ {s}
       PROVE  (OneOwner(t))' = OneOwner(t) /\ (NoOwner(t))' = NoOwner(t)
  BY <1>7, <1>8 DEF OneOwner, NoOwner
<1>. QED
  BY <1>1, <1>2, <1>9, <1>10 DEF SingleOwner

\* The clone is owned as the original is, but by the new handle at the top.
LEMMA OwnerClone ==
  ASSUME IInv, NEW h \in Handle, NEW x \in Handle, Clonable(x),
         NEW copy \in [Within(smpl[x]) -> Fresh], Clone(x, h, copy)
  PROVE  SingleOwner'
<1>. USE DEF IInv
<1>1. PICK r \in Sampler : r = smpl[x] /\ mem[r] = "live"
  BY PassesSampler DEF Clonable, Live
<1>2. PICK W \in SUBSET Sampler : W = Within(r) /\ r \in W
  BY WithinClosed
<1>3. \A s \in W : mem[s] = "live" /\ \A t \in members[s] : t \in W
  BY <1>1, <1>2, WithinLive, WithinClosed
<1>4. /\ copy \in [W -> Sampler]
      /\ \A s \in W : mem[copy[s]] = "unborn"
      /\ \A s, t \in W : copy[s] = copy[t] => s = t
  BY <1>1, <1>2 DEF Fresh, Clone
<1>5. \A s \in W : NoOwner(copy[s]) /\ members[copy[s]] = {}
  BY <1>4 DEF SingleOwner, UnbornClean
<1>6. /\ \A s \in W : members'[copy[s]] = {copy[u] : u \in members[s]}
      /\ \A t \in Sampler : (\A s \in W : t # copy[s])
           => members'[t] = members[t] /\ mem'[t] = mem[t]
  BY <1>1, <1>2, CloneMembers
<1>7. \A s \in W : mem'[copy[s]] = "live"
  BY <1>1, <1>2, <1>4 DEF Clone
<1>8. ASSUME NEW s \in W
      PROVE  OwnerChains(copy[s])' = {copy[u] : u \in {c \in W : s \in members[c]}}
  <2>1. ASSUME NEW c \in OwnerChains(copy[s])'
        PROVE  \E u \in W : s \in members[u] /\ c = copy[u]
    <3>1. c \in Sampler /\ mem'[c] = "live" /\ copy[s] \in members'[c]
      BY <2>1 DEF OwnerChains
    <3>2. CASE \A u \in W : c # copy[u]
      <4>1. c \in OwnerChains(copy[s])
        BY <3>1, <3>2, <1>6 DEF OwnerChains
      <4>. QED
        BY <4>1, <1>5 DEF NoOwner
    <3>3. ASSUME NEW u \in W, c = copy[u] PROVE s \in members[u]
      BY <3>1, <3>3, <1>3, <1>4, <1>6
    <3>. QED
      BY <3>2, <3>3
  <2>2. ASSUME NEW u \in W, s \in members[u]
        PROVE  copy[u] \in OwnerChains(copy[s])'
    BY <2>2, <1>4, <1>6, <1>7 DEF OwnerChains
  <2>. QED
    BY <2>1, <2>2
<1>9. ASSUME NEW t \in Sampler, \A s \in W : t # copy[s]
      PROVE  OwnerChains(t)' = OwnerChains(t)
  <2>1. ASSUME NEW c \in Sampler
        PROVE  (mem'[c] = "live" /\ t \in members'[c])
                 <=> (mem[c] = "live" /\ t \in members[c])
    <3>1. CASE \A s \in W : c # copy[s]
      BY <3>1, <1>6
    <3>2. CASE \E s \in W : c = copy[s]
      BY <3>2, <1>3, <1>4, <1>6, <1>9
    <3>. QED
      BY <3>1, <3>2
  <2>. QED
    BY <2>1 DEF OwnerChains
<1>10. /\ \A t \in Sampler \ {copy[r]} : OwnerHandles(t)' = OwnerHandles(t)
       /\ OwnerHandles(copy[r])' = {h}
  <2>1. OwnerHandles(copy[r]) = {} /\ copy[r] \in Sampler
    BY <1>2, <1>4, <1>5 DEF NoOwner
  <2>. QED
    BY <1>1, <2>1, SamplerAssumption DEF Clone, SetHandle, OwnerHandles, TypeOK
<1>11. (OneOwner(copy[r]))'
  <2>1. {c \in W : r \in members[c]} = {}
    BY <1>1, <1>2 DEF Clonable
  <2>2. OwnerChains(copy[r])' = {}
    BY <2>1, <1>2, <1>8
  <2>. QED
    BY <2>2, <1>10 DEF OneOwner
<1>12. ASSUME NEW s \in W, s # r PROVE (OneOwner(copy[s]))'
  <2>1. PICK c \in W : s \in members[c]
    BY <1>1, <1>2, <1>12, WithinContained
  <2>2. \A u \in W : s \in members[u] => u \in OwnerChains(s)
    BY <1>3 DEF OwnerChains
  <2>3. OwnerChains(s) = {c}
    BY <2>1, <2>2, <1>3 DEF SingleOwner, OneOwner
  <2>4. {u \in W : s \in members[u]} = {c}
    BY <2>1, <2>2, <2>3
  <2>5. OwnerChains(copy[s])' = {copy[c]} /\ copy[c] \in Sampler
    BY <2>4, <1>4, <1>8
  <2>6. OwnerHandles(copy[s])' = {}
    BY <1>2, <1>4, <1>5, <1>10, <1>12 DEF NoOwner
  <2>. QED
    BY <2>5, <2>6 DEF OneOwner
<1>13. ASSUME NEW t \in Sampler, \A s \in W : t # copy[s]
       PROVE  (OneOwner(t))' = OneOwner(t) /\ (NoOwner(t))' = NoOwner(t)
  BY <1>2, <1>9, <1>10, <1>13 DEF OneOwner, NoOwner
<1>14. ASSUME NEW t \in Sampler
       PROVE  IF mem'[t] = "live" THEN (OneOwner(t))' ELSE (NoOwner(t))'
  <2>1. CASE \A s \in W : t # copy[s]
    BY <2>1, <1>6, <1>13 DEF SingleOwner
  <2>2. CASE \E s \in W : t = copy[s]
    BY <2>2, <1>7, <1>11, <1>12
  <2>. QED
    BY <2>1, <2>2
<1>. QED
  BY <1>14 DEF SingleOwner

\* What is freed loses its owners, and no chain loses a member that stays.
LEMMA OwnerRelease ==
  ASSUME IInv, NEW h \in Handle, smpl[h] # Null, owned[h], Release(h),
         ClearHandle(h), members' = members
  PROVE  SingleOwner'
<1>. USE DEF IInv
<1>1. PICK r \in Sampler : r = smpl[h] /\ mem[r] = "live"
                           /\ OwnerHandles(r) = {h} /\ OwnerChains(r) = {}
  BY OwnedLive
<1>2. PICK G \in SUBSET Sampler : G = Within(r) /\ r \in G
  BY WithinClosed
<1>3. \A s \in G : mem[s] = "live" /\ \A t \in members[s] : t \in G
  BY <1>1, <1>2, WithinLive, WithinClosed
<1>4. mem' = [s \in Sampler |-> IF s \in G THEN "freed" ELSE mem[s]]
  BY <1>1, <1>2 DEF Release
<1>5. \A t \in Sampler : /\ OwnerHandles(t)' = OwnerHandles(t) \ {h}
                         /\ OwnerChains(t)' = OwnerChains(t) \ G
  BY <1>4, SamplerAssumption
  DEF ClearHandle, SetHandle, OwnerHandles, OwnerChains, TypeOK
<1>6. ASSUME NEW t \in G PROVE (NoOwner(t))'
  <2>1. CASE t = r
    BY <2>1, <1>1, <1>5 DEF NoOwner
  <2>2. CASE t # r
    <3>1. PICK c \in G : t \in members[c]
      BY <2>2, <1>1, <1>2, WithinContained
    <3>2. c \in OwnerChains(t)
      BY <3>1, <1>3 DEF OwnerChains
    <3>3. OwnerChains(t) = {c} /\ OwnerHandles(t) = {}
      BY <3>2, <1>3 DEF SingleOwner, OneOwner
    <3>. QED
      BY <3>3, <1>5 DEF NoOwner
  <2>. QED
    BY <2>1, <2>2
<1>7. ASSUME NEW t \in Sampler \ G
      PROVE  (OneOwner(t))' = OneOwner(t) /\ (NoOwner(t))' = NoOwner(t)
  <2>1. OwnerChains(t)' = OwnerChains(t)
    BY <1>3, <1>5 DEF OwnerChains
  <2>2. OwnerHandles(t)' = OwnerHandles(t)
    BY <1>1, <1>2, <1>5 DEF OwnerHandles
  <2>. QED
    BY <2>1, <2>2 DEF OneOwner, NoOwner
<1>. QED
  BY <1>4, <1>6, <1>7 DEF SingleOwner

\* Every step keeps one owner.
LEMMA OwnerStep == IInv /\ [Next]_vars => SingleOwner'
<1>. SUFFICES ASSUME IInv, [Next]_vars PROVE SingleOwner'
  OBVIOUS
<1>1. CASE UNCHANGED vars
  BY <1>1 DEF vars, IInv, SingleOwner, OneOwner, NoOwner, OwnerHandles, OwnerChains
<1>2. ASSUME NEW h \in Handle, Free(h) PROVE SingleOwner'
  BY <1>2, OwnerRelease DEF Free
<1>3. ASSUME NEW h \in Handle, Finalize(h) PROVE SingleOwner'
  <2>1. CASE owned[h]
    BY <1>3, <2>1, OwnerRelease DEF Finalize
  <2>2. CASE ~owned[h]
    <3>1. mem' = mem /\ members' = members
      BY <1>3, <2>2 DEF Finalize
    <3>2. \A s \in Sampler : OwnerHandles(s)' = OwnerHandles(s)
      BY <1>3, <2>2, SamplerAssumption
      DEF Finalize, ClearHandle, SetHandle, OwnerHandles, TypeOK, IInv
    <3>3. \A s \in Sampler : OwnerChains(s)' = OwnerChains(s)
      BY <3>1 DEF OwnerChains
    <3>4. ASSUME NEW t \in Sampler
          PROVE  (OneOwner(t))' = OneOwner(t) /\ (NoOwner(t))' = NoOwner(t)
      BY <3>2, <3>3 DEF OneOwner, NoOwner
    <3>. QED
      BY <3>1, <3>4 DEF SingleOwner, IInv
  <2>. QED
    BY <2>1, <2>2
<1>. QED
  BY <1>1, <1>2, <1>3, OwnerNew, OwnerFromParams, OwnerChainAdd, OwnerChainGet,
     OwnerChainRemove, OwnerClone DEF Next

-----------------------------------------------------------------------------
(* The handles and the liveness records.                                   *)

\* A record that is not alive never becomes so, its generation never falls, and
\* a sampler is made once.
LEMMA LifeStep ==
  ASSUME IInv, Next, NEW p \in Sampler, mem[p] # "unborn"
  PROVE  /\ mem'[p] # "unborn"
         /\ alive'[p] => alive[p]
         /\ gen'[p] \in Nat /\ gen[p] \in Nat /\ gen'[p] >= gen[p]
<1>. USE DEF IInv
<1>1. ASSUME NEW h \in Handle, NEW s \in Sampler, NEW chain \in BOOLEAN,
             New(s, h, chain)
      PROVE  mem'[p] = mem[p] /\ alive'[p] = alive[p] /\ gen'[p] = gen[p]
  BY <1>1 DEF New, NewLife, TypeOK
<1>2. ASSUME NEW h \in Handle, NEW s \in Sampler, NEW m \in Sampler,
             ChainFromParams(s, m, h)
      PROVE  mem'[p] = mem[p] /\ alive'[p] = alive[p] /\ gen'[p] = gen[p]
  BY <1>2 DEF ChainFromParams, NewLife, TypeOK
<1>3. ASSUME NEW h \in Handle, NEW c \in Handle, ChainAdd(c, h)
      PROVE  mem'[p] = mem[p] /\ alive'[p] = alive[p] /\ gen'[p] = gen[p]
  BY <1>3 DEF ChainAdd, life
<1>4. ASSUME NEW h \in Handle, NEW c \in Handle, NEW s \in Sampler,
             ChainGet(c, s, h)
      PROVE  mem'[p] = mem[p] /\ alive'[p] = alive[p] /\ gen'[p] = gen[p]
  BY <1>4 DEF ChainGet, life, memory
<1>5. ASSUME NEW h \in Handle, NEW c \in Handle, NEW s \in Sampler,
             ChainRemove(c, s, h)
      PROVE  mem'[p] = mem[p] /\ alive'[p] = alive[p] /\ gen'[p] >= gen[p]
  <2>1. PICK ch \in Sampler : gen' = [gen EXCEPT ![ch] = gen[ch] + 1]
    BY <1>5 DEF ChainRemove, Live
  <2>2. gen'[p] >= gen[p]
    BY <2>1 DEF TypeOK
  <2>. QED
    BY <1>5, <2>2 DEF ChainRemove
<1>6. ASSUME NEW h \in Handle, NEW x \in Handle, Clonable(x),
             NEW copy \in [Within(smpl[x]) -> Fresh], Clone(x, h, copy)
      PROVE  /\ mem'[p] # "unborn"
             /\ alive'[p] = alive[p] /\ gen'[p] = gen[p]
  <2>1. PICK r \in Sampler : r = smpl[x] /\ r \in Within(smpl[x])
    BY <1>6, PassesSampler, WithinClosed DEF Clonable
  <2>2. copy[r] \in Sampler /\ copy[r] # p
    BY <2>1 DEF Fresh
  <2>3. mem'[p] # "unborn"
    BY <1>6 DEF Clone
  <2>4. alive' = [alive EXCEPT ![copy[r]] = isChain[x]]
    BY <1>6, <2>1 DEF Clone, NewLife
  <2>5. gen' = [gen EXCEPT ![copy[r]] = IF isChain[x] THEN 1 ELSE 0]
    BY <1>6, <2>1 DEF Clone, NewLife
  <2>. QED
    BY <2>2, <2>3, <2>4, <2>5 DEF TypeOK
<1>7. ASSUME NEW h \in Handle, smpl[h] # Null, Release(h)
      PROVE  /\ mem'[p] # "unborn"
             /\ alive'[p] => alive[p]
             /\ gen'[p] >= gen[p]
  <2>1. mem'[p] # "unborn"
    BY <1>7 DEF Release
  <2>2. CASE isChain[h]
    <3>1. PICK s \in Sampler : /\ alive' = [alive EXCEPT ![s] = FALSE]
                               /\ gen' = [gen EXCEPT ![s] = gen[s] + 1]
      BY <1>7, <2>2 DEF Release, TypeOK
    <3>. QED
      BY <2>1, <3>1 DEF TypeOK
  <2>3. CASE ~isChain[h]
    BY <1>7, <2>1, <2>3 DEF Release, life, TypeOK
  <2>. QED
    BY <2>2, <2>3
<1>8. ASSUME NEW h \in Handle, Finalize(h), ~owned[h]
      PROVE  mem'[p] = mem[p] /\ alive'[p] = alive[p] /\ gen'[p] = gen[p]
  BY <1>8 DEF Finalize, life
<1>9. mem'[p] # "unborn" /\ (alive'[p] => alive[p]) /\ gen'[p] >= gen[p]
  <2>1. \A n \in Nat : n >= n
    OBVIOUS
  <2>2. gen[p] >= gen[p]
    BY <2>1 DEF TypeOK
  <2>. QED
    BY <1>1, <1>2, <1>3, <1>4, <1>5, <1>6, <1>7, <1>8, <2>2
    DEF Next, Free, Finalize
<1>. QED
  BY <1>9, TypeStep DEF TypeOK

\* A handle R has keeps its fields, unless it is freed or is one that passed.
Same(g) ==
  /\ smpl'[g] = smpl[g] /\ owned'[g] = owned[g] /\ isChain'[g] = isChain[g]
  /\ parent'[g] = parent[g] /\ pgen'[g] = pgen[g]

\* The handle an entry point writes is one that R does not have, the one that
\* joins a chain, or the one that is freed.
LEMMA HandleStep ==
  ASSUME IInv, Next, NEW g \in Handle, smpl[g] # Null
  PROVE  Same(g) \/ smpl'[g] = Null \/ \E c \in Handle : ChainAdd(c, g)
<1>. USE DEF IInv, SetHandle, TypeOK, Same
<1>1. ASSUME NEW h \in Handle, NEW s \in Sampler, NEW chain \in BOOLEAN,
             New(s, h, chain)
      PROVE  Same(g)
  BY <1>1 DEF New
<1>2. ASSUME NEW h \in Handle, NEW s \in Sampler, NEW m \in Sampler,
             ChainFromParams(s, m, h)
      PROVE  Same(g)
  BY <1>2 DEF ChainFromParams
<1>3. ASSUME NEW h \in Handle, NEW c \in Handle, ChainAdd(c, h), g # h
      PROVE  Same(g)
  BY <1>3 DEF ChainAdd
<1>4. ASSUME NEW h \in Handle, NEW c \in Handle, NEW s \in Sampler,
             ChainGet(c, s, h)
      PROVE  Same(g)
  BY <1>4 DEF ChainGet
<1>5. ASSUME NEW h \in Handle, NEW c \in Handle, NEW s \in Sampler,
             ChainRemove(c, s, h)
      PROVE  Same(g)
  BY <1>5 DEF ChainRemove
<1>6. ASSUME NEW h \in Handle, NEW x \in Handle, Clonable(x),
             NEW copy \in [Within(smpl[x]) -> Fresh], Clone(x, h, copy)
      PROVE  Same(g)
  BY <1>6 DEF Clone
<1>7. ASSUME NEW h \in Handle, ClearHandle(h)
      PROVE  Same(g) \/ smpl'[g] = Null
  BY <1>7 DEF ClearHandle
<1>. HIDE DEF Same
<1>. QED
  BY <1>1, <1>2, <1>3, <1>4, <1>5, <1>6, <1>7 DEF Next, Free, Finalize

\* A member stays in its chain, unless the chain's generation moves on.
LEMMA MembersStep ==
  ASSUME IInv, Next, NEW p \in Sampler, mem[p] # "unborn", gen'[p] = gen[p]
  PROVE  members[p] \subseteq members'[p]
<1>. USE DEF IInv
<1>1. ASSUME NEW h \in Handle, NEW s \in Sampler, NEW chain \in BOOLEAN,
             New(s, h, chain)
      PROVE  members[p] \subseteq members'[p]
  BY <1>1 DEF New
<1>2. ASSUME NEW h \in Handle, NEW s \in Sampler, NEW m \in Sampler,
             ChainFromParams(s, m, h)
      PROVE  members[p] \subseteq members'[p]
  BY <1>2 DEF ChainFromParams, TypeOK
<1>3. ASSUME NEW h \in Handle, NEW c \in Handle, ChainAdd(c, h)
      PROVE  members[p] \subseteq members'[p]
  <2>1. PICK ch \in Sampler :
          members' = [members EXCEPT ![ch] = members[ch] \cup {smpl[h]}]
    BY <1>3 DEF ChainAdd, Live
  <2>. QED
    BY <2>1 DEF TypeOK
<1>4. ASSUME NEW h \in Handle, NEW c \in Handle, NEW s \in Sampler,
             ChainGet(c, s, h)
      PROVE  members[p] \subseteq members'[p]
  BY <1>4 DEF ChainGet, memory
<1>5. ASSUME NEW h \in Handle, NEW c \in Handle, NEW s \in Sampler,
             ChainRemove(c, s, h)
      PROVE  members[p] \subseteq members'[p]
  <2>1. PICK ch \in Sampler :
          /\ members' = [members EXCEPT ![ch] = members[ch] \ {s}]
          /\ gen' = [gen EXCEPT ![ch] = gen[ch] + 1]
    BY <1>5 DEF ChainRemove, Live
  <2>2. p # ch
    BY <2>1 DEF TypeOK
  <2>. QED
    BY <2>1, <2>2 DEF TypeOK
<1>6. ASSUME NEW h \in Handle, NEW x \in Handle, Clonable(x),
             NEW copy \in [Within(smpl[x]) -> Fresh], Clone(x, h, copy)
      PROVE  members[p] \subseteq members'[p]
  <2>1. \A s \in Within(smpl[x]) : p # copy[s]
    BY DEF Fresh
  <2>. QED
    BY <1>6, <2>1, CloneMembers
<1>7. ASSUME NEW h \in Handle, Free(h) \/ Finalize(h)
      PROVE  members[p] \subseteq members'[p]
  BY <1>7 DEF Free, Finalize
<1>. QED
  BY <1>1, <1>2, <1>3, <1>4, <1>5, <1>6, <1>7 DEF Next

\* A handle that no entry point writes stays linked to its chain.
LEMMA LinkKept ==
  ASSUME IInv, Next, NEW g \in Handle, Same(g)
  PROVE  Link(g)'
<1>. USE DEF IInv, Same
<1>. SUFFICES ASSUME smpl[g] # Null PROVE Link(g)'
  BY DEF Link
<1>1. Link(g)
  BY DEF Links
<1>2. CASE parent[g] = Null
  BY <1>1, <1>2 DEF Link
<1>3. CASE parent[g] # Null
  <2>1. PICK p \in Sampler : p = parent[g]
    BY <1>3 DEF TypeOK
  <2>2. mem[p] # "unborn" /\ pgen[g] <= gen[p] /\ pgen[g] \in Nat
    BY <1>1, <1>3, <2>1 DEF Link, TypeOK
  <2>3. /\ mem'[p] # "unborn" /\ (alive'[p] => alive[p])
        /\ gen'[p] \in Nat /\ gen[p] \in Nat /\ gen'[p] >= gen[p]
    BY <2>2, LifeStep
  <2>4. ASSUME alive'[p], gen'[p] = pgen[g]
        PROVE  smpl[g] \in members'[p] \cup {p}
    <3>1. gen'[p] = gen[p] /\ alive[p]
      BY <2>2, <2>3, <2>4
    <3>2. smpl[g] \in members[p] \cup {p}
      BY <1>1, <1>3, <2>1, <2>4, <3>1 DEF Link
    <3>. QED
      BY <2>2, <3>1, <3>2, MembersStep
  <2>5. pgen[g] <= gen'[p]
    BY <2>2, <2>3
  <2>. QED
    BY <1>1, <1>3, <2>1, <2>3, <2>4, <2>5 DEF Link
<1>. QED
  BY <1>2, <1>3

\* A handle that R gets from an entry point is linked.
LEMMA LinkMade ==
  ASSUME IInv, Next, NEW g \in Handle, smpl[g] = Null
  PROVE  Link(g)'
<1>. USE DEF IInv, SetHandle, Link
<1>. SUFFICES ASSUME smpl'[g] # Null PROVE Link(g)'
  OBVIOUS
<1>1. ASSUME NEW h \in Handle, NEW s \in Sampler, NEW chain \in BOOLEAN,
             New(s, h, chain)
      PROVE  Link(g)'
  BY <1>1 DEF New, TypeOK
<1>2. ASSUME NEW h \in Handle, NEW s \in Sampler, NEW m \in Sampler,
             ChainFromParams(s, m, h)
      PROVE  Link(g)'
  BY <1>2 DEF ChainFromParams, TypeOK
<1>3. ASSUME NEW h \in Handle, NEW c \in Handle, ChainAdd(c, h)
      PROVE  FALSE
  BY <1>3 DEF ChainAdd, Passes, TypeOK
<1>4. ASSUME NEW h \in Handle, NEW c \in Handle, NEW s \in Sampler,
             ChainGet(c, s, h)
      PROVE  Link(g)'
  <2>1. PICK p \in Sampler : /\ p = smpl[c] /\ mem[p] = "live"
                             /\ s \in members[p] \cup {p}
    BY <1>4 DEF ChainGet, Live
  <2>2. mem' = mem /\ members' = members /\ gen' = gen
    BY <1>4 DEF ChainGet, life, memory
  <2>3. g = h
    BY <1>4 DEF ChainGet, TypeOK
  <2>4. smpl'[g] = s /\ owned'[g] = FALSE /\ parent'[g] = p /\ pgen'[g] = gen[p]
    BY <1>4, <2>1, <2>3 DEF ChainGet, TypeOK
  <2>5. gen[p] <= gen[p] /\ p # Null
    BY <2>1, SamplerAssumption DEF TypeOK
  <2>. QED
    BY <2>1, <2>2, <2>4, <2>5
<1>5. ASSUME NEW h \in Handle, NEW c \in Handle, NEW s \in Sampler,
             ChainRemove(c, s, h)
      PROVE  Link(g)'
  BY <1>5 DEF ChainRemove, TypeOK
<1>6. ASSUME NEW h \in Handle, NEW x \in Handle, Clonable(x),
             NEW copy \in [Within(smpl[x]) -> Fresh], Clone(x, h, copy)
      PROVE  Link(g)'
  BY <1>6 DEF Clone, TypeOK
<1>7. ASSUME NEW h \in Handle, ClearHandle(h)
      PROVE  FALSE
  BY <1>7 DEF ClearHandle, TypeOK
<1>. HIDE DEF Link
<1>. QED
  BY <1>1, <1>2, <1>3, <1>4, <1>5, <1>6, <1>7 DEF Next, Free, Finalize

\* A handle that joins a chain is linked to it.
LEMMA LinkAdded ==
  ASSUME IInv, NEW g \in Handle, NEW c \in Handle, ChainAdd(c, g)
  PROVE  Link(g)'
<1>1. PICK p \in Sampler : p = smpl[c] /\ mem[p] = "live"
  BY DEF ChainAdd, Live
<1>2. smpl[g] \in Sampler /\ smpl[g] \in members'[p]
  BY <1>1, PassesSampler DEF ChainAdd, IInv, TypeOK
<1>3. /\ smpl'[g] = smpl[g] /\ owned'[g] = FALSE
      /\ parent'[g] = p /\ pgen'[g] = gen[p]
  BY <1>1 DEF ChainAdd, SetHandle, IInv, TypeOK
<1>4. mem' = mem /\ gen' = gen
  BY DEF ChainAdd, life
<1>5. gen[p] <= gen[p] /\ p # Null
  BY <1>1, SamplerAssumption DEF IInv, TypeOK
<1>. QED
  BY <1>1, <1>2, <1>3, <1>4, <1>5 DEF Link

\* Every step keeps every handle linked.
LEMMA LinksStep == IInv /\ Next => Links'
<1>. SUFFICES ASSUME IInv, Next, NEW g \in Handle PROVE Link(g)'
  BY DEF Links
<1>1. CASE smpl[g] = Null
  BY <1>1, LinkMade
<1>2. CASE smpl[g] # Null
  <2>1. CASE Same(g)
    BY <2>1, LinkKept
  <2>2. CASE smpl'[g] = Null
    BY <2>2 DEF Link
  <2>3. CASE \E c \in Handle : ChainAdd(c, g)
    BY <2>3, LinkAdded
  <2>. QED
    BY <1>2, <2>1, <2>2, <2>3, HandleStep
<1>. QED
  BY <1>1, <1>2

\* A handle that owns its sampler keeps it, or gives it to a chain, or frees it.
\* A chain whose record is alive afterwards was not freed.
LEMMA HeldStep ==
  ASSUME IInv, Next, NEW s \in Sampler, Held(s), alive'[s], s \notin nested',
         alive[s]
  PROVE  Held(s)'
<1>. USE DEF IInv
<1>1. PICK g \in Handle : smpl[g] = s /\ owned[g] /\ isChain[g]
  BY DEF Held
<1>2. smpl[g] # Null
  BY <1>1, SamplerAssumption
<1>3. CASE Same(g)
  BY <1>1, <1>3 DEF Held, Same
<1>4. ASSUME NEW c \in Handle, ChainAdd(c, g) PROVE FALSE
  BY <1>1, <1>4 DEF ChainAdd
<1>5. CASE smpl'[g] = Null
  <2>1. ASSUME NEW h \in Handle, Free(h) \/ Finalize(h)
        PROVE  Held(s)'
    <3>1. CASE h = g
      <4>1. alive' = [alive EXCEPT ![s] = FALSE]
        BY <2>1, <3>1, <1>1 DEF Free, Finalize, Release
      <4>. QED
        BY <4>1 DEF TypeOK
    <3>2. CASE h # g
      BY <1>1, <1>2, <1>5, <2>1, <3>2
      DEF Free, Finalize, ClearHandle, SetHandle, TypeOK
    <3>. QED
      BY <3>1, <3>2
  <2>2. ASSUME NEW h \in Handle, NEW s1 \in Sampler, NEW chain \in BOOLEAN,
               New(s1, h, chain)
        PROVE  FALSE
    BY <1>2, <1>5, <2>2, SamplerAssumption DEF New, SetHandle, TypeOK
  <2>3. ASSUME NEW h \in Handle, NEW s1 \in Sampler, NEW m \in Sampler,
               ChainFromParams(s1, m, h)
        PROVE  FALSE
    BY <1>2, <1>5, <2>3, SamplerAssumption DEF ChainFromParams, SetHandle, TypeOK
  <2>4. ASSUME NEW h \in Handle, NEW c \in Handle, ChainAdd(c, h)
        PROVE  FALSE
    BY <1>2, <1>5, <2>4 DEF ChainAdd, Passes, SetHandle, TypeOK
  <2>5. ASSUME NEW h \in Handle, NEW c \in Handle, NEW s1 \in Sampler,
               ChainGet(c, s1, h)
        PROVE  FALSE
    BY <1>2, <1>5, <2>5 DEF ChainGet, SetHandle, TypeOK
  <2>6. ASSUME NEW h \in Handle, NEW c \in Handle, NEW s1 \in Sampler,
               ChainRemove(c, s1, h)
        PROVE  FALSE
    BY <1>2, <1>5, <2>6 DEF ChainRemove, SetHandle, TypeOK
  <2>7. ASSUME NEW h \in Handle, NEW x \in Handle,
               NEW copy \in [Within(smpl[x]) -> Fresh], Clone(x, h, copy)
        PROVE  FALSE
    BY <1>2, <1>5, <2>7 DEF Clone, SetHandle, TypeOK
  <2>. QED
    BY <2>1, <2>2, <2>3, <2>4, <2>5, <2>6, <2>7 DEF Next
<1>. QED
  BY <1>2, <1>3, <1>4, <1>5, HandleStep

\* A record that comes alive is that of the chain handle it is made with.
LEMMA ChainMade ==
  ASSUME IInv, Next, NEW s \in Sampler, alive'[s], ~alive[s]
  PROVE  Held(s)'
<1>. USE DEF IInv
<1>1. ASSUME NEW h \in Handle, NEW s1 \in Sampler, NEW chain \in BOOLEAN,
             New(s1, h, chain)
      PROVE  Held(s)'
  <2>1. s = s1 /\ chain
    BY <1>1 DEF New, NewLife, TypeOK
  <2>2. smpl'[h] = s /\ owned'[h] /\ isChain'[h]
    BY <1>1, <2>1 DEF New, SetHandle, TypeOK
  <2>. QED
    BY <2>2 DEF Held
<1>2. ASSUME NEW h \in Handle, NEW s1 \in Sampler, NEW m \in Sampler,
             ChainFromParams(s1, m, h)
      PROVE  Held(s)'
  <2>1. s = s1
    BY <1>2 DEF ChainFromParams, NewLife, TypeOK
  <2>2. smpl'[h] = s /\ owned'[h] /\ isChain'[h]
    BY <1>2, <2>1 DEF ChainFromParams, SetHandle, TypeOK
  <2>. QED
    BY <2>2 DEF Held
<1>3. ASSUME NEW h \in Handle, NEW x \in Handle, Clonable(x),
             NEW copy \in [Within(smpl[x]) -> Fresh], Clone(x, h, copy)
      PROVE  Held(s)'
  <2>1. PICK r \in Sampler : r = smpl[x] /\ r \in Within(smpl[x])
    BY <1>3, PassesSampler, WithinClosed DEF Clonable
  <2>2. alive' = [alive EXCEPT ![copy[r]] = isChain[x]]
    BY <1>3, <2>1 DEF Clone, NewLife
  <2>3. s = copy[r] /\ isChain[x]
    BY <2>2 DEF TypeOK
  <2>4. smpl'[h] = s /\ owned'[h] /\ isChain'[h]
    BY <1>3, <2>1, <2>3 DEF Clone, SetHandle, TypeOK
  <2>. QED
    BY <2>4 DEF Held
<1>4. ASSUME NEW h \in Handle, Free(h) \/ Finalize(h)
      PROVE  FALSE
  <2>1. CASE isChain[h] /\ owned[h]
    BY <1>4, <2>1 DEF Free, Finalize, Release, TypeOK
  <2>2. CASE ~(isChain[h] /\ owned[h])
    BY <1>4, <2>2 DEF Free, Finalize, Release, life
  <2>. QED
    BY <2>1, <2>2
<1>5. ASSUME NEW h \in Handle, NEW c \in Handle, ChainAdd(c, h)
      PROVE  FALSE
  BY <1>5 DEF ChainAdd, life
<1>6. ASSUME NEW h \in Handle, NEW c \in Handle, NEW s1 \in Sampler,
             ChainGet(c, s1, h) \/ ChainRemove(c, s1, h)
      PROVE  FALSE
  BY <1>6 DEF ChainGet, ChainRemove, life
<1>. QED
  BY <1>1, <1>2, <1>3, <1>4, <1>5, <1>6 DEF Next

\* The samplers that ever joined a chain are never fewer.
LEMMA NestedStep == Next => nested \subseteq nested'
  BY DEF Next, New, ChainFromParams, ChainAdd, ChainGet, ChainRemove, Clone,
         Free, Finalize

\* Every step leaves a chain that is alive, and joined no chain, to its handle.
LEMMA ChainsHeldStep == IInv /\ Next => ChainsHeld'
<1>. SUFFICES ASSUME IInv, Next, NEW s \in Sampler, alive'[s], s \notin nested'
              PROVE  Held(s)'
  BY DEF ChainsHeld
<1>1. CASE alive[s]
  <2>1. Held(s)
    BY <1>1, NestedStep DEF IInv, ChainsHeld
  <2>. QED
    BY <1>1, <2>1, HeldStep
<1>2. CASE ~alive[s]
  BY <1>2, ChainMade
<1>. QED
  BY <1>1, <1>2

\* A sampler that was not made yet is empty, and has no live record.
LEMMA UnbornStep == IInv /\ Next => UnbornClean'
<1>. SUFFICES ASSUME IInv, Next, NEW s \in Sampler, mem'[s] = "unborn"
              PROVE  ~alive'[s] /\ members'[s] = {}
  BY DEF UnbornClean
<1>. USE DEF IInv
<1>1. mem[s] = "unborn" /\ ~alive[s] /\ members[s] = {}
  BY LifeStep DEF UnbornClean, TypeOK, Next, New, ChainFromParams, ChainAdd,
     ChainGet, ChainRemove, Clone, Free, Finalize, Release, life, memory
<1>2. ASSUME NEW h \in Handle, NEW s1 \in Sampler, NEW chain \in BOOLEAN,
             New(s1, h, chain)
      PROVE  ~alive'[s] /\ members'[s] = {}
  BY <1>1, <1>2 DEF New, NewLife, TypeOK
<1>3. ASSUME NEW h \in Handle, NEW s1 \in Sampler, NEW m \in Sampler,
             ChainFromParams(s1, m, h)
      PROVE  ~alive'[s] /\ members'[s] = {}
  BY <1>1, <1>3 DEF ChainFromParams, NewLife, TypeOK
<1>4. ASSUME NEW h \in Handle, NEW c \in Handle, ChainAdd(c, h)
      PROVE  ~alive'[s] /\ members'[s] = {}
  BY <1>1, <1>4 DEF ChainAdd, Live, life, TypeOK
<1>5. ASSUME NEW h \in Handle, NEW c \in Handle, NEW s1 \in Sampler,
             ChainGet(c, s1, h) \/ ChainRemove(c, s1, h)
      PROVE  ~alive'[s] /\ members'[s] = {}
  BY <1>1, <1>5 DEF ChainGet, ChainRemove, Live, life, memory, TypeOK
<1>6. ASSUME NEW h \in Handle, NEW x \in Handle, Clonable(x),
             NEW copy \in [Within(smpl[x]) -> Fresh], Clone(x, h, copy)
      PROVE  ~alive'[s] /\ members'[s] = {}
  <2>1. PICK r \in Sampler : r = smpl[x] /\ r \in Within(smpl[x])
    BY <1>6, PassesSampler, WithinClosed DEF Clonable
  <2>2. \A t \in Within(smpl[x]) : s # copy[t]
    BY <1>6 DEF Clone
  <2>3. members'[s] = members[s]
    BY <1>6, <2>2, CloneMembers
  <2>4. alive' = [alive EXCEPT ![copy[r]] = isChain[x]]
    BY <1>6, <2>1 DEF Clone, NewLife
  <2>. QED
    BY <1>1, <2>1, <2>2, <2>3, <2>4 DEF TypeOK
<1>7. ASSUME NEW h \in Handle, smpl[h] # Null, Release(h)
      PROVE  ~alive'[s]
  BY <1>1, <1>7 DEF Release, life, TypeOK
<1>8. ASSUME NEW h \in Handle, Free(h) \/ Finalize(h)
      PROVE  ~alive'[s] /\ members'[s] = {}
  BY <1>1, <1>7, <1>8 DEF Free, Finalize, life
<1>. QED
  BY <1>2, <1>3, <1>4, <1>5, <1>6, <1>8 DEF Next

\* A step that changes nothing keeps the invariant.
LEMMA StutterInv == IInv /\ UNCHANGED vars => IInv'
<1>. SUFFICES ASSUME IInv, UNCHANGED vars PROVE IInv'
  OBVIOUS
<1>1. TypeOK' /\ SingleOwner'
  BY TypeStep, OwnerStep DEF IInv
<1>2. Links' /\ ChainsHeld' /\ UnbornClean'
  BY DEF IInv, vars, Links, Link, ChainsHeld, Held, UnbornClean
<1>. QED
  BY <1>1, <1>2 DEF IInv

-----------------------------------------------------------------------------
(* The theorems.                                                           *)

\* The inductive invariant holds of every reachable state of the handles.
THEOREM Invariance == Spec => []IInv
<1>1. IInv /\ [Next]_vars => IInv'
  <2>. SUFFICES ASSUME IInv, [Next]_vars PROVE IInv'
    OBVIOUS
  <2>1. CASE Next
    BY <2>1, TypeStep, OwnerStep, LinksStep, ChainsHeldStep, UnbornStep DEF IInv
  <2>2. CASE UNCHANGED vars
    BY <2>2, StutterInv
  <2>. QED
    BY <2>1, <2>2
<1>. QED
  BY InitInv, <1>1, PTL DEF Spec

\* No sequence of entry points and collections frees a sampler twice, or leaves
\* a live one without the one handle or chain that will free it.
THEOREM SingleOwnerCorrect == Spec => []SingleOwner
<1>1. IInv => SingleOwner
  BY DEF IInv
<1>. QED
  BY <1>1, Invariance, PTL

\* A handle the check lets through reaches a live sampler, as long as its chain
\* was never added to another chain.
THEOREM FlatHandleSafeCorrect == Spec => []FlatHandleSafe
<1>1. ASSUME IInv, NEW h \in Handle, Passes(h), parent[h] \notin nested
      PROVE  Live(smpl[h])
  <2>. USE <1>1 DEF IInv
  <2>1. smpl[h] # Null /\ Link(h)
    BY DEF Passes, Links
  <2>2. CASE parent[h] = Null
    BY <2>1, <2>2, OwnedLive DEF Link, Live
  <2>3. CASE parent[h] # Null
    <3>1. PICK p \in Sampler : p = parent[h]
      BY <2>3 DEF TypeOK
    <3>2. alive[p] /\ smpl[h] \in members[p] \cup {p}
      BY <2>1, <2>3, <3>1 DEF Link, Passes
    <3>3. PICK g \in Handle : smpl[g] = p /\ owned[g]
      BY <3>1, <3>2 DEF ChainsHeld, Held
    <3>4. mem[p] = "live"
      BY <3>1, <3>3, OwnedLive, SamplerAssumption
    <3>. QED
      BY <3>1, <3>2, <3>4, MembersLive DEF Live
  <2>. QED
    BY <2>2, <2>3
<1>2. IInv => FlatHandleSafe
  BY <1>1 DEF FlatHandleSafe
<1>. QED
  BY <1>2, Invariance, PTL

\* A handle retired by its chain never passes again, until R forgets it.
THEOREM RetiredCorrect == Spec => RetiredForGood
<1>1. ASSUME IInv, Next, NEW h \in Handle, Retired(h)
      PROVE  Retired(h)' \/ smpl'[h] = Null
  <2>. USE <1>1 DEF IInv
  <2>1. smpl[h] # Null /\ ~Passes(h)
    BY DEF Retired
  <2>2. PICK p \in Sampler : p = parent[h] /\ ~(alive[p] /\ gen[p] = pgen[h])
    BY <2>1 DEF Passes, TypeOK
  <2>3. mem[p] # "unborn" /\ pgen[h] <= gen[p] /\ pgen[h] \in Nat
    BY <2>1, <2>2, SamplerAssumption DEF Links, Link, TypeOK
  <2>4. /\ alive'[p] => alive[p]
        /\ gen'[p] \in Nat /\ gen[p] \in Nat /\ gen'[p] >= gen[p]
    BY <2>3, LifeStep
  <2>5. ~(alive'[p] /\ gen'[p] = pgen[h])
    BY <2>2, <2>3, <2>4
  <2>6. CASE Same(h)
    BY <2>1, <2>2, <2>5, <2>6, SamplerAssumption DEF Same, Retired, Passes
  <2>7. ASSUME NEW c \in Handle, ChainAdd(c, h) PROVE FALSE
    BY <2>1, <2>7 DEF ChainAdd
  <2>. QED
    BY <2>1, <2>6, <2>7, HandleStep
<1>2. IInv /\ [Next]_vars
        => [\A h \in Handle : Retired(h) => Retired(h)' \/ smpl'[h] = Null]_vars
  BY <1>1
<1>. QED
  BY <1>2, Invariance, PTL DEF Spec, RetiredForGood

=============================================================================
