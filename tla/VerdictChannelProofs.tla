------------------------ MODULE VerdictChannelProofs -------------------------
(****************************************************************************)
(* Proofs about VerdictChannel, for any finite set of CPUs, every set of    *)
(* destinations, slots and expiries, and every size of map and ring buffer. *)
(****************************************************************************)
EXTENDS VerdictChannel, FiniteSetTheorems, TLAPS

(* A program that holds a verdict holds one of the map's slots.             *)
ReadInv ==
    \A u \in Cpus : Reading(u) => slot[u] \in Slots /\ dest[u] \in Dests

LEMMA TypedStep ==
    ASSUME TypeOK, ReadInv, [Next]_vars
    PROVE  TypeOK' /\ ReadInv'
<1> USE ChannelAssumption DEF TypeOK, mapVars, progVars, auditVars
<1>1. ASSUME NEW u \in Cpus, NEW d \in Dests, Lookup(u, d)
      PROVE  TypeOK' /\ ReadInv'
  <2>1. InForce(d, now) \in Actions
    BY DEF InForce, Actions
  <2>2. TypeOK'
    BY <1>1, <2>1 DEF Lookup, Actions
  <2>3. ReadInv'
    BY <1>1 DEF Lookup, ReadInv, Reading
  <2> QED BY <2>2, <2>3
<1>2. ASSUME NEW u \in Cpus, CheckExpiry(u)
      PROVE  TypeOK' /\ ReadInv'
  BY <1>2 DEF CheckExpiry, ReadInv, Reading
<1>3. ASSUME NEW u \in Cpus, Expired(u)
      PROVE  TypeOK' /\ ReadInv'
  BY <1>3 DEF Expired, ReadInv, Reading
<1>4. ASSUME NEW u \in Cpus, TakeVerdict(u)
      PROVE  TypeOK' /\ ReadInv'
  <2>1. slot[u] \in Slots
    BY <1>4 DEF TakeVerdict, ReadInv, Reading
  <2>2. TypeOK'
    BY <1>4, <2>1 DEF TakeVerdict
  <2>3. ReadInv'
    BY <1>4 DEF TakeVerdict, ReadInv, Reading
  <2> QED BY <2>2, <2>3
<1>5. ASSUME NEW u \in Cpus, Audit(u)
      PROVE  TypeOK' /\ ReadInv'
  <2>1. TypeOK'
    <3>1. Outcome(u) \in Actions
      BY DEF Outcome
    <3>2. CASE ring < RingSize
      BY <1>5, <3>1, <3>2 DEF Audit
    <3>3. CASE ~(ring < RingSize)
      BY <1>5, <3>3 DEF Audit
    <3> QED BY <3>2, <3>3
  <2>2. ReadInv'
    BY <1>5 DEF Audit, ReadInv, Reading
  <2> QED BY <2>1, <2>2
<1>6. ASSUME NEW u \in Cpus, Seen(u)
      PROVE  TypeOK' /\ ReadInv'
  BY <1>6 DEF Seen, ReadInv, Reading
<1>7. ASSUME NEW u \in Cpus, Decide(u)
      PROVE  TypeOK' /\ ReadInv'
  BY <1>7 DEF Decide, ReadInv, Reading
<1>8. ASSUME NEW d \in Dests, NEW s \in Slots, NEW a \in Actions,
             NEW e \in Expiries, Update(d, s, a, e)
      PROVE  TypeOK' /\ ReadInv'
  <2>1. TypeOK'
    BY <1>8 DEF Update, Disturb
  <2>2. ReadInv'
    BY <1>8 DEF Update, ReadInv, Reading
  <2> QED BY <2>1, <2>2
<1>9. ASSUME NEW d \in Dests, Delete(d)
      PROVE  TypeOK' /\ ReadInv'
  <2>1. TypeOK'
    BY <1>9 DEF Delete, Disturb
  <2>2. ReadInv'
    BY <1>9 DEF Delete, ReadInv, Reading
  <2> QED BY <2>1, <2>2
<1>10. CASE Consume
  BY <1>10 DEF Consume, ReadInv, Reading
<1>11. CASE Tick
  BY <1>11 DEF Tick, ReadInv, Reading
<1>12. CASE UNCHANGED vars
  BY <1>12 DEF vars, ReadInv, Reading
<1> QED
  BY <1>1, <1>2, <1>3, <1>4, <1>5, <1>6, <1>7, <1>8, <1>9, <1>10, <1>11,
     <1>12 DEF Next, Program

LEMMA TypedAlways == Spec => [](TypeOK /\ ReadInv)
<1>1. Init => TypeOK /\ ReadInv
  BY ChannelAssumption DEF Init, TypeOK, ReadInv, Reading, Actions
<1>2. TypeOK /\ ReadInv /\ [Next]_vars => (TypeOK /\ ReadInv)'
  BY TypedStep
<1> QED BY <1>1, <1>2, PTL DEF Spec

(* The maps, counters and locals of enforce_connect4() keep their types.    *)
THEOREM TypeCorrect == Spec => []TypeOK
<1>1. TypeOK /\ ReadInv => TypeOK
  OBVIOUS
<1> QED BY <1>1, TypedAlways, PTL

------------------------------------------------------------------------------
(* A verdict that is left alone is the one decided on.                      *)

(* A slot is linked for one destination at most.                            *)
LinkInv ==
    \A d, e \in Dests : index[d] # NoSlot /\ index[d] = index[e] => d = e

(* While the verdict a program looked up is undisturbed its slot is still   *)
(* linked; it is in force until the program has checked the expiry, and     *)
(* then it is what the slot says.                                           *)
HoldInv ==
    \A u \in Cpus :
        Reading(u) /\ steady[u] # "changed" =>
            /\ index[dest[u]] = slot[u]
            /\ pc[u] = "found" => steady[u] = InForce(dest[u], now)
            /\ pc[u] = "fresh" => steady[u] = action[slot[u]]

(* Until a verdict is taken the default stands.                             *)
DefaultInv == \A u \in Cpus : Reading(u) => act[u] = "ALLOW"

SteadyInv ==
    /\ LinkInv
    /\ DefaultInv
    /\ HoldInv
    /\ SteadyVerdictHolds

LEMMA SteadyStep ==
    ASSUME TypeOK, ReadInv, SteadyInv, TypeOK', ReadInv', [Next]_vars
    PROVE  SteadyInv'
<1> USE ChannelAssumption DEF SteadyInv, mapVars, progVars, auditVars
<1>1. ASSUME NEW u \in Cpus, NEW d \in Dests, Lookup(u, d)
      PROVE  SteadyInv'
  <2>1. /\ dest'[u] = d /\ slot'[u] = index[d] /\ act'[u] = "ALLOW"
        /\ steady'[u] = InForce(d, now)
        /\ \A v \in Cpus : v # u => /\ pc'[v] = pc[v]
                                  /\ dest'[v] = dest[v]
                                  /\ slot'[v] = slot[v]
                                  /\ act'[v] = act[v]
                                  /\ steady'[v] = steady[v]
        /\ UNCHANGED <<now, index, action, expires>>
    BY <1>1 DEF Lookup, TypeOK
  <2>2. LinkInv'
    BY <2>1 DEF LinkInv
  <2>5. DefaultInv'
    BY <2>1 DEF DefaultInv, Reading
  <2>3. CASE index[d] = NoSlot
    <3>1. pc'[u] = "audit"
      BY <1>1, <2>3 DEF Lookup, TypeOK
    <3>2. InForce(d, now) = "ALLOW"
      BY <2>3 DEF InForce
    <3>3. HoldInv'
      BY <2>1, <3>1 DEF HoldInv, Reading, InForce, Fresh
    <3>4. SteadyVerdictHolds'
      BY <2>1, <3>1, <3>2 DEF SteadyVerdictHolds
    <3> QED BY <2>2, <2>5, <3>3, <3>4
  <2>4. CASE index[d] # NoSlot
    <3>1. pc'[u] = "found"
      BY <1>1, <2>4 DEF Lookup, TypeOK
    <3>2. HoldInv'
      BY <2>1, <3>1 DEF HoldInv, Reading, InForce, Fresh
    <3>3. SteadyVerdictHolds'
      BY <2>1, <3>1 DEF SteadyVerdictHolds
    <3> QED BY <2>2, <2>5, <3>2, <3>3
  <2> QED BY <2>3, <2>4
<1>2. ASSUME NEW u \in Cpus, CheckExpiry(u)
      PROVE  SteadyInv'
  <2>1. /\ pc[u] = "found" /\ pc'[u] = "fresh"
        /\ Fresh(slot[u], now)
        /\ slot[u] \in Slots
        /\ \A v \in Cpus : v # u => pc'[v] = pc[v]
        /\ UNCHANGED <<now, index, action, expires, dest, slot, act, steady>>
    BY <1>2 DEF CheckExpiry, TypeOK, ReadInv, Reading
  <2>2. HoldInv'
    BY <2>1 DEF HoldInv, Reading, InForce, Fresh
  <2> QED BY <2>1, <2>2 DEF LinkInv, DefaultInv, Reading, SteadyVerdictHolds
<1>3. ASSUME NEW u \in Cpus, Expired(u)
      PROVE  SteadyInv'
  <2>1. /\ pc[u] = "found" /\ pc'[u] = "audit"
        /\ ~Fresh(slot[u], now)
        /\ \A v \in Cpus : v # u => pc'[v] = pc[v]
        /\ UNCHANGED <<now, index, action, expires, dest, slot, act, steady>>
    BY <1>3 DEF Expired, TypeOK
  <2>2. act[u] = "ALLOW"
    BY <2>1 DEF DefaultInv, Reading
  <2>3. steady[u] # "changed" => steady[u] = "ALLOW"
    BY <2>1 DEF HoldInv, Reading, InForce
  <2>4. HoldInv'
    BY <2>1 DEF HoldInv, Reading, InForce, Fresh
  <2>5. SteadyVerdictHolds'
    BY <2>1, <2>2, <2>3 DEF SteadyVerdictHolds
  <2> QED BY <2>1, <2>4, <2>5 DEF LinkInv, DefaultInv, Reading
<1>4. ASSUME NEW u \in Cpus, TakeVerdict(u)
      PROVE  SteadyInv'
  <2>1. /\ pc[u] = "fresh" /\ pc'[u] = "audit"
        /\ act'[u] = action[slot[u]]
        /\ \A v \in Cpus : v # u => pc'[v] = pc[v] /\ act'[v] = act[v]
        /\ UNCHANGED <<now, index, action, expires, dest, slot, steady>>
    BY <1>4 DEF TakeVerdict, TypeOK
  <2>2. steady[u] # "changed" => steady[u] = action[slot[u]]
    BY <2>1 DEF HoldInv, Reading
  <2>3. HoldInv'
    BY <2>1 DEF HoldInv, Reading, InForce, Fresh
  <2>4. SteadyVerdictHolds'
    BY <2>1, <2>2 DEF SteadyVerdictHolds
  <2> QED BY <2>1, <2>3, <2>4 DEF LinkInv, DefaultInv, Reading
<1>5. ASSUME NEW u \in Cpus, Audit(u) \/ Seen(u) \/ Decide(u)
      PROVE  SteadyInv'
  <2>1. /\ pc[u] \in {"audit", "seen", "decide"}
        /\ pc'[u] \in {"seen", "decide", "idle"}
        /\ \A v \in Cpus : v # u => pc'[v] = pc[v]
        /\ UNCHANGED <<now, index, action, expires, dest, slot, act, steady>>
    BY <1>5 DEF Audit, Seen, Decide, TypeOK
  <2>2. HoldInv'
    BY <2>1 DEF HoldInv, Reading, InForce, Fresh
  <2> QED BY <2>1, <2>2 DEF LinkInv, DefaultInv, Reading, SteadyVerdictHolds
<1>6. ASSUME NEW d \in Dests, NEW s \in Slots, NEW a \in Actions,
             NEW e \in Expiries, Update(d, s, a, e)
      PROVE  SteadyInv'
  <2>1. /\ s \notin Linked
        /\ index'[d] = s
        /\ \A c \in Dests : c # d => index'[c] = index[c]
        /\ \A t \in Slots : t # s => action'[t] = action[t]
                                   /\ expires'[t] = expires[t]
        /\ Disturb(d)
        /\ UNCHANGED <<now, pc, dest, slot, act>>
    BY <1>6 DEF Update, TypeOK
  <2>2. LinkInv'
    BY <2>1 DEF LinkInv, Linked
  <2>3. HoldInv'
    <3> SUFFICES ASSUME NEW u \in Cpus, Reading(u), steady'[u] # "changed"
                 PROVE  (/\ index[dest[u]] = slot[u]
                         /\ pc[u] = "found" => steady[u] = InForce(dest[u], now)
                         /\ pc[u] = "fresh" => steady[u] = action[slot[u]])'
      BY <2>1 DEF HoldInv, Reading
    <3>1. /\ dest[u] # d /\ dest[u] \in Dests /\ slot[u] \in Slots
          /\ steady'[u] = steady[u]
          /\ steady[u] # "changed"
      BY <2>1 DEF Disturb, ReadInv
    <3>2. index[dest[u]] = slot[u] /\ index'[dest[u]] = slot[u]
      BY <2>1, <3>1 DEF HoldInv
    <3>3. slot[u] # s
      BY <2>1, <3>1, <3>2 DEF Linked
    <3>4. action'[slot[u]] = action[slot[u]] /\ expires'[slot[u]] = expires[slot[u]]
      BY <2>1, <3>1, <3>3
    <3> QED BY <2>1, <3>1, <3>2, <3>4 DEF HoldInv, InForce, Fresh
  <2>4. DefaultInv' /\ SteadyVerdictHolds'
    BY <2>1 DEF DefaultInv, SteadyVerdictHolds, Reading, Disturb
  <2> QED BY <2>2, <2>3, <2>4
<1>7. ASSUME NEW d \in Dests, Delete(d)
      PROVE  SteadyInv'
  <2>1. /\ index'[d] = NoSlot
        /\ \A c \in Dests : c # d => index'[c] = index[c]
        /\ Disturb(d)
        /\ UNCHANGED <<now, action, expires, pc, dest, slot, act>>
    BY <1>7 DEF Delete, TypeOK
  <2>2. LinkInv'
    BY <2>1 DEF LinkInv
  <2>3. HoldInv'
    BY <2>1 DEF HoldInv, Reading, ReadInv, Disturb, InForce, Fresh
  <2>4. DefaultInv' /\ SteadyVerdictHolds'
    BY <2>1 DEF DefaultInv, SteadyVerdictHolds, Reading, Disturb
  <2> QED BY <2>2, <2>3, <2>4
<1>8. CASE Consume \/ UNCHANGED vars
  <2>1. UNCHANGED <<now, index, action, expires, pc, dest, slot, act, steady>>
    BY <1>8 DEF Consume, vars
  <2> QED
    BY <2>1 DEF LinkInv, DefaultInv, HoldInv, SteadyVerdictHolds, Reading,
                InForce, Fresh
<1>9. CASE Tick
  <2>1. /\ now' = now + 1
        /\ \A u \in Cpus :
              steady'[u] = IF Reading(u) /\ InForce(dest[u], now + 1) # steady[u]
                           THEN "changed" ELSE steady[u]
        /\ UNCHANGED <<index, action, expires, pc, dest, slot, act>>
    BY <1>9 DEF Tick
  <2>2. HoldInv'
    BY <2>1 DEF HoldInv, Reading, InForce, Fresh
  <2> QED
    BY <2>1, <2>2 DEF LinkInv, DefaultInv, SteadyVerdictHolds, Reading
<1> QED
  BY <1>1, <1>2, <1>3, <1>4, <1>5, <1>6, <1>7, <1>8, <1>9 DEF Next, Program

(* A verdict that nobody rewrites and that does not expire between the      *)
(* lookup and the decision is the one enforce_connect4() decides.           *)
THEOREM SteadyDecision == Spec => []SteadyVerdictHolds
<1>1. Init => SteadyInv
  BY ChannelAssumption DEF Init, SteadyInv, LinkInv, DefaultInv, HoldInv,
                           SteadyVerdictHolds, Reading
<1>2. /\ TypeOK /\ ReadInv /\ (TypeOK /\ ReadInv)' /\ SteadyInv
      /\ [Next]_vars
      => SteadyInv'
  BY SteadyStep
<1>3. SteadyInv => SteadyVerdictHolds
  BY DEF SteadyInv
<1> QED BY <1>1, <1>2, <1>3, TypedAlways, PTL DEF Spec

------------------------------------------------------------------------------
(* The counters and the events.                                             *)

LEMMA CountStep ==
    ASSUME NEW S, IsFiniteSet(S), NEW x
    PROVE  /\ x \notin S => Cardinality(S \cup {x}) = Cardinality(S) + 1
           /\ x \in S => Cardinality(S \ {x}) = Cardinality(S) - 1
           /\ Cardinality(S) \in Nat
  BY FS_AddElement, FS_RemoveElement, FS_CardinalityType

LEMMA FiniteCpus == \A S \in SUBSET Cpus : IsFiniteSet(S)
  BY ChannelAssumption, FS_Subset

(* At any moment the attempts counted are the refusals, the admissions and  *)
(* the programs about to count one of them (bump).                          *)
THEOREM Counted == Spec => []CountersAgree
<1>1. Init => CountersAgree
  <2> SUFFICES ASSUME Init PROVE CountersAgree
    OBVIOUS
  <2>1. At("decide") = {}
    BY DEF Init, At
  <2>2. stats[0] = 0 /\ stats[1] = 0 /\ stats[2] = 0
    BY DEF Init
  <2> QED BY <2>1, <2>2, FS_EmptySet DEF CountersAgree
<1>2. TypeOK /\ CountersAgree /\ [Next]_vars => CountersAgree'
  <2> SUFFICES ASSUME TypeOK, CountersAgree, [Next]_vars
               PROVE  CountersAgree'
    OBVIOUS
  <2> USE DEF mapVars, progVars, auditVars
  <2>1. IsFiniteSet(At("decide"))
    BY FiniteCpus DEF At
  <2>2. ASSUME NEW u \in Cpus, Seen(u)
        PROVE  CountersAgree'
    <3>1. u \notin At("decide") /\ At("decide")' = At("decide") \cup {u}
      BY <2>2 DEF Seen, At, TypeOK
    <3>2. /\ stats'[0] = stats[0] + 1
          /\ stats'[1] = stats[1] /\ stats'[2] = stats[2]
          /\ stats[0] \in Nat /\ stats[1] \in Nat /\ stats[2] \in Nat
      BY <2>2 DEF Seen, TypeOK
    <3> QED BY <2>1, <3>1, <3>2, CountStep DEF CountersAgree
  <2>3. ASSUME NEW u \in Cpus, Decide(u)
        PROVE  CountersAgree'
    <3>1. u \in At("decide") /\ At("decide")' = At("decide") \ {u}
      BY <2>3 DEF Decide, At, TypeOK
    <3>2. /\ stats'[0] = stats[0]
          /\ stats'[1] + stats'[2] = stats[1] + stats[2] + 1
          /\ stats[0] \in Nat /\ stats[1] \in Nat /\ stats[2] \in Nat
      BY <2>3 DEF Decide, TypeOK
    <3>3. Cardinality(At("decide")') = Cardinality(At("decide")) - 1
      BY <2>1, <3>1, CountStep
    <3>4. stats'[1] \in Nat /\ stats'[2] \in Nat /\ Cardinality(At("decide")) \in Nat
      BY <2>1, <2>3, FS_CardinalityType DEF Decide, TypeOK
    <3> QED BY <3>2, <3>3, <3>4 DEF CountersAgree
  <2>4. ASSUME At("decide")' = At("decide"),
               \A i \in {0, 1, 2} : stats'[i] = stats[i]
        PROVE  CountersAgree'
    BY <2>4 DEF CountersAgree
  <2>5. ASSUME NEW u \in Cpus,
               \/ \E d \in Dests : Lookup(u, d)
               \/ CheckExpiry(u) \/ Expired(u)
               \/ TakeVerdict(u) \/ Audit(u)
        PROVE  CountersAgree'
    <3>1. /\ pc[u] # "decide" /\ pc'[u] # "decide"
          /\ \A v \in Cpus : v # u => pc'[v] = pc[v]
      BY <2>5 DEF Lookup, CheckExpiry, Expired, TakeVerdict, Audit, TypeOK
    <3>2. \A i \in {0, 1, 2} : stats'[i] = stats[i]
      BY <2>5 DEF Lookup, CheckExpiry, Expired, TakeVerdict, Audit, TypeOK
    <3> QED BY <2>4, <3>1, <3>2 DEF At
  <2>6. CASE UNCHANGED <<pc, stats>>
    BY <2>4, <2>6 DEF At
  <2>7. CASE \E u \in Cpus : Program(u)
    BY <2>2, <2>3, <2>5, <2>7 DEF Program
  <2>8. CASE ~ \E u \in Cpus : Program(u)
    <3>1. UNCHANGED <<pc, stats>>
      BY <2>8 DEF Next, Update, Delete, Consume, Tick, vars
    <3> QED BY <2>6, <3>1
  <2> QED BY <2>7, <2>8
<1> QED BY <1>1, <1>2, TypeCorrect, PTL DEF Spec

(* Every refusal has its event, but for those that found the ring buffer    *)
(* full, and every event that tells of one has its refusal                  *)
(* (enforce_connect4).                                                      *)
THEOREM Audited == Spec => []RefusalsAudited
<1>1. Init => RefusalsAudited
  <2> SUFFICES ASSUME Init PROVE RefusalsAudited
    OBVIOUS
  <2>1. Refusing = {}
    BY DEF Init, Refusing
  <2>2. stats[1] = 0 /\ audited["DENY"] = 0 /\ lost = 0
    BY DEF Init, Actions
  <2> QED BY <2>1, <2>2, FS_EmptySet DEF RefusalsAudited
<1>2. TypeOK /\ RefusalsAudited /\ [Next]_vars => RefusalsAudited'
  <2> SUFFICES ASSUME TypeOK, RefusalsAudited, [Next]_vars
               PROVE  RefusalsAudited'
    OBVIOUS
  <2> USE DEF mapVars, progVars, auditVars
  <2>1. /\ IsFiniteSet(Refusing)
        /\ Cardinality(Refusing) \in Nat
        /\ stats[1] \in Nat /\ audited["DENY"] \in Nat /\ lost \in Nat
    BY FiniteCpus, FS_CardinalityType DEF Refusing, TypeOK, Actions
  <2>2. ASSUME NEW u \in Cpus, Audit(u)
        PROVE  RefusalsAudited'
    <3>1. /\ stats' = stats /\ act' = act /\ act[u] \in Actions
          /\ pc[u] = "audit" /\ pc'[u] = "seen"
          /\ \A v \in Cpus : v # u => pc'[v] = pc[v]
      BY <2>2 DEF Audit, TypeOK
    <3>2. \/ lost' = lost + 1 /\ audited' = audited
          \/ lost' = lost /\ audited' = [audited EXCEPT ![act[u]] = @ + 1]
      BY <2>2 DEF Audit, Outcome
    <3>3. CASE act[u] = "DENY"
      <4>1. u \notin Refusing /\ Refusing' = Refusing \cup {u}
        BY <3>1, <3>3 DEF Refusing
      <4>2. Cardinality(Refusing') = Cardinality(Refusing) + 1
        BY <2>1, <4>1, CountStep
      <4>3. \/ lost' = lost + 1 /\ audited'["DENY"] = audited["DENY"]
            \/ lost' = lost /\ audited'["DENY"] = audited["DENY"] + 1
        BY <3>2, <3>3 DEF TypeOK, Actions
      <4> QED BY <2>1, <3>1, <4>2, <4>3 DEF RefusalsAudited
    <3>4. CASE act[u] # "DENY"
      <4>1. Refusing' = Refusing
        BY <3>1, <3>4 DEF Refusing
      <4>2. lost' \in {lost, lost + 1} /\ audited'["DENY"] = audited["DENY"]
        BY <3>2, <3>4 DEF TypeOK, Actions
      <4> QED BY <2>1, <3>1, <4>1, <4>2 DEF RefusalsAudited
    <3> QED BY <3>3, <3>4
  <2>3. ASSUME NEW u \in Cpus, Decide(u)
        PROVE  RefusalsAudited'
    <3>1. /\ act' = act /\ audited' = audited /\ lost' = lost
          /\ pc[u] = "decide" /\ pc'[u] = "idle"
          /\ \A v \in Cpus : v # u => pc'[v] = pc[v]
      BY <2>3 DEF Decide, TypeOK
    <3>2. CASE act[u] = "DENY"
      <4>1. u \in Refusing /\ Refusing' = Refusing \ {u}
        BY <3>1, <3>2 DEF Refusing
      <4>2. Cardinality(Refusing') = Cardinality(Refusing) - 1
        BY <2>1, <4>1, CountStep
      <4>3. stats'[1] = stats[1] + 1
        BY <2>3, <3>2 DEF Decide, TypeOK
      <4> QED BY <2>1, <3>1, <4>2, <4>3 DEF RefusalsAudited
    <3>3. CASE act[u] # "DENY"
      <4>1. Refusing' = Refusing
        BY <3>1, <3>3 DEF Refusing
      <4>2. stats'[1] = stats[1]
        BY <2>3, <3>3 DEF Decide, TypeOK
      <4> QED BY <3>1, <4>1, <4>2 DEF RefusalsAudited
    <3> QED BY <3>2, <3>3
  <2>4. ASSUME Refusing' = Refusing, stats'[1] = stats[1], audited' = audited,
               lost' = lost
        PROVE  RefusalsAudited'
    BY <2>4 DEF RefusalsAudited
  <2>5. ASSUME NEW u \in Cpus,
               \/ \E d \in Dests : Lookup(u, d)
               \/ CheckExpiry(u) \/ Expired(u) \/ TakeVerdict(u) \/ Seen(u)
        PROVE  RefusalsAudited'
    <3>1. \/ /\ pc[u] \in {"idle", "found", "fresh"}
             /\ pc'[u] \in {"found", "fresh", "audit"}
          \/ /\ pc[u] = "seen"
             /\ pc'[u] = "decide"
             /\ act' = act
      BY <2>5 DEF Lookup, CheckExpiry, Expired, TakeVerdict, Seen, TypeOK
    <3>2. \A v \in Cpus : v # u => pc'[v] = pc[v] /\ act'[v] = act[v]
      BY <2>5 DEF Lookup, CheckExpiry, Expired, TakeVerdict, Seen, TypeOK
    <3>3. stats'[1] = stats[1] /\ audited' = audited /\ lost' = lost
      BY <2>5 DEF Lookup, CheckExpiry, Expired, TakeVerdict, Seen, TypeOK
    <3>4. Refusing' = Refusing
      BY <3>1, <3>2 DEF Refusing
    <3> QED BY <2>4, <3>3, <3>4
  <2>6. CASE UNCHANGED <<pc, act, stats, audited, lost>>
    BY <2>4, <2>6 DEF Refusing
  <2>7. CASE \E u \in Cpus : Program(u)
    BY <2>2, <2>3, <2>5, <2>7 DEF Program
  <2>8. CASE ~ \E u \in Cpus : Program(u)
    <3>1. UNCHANGED <<pc, act, stats, audited, lost>>
      BY <2>8 DEF Next, Update, Delete, Consume, Tick, vars
    <3> QED BY <2>6, <3>1
  <2> QED BY <2>7, <2>8
<1> QED BY <1>1, <1>2, TypeCorrect, PTL DEF Spec
==============================================================================
