---------------------------- MODULE PolicyProofs -----------------------------
(******************************************************************************)
(* Proofs about policy classes: the datapath that looks them up, the programs *)
(* that count them, and the connections pooled by them.  The three parts do   *)
(* not depend on one another.                                                 *)
(******************************************************************************)
EXTENDS PolicyEnforce, PolicyClasses, Pooling, FiniteSetTheorems, TLAPS

------------------------------------------------------------------------------
(******************************************************************************)
(* PolicyEnforce, for any finite set of CPUs, and every set of sockets,       *)
(* destinations and slots, with any cgroup ids and marks.                     *)
(******************************************************************************)

LEMMA VerdictType ==
    ASSUME NEW e, NEW a \in [Slots -> Actions], NEW dflt \in Actions, NEW k
    PROVE  Verdict(e, a, dflt, k) \in Actions
<1>1. CASE Holding(e, k) = {}
  BY <1>1 DEF Verdict
<1>2. CASE Holding(e, k) # {}
  <2>1. (CHOOSE x \in Holding(e, k) : TRUE) \in Slots
    BY <1>2 DEF Holding
  <2> QED BY <1>2, <2>1 DEF Verdict
<1> QED BY <1>1, <1>2

(* The writes of userspace, one of which every step of it is.               *)
Writes ==
    \/ \E k \in Written :
          \/ Delete(k)
          \/ \E x \in Slots, a \in Actions : Update(k, x, a)
    \/ \E a \in Actions : SetDefault(a)
    \/ \E c \in Carriers : SetCarrier(c)

LEMMA TypedWrite ==
    ASSUME ETypeOK, Writes
    PROVE  ETypeOK'
<1> USE PolicyAssumption DEF ETypeOK, policyVars, cfgVars, historyVars
<1>k. Written \subseteq Keys
  BY DEF Written, PolicyKey, Identity, Keys
<1>1. PICK kind \in {"policy", "cfg"} : Notice(kind)
  BY DEF Writes, Update, Delete, SetDefault, SetCarrier
<1>2. /\ carrier' \in Carriers /\ default' \in Actions /\ open' \in BOOLEAN
      /\ entry' \in [Slots -> Keys \cup {NoKey}]
      /\ action' \in [Slots -> Actions]
  <2>1. ASSUME NEW k \in Written, Delete(k)
        PROVE  <1>2!:
    BY <2>1 DEF Delete
  <2>2. ASSUME NEW k \in Written, NEW x \in Slots, NEW a \in Actions,
               Update(k, x, a)
        PROVE  <1>2!:
    BY <1>k, <2>2 DEF Update
  <2>3. ASSUME NEW a \in Actions, SetDefault(a)
        PROVE  <1>2!:
    BY <2>3 DEF SetDefault
  <2>4. ASSUME NEW c \in Carriers, SetCarrier(c)
        PROVE  <1>2!:
    BY <2>4 DEF SetCarrier
  <2> QED BY <2>1, <2>2, <2>3, <2>4 DEF Writes
<1>3. \A k : Verdict(entry', action', default', k) \in Actions
  BY <1>2, VerdictType
<1>4. seen' \in [Cpus -> SUBSET Actions]
  BY <1>1, <1>3 DEF Notice
<1>5. noise' \in [Cpus -> {"none", "policy", "cfg", "mixed"}]
  BY <1>1 DEF Notice
<1>6. /\ writes' \in Nat
      /\ UNCHANGED <<pc, socket, key, slot, act, stats, connects>>
  BY <1>1 DEF Notice
<1>7. lent' \in [Cpus -> Actions \cup {"none"}]
  <2>1. \A u \in Cpus : Overwritten(u) => action'[slot[u]] \in Actions
    BY <1>2 DEF Overwritten
  <2> QED BY <1>1, <2>1 DEF Notice
<1> QED BY <1>2, <1>4, <1>5, <1>6, <1>7

LEMMA EnforceTypeStep ==
    ASSUME ETypeOK, [ENext]_enforceVars
    PROVE  ETypeOK'
<1> USE PolicyAssumption DEF ETypeOK, policyVars, cfgVars, historyVars
<1>1. ASSUME NEW u \in Cpus, NEW s \in Sockets, NEW d \in Dests, Enter(u, s, d)
      PROVE  ETypeOK'
  <2>1. PolicyKey(s, d, carrier) \in Keys
    BY DEF PolicyKey, Identity, Keys
  <2>2. Verdict(entry, action, default, key'[u]) \in Actions
    BY VerdictType
  <2> QED BY <1>1, <2>1, <2>2 DEF Enter, Step
<1>2. ASSUME NEW u \in Cpus, ReadDefault(u)
      PROVE  ETypeOK'
  BY <1>2 DEF ReadDefault, Step
<1>3. ASSUME NEW u \in Cpus, Hit(u)
      PROVE  ETypeOK'
  <2>1. PICK x \in Slots : slot' = [slot EXCEPT ![u] = x]
    BY <1>3 DEF Hit, Holding
  <2> QED BY <1>3, <2>1 DEF Hit, Step
<1>4. ASSUME NEW u \in Cpus, Miss(u)
      PROVE  ETypeOK'
  BY <1>4 DEF Miss, Step, Bump
<1>5. ASSUME NEW u \in Cpus, TakeVerdict(u)
      PROVE  ETypeOK'
  <2>1. action[slot[u]] \in Actions
    BY <1>5 DEF TakeVerdict, Step
  <2> QED BY <1>5, <2>1 DEF TakeVerdict, Step
<1>6. ASSUME NEW u \in Cpus, CountHit(u)
      PROVE  ETypeOK'
  BY <1>6 DEF CountHit, Step, Bump
<1>7. ASSUME NEW u \in Cpus, AttemptDenied(u)
      PROVE  ETypeOK'
  BY <1>7 DEF AttemptDenied, Step, Bump
<1>8. ASSUME NEW u \in Cpus, AttemptAdmitted(u) \/ Refuse(u)
      PROVE  ETypeOK'
  <2>1. /\ pc' = [pc EXCEPT ![u] = "idle"]
        /\ socket' = [socket EXCEPT ![u] = NoSocket]
        /\ key' = [key EXCEPT ![u] = NoKey]
        /\ slot' = [slot EXCEPT ![u] = NoSlot]
        /\ act' = [act EXCEPT ![u] = "DENY"]
        /\ seen' = [seen EXCEPT ![u] = {}]
        /\ noise' = [noise EXCEPT ![u] = "none"]
        /\ lent' = [lent EXCEPT ![u] = "none"]
    BY <1>8 DEF AttemptAdmitted, Refuse, Return
  <2>2. stats' \in [0..3 -> Nat]
    BY <1>8 DEF AttemptAdmitted, Refuse, Bump
  <2>3. UNCHANGED <<cfgVars, policyVars, connects, writes>>
    BY <1>8 DEF AttemptAdmitted, Refuse
  <2>4. "DENY" \in Actions
    BY DEF Actions
  <2>5. /\ pc' \in [Cpus -> {"idle", "keyed", "defaulted", "found", "hit",
                             "attempt", "refuse"}]
        /\ \A w \in Cpus : pc'[w] \in {"found", "hit"} => slot'[w] \in Slots
    BY <2>1
  <2> QED BY <2>1, <2>2, <2>3, <2>4, <2>5
<1>9. CASE Writes
  BY <1>9, TypedWrite
<1>10. CASE UNCHANGED enforceVars
  BY <1>10 DEF enforceVars
<1> QED
  BY <1>1, <1>2, <1>3, <1>4, <1>5, <1>6, <1>7, <1>8, <1>9, <1>10
  DEF ENext, Program, Writes

(* The hook and userspace keep their types: above all, a program that goes  *)
(* on with what a lookup found holds a slot of the map (enforce()).         *)
THEOREM EnforceTyped == ESpec => []ETypeOK
<1>1. ASSUME EInit PROVE ETypeOK
  <2>1. \A u \in Cpus : pc[u] = "idle"
    BY <1>1 DEF EInit
  <2>2. /\ pc \in [Cpus -> {"idle"}] /\ stats \in [0..3 -> Nat]
        /\ seen \in [Cpus -> SUBSET Actions]
    BY <1>1 DEF EInit
  <2>3. /\ action \in [Slots -> Actions] /\ act \in [Cpus -> Actions]
        /\ entry \in [Slots -> Keys \cup {NoKey}]
        /\ noise \in [Cpus -> {"none", "policy", "cfg", "mixed"}]
        /\ lent \in [Cpus -> Actions \cup {"none"}]
    BY <1>1 DEF EInit, Actions
  <2> QED BY <1>1, <2>1, <2>2, <2>3 DEF EInit, ETypeOK, Actions, Carriers
<1>2. ETypeOK /\ [ENext]_enforceVars => ETypeOK'
  BY EnforceTypeStep
<1> QED BY <1>1, <1>2, PTL DEF ESpec

------------------------------------------------------------------------------
(* VerdictInForceOrLent.  No key is linked twice; and a call that has run   *)
(* beside at most one write of the configuration, or rules alone, sees in   *)
(* its key's present verdict, in what it would decide by the default it     *)
(* read, and in the slot it found, verdicts that were in force in the call, *)
(* unless that slot was given to another key, whose verdict is in it.       *)
Unique ==
    \A x, y \in Slots : entry[x] = entry[y] /\ entry[x] # NoKey => x = y

Sees(u) ==
    /\ Undecided(u) =>
          /\ key[u] \in Keys
          /\ Verdict(entry, action, default, key[u]) \in seen[u]
    /\ pc[u] = "defaulted" =>
          Verdict(entry, action, act[u], key[u]) \in seen[u]
    /\ pc[u] = "found" =>
          action[slot[u]] \in seen[u] \/ action[slot[u]] = lent[u]
    /\ Decided(u) => act[u] \in seen[u] \/ act[u] = lent[u]

(* Before the configuration is written, what was read of it is what it is.  *)
Settled(u) ==
    /\ Undecided(u) => key[u] = PolicyKey(socket[u], key[u].dest, carrier)
    /\ pc[u] = "defaulted" => act[u] = default

ForceInv ==
    /\ Unique
    /\ \A u \in Cpus :
          /\ noise[u] # "mixed" => Sees(u)
          /\ noise[u] \in {"none", "policy"} => Settled(u)

(* The slot of a key that is linked is the one its verdict comes from.      *)
LEMMA TheVerdict ==
    ASSUME ETypeOK, Unique, NEW k \in Keys, NEW x \in Holding(entry, k), NEW d
    PROVE  Verdict(entry, action, d, k) = action[x]
<1>1. NoKey \notin Keys
  BY PolicyAssumption
<1>2. \A y \in Holding(entry, k) : y = x
  BY <1>1 DEF Unique, Holding
<1> QED BY <1>2 DEF Verdict

(* A step of one CPU leaves the calls of the others as they were.           *)
LEMMA OthersSee ==
    ASSUME NEW u \in Cpus,
           UNCHANGED <<cfgVars, policyVars>>,
           \A w \in Cpus \ {u} :
               /\ pc'[w] = pc[w] /\ socket'[w] = socket[w]
               /\ key'[w] = key[w] /\ slot'[w] = slot[w] /\ act'[w] = act[w]
               /\ seen'[w] = seen[w] /\ noise'[w] = noise[w]
               /\ lent'[w] = lent[w],
           ForceInv,
           /\ noise'[u] # "mixed" => Sees(u)'
           /\ noise'[u] \in {"none", "policy"} => Settled(u)'
    PROVE  ForceInv'
<1>1. Unique'
  BY DEF ForceInv, Unique, policyVars
<1>2. ASSUME NEW w \in Cpus \ {u}
      PROVE  /\ noise'[w] # "mixed" => Sees(w)'
             /\ noise'[w] \in {"none", "policy"} => Settled(w)'
  BY <1>2 DEF ForceInv, Sees, Settled, Undecided, Decided, Verdict, Holding,
              PolicyKey, Identity, cfgVars, policyVars
<1> QED BY <1>1, <1>2 DEF ForceInv

LEMMA ProgramSees ==
    ASSUME ETypeOK, ForceInv, NEW u \in Cpus, Program(u)
    PROVE  ForceInv'
<1> USE DEF ETypeOK, historyVars
<1> DEFINE Mine == /\ noise'[u] # "mixed" => Sees(u)'
                   /\ noise'[u] \in {"none", "policy"} => Settled(u)'
           Rest == /\ UNCHANGED <<cfgVars, policyVars>>
                   /\ \A w \in Cpus \ {u} :
                         /\ pc'[w] = pc[w] /\ socket'[w] = socket[w]
                         /\ key'[w] = key[w] /\ slot'[w] = slot[w]
                         /\ act'[w] = act[w]
                         /\ seen'[w] = seen[w] /\ noise'[w] = noise[w]
                         /\ lent'[w] = lent[w]
<1>0. SUFFICES Mine /\ Rest
  BY OthersSee
<1>1. ASSUME NEW s \in Sockets, NEW d \in Dests, Enter(u, s, d)
      PROVE  Mine /\ Rest
  <2>1. /\ pc'[u] = "keyed" /\ socket'[u] = s
        /\ key'[u] = PolicyKey(s, d, carrier)
        /\ seen'[u] = {Verdict(entry, action, default, key'[u])}
        /\ UNCHANGED <<carrier, default, entry, action>>
    BY <1>1 DEF Enter, Step, cfgVars, policyVars
  <2>2. PolicyKey(s, d, carrier) \in Keys /\ PolicyKey(s, d, carrier).dest = d
    BY PolicyAssumption DEF PolicyKey, Identity, Keys
  <2>3. Sees(u)' /\ Settled(u)'
    BY <2>1, <2>2 DEF Sees, Settled, Undecided, Decided
  <2>4. Rest
    BY <1>1 DEF Enter, Step
  <2> QED BY <2>3, <2>4
<1>2. CASE ReadDefault(u)
  <2>1. /\ pc[u] = "keyed" /\ pc'[u] = "defaulted" /\ act'[u] = default
        /\ UNCHANGED <<carrier, default, entry, action, key, socket, slot, historyVars>>
    BY <1>2 DEF ReadDefault, Step, cfgVars, policyVars
  <2>2. Mine
    BY <2>1 DEF ForceInv, Sees, Settled, Undecided, Decided
  <2>3. Rest
    BY <1>2 DEF ReadDefault, Step
  <2> QED BY <2>2, <2>3
<1>3. CASE Hit(u)
  <2>1. PICK x \in Holding(entry, key[u]) : slot' = [slot EXCEPT ![u] = x]
    BY <1>3 DEF Hit
  <2>2. /\ pc[u] = "defaulted" /\ pc'[u] = "found" /\ slot'[u] = x
        /\ UNCHANGED <<carrier, default, entry, action, key, socket, act, historyVars>>
    BY <1>3, <2>1 DEF Hit, Step, cfgVars, policyVars, Holding
  <2>3. Rest
    BY <1>3, <2>1 DEF Hit, Step
  <2>4. CASE noise[u] = "mixed"
    BY <2>2, <2>4, <2>3
  <2>5. CASE noise[u] # "mixed"
    <3>1. /\ Verdict(entry, action, act[u], key[u]) \in seen[u]
          /\ key[u] \in Keys /\ Unique
      BY <2>2, <2>5 DEF ForceInv, Sees, Undecided
    <3>2. action[x] \in seen[u]
      BY <3>1, TheVerdict
    <3> QED BY <2>2, <2>5, <2>3, <3>1, <3>2
            DEF ForceInv, Sees, Settled, Undecided, Decided
  <2> QED BY <2>4, <2>5
<1>4. CASE Miss(u)
  <2>1. /\ pc[u] = "defaulted" /\ pc'[u] = "attempt"
        /\ Holding(entry, key[u]) = {}
        /\ UNCHANGED <<carrier, default, entry, action, key, socket, act, slot,
                       historyVars>>
    BY <1>4 DEF Miss, Step, cfgVars, policyVars
  <2>2. Mine
    BY <2>1 DEF ForceInv, Sees, Settled, Undecided, Decided, Verdict
  <2>3. Rest
    BY <1>4 DEF Miss, Step
  <2> QED BY <2>2, <2>3
<1>5. CASE TakeVerdict(u)
  <2>1. /\ pc[u] = "found" /\ pc'[u] = "hit" /\ act'[u] = action[slot[u]]
        /\ UNCHANGED <<carrier, default, entry, action, key, socket, slot, historyVars>>
    BY <1>5 DEF TakeVerdict, Step, cfgVars, policyVars
  <2>2. Mine
    BY <2>1 DEF ForceInv, Sees, Settled, Undecided, Decided
  <2>3. Rest
    BY <1>5 DEF TakeVerdict, Step
  <2> QED BY <2>2, <2>3
<1>6. CASE CountHit(u) \/ AttemptDenied(u)
  <2>1. /\ Decided(u) /\ Decided(u)' /\ pc'[u] \in {"attempt", "refuse"}
        /\ UNCHANGED <<carrier, default, entry, action, key, socket, act, slot,
                       historyVars>>
    BY <1>6 DEF CountHit, AttemptDenied, Step, Decided, cfgVars, policyVars
  <2>2. Mine
    BY <2>1 DEF ForceInv, Sees, Settled, Undecided, Decided
  <2>3. Rest
    BY <1>6 DEF CountHit, AttemptDenied, Step
  <2> QED BY <2>2, <2>3
<1>7. CASE AttemptAdmitted(u) \/ Refuse(u)
  <2>1. pc'[u] = "idle" /\ Rest
    BY <1>7 DEF AttemptAdmitted, Refuse, Return
  <2>2. Mine
    BY <2>1 DEF Sees, Settled, Undecided, Decided
  <2> QED BY <2>1, <2>2
<1> QED
  BY <1>1, <1>2, <1>3, <1>4, <1>5, <1>6, <1>7 DEF Program

(* After a write, and for a call that has not decided.                      *)
LEMMA CallBesideWrite ==
    ASSUME ETypeOK, ForceInv, NEW kind \in {"policy", "cfg"}, Notice(kind),
           kind = "policy" => UNCHANGED <<carrier, default>>,
           kind = "cfg" => /\ UNCHANGED <<entry, action>>
                           /\ UNCHANGED carrier \/ UNCHANGED default,
           \A x \in Slots : action'[x] # action[x] =>
                                entry[x] = NoKey /\ entry'[x] # NoKey,
           Unique',
           NEW u \in Cpus, Undecided(u), noise'[u] # "mixed"
    PROVE  /\ Sees(u)'
           /\ noise'[u] \in {"none", "policy"} => Settled(u)'
<1> USE DEF ETypeOK
<1> DEFINE now == Verdict(entry', action', default',
                          PolicyKey(socket[u], key[u].dest, carrier'))
<1>1. /\ seen'[u] = seen[u] \cup {now}
      /\ noise[u] \in {"none", "policy"}
      /\ kind = "policy" => noise'[u] = "policy"
      /\ kind = "cfg" => noise'[u] = "cfg" /\ noise[u] = "none"
      /\ lent'[u] = IF ~Overwritten(u) THEN lent[u]
                    ELSE IF entry'[slot[u]] = key[u] THEN "none"
                    ELSE action'[slot[u]]
      /\ UNCHANGED <<pc, socket, key, slot, act>>
  BY DEF Notice
<1>2. /\ key[u] \in Keys
      /\ Verdict(entry, action, default, key[u]) \in seen[u]
      /\ key[u] = PolicyKey(socket[u], key[u].dest, carrier)
      /\ pc[u] = "defaulted" => act[u] = default
      /\ pc[u] = "found" =>
            action[slot[u]] \in seen[u] \/ action[slot[u]] = lent[u]
  BY <1>1 DEF ForceInv, Sees, Settled
<1>3. ~Decided(u)' /\ Undecided(u)'
  BY <1>1 DEF Decided, Undecided
<1>4. CASE kind = "policy"
  <2>1. now = Verdict(entry', action', default', key'[u])
    BY <1>1, <1>2, <1>4
  <2>2. UNCHANGED <<carrier, default>>
    BY <1>4
  <2>3. ASSUME pc[u] = "found"
        PROVE  action'[slot[u]] \in seen'[u] \/ action'[slot[u]] = lent'[u]
    <3>1. slot[u] \in Slots
      BY <2>3
    <3>2. CASE ~Overwritten(u)
      <4>1. action'[slot[u]] = action[slot[u]] /\ lent'[u] = lent[u]
        BY <1>1, <2>3, <3>1, <3>2 DEF Overwritten
      <4> QED BY <1>1, <1>2, <2>3, <4>1
    <3>3. CASE Overwritten(u) /\ entry'[slot[u]] = key[u]
      <4>1. key[u] # NoKey
        BY <1>2, PolicyAssumption
      <4>2. Holding(entry', key[u]) = {slot[u]}
        BY <3>1, <3>3, <4>1 DEF Unique, Holding
      <4>3. now = action'[slot[u]]
        BY <1>1, <2>1, <4>2 DEF Verdict
      <4> QED BY <1>1, <4>3
    <3>4. CASE Overwritten(u) /\ entry'[slot[u]] # key[u]
      BY <1>1, <3>4
    <3> QED BY <3>2, <3>3, <3>4
  <2> HIDE DEF now
  <2>4. now \in seen'[u]
    BY <1>1
  <2>5. pc'[u] = "defaulted" =>
            Verdict(entry', action', act'[u], key'[u]) \in seen'[u]
    BY <1>1, <1>2, <2>1, <2>2, <2>4
  <2>6. Sees(u)'
    BY <1>1, <1>2, <1>3, <2>1, <2>3, <2>4, <2>5 DEF Sees
  <2>7. Settled(u)'
    BY <1>1, <1>2, <2>2 DEF Settled, PolicyKey, Identity
  <2> QED BY <2>6, <2>7
<1>5. CASE kind = "cfg"
  <2>1. Verdict(entry', action', default', key'[u]) \in seen'[u]
    <3>1. CASE UNCHANGED carrier
      BY <1>1, <1>2, <1>5, <3>1
    <3>2. CASE UNCHANGED default
      BY <1>1, <1>2, <1>5, <3>2
    <3> QED BY <1>5, <3>1, <3>2
  <2>2. pc[u] = "defaulted" =>
            Verdict(entry', action', act'[u], key'[u]) \in seen'[u]
    BY <1>1, <1>2, <1>5
  <2>3. lent'[u] = lent[u]
    BY <1>1, <1>5 DEF Overwritten
  <2> QED BY <1>1, <1>2, <1>3, <1>5, <2>1, <2>2, <2>3 DEF Sees
<1> QED BY <1>4, <1>5

LEMMA UniqueKept ==
    ASSUME ETypeOK, Unique, Writes
    PROVE  Unique'
<1> USE DEF ETypeOK
<1>1. ASSUME NEW k \in Written, Delete(k)
      PROVE  Unique'
  BY <1>1 DEF Delete, Unique
<1>2. ASSUME NEW k \in Written, NEW x \in Slots, NEW a \in Actions,
             Update(k, x, a)
      PROVE  Unique'
  BY <1>2 DEF Update, Unique
<1>3. CASE UNCHANGED entry
  BY <1>3 DEF Unique
<1> QED BY <1>1, <1>2, <1>3 DEF Writes, SetDefault, SetCarrier, policyVars

LEMMA WriteSees ==
    ASSUME ETypeOK, ForceInv, Writes
    PROVE  ForceInv'
<1>1. Unique'
  BY UniqueKept DEF ForceInv
<1>2. PICK kind \in {"policy", "cfg"} :
          /\ Notice(kind)
          /\ kind = "policy" => UNCHANGED <<carrier, default>>
          /\ kind = "cfg" => /\ UNCHANGED <<entry, action>>
                             /\ UNCHANGED carrier \/ UNCHANGED default
  BY DEF Writes, Update, Delete, SetDefault, SetCarrier, cfgVars, policyVars
<1>w. \A x \in Slots : action'[x] # action[x] =>
                           entry[x] = NoKey /\ entry'[x] # NoKey
  <2>1. ASSUME NEW k \in Written, NEW x \in Slots, NEW a \in Actions,
               Update(k, x, a)
        PROVE  <1>w!:
    <3>1. k # NoKey
      BY PolicyAssumption DEF Written, PolicyKey, Identity, Keys
    <3> QED BY <2>1, <3>1 DEF Update, ETypeOK
  <2>2. CASE UNCHANGED action
    BY <2>2
  <2> QED BY <2>1, <2>2 DEF Writes, Delete, SetDefault, SetCarrier, policyVars
<1>3. ASSUME NEW u \in Cpus, noise'[u] # "mixed"
      PROVE  /\ Sees(u)'
             /\ noise'[u] \in {"none", "policy"} => Settled(u)'
  <2>1. CASE Undecided(u)
    BY <1>1, <1>2, <1>3, <1>w, <2>1, CallBesideWrite
  <2>2. CASE ~Undecided(u)
    <3>1. /\ seen'[u] = seen[u] /\ noise'[u] = noise[u] /\ lent'[u] = lent[u]
          /\ UNCHANGED <<pc, socket, key, slot, act>>
      BY <1>2, <2>2 DEF Notice, Overwritten, Undecided, ETypeOK
    <3>2. Decided(u) => act[u] \in seen[u] \/ act[u] = lent[u]
      BY <1>3, <3>1 DEF ForceInv, Sees
    <3> QED BY <2>2, <3>1, <3>2 DEF Sees, Settled, Undecided, Decided
  <2> QED BY <2>1, <2>2
<1> QED BY <1>1, <1>3 DEF ForceInv

LEMMA ForceAlways == ESpec => [](ETypeOK /\ ForceInv)
<1>1. EInit => ForceInv
  BY DEF EInit, ForceInv, Unique, Sees, Settled, Undecided, Decided
<1>2. ETypeOK /\ ForceInv /\ [ENext]_enforceVars => ForceInv'
  <2>1. CASE UNCHANGED enforceVars
    BY <2>1 DEF enforceVars, cfgVars, policyVars, historyVars, ForceInv,
                Unique, Sees, Settled, Undecided, Decided, Verdict, Holding, PolicyKey,
                Identity
  <2> QED BY <2>1, ProgramSees, WriteSees DEF ENext, Writes
<1> QED BY <1>1, <1>2, EnforceTyped, PTL DEF ESpec

(* On any number of CPUs, beside any number of rules that userspace writes, *)
(* or one write of the configuration, a call decides by a verdict that was  *)
(* in force in it, or by that of another key whose rule took the slot of    *)
(* the one it found.                                                        *)
THEOREM InForceOrLent == ESpec => []VerdictInForceOrLent
<1>1. ForceInv => VerdictInForceOrLent
  BY DEF ForceInv, Sees, VerdictInForceOrLent
<1> QED BY <1>1, ForceAlways, PTL

------------------------------------------------------------------------------
(* AdmissionsHaveRules.  While the default has always been DENY, a call     *)
(* that waits to be admitted has counted its rule, and one that has met no  *)
(* rule yet is denied.                                                      *)
Admitted == {u \in Cpus : pc[u] = "attempt" /\ act[u] # "DENY"}

RuleInv ==
    ~open =>
        /\ default = "DENY"
        /\ \A u \in Cpus : pc[u] \in {"defaulted", "found"} => act[u] = "DENY"
        /\ stats[0] + Cardinality(Admitted)
              <= stats[1] + Cardinality(At("refuse")) + stats[2]

LEMMA Counts ==
    /\ IsFiniteSet(Admitted) /\ Cardinality(Admitted) \in Nat
    /\ IsFiniteSet(At("refuse")) /\ Cardinality(At("refuse")) \in Nat
<1>1. Admitted \in SUBSET Cpus /\ At("refuse") \in SUBSET Cpus
  BY DEF Admitted, At
<1>2. IsFiniteSet(Admitted) /\ IsFiniteSet(At("refuse"))
  BY <1>1, FS_Subset, PolicyAssumption
<1> QED BY <1>2, FS_CardinalityType

(* A step that moves no CPU to or from the two counted places, or counts a  *)
(* rule, keeps the balance.                                                 *)
LEMMA SameBalance ==
    ASSUME ETypeOK, RuleInv, ~open',
           open' = open, default' = default,
           \A u \in Cpus : pc'[u] \in {"defaulted", "found"} => act'[u] = "DENY",
           Admitted' = Admitted, At("refuse")' = At("refuse"),
           stats'[0] = stats[0], stats'[1] = stats[1],
           stats'[2] = stats[2]
    PROVE  RuleInv'
BY DEF RuleInv

LEMMA RuleStep ==
    ASSUME ETypeOK, RuleInv, [ENext]_enforceVars
    PROVE  RuleInv'
<1> SUFFICES ASSUME ~open'
             PROVE  RuleInv'
  BY DEF RuleInv
<1> USE DEF ETypeOK
<1> DEFINE adm == Cardinality(Admitted)
           ref == Cardinality(At("refuse"))
<1>o. ~open
  BY DEF ENext, Program, Enter, ReadDefault, Hit, Miss, TakeVerdict, CountHit,
         AttemptDenied, AttemptAdmitted, Refuse, Update, Delete, SetDefault,
         SetCarrier, cfgVars, enforceVars
<1>r. /\ default = "DENY"
      /\ \A u \in Cpus : pc[u] \in {"defaulted", "found"} => act[u] = "DENY"
      /\ stats[0] + adm <= stats[1] + ref + stats[2]
  BY <1>o DEF RuleInv
<1>n. /\ stats[0] \in Nat /\ stats[1] \in Nat /\ stats[2] \in Nat
      /\ adm \in Nat /\ ref \in Nat
  BY Counts
<1>1. ASSUME NEW u \in Cpus, NEW s \in Sockets, NEW d \in Dests, Enter(u, s, d)
      PROVE  RuleInv'
  <2>1. /\ pc[u] = "idle" /\ pc' = [pc EXCEPT ![u] = "keyed"]
        /\ UNCHANGED <<open, default, act, stats>>
    BY <1>1 DEF Enter, Step, cfgVars
  <2> QED BY <1>r, <2>1, SameBalance DEF Admitted, At
<1>2. ASSUME NEW u \in Cpus, ReadDefault(u)
      PROVE  RuleInv'
  <2>1. /\ pc[u] = "keyed" /\ pc' = [pc EXCEPT ![u] = "defaulted"]
        /\ act' = [act EXCEPT ![u] = default]
        /\ UNCHANGED <<open, default, stats>>
    BY <1>2 DEF ReadDefault, Step, cfgVars
  <2> QED BY <1>r, <2>1, SameBalance DEF Admitted, At
<1>3. ASSUME NEW u \in Cpus, Hit(u)
      PROVE  RuleInv'
  <2>1. /\ pc[u] = "defaulted" /\ pc' = [pc EXCEPT ![u] = "found"]
        /\ UNCHANGED <<open, default, act, stats>>
    BY <1>3 DEF Hit, Step, cfgVars
  <2> QED BY <1>r, <2>1, SameBalance DEF Admitted, At
<1>4. ASSUME NEW u \in Cpus, Miss(u)
      PROVE  RuleInv'
  <2>1. /\ pc[u] = "defaulted" /\ pc' = [pc EXCEPT ![u] = "attempt"]
        /\ stats'[0] = stats[0] /\ stats'[1] = stats[1]
        /\ stats'[2] = stats[2]
        /\ UNCHANGED <<open, default, act>>
    BY <1>4 DEF Miss, Step, Bump, cfgVars
  <2>2. Admitted' = Admitted /\ At("refuse")' = At("refuse")
    BY <1>r, <2>1 DEF Admitted, At
  <2> QED BY <1>r, <2>1, <2>2, SameBalance
<1>5. ASSUME NEW u \in Cpus, TakeVerdict(u)
      PROVE  RuleInv'
  <2>1. /\ pc[u] = "found" /\ pc' = [pc EXCEPT ![u] = "hit"]
        /\ act' = [act EXCEPT ![u] = action[slot[u]]]
        /\ UNCHANGED <<open, default, stats>>
    BY <1>5 DEF TakeVerdict, Step, cfgVars
  <2> QED BY <1>r, <2>1, SameBalance DEF Admitted, At
<1>6. ASSUME NEW u \in Cpus, CountHit(u)
      PROVE  RuleInv'
  <2>1. /\ pc[u] = "hit" /\ pc' = [pc EXCEPT ![u] = "attempt"]
        /\ stats'[0] = stats[0] /\ stats'[1] = stats[1]
        /\ stats'[2] = stats[2] + 1
        /\ UNCHANGED <<open, default, act>>
    BY <1>6 DEF CountHit, Step, Bump, cfgVars
  <2>2. At("refuse")' = At("refuse")
    BY <2>1 DEF At
  <2>3. Admitted' = Admitted \/ Admitted' = Admitted \cup {u}
    BY <2>1 DEF Admitted
  <2>4. Cardinality(Admitted') \in Nat /\ Cardinality(Admitted') <= adm + 1
    <3>1. CASE Admitted' = Admitted
      <4>1. Cardinality(Admitted') = adm
        BY <3>1
      <4> HIDE DEF adm
      <4> QED BY <1>n, <4>1
    <3>2. CASE Admitted' = Admitted \cup {u}
      <4>1. Cardinality(Admitted \cup {u}) =
                IF u \in Admitted THEN adm ELSE adm + 1
        BY Counts, FS_AddElement
      <4> HIDE DEF adm
      <4>2. \/ Cardinality(Admitted') = adm
            \/ Cardinality(Admitted') = adm + 1
        BY <3>2, <4>1
      <4> QED BY <1>n, <4>2
    <3> QED BY <2>3, <3>1, <3>2
  <2> HIDE DEF adm, ref
  <2>5. stats'[0] + Cardinality(Admitted') <= stats'[1] + ref + stats'[2]
    BY <1>r, <1>n, <2>1, <2>4
  <2> QED BY <1>r, <2>1, <2>2, <2>5 DEF RuleInv, ref
<1>7. ASSUME NEW u \in Cpus, AttemptDenied(u)
      PROVE  RuleInv'
  <2>1. /\ pc[u] = "attempt" /\ pc' = [pc EXCEPT ![u] = "refuse"]
        /\ act[u] = "DENY"
        /\ stats'[0] = stats[0] + 1 /\ stats'[1] = stats[1]
        /\ stats'[2] = stats[2]
        /\ UNCHANGED <<open, default, act>>
    BY <1>7 DEF AttemptDenied, Step, Bump, cfgVars
  <2>2. /\ At("refuse")' = At("refuse") \cup {u} /\ u \notin At("refuse")
        /\ Admitted' = Admitted
    BY <2>1 DEF At, Admitted
  <2>3. Cardinality(At("refuse")') = ref + 1
    BY <2>2, Counts, FS_AddElement
  <2> HIDE DEF adm, ref
  <2>4. stats'[0] + adm <= stats'[1] + (ref + 1) + stats'[2]
    BY <1>r, <1>n, <2>1
  <2> QED BY <1>r, <2>1, <2>2, <2>3, <2>4 DEF RuleInv, adm
<1>8. ASSUME NEW u \in Cpus, AttemptAdmitted(u)
      PROVE  RuleInv'
  <2>1. /\ pc[u] = "attempt" /\ act[u] # "DENY"
        /\ pc' = [pc EXCEPT ![u] = "idle"]
        /\ act' = [act EXCEPT ![u] = "DENY"]
        /\ stats'[0] = stats[0] + 1 /\ stats'[1] = stats[1]
        /\ stats'[2] = stats[2]
        /\ UNCHANGED <<open, default>>
    BY <1>8 DEF AttemptAdmitted, Return, Bump, cfgVars
  <2>2. /\ Admitted' = Admitted \ {u} /\ u \in Admitted
        /\ At("refuse")' = At("refuse")
    BY <2>1 DEF At, Admitted
  <2>3. Cardinality(Admitted') = adm - 1
    BY <2>2, Counts, FS_RemoveElement
  <2> HIDE DEF adm, ref
  <2>4. stats'[0] + (adm - 1) <= stats'[1] + ref + stats'[2]
    BY <1>r, <1>n, <2>1
  <2> QED BY <1>r, <2>1, <2>2, <2>3, <2>4 DEF RuleInv, ref
<1>9. ASSUME NEW u \in Cpus, Refuse(u)
      PROVE  RuleInv'
  <2>1. /\ pc[u] = "refuse" /\ pc' = [pc EXCEPT ![u] = "idle"]
        /\ act' = [act EXCEPT ![u] = "DENY"]
        /\ stats'[0] = stats[0] /\ stats'[1] = stats[1] + 1
        /\ stats'[2] = stats[2]
        /\ UNCHANGED <<open, default>>
    BY <1>9 DEF Refuse, Return, Bump, cfgVars
  <2>2. /\ At("refuse")' = At("refuse") \ {u} /\ u \in At("refuse")
        /\ Admitted' = Admitted
    BY <2>1 DEF At, Admitted
  <2>3. Cardinality(At("refuse")') = ref - 1
    BY <2>2, Counts, FS_RemoveElement
  <2> HIDE DEF adm, ref
  <2>4. stats'[0] + adm <= stats'[1] + (ref - 1) + stats'[2]
    BY <1>r, <1>n, <2>1
  <2> QED BY <1>r, <2>1, <2>2, <2>3, <2>4 DEF RuleInv, adm
<1>10. CASE Writes
  <2>1. UNCHANGED <<pc, act, stats>> /\ default' = "DENY"
    BY <1>10, <1>r, <1>o DEF Writes, Update, Delete, SetDefault, SetCarrier,
                            Notice, cfgVars
  <2> QED BY <1>r, <2>1 DEF RuleInv, Admitted, At
<1>11. CASE UNCHANGED enforceVars
  BY <1>11, <1>r DEF enforceVars, cfgVars, RuleInv, Admitted, At
<1> QED
  BY <1>1, <1>2, <1>3, <1>4, <1>5, <1>6, <1>7, <1>8, <1>9, <1>10, <1>11
  DEF ENext, Program, Writes

(* While the default has always been DENY, no more calls are admitted than  *)
(* counted a rule, on any number of CPUs.                                   *)
THEOREM RulesAdmit == ESpec => []AdmissionsHaveRules
<1>1. ASSUME EInit PROVE RuleInv
  <2>1. Admitted = {} /\ At("refuse") = {}
    BY <1>1 DEF EInit, Admitted, At
  <2>2. Cardinality(Admitted) = 0 /\ Cardinality(At("refuse")) = 0
    BY <2>1, FS_EmptySet
  <2> QED BY <1>1, <2>2 DEF EInit, RuleInv
<1>2. ETypeOK /\ RuleInv /\ [ENext]_enforceVars => RuleInv'
  BY RuleStep
<1>3. ASSUME ETypeOK, RuleInv PROVE AdmissionsHaveRules
  <2>1. /\ stats[0] \in Nat /\ stats[1] \in Nat /\ stats[2] \in Nat
        /\ Cardinality(Admitted) \in Nat
        /\ Cardinality(At("refuse")) \in Nat
    BY <1>3, Counts DEF ETypeOK
  <2> QED BY <1>3, <2>1 DEF RuleInv, AdmissionsHaveRules
<1> QED BY <1>1, <1>2, <1>3, EnforceTyped, PTL DEF ESpec

------------------------------------------------------------------------------
(******************************************************************************)
(* PolicyClasses, for any finite dimensions and values, any number of         *)
(* templates and of agents, and every outcome of the draws.                   *)
(******************************************************************************)

TemplateNets == {Net(t) : t \in templates}

(* Agents are never more than were made.  The networks an exception added   *)
(* are those that are not of a template: at most one for each.              *)
ClassInv ==
    /\ IsFiniteSet(templates) /\ Cardinality(templates) <= drawn
    /\ IsFiniteSet(agents) /\ Cardinality(agents) <= made
    /\ generator = "none" => agents = {}
    /\ generator = "structured" => Networks \subseteq TemplateNets
    /\ generator = "exceptions" =>
          Cardinality(Networks \ TemplateNets) <= odd

(* Policies that differ may be one for the network, never the other way.    *)
LEMMA NetImage ==
    ASSUME NEW S, IsFiniteSet(S)
    PROVE  /\ IsFiniteSet({Net(a) : a \in S})
           /\ Cardinality({Net(a) : a \in S}) <= Cardinality(S)
<1> DEFINE T == {Net(a) : a \in S}
           f == [a \in S |-> Net(a)]
<1>1. f \in Surjection(S, T)
  BY DEF Surjection
<1> QED BY <1>1, FS_Surjection

(* A set that is given one element more has at most one more.               *)
LEMMA OneMore ==
    ASSUME NEW S, IsFiniteSet(S), NEW x, NEW n \in Nat, Cardinality(S) <= n
    PROVE  IsFiniteSet(S \cup {x}) /\ Cardinality(S \cup {x}) <= n + 1
<1> DEFINE before == Cardinality(S)
           after == Cardinality(S \cup {x})
<1>1. IsFiniteSet(S \cup {x}) /\ before \in Nat
  BY FS_AddElement, FS_CardinalityType
<1>2. after = before \/ after = before + 1
  BY FS_AddElement
<1> HIDE DEF before, after
<1>3. before <= n => after <= n + 1
  BY <1>1, <1>2
<1> QED BY <1>1, <1>3 DEF before, after

(* An exception on another dimension leaves the network's part as it was.   *)
LEMMA NetKept ==
    ASSUME NEW t \in AllPolicies, NEW d \in Dims, d \notin NetDims,
           NEW v \in Values
    PROVE  Net([t EXCEPT ![d] = v]) = Net(t)
BY DEF Net, AllPolicies, Dims

LEMMA ClassTypeStep ==
    ASSUME CTypeOK, [CNext]_classVars
    PROVE  CTypeOK'
<1> USE ClassesAssumption DEF CTypeOK
<1>1. ASSUME NEW g \in {"independent", "structured", "exceptions"}, Choose(g)
      PROVE  CTypeOK'
  BY <1>1 DEF Choose
<1>2. ASSUME NEW t \in AllPolicies, DrawTemplate(t)
      PROVE  CTypeOK'
  BY <1>2 DEF DrawTemplate
<1>3. ASSUME NEW a \in AllPolicies, MakeIndependent(a)
      PROVE  CTypeOK'
  BY <1>3 DEF MakeIndependent
<1>4. ASSUME NEW t \in templates, Instantiate(t)
      PROVE  CTypeOK'
  BY <1>4 DEF Instantiate
<1>5. ASSUME NEW t \in templates, NEW d \in Dims, NEW v \in Values,
             Deviate(t, d, v)
      PROVE  CTypeOK'
  <2>1. [t EXCEPT ![d] = v] \in AllPolicies
    BY DEF AllPolicies
  <2> QED BY <1>5, <2>1 DEF Deviate
<1>6. CASE UNCHANGED classVars
  BY <1>6 DEF classVars
<1> QED BY <1>1, <1>2, <1>3, <1>4, <1>5, <1>6 DEF CNext

(* What a new agent does to the counts: nothing but what its policy does.   *)
LEMMA AgentAdded ==
    ASSUME CTypeOK, ClassInv, NEW a, made' = made + 1,
           agents' = agents \cup {a}
    PROVE  /\ IsFiniteSet(agents') /\ Cardinality(agents') <= made'
           /\ Networks' = Networks \cup {Net(a)}
<1>1. made \in Nat
  BY ClassesAssumption DEF CTypeOK
<1>2. IsFiniteSet(agents') /\ Cardinality(agents') <= made'
  BY <1>1, OneMore DEF ClassInv
<1>3. Networks' = Networks \cup {Net(a)}
  BY DEF Networks, Net
<1> QED BY <1>2, <1>3

LEMMA ClassStep ==
    ASSUME CTypeOK, ClassInv, [CNext]_classVars
    PROVE  ClassInv'
<1>t. /\ drawn \in Nat /\ made \in Nat /\ odd \in Nat
      /\ templates \subseteq AllPolicies /\ agents \subseteq AllPolicies
  BY ClassesAssumption DEF CTypeOK
<1>f. /\ IsFiniteSet(Networks) /\ IsFiniteSet(Networks \ TemplateNets)
      /\ Cardinality(Networks \ TemplateNets) \in Nat
  <2>1. IsFiniteSet(Networks)
    BY NetImage DEF ClassInv, Networks
  <2>2. (Networks \ TemplateNets) \in SUBSET Networks
    OBVIOUS
  <2>3. IsFiniteSet(Networks \ TemplateNets)
    BY <2>1, <2>2, FS_Subset
  <2> QED BY <2>1, <2>3, FS_CardinalityType
<1>1. ASSUME NEW g \in {"independent", "structured", "exceptions"}, Choose(g)
      PROVE  ClassInv'
  <2>1. /\ agents = {} /\ UNCHANGED <<drawn, templates, made, agents, odd>>
        /\ generator' # "none"
    BY <1>1 DEF Choose, ClassInv
  <2>2. Networks' = {} /\ Networks' \ TemplateNets' = {}
    BY <2>1 DEF Networks
  <2>3. Cardinality(Networks' \ TemplateNets') <= odd'
    BY <1>t, <2>1, <2>2, FS_EmptySet
  <2> QED BY <2>1, <2>2, <2>3 DEF ClassInv
<1>2. ASSUME NEW t \in AllPolicies, DrawTemplate(t)
      PROVE  ClassInv'
  <2>1. /\ drawn' = drawn + 1 /\ templates' = templates \cup {t}
        /\ UNCHANGED <<generator, made, agents, odd>>
    BY <1>2 DEF DrawTemplate
  <2>2. IsFiniteSet(templates') /\ Cardinality(templates') <= drawn'
    BY <1>t, <2>1, OneMore DEF ClassInv
  <2>3. Networks' = Networks /\ TemplateNets \subseteq TemplateNets'
    BY <2>1 DEF Networks, TemplateNets, Net
  <2>4. (Networks' \ TemplateNets') \in SUBSET (Networks \ TemplateNets)
    BY <2>3
  <2>5. /\ Cardinality(Networks' \ TemplateNets')
              <= Cardinality(Networks \ TemplateNets)
        /\ Cardinality(Networks' \ TemplateNets') \in Nat
    BY <1>f, <2>4, FS_Subset, FS_CardinalityType
  <2>6. generator' = "exceptions" =>
            Cardinality(Networks' \ TemplateNets') <= odd'
    BY <1>t, <1>f, <2>1, <2>5 DEF ClassInv
  <2> QED BY <2>1, <2>2, <2>3, <2>6 DEF ClassInv
<1>3. ASSUME NEW a \in AllPolicies, MakeIndependent(a)
      PROVE  ClassInv'
  BY <1>3, AgentAdded DEF MakeIndependent, ClassInv
<1>4. ASSUME NEW t \in templates, Instantiate(t)
      PROVE  ClassInv'
  <2>1. /\ made' = made + 1 /\ agents' = agents \cup {t}
        /\ UNCHANGED <<generator, drawn, templates, odd>>
        /\ generator # "none"
    BY <1>4 DEF Instantiate
  <2>2. /\ TemplateNets' = TemplateNets
        /\ Net(t) \in TemplateNets
    BY <2>1 DEF TemplateNets, Net
  <2>3. /\ IsFiniteSet(agents') /\ Cardinality(agents') <= made'
        /\ Networks' = Networks \cup {Net(t)}
    BY <2>1, AgentAdded
  <2>4. Networks' \ TemplateNets' = Networks \ TemplateNets
    BY <2>2, <2>3
  <2> QED BY <2>1, <2>2, <2>3, <2>4 DEF ClassInv
<1>5. ASSUME NEW t \in templates, NEW d \in Dims, NEW v \in Values,
             Deviate(t, d, v)
      PROVE  ClassInv'
  <2> DEFINE a == [t EXCEPT ![d] = v]
  <2>1. /\ made' = made + 1 /\ agents' = agents \cup {a}
        /\ UNCHANGED <<generator, drawn, templates>>
        /\ generator # "none"
    BY <1>5 DEF Deviate
  <2>2. /\ TemplateNets' = TemplateNets
        /\ Net(t) \in TemplateNets
    BY <2>1 DEF TemplateNets, Net
  <2>3. /\ IsFiniteSet(agents') /\ Cardinality(agents') <= made'
        /\ Networks' = Networks \cup {Net(a)}
    BY <2>1, AgentAdded
  <2>4. CASE d \notin NetDims
    <3>1. Net(a) = Net(t) /\ odd' = odd
      BY <1>t, <1>5, <2>4, NetKept DEF Deviate
    <3>2. /\ Networks' \ TemplateNets' = Networks \ TemplateNets
          /\ Networks \subseteq TemplateNets => Networks' \subseteq TemplateNets'
      BY <2>2, <2>3, <3>1
    <3> QED BY <2>1, <2>3, <3>1, <3>2 DEF ClassInv
  <2>5. CASE d \in NetDims
    <3>1. generator # "structured"
      BY <1>5, <2>5, ClassesAssumption DEF Deviate, ExceptionDims
    <3>2. generator = "exceptions" /\ odd' = odd + 1
      BY <1>5, <2>5, <3>1 DEF Deviate
    <3>3. (Networks' \ TemplateNets')
              \in SUBSET ((Networks \ TemplateNets) \cup {Net(a)})
      BY <2>2, <2>3
    <3>4. /\ IsFiniteSet((Networks \ TemplateNets) \cup {Net(a)})
          /\ Cardinality((Networks \ TemplateNets) \cup {Net(a)}) <= odd + 1
      BY <1>t, <1>f, <3>2, OneMore DEF ClassInv
    <3>5. Cardinality(Networks' \ TemplateNets') <= odd'
      <4>1. /\ Cardinality(Networks' \ TemplateNets')
                 <= Cardinality((Networks \ TemplateNets) \cup {Net(a)})
            /\ Cardinality(Networks' \ TemplateNets') \in Nat
            /\ Cardinality((Networks \ TemplateNets) \cup {Net(a)}) \in Nat
        BY <3>3, <3>4, FS_Subset, FS_CardinalityType
      <4> QED BY <1>t, <3>2, <3>4, <4>1
    <3> QED BY <2>1, <2>3, <3>2, <3>5 DEF ClassInv
  <2> QED BY <2>4, <2>5
<1>6. CASE UNCHANGED classVars
  BY <1>6 DEF classVars, ClassInv, Networks, TemplateNets, Net
<1> QED BY <1>1, <1>2, <1>3, <1>4, <1>5, <1>6 DEF CNext

(* The generators keep the types of what they count.                        *)
THEOREM ClassesTyped == CSpec => []CTypeOK
<1>1. CInit => CTypeOK
  BY ClassesAssumption DEF CInit, CTypeOK
<1>2. CTypeOK /\ [CNext]_classVars => CTypeOK'
  BY ClassTypeStep
<1> QED BY <1>1, <1>2, PTL DEF CSpec

LEMMA ClassAlways == CSpec => [](CTypeOK /\ ClassInv)
<1>1. CInit => ClassInv
  <2>1. ASSUME CInit PROVE ClassInv
    <3>1. Networks = {} /\ Networks \ TemplateNets = {}
      BY <2>1 DEF CInit, Networks
    <3> QED BY <2>1, <3>1, FS_EmptySet DEF CInit, ClassInv
  <2> QED BY <2>1
<1>2. CTypeOK /\ ClassInv /\ [CNext]_classVars => ClassInv'
  BY ClassStep
<1> QED BY <1>1, <1>2, ClassesTyped, PTL DEF CSpec

(* The pools a network device needs are bounded by the templates and the    *)
(* exceptions on network dimensions, whatever is drawn and however many     *)
(* agents there are.                                                        *)
THEOREM ClassesBounded == CSpec => []NetworkClassesBounded
<1>1. ASSUME CTypeOK, ClassInv PROVE NetworkClassesBounded
  <2> DEFINE nets == Cardinality(Networks)
             tnets == Cardinality(TemplateNets)
             extra == Cardinality(Networks \ TemplateNets)
  <2>1. /\ IsFiniteSet(Networks) /\ nets <= Cardinality(agents)
        /\ IsFiniteSet(TemplateNets) /\ tnets <= Cardinality(templates)
    BY <1>1, NetImage DEF ClassInv, Networks, TemplateNets
  <2>2. /\ drawn \in 0..Templates /\ made \in Nat /\ odd \in Nat
        /\ Templates \in Nat
    BY <1>1, ClassesAssumption DEF CTypeOK
  <2>3. (Networks \ TemplateNets) \in SUBSET Networks
    OBVIOUS
  <2>4. IsFiniteSet(Networks \ TemplateNets)
    BY <2>1, <2>3, FS_Subset
  <2>5. /\ nets \in Nat /\ tnets \in Nat /\ extra \in Nat
        /\ Cardinality(templates) \in Nat /\ Cardinality(agents) \in Nat
    BY <1>1, <2>1, <2>4, FS_CardinalityType DEF ClassInv
  <2>6. tnets <= Templates
    BY <1>1, <2>1, <2>2, <2>5 DEF ClassInv
  <2>7. PNetwork <= PPolicy /\ PPolicy <= made
    BY <1>1, <2>1 DEF PNetwork, PPolicy, ClassInv
  <2>8. generator = "structured" => PNetwork <= Templates
    <3>1. ASSUME Networks \in SUBSET TemplateNets PROVE nets <= tnets
      BY <2>1, <3>1, FS_Subset
    <3> HIDE DEF nets, tnets
    <3>2. (Networks \in SUBSET TemplateNets) => nets <= Templates
      BY <2>2, <2>5, <2>6, <3>1
    <3> QED BY <1>1, <3>2 DEF ClassInv, PNetwork, nets
  <2>9. generator = "exceptions" => PNetwork <= Templates + odd
    <3>1. Networks \in SUBSET (TemplateNets \cup (Networks \ TemplateNets))
      OBVIOUS
    <3>2. /\ IsFiniteSet(TemplateNets \cup (Networks \ TemplateNets))
          /\ Cardinality(TemplateNets \cup (Networks \ TemplateNets))
                = tnets + extra
                  - Cardinality(TemplateNets \cap (Networks \ TemplateNets))
      BY <2>1, <2>4, FS_Union
    <3>3. Cardinality(TemplateNets \cap (Networks \ TemplateNets)) = 0
      <4>1. TemplateNets \cap (Networks \ TemplateNets) = {}
        OBVIOUS
      <4> QED BY <4>1, FS_EmptySet
    <3>4. nets <= tnets + extra
      <4>1. Cardinality(TemplateNets \cup (Networks \ TemplateNets))
              = tnets + extra
        <5> HIDE DEF tnets, extra
        <5> QED BY <2>5, <3>2, <3>3 DEF tnets, extra
      <4>2. nets <= Cardinality(TemplateNets \cup (Networks \ TemplateNets))
        BY <3>1, <3>2, FS_Subset
      <4> QED BY <4>1, <4>2
    <3>5. generator = "exceptions" => extra <= odd
      BY <1>1 DEF ClassInv
    <3> HIDE DEF nets, tnets, extra
    <3>6. generator = "exceptions" => nets <= Templates + odd
      BY <2>2, <2>5, <2>6, <3>4, <3>5
    <3> QED BY <3>6 DEF PNetwork, nets
  <2> QED BY <2>7, <2>8, <2>9 DEF NetworkClassesBounded
<1> QED BY <1>1, ClassAlways, PTL

------------------------------------------------------------------------------
(******************************************************************************)
(* Pooling, for any principals, policy classes and ports, and any number of   *)
(* rounds.                                                                    *)
(******************************************************************************)

(* PTypeOK but for what is judged; the driver waits on a connection.        *)
PoolingTypes ==
    /\ round \in 0..Len(Schemes)
    /\ step \in {"between", "next", "await", "judge", "judged", "raised"}
    /\ turn \in 1..Len(Order) + 1
    /\ pool \in [Agents \cup Policies -> Ports \cup {NoPort}]
    /\ conns \in [Ports -> SUBSET Agents]
    /\ copied \subseteq Ports
    /\ handler \in [Ports -> {"none", "recv", "recorded"}]
    /\ request \in [Ports -> Agents \cup {Nobody}]
    /\ reply \in [Ports -> BOOLEAN]
    /\ honoured \subseteq Agents
    /\ step # "between" => round \in DOMAIN Schemes
    /\ step = "await" => turn <= Len(Order) /\ Line \in Ports

(* The constants, and the principal whose turn it is.                       *)
LEMMA PoolingConstants ==
    /\ Len(Order) \in Nat /\ DOMAIN Order = 1..Len(Order)
    /\ Len(Schemes) \in Nat /\ DOMAIN Schemes = 1..Len(Schemes)
    /\ \A i \in DOMAIN Schemes : Schemes[i] \in {"per_principal", "per_policy_class"}
    /\ \A i \in DOMAIN Order : Order[i] \in Agents
    /\ \A p \in Agents : PolicyOf[p] \in Policies
    /\ NoPort \notin Ports /\ Nobody \notin Agents
BY PoolingAssumption

LEMMA KeyType ==
    \A p \in Agents : KeyOf(p) \in Agents \cup Policies
BY PoolingConstants DEF KeyOf

LEMMA CurrentType ==
    ASSUME PoolingTypes, turn <= Len(Order)
    PROVE  /\ Current \in Agents
           /\ KeyOf(Current) \in Agents \cup Policies
           /\ Line \in Ports \cup {NoPort}
<1>1. Current \in Agents
  BY PoolingConstants DEF PoolingTypes, Current
<1> QED BY <1>1, KeyType DEF PoolingTypes, Line

LEMMA PoolingTypeStep ==
    ASSUME PoolingTypes, [PNext]_poolingVars
    PROVE  PoolingTypes'
<1> USE DEF PoolingTypes
<1>c. /\ Len(Order) \in Nat /\ Len(Schemes) \in Nat
      /\ DOMAIN Schemes = 1..Len(Schemes)
  BY PoolingConstants
<1>1. CASE BeginRound
  <2>1. pool' \in [Agents \cup Policies -> Ports \cup {NoPort}]
    BY <1>1 DEF BeginRound, NoPool
  <2> QED BY <1>1, <1>c, <2>1 DEF BeginRound
<1>2. ASSUME NEW q \in Ports, Open(q)
      PROVE  PoolingTypes'
  <2>1. KeyOf(Current) \in Agents \cup Policies
    BY <1>2, CurrentType DEF Open
  <2> QED BY <1>2, <2>1 DEF Open
<1>3. CASE Send
  <2>1. Line \in Ports /\ Current \in Agents
    BY <1>3, CurrentType DEF Send
  <2>2. Line' = Line
    BY <1>3 DEF Send, Line, KeyOf, Scheme, Current
  <2>3. request' \in [Ports -> Agents \cup {Nobody}]
    BY <1>3, <2>1 DEF Send
  <2> QED BY <1>3, <2>1, <2>2, <2>3 DEF Send
<1>4. CASE Receive
  <2>1. Line \in Ports /\ Current \in Agents
    BY <1>4, CurrentType DEF Receive
  <2>2. turn' \in 1..Len(Order) + 1
    BY <1>4, <1>c DEF Receive
  <2> QED BY <1>4, <2>1, <2>2 DEF Receive
<1>5. CASE Raise
  BY <1>5 DEF Raise
<1>6. CASE Copy \/ Judge
  BY <1>6 DEF Copy, Judge
<1>7. CASE Close
  BY <1>7 DEF Close, NoPool
<1>8. ASSUME NEW q \in Ports, Record(q)
      PROVE  PoolingTypes'
  <2>1. request[q] \in Agents
    BY <1>8 DEF Record
  <2> QED BY <1>8, <2>1 DEF Record, Line, KeyOf, Scheme, Current
<1>9. ASSUME NEW q \in Ports, Reply(q) \/ GiveUp(q)
      PROVE  PoolingTypes'
  BY <1>9 DEF Reply, GiveUp, Line, KeyOf, Scheme, Current
<1>10. CASE UNCHANGED poolingVars
  BY <1>10 DEF poolingVars, Line, KeyOf, Scheme, Current
<1> QED
  BY <1>1, <1>2, <1>3, <1>4, <1>5, <1>6, <1>7, <1>8, <1>9, <1>10
  DEF PNext, Driver, Handle

LEMMA TypedAlways == PSpec => []PoolingTypes
<1>1. PInit => PoolingTypes
  BY PoolingConstants DEF PInit, PoolingTypes, NoPool
<1>2. PoolingTypes /\ [PNext]_poolingVars => PoolingTypes'
  BY PoolingTypeStep
<1> QED BY <1>1, <1>2, PTL DEF PSpec

------------------------------------------------------------------------------
(* ObservationsExact.  Only the connection the driver waits on is busy, and *)
(* what was recorded on a port is who was answered on it, and the principal *)
(* whose turn it is if it was recorded already.                             *)
On(q) == {p \in honoured : pool[KeyOf(p)] = q}

Idle(q) == request[q] = Nobody /\ handler[q] \in {"none", "recv"} /\ ~reply[q]

Pending ==
    \/ /\ request[Line] = Current /\ handler[Line] = "recv" /\ ~reply[Line]
       /\ conns[Line] = On(Line)
    \/ /\ request[Line] = Nobody /\ handler[Line] = "recorded" /\ ~reply[Line]
       /\ conns[Line] = On(Line) \cup {Current}
    \/ /\ request[Line] = Nobody /\ handler[Line] \in {"none", "recv"}
       /\ reply[Line]
       /\ conns[Line] = On(Line) \cup {Current}
    \/ /\ request[Line] = Nobody /\ handler[Line] = "none" /\ ~reply[Line]
       /\ conns[Line] = On(Line)

Own ==
    \A k, l \in Agents \cup Policies :
        pool[k] = pool[l] /\ pool[k] # NoPort => k = l

ExactInv ==
    /\ Own
    /\ step \in {"between", "next", "judge", "judged"} =>
          \A q \in Ports : Idle(q)
    /\ step \in {"next", "judge", "judged"} => \A q \in Ports : conns[q] = On(q)
    /\ step = "await" =>
          /\ Pending
          /\ \A q \in Ports \ {Line} : Idle(q) /\ conns[q] = On(q)
    /\ step # "between" => \A p \in honoured : pool[KeyOf(p)] \in Ports
    /\ step \in {"judge", "judged"} =>
          copied = {pool[KeyOf(p)] : p \in honoured}

LEMMA ExactStep ==
    ASSUME PoolingTypes, PoolingTypes', ExactInv, [PNext]_poolingVars
    PROVE  ExactInv'
<1> USE DEF PoolingTypes
<1>c. NoPort \notin Ports /\ Nobody \notin Agents
  BY PoolingConstants
<1>k. \A p \in Agents : KeyOf(p) \in Agents \cup Policies
  BY KeyType
<1>1. CASE BeginRound
  <2>1. /\ step = "between" /\ step' = "next" /\ honoured' = {}
        /\ pool' = NoPool /\ conns' = [q \in Ports |-> {}]
        /\ UNCHANGED <<handler, request, reply>>
    BY <1>1 DEF BeginRound
  <2>2. Own'
    BY <2>1 DEF Own, NoPool
  <2>3. \A q \in Ports : Idle(q)' /\ conns'[q] = On(q)'
    BY <2>1 DEF ExactInv, Idle, On
  <2> QED BY <2>1, <2>2, <2>3 DEF ExactInv
<1>2. ASSUME NEW q \in Ports, Open(q)
      PROVE  ExactInv'
  <2>1. /\ step = "next" /\ step' = "next" /\ pool[KeyOf(Current)] = NoPort
        /\ pool' = [pool EXCEPT ![KeyOf(Current)] = q]
        /\ handler' = [handler EXCEPT ![q] = "recv"]
        /\ reply' = [reply EXCEPT ![q] = FALSE]
        /\ UNCHANGED <<round, turn, conns, request, honoured>>
    BY <1>2 DEF Open, Line
  <2>2. \A k \in Agents \cup Policies : pool[k] # q
    BY <1>2 DEF Open, Range
  <2>3. KeyOf(Current) \in Agents \cup Policies
    BY <1>2, CurrentType DEF Open
  <2>4. Own'
    BY <2>1, <2>2, <2>3 DEF ExactInv, Own
  <2>5. \A p \in honoured : KeyOf(p)' = KeyOf(p) /\ pool'[KeyOf(p)] = pool[KeyOf(p)]
    <3>1. ASSUME NEW p \in honoured PROVE KeyOf(p) # KeyOf(Current)
      BY <1>c, <2>1 DEF ExactInv
    <3> QED BY <1>k, <2>1, <3>1 DEF KeyOf, Scheme
  <2>6. \A r \in Ports : On(r)' = On(r)
    BY <2>1, <2>5 DEF On
  <2>7. \A r \in Ports : Idle(r)'
    BY <2>1 DEF ExactInv, Idle
  <2> QED BY <2>1, <2>4, <2>5, <2>6, <2>7 DEF ExactInv
<1>3. CASE Send
  <2>1. /\ step = "next" /\ step' = "await" /\ Line \in Ports
        /\ Current \in Agents
        /\ UNCHANGED <<round, turn, pool, conns, handler, reply, honoured>>
        /\ request' = IF handler[Line] = "none" THEN request
                      ELSE [request EXCEPT ![Line] = Current]
    BY <1>3, CurrentType DEF Send
  <2>2. /\ Line' = Line /\ Current' = Current
        /\ \A p : KeyOf(p)' = KeyOf(p)
    BY <2>1 DEF Line, KeyOf, Scheme, Current
  <2>3. \A q \in Ports : On(q)' = On(q)
    BY <2>1, <2>2 DEF On
  <2>4. \A q \in Ports : Idle(q) /\ conns[q] = On(q)
    BY <2>1 DEF ExactInv
  <2>5. Pending'
    BY <2>1, <2>2, <2>3, <2>4 DEF Pending, Idle
  <2>6. \A q \in Ports \ {Line} : Idle(q)'
    BY <2>1, <2>4 DEF Idle
  <2>7. Own' /\ \A p \in honoured' : pool'[KeyOf(p)'] \in Ports
    BY <2>1, <2>2 DEF ExactInv, Own
  <2> QED BY <2>1, <2>2, <2>3, <2>4, <2>5, <2>6, <2>7 DEF ExactInv
<1>4. CASE Receive
  <2>1. /\ step = "await" /\ step' = "next" /\ Line \in Ports
        /\ Current \in Agents
        /\ reply[Line] \/ handler[Line] = "none"
        /\ honoured' = IF reply[Line] THEN honoured \cup {Current} ELSE honoured
        /\ reply' = [reply EXCEPT ![Line] = FALSE]
        /\ UNCHANGED <<round, pool, conns, handler, request>>
    BY <1>4, CurrentType DEF Receive
  <2>2. /\ Pending /\ \A q \in Ports \ {Line} : Idle(q) /\ conns[q] = On(q)
        /\ \A p \in honoured : pool[KeyOf(p)] \in Ports
    BY <2>1 DEF ExactInv
  <2>3. pool[KeyOf(Current)] = Line /\ \A p : KeyOf(p)' = KeyOf(p)
    BY <2>1 DEF Line, KeyOf, Scheme
  <2>4. \A q \in Ports : Idle(q)'
    BY <2>1, <2>2 DEF Idle, Pending
  <2>5. \A q \in Ports : conns'[q] = On(q)'
    <3>1. CASE reply[Line]
      <4>1. conns[Line] = On(Line) \cup {Current}
        BY <2>2, <3>1 DEF Pending
      <4>2. \A q \in Ports :
                On(q)' = IF q = Line THEN On(q) \cup {Current} ELSE On(q)
        BY <2>1, <2>3, <3>1 DEF On
      <4> QED BY <2>1, <2>2, <4>1, <4>2
    <3>2. CASE ~reply[Line]
      <4>1. conns[Line] = On(Line)
        BY <2>1, <2>2, <3>2 DEF Pending
      <4>2. \A q \in Ports : On(q)' = On(q)
        BY <2>1, <2>3, <3>2 DEF On
      <4> QED BY <2>1, <2>2, <4>1, <4>2
    <3> QED BY <3>1, <3>2
  <2>6. Own' /\ \A p \in honoured' : pool'[KeyOf(p)'] \in Ports
    BY <2>1, <2>2, <2>3 DEF ExactInv, Own
  <2> QED BY <2>1, <2>4, <2>5, <2>6 DEF ExactInv
<1>5. CASE Raise
  <2>1. /\ step # "between" /\ step' = "raised"
        /\ UNCHANGED <<round, pool, honoured>>
    BY <1>5 DEF Raise
  <2> QED BY <2>1 DEF ExactInv, Own, KeyOf, Scheme
<1>6. CASE Copy
  <2>1. /\ step = "next" /\ step' = "judge"
        /\ copied' = {q \in Ports : conns[q] # {}}
        /\ UNCHANGED <<round, pool, conns, handler, request, reply, honoured>>
    BY <1>6 DEF Copy
  <2>2. copied' = {pool[KeyOf(p)] : p \in honoured}
    BY <2>1 DEF ExactInv, On
  <2>3. /\ Own' /\ \A p : KeyOf(p)' = KeyOf(p)
        /\ \A q \in Ports : Idle(q)' /\ conns'[q] = On(q)'
    BY <2>1 DEF ExactInv, Own, Idle, On, KeyOf, Scheme
  <2> QED BY <2>1, <2>2, <2>3 DEF ExactInv
<1>7. CASE Judge
  <2>1. /\ step = "judge" /\ step' = "judged"
        /\ UNCHANGED <<round, pool, conns, copied, handler, request, reply,
                       honoured>>
    BY <1>7 DEF Judge
  <2> QED BY <2>1 DEF ExactInv, Own, Idle, On, KeyOf, Scheme
<1>8. CASE Close
  <2>1. /\ step = "judged" /\ step' = "between" /\ pool' = NoPool
        /\ UNCHANGED <<handler, request, reply>>
    BY <1>8 DEF Close
  <2> QED BY <2>1 DEF ExactInv, Own, NoPool, Idle
<1>9. ASSUME NEW q \in Ports, Record(q) \/ Reply(q)
      PROVE  ExactInv'
  <2>1. UNCHANGED <<round, step, turn, pool, copied, honoured>>
    BY <1>9 DEF Record, Reply
  <2>2. /\ Line' = Line /\ Current' = Current /\ Own'
        /\ \A p : KeyOf(p)' = KeyOf(p)
        /\ \A r : On(r)' = On(r)
    BY <2>1 DEF ExactInv, Own, Line, KeyOf, Scheme, Current, On
  <2>3. step = "raised" \/ (step = "await" /\ q = Line)
    BY <1>9 DEF Record, Reply, ExactInv, Idle
  <2>4. CASE step = "raised"
    BY <2>1, <2>2, <2>4 DEF ExactInv
  <2>5. CASE step = "await" /\ q = Line
    <3>1. Pending
      BY <2>5 DEF ExactInv
    <3>2. Pending'
      <4>1. CASE Record(q)
        <5>1. /\ request[Line] = Current /\ ~reply[Line] /\ conns[Line] = On(Line)
          BY <2>5, <3>1, <4>1 DEF Record, Pending
        <5>2. /\ request'[Line] = Nobody /\ handler'[Line] = "recorded"
              /\ ~reply'[Line] /\ conns'[Line] = On(Line) \cup {Current}
          BY <2>5, <4>1, <5>1 DEF Record
        <5> QED BY <2>2, <5>2 DEF Pending
      <4>2. CASE Reply(q)
        <5>1. request[Line] = Nobody /\ conns[Line] = On(Line) \cup {Current}
          BY <2>5, <3>1, <4>2 DEF Reply, Pending
        <5>2. /\ request'[Line] = Nobody /\ handler'[Line] = "recv"
              /\ reply'[Line] /\ conns'[Line] = On(Line) \cup {Current}
          BY <2>5, <4>2, <5>1 DEF Reply
        <5> QED BY <2>2, <5>2 DEF Pending
      <4> QED BY <1>9, <4>1, <4>2
    <3>3. \A r \in Ports \ {Line} : Idle(r)' /\ conns'[r] = On(r)
      BY <1>9, <2>5 DEF Record, Reply, ExactInv, Idle
    <3> QED BY <2>1, <2>2, <2>5, <3>2, <3>3 DEF ExactInv
  <2> QED BY <2>3, <2>4, <2>5
<1>10. ASSUME NEW q \in Ports, GiveUp(q)
       PROVE  ExactInv'
  <2>1. /\ handler[q] = "recv" /\ request[q] = Nobody
        /\ handler' = [handler EXCEPT ![q] = "none"]
        /\ UNCHANGED <<round, step, turn, pool, conns, copied, request, reply,
                       honoured>>
    BY <1>10 DEF GiveUp
  <2>2. /\ Line' = Line /\ Current' = Current /\ Own'
        /\ \A p : KeyOf(p)' = KeyOf(p)
        /\ \A r : On(r)' = On(r)
    BY <2>1 DEF ExactInv, Own, Line, KeyOf, Scheme, Current, On
  <2>3. \A r \in Ports : Idle(r) => Idle(r)'
    BY <2>1 DEF Idle
  <2>4. step = "await" => Pending'
    <3>1. ASSUME step = "await" PROVE Current \in Agents /\ Line \in Ports
      BY <3>1, CurrentType
    <3> QED BY <1>c, <2>1, <2>2, <3>1 DEF ExactInv, Pending
  <2> QED BY <2>1, <2>2, <2>3, <2>4 DEF ExactInv
<1>11. CASE UNCHANGED poolingVars
  BY <1>11 DEF poolingVars, ExactInv, Own, Idle, Pending, On, Line, KeyOf,
               Scheme, Current
<1> QED
  BY <1>1, <1>2, <1>3, <1>4, <1>5, <1>6, <1>7, <1>8, <1>9, <1>10, <1>11
  DEF PNext, Driver, Handle

LEMMA ExactAlways == PSpec => [](PoolingTypes /\ ExactInv)
<1>1. PInit => ExactInv
  BY DEF PInit, ExactInv, Own, NoPool, Idle
<1>2. PoolingTypes /\ PoolingTypes' /\ ExactInv /\ [PNext]_poolingVars => ExactInv'
  BY ExactStep
<1> QED BY <1>1, <1>2, TypedAlways, PTL DEF PSpec

(* The driver judges the requests that were answered in the round, all of   *)
(* them, each where it was sent, though it takes no lock and ports are used *)
(* again.                                                                   *)
THEOREM ExactObservations == PSpec => []ObservationsExact
<1>1. ExactInv => ObservationsExact
  BY DEF ExactInv, ObservationsExact, On
<1> QED BY <1>1, ExactAlways, PTL

------------------------------------------------------------------------------
(* EnforcementKept.  No verdict was ever wrong: so it need not be said of   *)
(* the rounds before this one.                                              *)
JudgedInv ==
    /\ wrong = 0 /\ most \in Nat
    /\ step = "judged" /\ Scheme = "per_principal" => most <= 1

(* A port serves one key, and the policy installed for it is that of every  *)
(* principal that was seen on it.                                           *)
LEMMA OwnPolicy ==
    ASSUME PoolingTypes, ExactInv, step = "judge",
           NEW q \in copied, NEW p \in conns[q]
    PROVE  Installed(q) = {PolicyOf[p]}
<1>1. /\ p \in honoured /\ pool[KeyOf(p)] = q /\ q \in Ports /\ p \in Agents
      /\ DOMAIN pool = Agents \cup Policies /\ q # NoPort
  BY PoolingConstants DEF PoolingTypes, ExactInv, On
<1>2. KeyOf(p) \in Agents \cup Policies
  BY <1>1, KeyType
<1>3. {k \in DOMAIN pool : pool[k] = q} = {KeyOf(p)}
  BY <1>1, <1>2 DEF ExactInv, Own
<1>4. Scheme \in {"per_principal", "per_policy_class"}
  BY PoolingConstants DEF PoolingTypes, Scheme
<1>5. Installed(q) = {IF Scheme = "per_policy_class" THEN KeyOf(p)
                      ELSE PolicyOf[KeyOf(p)]}
  BY <1>3 DEF Installed
<1> QED BY <1>4, <1>5 DEF KeyOf

(* With a connection for each principal there is one on a port.             *)
LEMMA OneOnAPort ==
    ASSUME PoolingTypes, ExactInv, step = "judge", Scheme = "per_principal",
           NEW q \in copied
    PROVE  Cardinality(conns[q]) = 1
<1>1. PICK p \in honoured : q = pool[KeyOf(p)]
  BY DEF ExactInv
<1>2. /\ q \in Ports /\ q # NoPort /\ conns[q] = On(q) /\ p \in On(q)
      /\ honoured \subseteq Agents
  BY <1>1, PoolingConstants DEF ExactInv, PoolingTypes, On
<1>3. \A o \in On(q) : o = p
  BY <1>1, <1>2 DEF On, KeyOf, ExactInv, Own
<1>4. conns[q] = {p}
  BY <1>2, <1>3
<1> QED BY <1>4, FS_Singleton

LEMMA JudgedStep ==
    ASSUME PoolingTypes, ExactInv, JudgedInv, [PNext]_poolingVars
    PROVE  JudgedInv'
<1>1. CASE Judge
  <2>1. /\ step = "judge" /\ step' = "judged" /\ round' = round
        /\ wrong' = Cardinality({x \in copied \X Agents :
               x[2] \in conns[x[1]] /\ Installed(x[1]) # {PolicyOf[x[2]]}})
    BY <1>1 DEF Judge
  <2>2. PICK n \in 0..Len(Order) :
            /\ n = 0 \/ \E q \in copied : Cardinality(conns[q]) = n
            /\ most' = n
    BY <1>1 DEF Judge
  <2>3. {x \in copied \X Agents :
            x[2] \in conns[x[1]] /\ Installed(x[1]) # {PolicyOf[x[2]]}} = {}
    BY <2>1, OwnPolicy
  <2>4. wrong' = 0
    BY <2>1, <2>3, FS_EmptySet
  <2>5. Scheme = "per_principal" => n <= 1
    BY <2>1, <2>2, OneOnAPort
  <2>6. Scheme' = Scheme /\ most' \in Nat
    BY <2>1, <2>2, PoolingConstants DEF Scheme
  <2> QED BY <2>1, <2>2, <2>4, <2>5, <2>6 DEF JudgedInv
<1>2. ASSUME NEW q \in Ports, Handle(q) \/ GiveUp(q)
      PROVE  JudgedInv'
  BY <1>2 DEF Handle, Record, Reply, GiveUp, JudgedInv, Scheme
<1>3. CASE BeginRound \/ (\E q \in Ports : Open(q)) \/ Send \/ Receive \/ Raise
           \/ Copy \/ Close
  BY <1>3 DEF BeginRound, Open, Send, Receive, Raise, Copy, Close, JudgedInv
<1>4. CASE UNCHANGED poolingVars
  BY <1>4 DEF poolingVars, JudgedInv, Scheme
<1> QED BY <1>1, <1>2, <1>3, <1>4 DEF PNext, Driver

LEMMA JudgedAlways == PSpec => []JudgedInv
<1>1. PInit => JudgedInv
  BY DEF PInit, JudgedInv
<1>2. PoolingTypes /\ ExactInv /\ JudgedInv /\ [PNext]_poolingVars => JudgedInv'
  BY JudgedStep
<1> QED BY <1>1, <1>2, ExactAlways, PTL DEF PSpec

(* The driver and the Upstream keep their types, for any principals.        *)
THEOREM PoolingTyped == PSpec => []PTypeOK
<1>1. PoolingTypes /\ JudgedInv => PTypeOK
  BY DEF PoolingTypes, JudgedInv, PTypeOK
<1> QED BY <1>1, TypedAlways, JudgedAlways, PTL

(* Pooling by policy class puts every principal under its own policy, and a *)
(* connection for each tells them apart, whoever was answered.              *)
THEOREM Kept == PSpec => []EnforcementKept
<1>1. JudgedInv => EnforcementKept
  BY DEF JudgedInv, EnforcementKept
<1> QED BY <1>1, JudgedAlways, PTL
==============================================================================
