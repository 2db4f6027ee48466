--------------------------- MODULE VerdictChannel ----------------------------
(****************************************************************************)
(* The connect() hook of phase5_report/enforce.bpf.c and the verdict map it *)
(* reads.  The program runs on every CPU at once, and userspace rewrites    *)
(* the map while it runs.                                                   *)
(*                                                                          *)
(* The map is the kernel's: a lookup gives a pointer to a preallocated slot *)
(* and an update links another slot in its place, so a program may go on    *)
(* reading a slot that no longer belongs to its destination, or that has    *)
(* been reused for another one.                                             *)
(****************************************************************************)
EXTENDS Naturals, FiniteSets, Functions

CONSTANTS
    Cpus,           \* where the program runs
    Dests,          \* flow keys: (daddr, dport)
    Slots,          \* preallocated elements of the verdict map
    Expiries,       \* values of expires_ns userspace writes; 0 is never
    NoSlot, NoDest,
    MaxEntries,     \* max_entries of the verdict map
    RingSize,       \* events the ring buffer holds
    MaxTime,        \* bound: time explored
    MaxConnects,    \* bound: calls of connect()
    MaxWrites       \* bound: updates and deletions by userspace

Actions == {"ALLOW", "DENY", "RESTRICT"}

ASSUME ChannelAssumption ==
    /\ IsFiniteSet(Cpus)
    /\ Expiries \subseteq Nat
    /\ NoSlot \notin Slots
    /\ NoDest \notin Dests
    /\ MaxEntries \in Nat /\ RingSize \in Nat
    /\ MaxTime \in Nat /\ MaxConnects \in Nat /\ MaxWrites \in Nat

VARIABLES
    now,            \* bpf_ktime_get_ns()
    index,          \* the slot of each destination's verdict
    action, expires, hits,  \* the verdict in each slot
    pc, dest, slot, act,    \* the program on each CPU: its locals
    stats,          \* the counters 0..4
    ring,           \* events in the ring buffer, by action_taken
    connects, writes,
    audited,        \* history: events submitted, by action_taken
    lost,           \* history: events that found the ring buffer full
    steady          \* history: the verdict in force since the lookup, or
                    \* "changed"

mapVars == <<index, action, expires>>
progVars == <<pc, dest, slot, act>>
auditVars == <<ring, audited, lost>>
vars == <<now, mapVars, hits, progVars, stats, auditVars, connects, writes,
          steady>>

Init ==
    /\ now = 1
    /\ index = [d \in Dests |-> NoSlot]
    /\ action = [s \in Slots |-> "DENY"]
    /\ expires = [s \in Slots |-> 0]
    /\ hits = [s \in Slots |-> 0]
    /\ pc = [u \in Cpus |-> "idle"]
    /\ dest = [u \in Cpus |-> NoDest]
    /\ slot = [u \in Cpus |-> NoSlot]
    /\ act = [u \in Cpus |-> "ALLOW"]
    /\ stats = [i \in 0..4 |-> 0]
    /\ ring = 0
    /\ connects = 0
    /\ writes = 0
    /\ audited = [a \in Actions |-> 0]
    /\ lost = 0
    /\ steady = [u \in Cpus |-> "changed"]

Linked == {index[d] : d \in Dests} \ {NoSlot}

(* The guard of the program on a verdict it holds.                          *)
Fresh(s, t) == expires[s] = 0 \/ t < expires[s]

(* What the map says about d at time t: no verdict, and one that expired,   *)
(* both stand for ALLOW.                                                    *)
InForce(d, t) ==
    IF index[d] # NoSlot /\ Fresh(index[d], t) THEN action[index[d]] ELSE "ALLOW"

(* Programs between their lookup and their use of it.                       *)
Reading(u) == pc[u] \in {"found", "fresh"}

------------------------------------------------------------------------------
(* Mutated forms of the definitions that follow, one bug each.              *)

(* A verdict still counts in the nanosecond it expires.                     *)
GenerousCheckExpiry(u) ==
    /\ pc[u] = "found"
    /\ expires[slot[u]] = 0 \/ now <= expires[slot[u]]
    /\ pc' = [pc EXCEPT ![u] = "fresh"]
    /\ UNCHANGED <<now, mapVars, hits, dest, slot, act, stats, auditVars,
                   connects, writes, steady>>

(* A refusal is counted as an attempt only.                                 *)
ForgetfulDecide(u) ==
    /\ pc[u] = "decide"
    /\ pc' = [pc EXCEPT ![u] = "idle"]
    /\ stats' = IF act[u] = "DENY" THEN stats ELSE [stats EXCEPT ![2] = @ + 1]
    /\ UNCHANGED <<now, mapVars, hits, dest, slot, act, auditVars, connects,
                   writes, steady>>

(* Every event says ALLOW, the value action starts with.                    *)
InitialOutcome(u) == "ALLOW"

(* The event is submitted without looking whether it was reserved.          *)
UncheckedAudit(u) ==
    /\ pc[u] = "audit"
    /\ ring' = ring + 1
    /\ audited' = [audited EXCEPT ![act[u]] = @ + 1]
    /\ pc' = [pc EXCEPT ![u] = "seen"]
    /\ UNCHANGED <<now, mapVars, hits, dest, slot, act, stats, lost, connects,
                   writes, steady>>

------------------------------------------------------------------------------
(* enforce_connect4(), on CPU u.                                            *)

(* connect() of a TCP socket to d: the lookup.                              *)
Lookup(u, d) ==
    /\ connects < MaxConnects
    /\ pc[u] = "idle"
    /\ connects' = connects + 1
    /\ dest' = [dest EXCEPT ![u] = d]
    /\ slot' = [slot EXCEPT ![u] = index[d]]
    /\ act' = [act EXCEPT ![u] = "ALLOW"]
    /\ steady' = [steady EXCEPT ![u] = InForce(d, now)]
    /\ IF index[d] = NoSlot
       THEN /\ pc' = [pc EXCEPT ![u] = "audit"]
            /\ stats' = [stats EXCEPT ![4] = @ + 1]
       ELSE /\ pc' = [pc EXCEPT ![u] = "found"]
            /\ UNCHANGED stats
    /\ UNCHANGED <<now, mapVars, hits, auditVars, writes>>

(* The verdict has not expired.                                             *)
CheckExpiry(u) ==
    /\ pc[u] = "found"
    /\ Fresh(slot[u], now)
    /\ pc' = [pc EXCEPT ![u] = "fresh"]
    /\ UNCHANGED <<now, mapVars, hits, dest, slot, act, stats, auditVars,
                   connects, writes, steady>>

(* It has: the default stands.                                              *)
Expired(u) ==
    /\ pc[u] = "found"
    /\ ~Fresh(slot[u], now)
    /\ pc' = [pc EXCEPT ![u] = "audit"]
    /\ stats' = [stats EXCEPT ![3] = @ + 1]
    /\ UNCHANGED <<now, mapVars, hits, dest, slot, act, auditVars, connects,
                   writes, steady>>

(* The verdict is read and its hits counted.                                *)
TakeVerdict(u) ==
    /\ pc[u] = "fresh"
    /\ act' = [act EXCEPT ![u] = action[slot[u]]]
    /\ hits' = [hits EXCEPT ![slot[u]] = @ + 1]
    /\ pc' = [pc EXCEPT ![u] = "audit"]
    /\ UNCHANGED <<now, mapVars, dest, slot, stats, auditVars, connects, writes,
                   steady>>

(* The action_taken of the event.                                           *)
Outcome(u) == act[u]

(* An event is submitted, or not, if the ring buffer is full; the attempt   *)
(* is counted.                                                              *)
Audit(u) ==
    /\ pc[u] = "audit"
    /\ IF ring < RingSize
       THEN /\ ring' = ring + 1
            /\ audited' = [audited EXCEPT ![Outcome(u)] = @ + 1]
            /\ UNCHANGED lost
       ELSE /\ lost' = lost + 1
            /\ UNCHANGED <<ring, audited>>
    /\ pc' = [pc EXCEPT ![u] = "seen"]
    /\ UNCHANGED <<now, mapVars, hits, dest, slot, act, stats, connects, writes,
                   steady>>

Seen(u) ==
    /\ pc[u] = "seen"
    /\ stats' = [stats EXCEPT ![0] = @ + 1]
    /\ pc' = [pc EXCEPT ![u] = "decide"]
    /\ UNCHANGED <<now, mapVars, hits, dest, slot, act, auditVars, connects,
                   writes, steady>>

(* The connect() is refused or goes on.                                     *)
Decide(u) ==
    /\ pc[u] = "decide"
    /\ pc' = [pc EXCEPT ![u] = "idle"]
    /\ stats' = [stats EXCEPT ![IF act[u] = "DENY" THEN 1 ELSE 2] = @ + 1]
    /\ UNCHANGED <<now, mapVars, hits, dest, slot, act, auditVars, connects,
                   writes, steady>>

------------------------------------------------------------------------------
(* Userspace and the kernel.                                                *)

(* Programs that have looked up d see its verdict change under them.        *)
Disturb(d) ==
    steady' = [u \in Cpus |->
                  IF Reading(u) /\ dest[u] = d THEN "changed" ELSE steady[u]]

(* A verdict for d is written, in a slot that is not linked; a new entry    *)
(* needs room in the map.                                                   *)
Update(d, s, a, e) ==
    /\ writes < MaxWrites
    /\ index[d] # NoSlot \/ Cardinality(Linked) < MaxEntries
    /\ s \notin Linked
    /\ action' = [action EXCEPT ![s] = a]
    /\ expires' = [expires EXCEPT ![s] = e]
    /\ hits' = [hits EXCEPT ![s] = 0]
    /\ index' = [index EXCEPT ![d] = s]
    /\ writes' = writes + 1
    /\ Disturb(d)
    /\ UNCHANGED <<now, progVars, stats, auditVars, connects>>

Delete(d) ==
    /\ writes < MaxWrites
    /\ index[d] # NoSlot
    /\ index' = [index EXCEPT ![d] = NoSlot]
    /\ writes' = writes + 1
    /\ Disturb(d)
    /\ UNCHANGED <<now, action, expires, hits, progVars, stats, auditVars,
                   connects>>

(* The reader of the events takes one.                                      *)
Consume ==
    /\ ring > 0
    /\ ring' = ring - 1
    /\ UNCHANGED <<now, mapVars, hits, progVars, stats, audited, lost, connects,
                   writes, steady>>

Tick ==
    /\ now < MaxTime
    /\ now' = now + 1
    /\ steady' = [u \in Cpus |->
                     IF Reading(u) /\ InForce(dest[u], now + 1) # steady[u]
                     THEN "changed" ELSE steady[u]]
    /\ UNCHANGED <<mapVars, hits, progVars, stats, auditVars, connects, writes>>

Program(u) ==
    \/ \E d \in Dests : Lookup(u, d)
    \/ CheckExpiry(u)
    \/ Expired(u)
    \/ TakeVerdict(u)
    \/ Audit(u)
    \/ Seen(u)
    \/ Decide(u)

Next ==
    \/ \E u \in Cpus : Program(u)
    \/ \E d \in Dests, s \in Slots, a \in Actions, e \in Expiries :
          Update(d, s, a, e)
    \/ \E d \in Dests : Delete(d)
    \/ Consume
    \/ Tick

Spec == Init /\ [][Next]_vars

------------------------------------------------------------------------------
(* Properties.                                                              *)

TypeOK ==
    /\ now \in Nat
    /\ index \in [Dests -> Slots \cup {NoSlot}]
    /\ action \in [Slots -> Actions]
    /\ expires \in [Slots -> Nat]
    /\ hits \in [Slots -> Nat]
    /\ pc \in [Cpus -> {"idle", "found", "fresh", "audit", "seen", "decide"}]
    /\ dest \in [Cpus -> Dests \cup {NoDest}]
    /\ slot \in [Cpus -> Slots \cup {NoSlot}]
    /\ act \in [Cpus -> Actions]
    /\ stats \in [0..4 -> Nat]
    /\ ring \in 0..RingSize
    /\ connects \in Nat
    /\ writes \in Nat
    /\ audited \in [Actions -> Nat]
    /\ lost \in Nat
    /\ steady \in [Cpus -> Actions \cup {"changed"}]

(* When the verdict for a destination is left alone, and does not expire,   *)
(* from a program's lookup to its decision, that verdict is what it         *)
(* decides, however other verdicts are written and slots reused meanwhile.  *)
SteadyVerdictHolds ==
    \A u \in Cpus :
        pc[u] \in {"audit", "seen", "decide"} /\ steady[u] # "changed"
            => act[u] = steady[u]

At(step) == {u \in Cpus : pc[u] = step}

(* The counters can be read at any time: the attempts are the refusals, the *)
(* admissions and the programs on their last step.                          *)
CountersAgree ==
    stats[0] = stats[1] + stats[2] + Cardinality(At("decide"))

(* Programs that have made up their mind to refuse.                         *)
Refusing == {u \in Cpus : pc[u] \in {"seen", "decide"} /\ act[u] = "DENY"}

(* No refusal goes unaudited unless the ring buffer was full, and no event  *)
(* tells of a refusal that does not follow.                                 *)
RefusalsAudited ==
    /\ stats[1] + Cardinality(Refusing) <= audited["DENY"] + lost
    /\ audited["DENY"] <= stats[1] + Cardinality(Refusing)
==============================================================================
