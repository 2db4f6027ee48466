--------------------------- MODULE PolicyEnforce ----------------------------
(****************************************************************************)
(* The connect() hook of phase6b_report/policy_enforce.bpf.c, which keys    *)
(* the policy on an enforcement identity and a destination.  It reads the   *)
(* carrier, the default and the policy one after the other, on every CPU at *)
(* once, while userspace writes all three.  As in VerdictChannel, the       *)
(* verdict a lookup found stays readable after its entry is gone, and its   *)
(* slot may be given to another entry.                                      *)
(****************************************************************************)
EXTENDS Naturals, FiniteSets

CONSTANTS
    Cpus, Dests,
    Sockets,
    Cgroup, Mark,   \* each socket's cgroup id and mark, two kinds of number;
                    \* the mark is 0 when none was set
    Slots,          \* elements of the policy map
    NoSlot, NoKey, NoSocket,
    MaxConnects,    \* bound: calls of connect()
    MaxWrites       \* bound: writes by userspace, to policy and cfg

Actions == {"DENY", "ALLOW", "RESTRICT"}
Carriers == {"cgroup", "mark"}
Keys == [id : Nat, dest : Dests]

ASSUME PolicyAssumption ==
    /\ IsFiniteSet(Cpus)
    /\ Cgroup \in [Sockets -> Nat]
    /\ Mark \in [Sockets -> Nat]
    /\ NoSlot \notin Slots /\ NoKey \notin Keys /\ NoSocket \notin Sockets
    /\ MaxConnects \in Nat /\ MaxWrites \in Nat

VARIABLES
    carrier, default,   \* cfg[0], cfg[1]
    entry,              \* the key each slot is linked under
    action,             \* the verdict in each slot; its hits are not counted
    pc, socket, key, slot, act,  \* the program on each CPU: its locals
    stats,              \* the counters 0..3
    connects, writes,
    seen,       \* history: verdicts in force since the call began
    noise,      \* history: what was written meanwhile
    lent,       \* history: the verdict of another key's rule, if one was
                \* written where a lookup had found its own
    open        \* history: the default has been other than DENY

policyVars == <<entry, action>>
cfgVars == <<carrier, default, open>>
historyVars == <<seen, noise, lent>>
enforceVars == <<cfgVars, policyVars, pc, socket, key, slot, act, stats, connects,
                 writes, historyVars>>

Identity(s, c) == IF c = "mark" THEN Mark[s] ELSE Cgroup[s]
PolicyKey(s, d, c) == [id |-> Identity(s, c), dest |-> d]
Holding(e, k) == {x \in Slots : e[x] = k}

(* The verdict the key has in a given configuration.                        *)
Verdict(e, a, dflt, k) ==
    IF Holding(e, k) = {} THEN dflt ELSE a[CHOOSE x \in Holding(e, k) : TRUE]

EInit ==
    /\ carrier = "cgroup" /\ default = "DENY" /\ open = FALSE
    /\ entry = [x \in Slots |-> NoKey]
    /\ action = [x \in Slots |-> "DENY"]
    /\ pc = [u \in Cpus |-> "idle"]
    /\ socket = [u \in Cpus |-> NoSocket]
    /\ key = [u \in Cpus |-> NoKey]
    /\ slot = [u \in Cpus |-> NoSlot]
    /\ act = [u \in Cpus |-> "DENY"]
    /\ stats = [i \in 0..3 |-> 0]
    /\ connects = 0 /\ writes = 0
    /\ seen = [u \in Cpus |-> {}]
    /\ noise = [u \in Cpus |-> "none"]
    /\ lent = [u \in Cpus |-> "none"]

Step(u, from, to) == pc[u] = from /\ pc' = [pc EXCEPT ![u] = to]
Bump(i) == stats' = [stats EXCEPT ![i] = @ + 1]

------------------------------------------------------------------------------
(* Mutated forms of the definitions that follow, one bug each.              *)

(* The default is kept in place of a verdict other than ALLOW.              *)
LaxTakeVerdict(u) ==
    /\ Step(u, "found", "hit")
    /\ act' = IF action[slot[u]] = "ALLOW" THEN [act EXCEPT ![u] = "ALLOW"] ELSE act
    /\ UNCHANGED <<cfgVars, policyVars, socket, key, slot, stats, connects,
                   writes, historyVars>>

(* The pointer is used without asking whether the lookup found anything.    *)
UncheckedHit(u) ==
    /\ Step(u, "defaulted", "found")
    /\ slot' = [slot EXCEPT ![u] = IF Holding(entry, key[u]) = {} THEN NoSlot
                                   ELSE CHOOSE x \in Holding(entry, key[u]) : TRUE]
    /\ UNCHANGED <<cfgVars, policyVars, socket, key, act, stats, connects,
                   writes, historyVars>>

(* Without a rule the call is admitted, whatever the default.               *)
FailOpen(u) ==
    /\ Step(u, "keyed", "defaulted")
    /\ act' = [act EXCEPT ![u] = "ALLOW"]
    /\ UNCHANGED <<cfgVars, policyVars, socket, key, slot, stats, connects,
                   writes, historyVars>>

------------------------------------------------------------------------------
(* enforce(), on CPU u.                                                     *)

(* connect() of a TCP socket: the carrier is read and the key made.         *)
Enter(u, s, d) ==
    /\ connects < MaxConnects
    /\ Step(u, "idle", "keyed")
    /\ connects' = connects + 1
    /\ socket' = [socket EXCEPT ![u] = s]
    /\ key' = [key EXCEPT ![u] = PolicyKey(s, d, carrier)]
    /\ seen' = [seen EXCEPT ![u] = {Verdict(entry, action, default, key'[u])}]
    /\ UNCHANGED <<cfgVars, policyVars, slot, act, stats, writes, noise, lent>>

(* The default is read before it is known to be needed.                     *)
ReadDefault(u) ==
    /\ Step(u, "keyed", "defaulted")
    /\ act' = [act EXCEPT ![u] = default]
    /\ UNCHANGED <<cfgVars, policyVars, socket, key, slot, stats, connects,
                   writes, historyVars>>

Hit(u) ==
    /\ Step(u, "defaulted", "found")
    /\ \E x \in Holding(entry, key[u]) : slot' = [slot EXCEPT ![u] = x]
    /\ UNCHANGED <<cfgVars, policyVars, socket, key, act, stats, connects,
                   writes, historyVars>>

Miss(u) ==
    /\ Step(u, "defaulted", "attempt")
    /\ Holding(entry, key[u]) = {}
    /\ Bump(3)
    /\ UNCHANGED <<cfgVars, policyVars, socket, key, slot, act, connects, writes,
                   historyVars>>

TakeVerdict(u) ==
    /\ Step(u, "found", "hit")
    /\ act' = [act EXCEPT ![u] = action[slot[u]]]
    /\ UNCHANGED <<cfgVars, policyVars, socket, key, slot, stats, connects,
                   writes, historyVars>>

CountHit(u) ==
    /\ Step(u, "hit", "attempt")
    /\ Bump(2)
    /\ UNCHANGED <<cfgVars, policyVars, socket, key, slot, act, connects,
                   writes, historyVars>>

(* The program returns: its locals are gone.                                *)
Return(u) ==
    /\ pc' = [pc EXCEPT ![u] = "idle"]
    /\ socket' = [socket EXCEPT ![u] = NoSocket]
    /\ key' = [key EXCEPT ![u] = NoKey]
    /\ slot' = [slot EXCEPT ![u] = NoSlot]
    /\ act' = [act EXCEPT ![u] = "DENY"]
    /\ seen' = [seen EXCEPT ![u] = {}]
    /\ noise' = [noise EXCEPT ![u] = "none"]
    /\ lent' = [lent EXCEPT ![u] = "none"]

(* The call is counted; anything but DENY goes on.                          *)
AttemptDenied(u) ==
    /\ Step(u, "attempt", "refuse")
    /\ act[u] = "DENY"
    /\ Bump(0)
    /\ UNCHANGED <<cfgVars, policyVars, socket, key, slot, act, connects, writes,
                   historyVars>>

AttemptAdmitted(u) ==
    /\ pc[u] = "attempt" /\ act[u] # "DENY"
    /\ Bump(0)
    /\ Return(u)
    /\ UNCHANGED <<cfgVars, policyVars, connects, writes>>

Refuse(u) ==
    /\ pc[u] = "refuse"
    /\ Bump(1)
    /\ Return(u)
    /\ UNCHANGED <<cfgVars, policyVars, connects, writes>>

------------------------------------------------------------------------------
(* Userspace.                                                               *)

(* Calls that have not taken their verdict yet.                             *)
Undecided(u) == pc[u] \in {"keyed", "defaulted", "found"}

(* The rule just written is in the slot that the call has found.            *)
Overwritten(u) ==
    pc[u] = "found" /\ entry[slot[u]] = NoKey /\ entry'[slot[u]] # NoKey

(* What the calls under way could see once the write is done, and the kind  *)
(* of writes they have run beside: nothing, policy writes, one cfg write,   *)
(* or a mix.  A call whose slot is given away is lent the verdict of the    *)
(* key it is given to.                                                      *)
Notice(kind) ==
    /\ writes < MaxWrites
    /\ writes' = writes + 1
    /\ seen' = [u \in Cpus |->
           IF Undecided(u)
           THEN seen[u] \cup
                {Verdict(entry', action', default',
                         PolicyKey(socket[u], key[u].dest, carrier'))}
           ELSE seen[u]]
    /\ noise' = [u \in Cpus |->
           IF ~Undecided(u) THEN noise[u]
           ELSE IF noise[u] = "none" THEN kind
           ELSE IF noise[u] = "policy" /\ kind = "policy" THEN "policy"
           ELSE "mixed"]
    /\ lent' = [u \in Cpus |->
           IF ~Overwritten(u) THEN lent[u]
           ELSE IF entry'[slot[u]] = key[u] THEN "none"
           ELSE action'[slot[u]]]
    /\ UNCHANGED <<pc, socket, key, slot, act, stats, connects>>

(* A rule is written in a slot that is not linked; the slot that held the   *)
(* key before is free from then on.                                         *)
Update(k, x, a) ==
    /\ entry[x] = NoKey
    /\ entry' = [y \in Slots |->
                    IF y = x THEN k ELSE IF entry[y] = k THEN NoKey ELSE entry[y]]
    /\ action' = [action EXCEPT ![x] = a]
    /\ UNCHANGED cfgVars
    /\ Notice("policy")

Delete(k) ==
    /\ Holding(entry, k) # {}
    /\ entry' = [y \in Slots |-> IF entry[y] = k THEN NoKey ELSE entry[y]]
    /\ UNCHANGED <<action, cfgVars>>
    /\ Notice("policy")

SetDefault(a) ==
    /\ default' = a
    /\ open' = (open \/ a # "DENY")
    /\ UNCHANGED <<policyVars, carrier>>
    /\ Notice("cfg")

SetCarrier(c) ==
    /\ carrier' = c
    /\ UNCHANGED <<policyVars, default, open>>
    /\ Notice("cfg")

Program(u) ==
    \/ \E s \in Sockets, d \in Dests : Enter(u, s, d)
    \/ ReadDefault(u)
    \/ Hit(u)
    \/ Miss(u)
    \/ TakeVerdict(u)
    \/ CountHit(u)
    \/ AttemptDenied(u)
    \/ AttemptAdmitted(u)
    \/ Refuse(u)

Written == {PolicyKey(s, d, c) : s \in Sockets, d \in Dests, c \in Carriers}

ENext ==
    \/ \E u \in Cpus : Program(u)
    \/ \E k \in Written :
          \/ Delete(k)
          \/ \E x \in Slots, a \in Actions : Update(k, x, a)
    \/ \E a \in Actions : SetDefault(a)
    \/ \E c \in Carriers : SetCarrier(c)

ESpec == EInit /\ [][ENext]_enforceVars

------------------------------------------------------------------------------
(* Properties.                                                              *)

ETypeOK ==
    /\ carrier \in Carriers /\ default \in Actions /\ open \in BOOLEAN
    /\ entry \in [Slots -> Keys \cup {NoKey}]
    /\ action \in [Slots -> Actions]
    /\ pc \in [Cpus -> {"idle", "keyed", "defaulted", "found", "hit", "attempt",
                        "refuse"}]
    /\ socket \in [Cpus -> Sockets \cup {NoSocket}]
    /\ key \in [Cpus -> Keys \cup {NoKey}]
    /\ slot \in [Cpus -> Slots \cup {NoSlot}]
    /\ \A u \in Cpus : pc[u] \in {"found", "hit"} => slot[u] \in Slots
    /\ act \in [Cpus -> Actions]
    /\ stats \in [0..3 -> Nat]
    /\ connects \in Nat /\ writes \in Nat
    /\ seen \in [Cpus -> SUBSET Actions]
    /\ noise \in [Cpus -> {"none", "policy", "cfg", "mixed"}]
    /\ lent \in [Cpus -> Actions \cup {"none"}]

Decided(u) == pc[u] \in {"hit", "attempt", "refuse"}

(* enforce(), :96-:122.  Beside any writes of rules alone, or one write of  *)
(* the configuration alone, a call decides by a verdict that was in force   *)
(* for its socket and destination at some instant of the call, but for one  *)
(* case: the rule it found was deleted, and its slot given to a rule of     *)
(* another key, whose verdict it then takes.  That one may never have been  *)
(* in force for the call.                                                   *)
(* (A configuration write and another write in one call may tear it: the    *)
(* default it read goes with rules that were never in force beside it.)     *)
VerdictInForceOrLent ==
    \A u \in Cpus :
        Decided(u) /\ noise[u] # "mixed" => act[u] \in seen[u] \/ act[u] = lent[u]

At(step) == {u \in Cpus : pc[u] = step}

(* "default-deny", :117.  As long as the default has always been DENY, no   *)
(* more calls are admitted than found a rule, whichever identity the        *)
(* carrier gave them.                                                       *)
AdmissionsHaveRules ==
    ~open => stats[0] <= stats[1] + Cardinality(At("refuse")) + stats[2]
==============================================================================
