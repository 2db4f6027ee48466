------------------------------ MODULE Pooling -------------------------------
(****************************************************************************)
(* phase3_report/eqclass_experiment.py: the upstream connections are keyed  *)
(* by principal or by policy class.  One driver sends a request for every   *)
(* principal, one handler thread per connection records who was seen on it, *)
(* and the driver reads those records without the handlers' lock.           *)
(****************************************************************************)
EXTENDS Naturals, FiniteSets, Sequences, Functions

CONSTANTS
    Order,          \* the principals, in the order of the dictionary
    PolicyOf,       \* policy class of each
    Ports,          \* source ports
    NoPort, Nobody,
    Schemes         \* the schemes main() runs, in order

Agents == Range(Order)
Policies == Range(PolicyOf)

ASSUME PoolingAssumption ==
    /\ Order \in Seq(Agents)
    /\ PolicyOf \in [Agents -> Policies]
    /\ Agents \cap Policies = {}
    /\ NoPort \notin Ports /\ Nobody \notin Agents
    /\ Schemes \in Seq({"per_principal", "per_policy_class"})

VARIABLES
    round,      \* calls of run_scheme() so far
    step,       \* where the driver is
    turn,       \* the principal it is at: a place in Order
    pool,       \* the port of each key's connection
    conns,      \* up.conns: who was seen on each port
    copied,     \* ports in the driver's copy of it
    handler,    \* the Upstream's thread on each port
    request,    \* the request on its way to it
    reply,      \* there is an answer to read
    wrong,      \* enforcement_wrong_verdicts of the round
    most,       \* max_principals_per_5tuple of the round
    honoured    \* history: principals answered in this round

poolingVars == <<round, step, turn, pool, conns, copied, handler, request,
                 reply, wrong, most, honoured>>

NoPool == [k \in Agents \cup Policies |-> NoPort]

PInit ==
    /\ round = 0 /\ step = "between" /\ turn = 1
    /\ pool = NoPool
    /\ conns = [q \in Ports |-> {}]
    /\ copied = {}
    /\ handler = [q \in Ports |-> "none"]
    /\ request = [q \in Ports |-> Nobody]
    /\ reply = [q \in Ports |-> FALSE]
    /\ wrong = 0 /\ most = 0
    /\ honoured = {}

Scheme == Schemes[round]
(* A mutated form of the next definition: one class stands for all.         *)
CoarseKeyOf(p) == IF Scheme = "per_principal" THEN p ELSE PolicyOf[Order[1]]

KeyOf(p) == IF Scheme = "per_principal" THEN p ELSE PolicyOf[p]
Current == Order[turn]
Line == pool[KeyOf(Current)]

(* The policy installed for a port: the key itself, or its principal's.     *)
Installed(q) ==
    {IF Scheme = "per_policy_class" THEN k ELSE PolicyOf[k] :
        k \in {k \in DOMAIN pool : pool[k] = q}}

------------------------------------------------------------------------------
(* Mutated forms of the definitions that follow, one bug each.              *)

(* The answer goes out before the request is recorded.                      *)
EagerReply(q) ==
    /\ handler[q] = "recv" /\ request[q] # Nobody
    /\ handler' = [handler EXCEPT ![q] = "late"]
    /\ reply' = [reply EXCEPT ![q] = TRUE]
    /\ UNCHANGED <<round, step, turn, pool, conns, copied, request, wrong, most,
                   honoured>>
LateRecord(q) ==
    /\ handler[q] = "late"
    /\ conns' = [conns EXCEPT ![q] = @ \cup {request[q]}]
    /\ request' = [request EXCEPT ![q] = Nobody]
    /\ handler' = [handler EXCEPT ![q] = "recv"]
    /\ UNCHANGED <<round, step, turn, pool, copied, reply, wrong, most, honoured>>
EagerHandle(q) == EagerReply(q) \/ LateRecord(q)

(* The observations of the round before are kept.                           *)
KeptBeginRound ==
    /\ step = "between" /\ round < Len(Schemes)
    /\ round' = round + 1
    /\ pool' = NoPool /\ turn' = 1 /\ honoured' = {} /\ step' = "next"
    /\ UNCHANGED <<conns, copied, handler, request, reply, wrong, most>>

------------------------------------------------------------------------------
(* The driver: run_scheme().                                                *)

BeginRound ==
    /\ step = "between" /\ round < Len(Schemes)
    /\ round' = round + 1
    /\ conns' = [q \in Ports |-> {}]
    /\ pool' = NoPool /\ turn' = 1 /\ honoured' = {} /\ step' = "next"
    /\ UNCHANGED <<copied, handler, request, reply, wrong, most>>

(* A key met for the first time gets a connection, from a port that no      *)
(* connection has at either end.                                            *)
Open(q) ==
    /\ step = "next" /\ turn <= Len(Order) /\ Line = NoPort
    /\ handler[q] = "none" /\ q \notin Range(pool)
    /\ pool' = [pool EXCEPT ![KeyOf(Current)] = q]
    /\ handler' = [handler EXCEPT ![q] = "recv"]
    /\ reply' = [reply EXCEPT ![q] = FALSE]
    /\ UNCHANGED <<round, step, turn, conns, copied, request, wrong, most, honoured>>

(* sendall(): nobody reads it if the Upstream has closed the connection.    *)
Send ==
    /\ step = "next" /\ turn <= Len(Order) /\ Line # NoPort
    /\ request' = IF handler[Line] = "none" THEN request
                  ELSE [request EXCEPT ![Line] = Current]
    /\ step' = "await"
    /\ UNCHANGED <<round, turn, pool, conns, copied, handler, reply, wrong, most,
                   honoured>>

(* recv(): the answer, or the end of the connection.                        *)
Receive ==
    /\ step = "await"
    /\ reply[Line] \/ handler[Line] = "none"
    /\ honoured' = IF reply[Line] THEN honoured \cup {Current} ELSE honoured
    /\ reply' = [reply EXCEPT ![Line] = FALSE]
    /\ turn' = turn + 1 /\ step' = "next"
    /\ UNCHANGED <<round, pool, conns, copied, handler, request, wrong, most>>

(* recv() or sendall() meets a reset, or there is no port or descriptor for *)
(* another connection: the program ends.                                    *)
Raise ==
    /\ \/ step = "await" /\ handler[Line] = "none" /\ ~reply[Line]
       \/ /\ step = "next" /\ turn <= Len(Order) /\ Line = NoPort
          /\ \A q \in Ports : handler[q] # "none" \/ q \in Range(pool)
    /\ step' = "raised"
    /\ UNCHANGED <<round, turn, pool, conns, copied, handler, request, reply,
                   wrong, most, honoured>>

(* dict(up.conns): the ports are copied, the lists are shared.              *)
Copy ==
    /\ step = "next" /\ turn > Len(Order)
    /\ copied' = {q \in Ports : conns[q] # {}}
    /\ step' = "judge"
    /\ UNCHANGED <<round, turn, pool, conns, handler, request, reply, wrong, most,
                   honoured>>

(* The verdicts are judged; the connections are closed once they have been. *)
Judge ==
    /\ step = "judge"
    /\ wrong' = Cardinality({x \in copied \X Agents :
                    x[2] \in conns[x[1]] /\ Installed(x[1]) # {PolicyOf[x[2]]}})
    /\ \E n \in 0..Len(Order) :
          /\ \A q \in copied : Cardinality(conns[q]) <= n
          /\ n = 0 \/ \E q \in copied : Cardinality(conns[q]) = n
          /\ most' = n
    /\ step' = "judged"
    /\ UNCHANGED <<round, turn, pool, conns, copied, handler, request, reply,
                   honoured>>

Close ==
    /\ step = "judged"
    /\ pool' = NoPool /\ step' = "between"
    /\ UNCHANGED <<round, turn, conns, copied, handler, request, reply, wrong,
                   most, honoured>>

------------------------------------------------------------------------------
(* The Upstream: handle(), on the connection from port q.                   *)

Record(q) ==
    /\ handler[q] = "recv" /\ request[q] # Nobody
    /\ conns' = [conns EXCEPT ![q] = @ \cup {request[q]}]
    /\ request' = [request EXCEPT ![q] = Nobody]
    /\ handler' = [handler EXCEPT ![q] = "recorded"]
    /\ UNCHANGED <<round, step, turn, pool, copied, reply, wrong, most, honoured>>

Reply(q) ==
    /\ handler[q] = "recorded"
    /\ reply' = [reply EXCEPT ![q] = TRUE]
    /\ handler' = [handler EXCEPT ![q] = "recv"]
    /\ UNCHANGED <<round, step, turn, pool, conns, copied, request, wrong, most,
                   honoured>>

Handle(q) == Record(q) \/ Reply(q)

(* Six seconds without data, or the driver has closed the connection.       *)
GiveUp(q) ==
    /\ handler[q] = "recv" /\ request[q] = Nobody
    /\ handler' = [handler EXCEPT ![q] = "none"]
    /\ UNCHANGED <<round, step, turn, pool, conns, copied, request, reply, wrong,
                   most, honoured>>

Driver ==
    \/ BeginRound
    \/ \E q \in Ports : Open(q)
    \/ Send
    \/ Receive
    \/ Raise
    \/ Copy
    \/ Judge
    \/ Close

PNext ==
    \/ Driver
    \/ \E q \in Ports : Handle(q) \/ GiveUp(q)

PSpec == PInit /\ [][PNext]_poolingVars

------------------------------------------------------------------------------
(* Properties.                                                              *)

PTypeOK ==
    /\ round \in 0..Len(Schemes)
    /\ step \in {"between", "next", "await", "judge", "judged", "raised"}
    /\ turn \in 1..Len(Order) + 1
    /\ pool \in [Agents \cup Policies -> Ports \cup {NoPort}]
    /\ conns \in [Ports -> SUBSET Agents]
    /\ copied \subseteq Ports
    /\ handler \in [Ports -> {"none", "recv", "recorded", "late"}]
    /\ request \in [Ports -> Agents \cup {Nobody}]
    /\ reply \in [Ports -> BOOLEAN]
    /\ wrong \in Nat /\ most \in Nat
    /\ honoured \subseteq Agents

(* run_scheme(), :108-:132.  Though the driver clears, copies and reads the *)
(* observations without the handlers' lock, it judges exactly the requests  *)
(* that were answered in this round, each on its key's connection: no       *)
(* record is late, and none is left of another round on a port used again.  *)
ObservationsExact ==
    step \in {"judge", "judged"} =>
        /\ copied = {pool[KeyOf(p)] : p \in honoured}
        /\ \A q \in Ports : conns[q] = {p \in honoured : pool[KeyOf(p)] = q}

(* "policy-class pooling keeps ENFORCEMENT and loses ATTRIBUTION", :209.    *)
(* Under both schemes every principal seen meets its own policy, and with a *)
(* connection each a port tells the principal, whatever was lost to         *)
(* timeouts.                                                                *)
EnforcementKept ==
    step = "judged" =>
        /\ wrong = 0
        /\ Scheme = "per_principal" => most <= 1
==============================================================================
