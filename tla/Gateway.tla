------------------------------- MODULE Gateway -------------------------------
(****************************************************************************)
(* The gateway and the protected resource of phase3_report/                 *)
(* demux_experiment.py: a verifier that keeps a pool of connections, and    *)
(* the Upstream that records which principals appear on each of them.       *)
(*                                                                          *)
(* Several callers may be inside Gateway.handle() at once (the class holds  *)
(* a lock for them); only the pool is under the lock, the exchange on the   *)
(* connection is not.  The Upstream serves each connection in a thread of   *)
(* its own, which gives up on a connection that stays silent for 6 seconds. *)
(* The gateway never looks at what it receives and never drops a connection *)
(* from the pool.                                                           *)
(****************************************************************************)
EXTENDS Naturals, FiniteSets, Sequences, Functions

CONSTANTS
    Callers,        \* threads that call Gateway.handle()
    Principals,     \* PRINCIPALS
    Policy,         \* the verdict each principal is entitled to
    Mode,           \* "shared" or "per_principal"
    UseMark,        \* whether connections are stamped with SO_MARK
    Conns,          \* connections, named by the gateway's local port
    NoCaller, NoConn, Nobody,
    MaxCalls        \* bound: calls of handle()

ASSUME GatewayAssumption ==
    /\ Mode \in {"shared", "per_principal"}
    /\ UseMark \in BOOLEAN
    /\ MaxCalls \in Nat
    /\ NoCaller \notin Callers
    /\ NoConn \notin Conns
    /\ Nobody \notin Principals
    /\ "shared" \notin Principals
    /\ DOMAIN Policy = Principals

VARIABLES
    pool,           \* pool: connection of each key
    lock,           \* holder of Gateway.lock
    pc, who, conn,  \* each call: its step, principal and connection
    owner,          \* principal for which each connection was made
    mark,           \* SO_MARK of each connection, as the principal it stands for
    toUp,           \* requests sent and not yet read by the Upstream
    replies,        \* replies sent and not yet read by the gateway
    upstream,       \* the Upstream's thread for each connection
    reset,          \* the peer may have answered a late request with a RST
    log,            \* Upstream.conns: principals recorded on each connection
    lports,         \* lport_of: ports handle() reported for each principal
    calls,          \* calls of handle() so far
    answered        \* history: calls on each connection that read a reply

callVars == <<pc, who, conn>>
connVars == <<owner, mark, toUp, replies, upstream, reset, log>>
vars == <<pool, lock, callVars, connVars, lports, calls, answered>>

(* _get_conn: the key under which a connection is pooled.                   *)
Keys == Principals \cup {"shared"}

(* Mutated form of KeyOf: any pooled connection will do.                    *)
GreedyKeyOf(p) ==
    IF Mode = "shared" THEN "shared"
    ELSE IF \E q \in Principals : pool[q] # NoConn
         THEN CHOOSE q \in Principals : pool[q] # NoConn
         ELSE p

KeyOf(p) == IF Mode = "shared" THEN "shared" ELSE p

Init ==
    /\ pool = [k \in Keys |-> NoConn]
    /\ lock = NoCaller
    /\ pc = [a \in Callers |-> "idle"]
    /\ who = [a \in Callers |-> Nobody]
    /\ conn = [a \in Callers |-> NoConn]
    /\ owner = [c \in Conns |-> Nobody]
    /\ mark = [c \in Conns |-> Nobody]
    /\ toUp = [c \in Conns |-> <<>>]
    /\ replies = [c \in Conns |-> 0]
    /\ upstream = [c \in Conns |-> "none"]
    /\ reset = [c \in Conns |-> FALSE]
    /\ log = [c \in Conns |-> <<>>]
    /\ lports = [p \in Principals |-> {}]
    /\ calls = 0
    /\ answered = [c \in Conns |-> 0]

(* The call is over, whether it returned or raised.                         *)
Leave(a) ==
    /\ pc' = [pc EXCEPT ![a] = "idle"]
    /\ who' = [who EXCEPT ![a] = Nobody]
    /\ conn' = [conn EXCEPT ![a] = NoConn]

(* Mutated form of Report: the connection is read once the call is over.    *)
LateReport(a) ==
    /\ Leave(a)
    /\ lports' = [lports EXCEPT ![who[a]] = @ \cup {conn'[a]}]

(* It returned the local port of its connection, which run_condition notes. *)
Report(a) ==
    /\ Leave(a)
    /\ lports' = [lports EXCEPT ![who[a]] = @ \cup {conn[a]}]

------------------------------------------------------------------------------
(* Mutated forms of the definitions that follow, one bug each.              *)

(* The pool is looked up without the lock.                                  *)
UnlockedLookup(a) ==
    LET k == KeyOf(who[a]) IN
    /\ pc[a] = "verified"
    /\ IF pool[k] = NoConn
       THEN /\ pc' = [pc EXCEPT ![a] = "connecting"]
            /\ UNCHANGED conn
       ELSE /\ pc' = [pc EXCEPT ![a] = "connected"]
            /\ conn' = [conn EXCEPT ![a] = pool[k]]
    /\ UNCHANGED <<pool, lock, who, connVars, lports, calls, answered>>

(* No mark is stamped.                                                      *)
UnstampedMark(p) == Nobody

(* The line is answered while it is recorded, and again afterwards.         *)
DoubleReplyRecord(c) ==
    /\ upstream[c] = "serving"
    /\ toUp[c] # <<>>
    /\ upstream' = [upstream EXCEPT ![c] = "replying"]
    /\ log' = [log EXCEPT ![c] = Append(@, Head(toUp[c]))]
    /\ toUp' = [toUp EXCEPT ![c] = Tail(@)]
    /\ replies' = [replies EXCEPT ![c] = @ + 1]
    /\ UNCHANGED <<pool, lock, callVars, owner, mark, reset, lports, calls,
                   answered>>

(* The Upstream waits without a timeout while a caller waits for it.        *)
PatientIdleTimeout(c) ==
    /\ upstream[c] = "serving"
    /\ toUp[c] = <<>>
    /\ \A a \in Callers : conn[a] # c
    /\ upstream' = [upstream EXCEPT ![c] = "closed"]
    /\ UNCHANGED <<pool, lock, callVars, owner, mark, toUp, replies, reset, log,
                   lports, calls, answered>>

------------------------------------------------------------------------------
(* Gateway.handle().                                                        *)

(* verify_proof: a proof made for this request passes, any other is         *)
(* rejected and the call is over.                                           *)
Verify(a, p, genuine) ==
    /\ calls < MaxCalls
    /\ pc[a] = "idle"
    /\ calls' = calls + 1
    /\ IF genuine
       THEN /\ pc' = [pc EXCEPT ![a] = "verified"]
            /\ who' = [who EXCEPT ![a] = p]
       ELSE UNCHANGED <<pc, who>>
    /\ UNCHANGED <<pool, lock, conn, connVars, lports, answered>>

(* _get_conn takes the lock and looks in the pool.  It keeps the lock while *)
(* it makes a connection.                                                   *)
Lookup(a) ==
    LET k == KeyOf(who[a]) IN
    /\ pc[a] = "verified"
    /\ lock = NoCaller
    /\ IF pool[k] = NoConn
       THEN /\ pc' = [pc EXCEPT ![a] = "connecting"]
            /\ lock' = a
            /\ UNCHANGED conn
       ELSE /\ pc' = [pc EXCEPT ![a] = "connected"]
            /\ conn' = [conn EXCEPT ![a] = pool[k]]
            /\ UNCHANGED lock
    /\ UNCHANGED <<pool, who, connVars, lports, calls, answered>>

(* The mark _new_conn stamps on the socket it makes for p.                  *)
Stamp(p) == IF UseMark THEN p ELSE Nobody

(* _new_conn succeeds, from a port no other socket has.                     *)
Connect(a, c) ==
    /\ pc[a] = "connecting"
    /\ upstream[c] = "none"
    /\ pool' = [pool EXCEPT ![KeyOf(who[a])] = c]
    /\ owner' = [owner EXCEPT ![c] = who[a]]
    /\ mark' = [mark EXCEPT ![c] = Stamp(who[a])]
    /\ upstream' = [upstream EXCEPT ![c] = "serving"]
    /\ conn' = [conn EXCEPT ![a] = c]
    /\ pc' = [pc EXCEPT ![a] = "connected"]
    /\ lock' = NoCaller
    /\ UNCHANGED <<who, toUp, replies, reset, log, lports, calls, answered>>

(* It raises; the lock is released and the pool left as it was.             *)
ConnectFails(a) ==
    /\ pc[a] = "connecting"
    /\ lock' = NoCaller
    /\ Leave(a)
    /\ UNCHANGED <<pool, connVars, lports, calls, answered>>

(* sendall on a connection the Upstream still reads.                        *)
Send(a) ==
    LET c == conn[a] IN
    /\ pc[a] = "connected"
    /\ upstream[c] # "closed"
    /\ toUp' = [toUp EXCEPT ![c] = Append(@, who[a])]
    /\ pc' = [pc EXCEPT ![a] = "sent"]
    /\ UNCHANGED <<pool, lock, who, conn, owner, mark, replies, upstream, reset,
                   log, lports, calls, answered>>

(* On one the Upstream has closed, sendall succeeds and the request is lost *)
(* until the peer's RST arrives.                                            *)
SendLost(a) ==
    LET c == conn[a] IN
    /\ pc[a] = "connected"
    /\ upstream[c] = "closed"
    /\ reset' = [reset EXCEPT ![c] = TRUE]
    /\ pc' = [pc EXCEPT ![a] = "sent"]
    /\ UNCHANGED <<pool, lock, who, conn, owner, mark, toUp, replies, upstream,
                   log, lports, calls, answered>>

(* After the RST it raises; the connection stays in the pool.               *)
SendRaises(a) ==
    /\ pc[a] = "connected"
    /\ reset[conn[a]]
    /\ Leave(a)
    /\ UNCHANGED <<pool, lock, connVars, lports, calls, answered>>

(* recv(4096) returns some of the replies that are waiting, whoever's they  *)
(* are; the call returns.                                                   *)
Receive(a) ==
    LET c == conn[a] IN
    /\ pc[a] = "sent"
    /\ \E n \in 1..replies[c] : replies' = [replies EXCEPT ![c] = @ - n]
    /\ answered' = [answered EXCEPT ![c] = @ + 1]
    /\ Report(a)
    /\ UNCHANGED <<pool, lock, owner, mark, toUp, upstream, reset, log, calls>>

(* recv on a connection the Upstream has closed gives b"", and the call     *)
(* returns as if it had been answered.                                      *)
ReceiveNothing(a) ==
    LET c == conn[a] IN
    /\ pc[a] = "sent"
    /\ replies[c] = 0
    /\ upstream[c] = "closed"
    /\ Report(a)
    /\ UNCHANGED <<pool, lock, connVars, calls, answered>>

(* Or, after a RST, recv raises.                                            *)
ReceiveRaises(a) ==
    LET c == conn[a] IN
    /\ pc[a] = "sent"
    /\ replies[c] = 0
    /\ reset[c]
    /\ Leave(a)
    /\ UNCHANGED <<pool, lock, connVars, lports, calls, answered>>

------------------------------------------------------------------------------
(* Upstream.handle(), one thread for each connection.                       *)

(* A line is read and its principal recorded, under Upstream.lock.          *)
Record(c) ==
    /\ upstream[c] = "serving"
    /\ toUp[c] # <<>>
    /\ log' = [log EXCEPT ![c] = Append(@, Head(toUp[c]))]
    /\ toUp' = [toUp EXCEPT ![c] = Tail(@)]
    /\ upstream' = [upstream EXCEPT ![c] = "replying"]
    /\ UNCHANGED <<pool, lock, callVars, owner, mark, replies, reset, lports,
                   calls, answered>>

(* The reply follows, outside the lock.                                     *)
Reply(c) ==
    /\ upstream[c] = "replying"
    /\ replies' = [replies EXCEPT ![c] = @ + 1]
    /\ upstream' = [upstream EXCEPT ![c] = "serving"]
    /\ UNCHANGED <<pool, lock, callVars, owner, mark, toUp, reset, log, lports,
                   calls, answered>>

(* Nothing came for 6 seconds: the thread leaves its loop and closes.       *)
IdleTimeout(c) ==
    /\ upstream[c] = "serving"
    /\ toUp[c] = <<>>
    /\ upstream' = [upstream EXCEPT ![c] = "closed"]
    /\ UNCHANGED <<pool, lock, callVars, owner, mark, toUp, replies, reset, log,
                   lports, calls, answered>>

(* The same while requests are on their way: they are lost, and answered    *)
(* with a RST.                                                              *)
LateTimeout(c) ==
    /\ upstream[c] = "serving"
    /\ toUp[c] # <<>>
    /\ upstream' = [upstream EXCEPT ![c] = "closed"]
    /\ toUp' = [toUp EXCEPT ![c] = <<>>]
    /\ reset' = [reset EXCEPT ![c] = TRUE]
    /\ UNCHANGED <<pool, lock, callVars, owner, mark, replies, log, lports,
                   calls, answered>>

------------------------------------------------------------------------------
CallerStep(a) ==
    \/ Lookup(a)
    \/ \E c \in Conns : Connect(a, c)
    \/ ConnectFails(a)
    \/ Send(a)
    \/ SendLost(a)
    \/ SendRaises(a)
    \/ Receive(a)
    \/ ReceiveNothing(a)
    \/ ReceiveRaises(a)

UpstreamStep(c) ==
    \/ Record(c)
    \/ Reply(c)
    \/ IdleTimeout(c)
    \/ LateTimeout(c)

Next ==
    \/ \E a \in Callers, p \in Principals, genuine \in BOOLEAN :
          Verify(a, p, genuine)
    \/ \E a \in Callers : CallerStep(a)
    \/ \E c \in Conns : UpstreamStep(c)

Spec == Init /\ [][Next]_vars

(* Threads run, and a thread of the Upstream that hears nothing more times  *)
(* out.                                                                     *)
FairSpec ==
    /\ Spec
    /\ \A a \in Callers : WF_vars(CallerStep(a))
    /\ \A c \in Conns : WF_vars(Record(c)) /\ WF_vars(Reply(c))
    /\ \A c \in Conns : WF_vars(IdleTimeout(c))

------------------------------------------------------------------------------
(* l4_enforce(): what an enforcer that sees only ports makes of the log.    *)

Distinct(c) == Range(log[c])

Unambiguous(c) == \E p \in Principals : Distinct(c) = {p}

(* run_condition installs one policy for a port; which one, when several    *)
(* principals reported it, depends on the order it goes through them.       *)
Installable(c) == {Policy[p] : p \in {q \in Principals : c \in lports[q]}}

Correct(c, policy) ==
    \E p \in Principals : Distinct(c) = {p} /\ policy = Policy[p]

------------------------------------------------------------------------------
(* Properties.                                                              *)

TypeOK ==
    /\ pool \in [Keys -> Conns \cup {NoConn}]
    /\ lock \in Callers \cup {NoCaller}
    /\ pc \in [Callers -> {"idle", "verified", "connecting", "connected", "sent"}]
    /\ who \in [Callers -> Principals \cup {Nobody}]
    /\ conn \in [Callers -> Conns \cup {NoConn}]
    /\ owner \in [Conns -> Principals \cup {Nobody}]
    /\ mark \in [Conns -> Principals \cup {Nobody}]
    /\ toUp \in [Conns -> Seq(Principals)]
    /\ replies \in [Conns -> Nat]
    /\ upstream \in [Conns -> {"none", "serving", "replying", "closed"}]
    /\ reset \in [Conns -> BOOLEAN]
    /\ log \in [Conns -> Seq(Principals)]
    /\ lports \in [Principals -> SUBSET Conns]
    /\ calls \in Nat
    /\ answered \in [Conns -> Nat]

(* However many callers miss the pool at once, and whatever fails, a key    *)
(* never has two connections (_get_conn connects under its lock).           *)
OneConnPerKey ==
    \A c, d \in Conns :
        /\ owner[c] # Nobody
        /\ owner[d] # Nobody
        /\ KeyOf(owner[c]) = KeyOf(owner[d])
        => c = d

(* With a pool keyed by verified principal, every connection the Upstream   *)
(* observed carries one principal, and whichever policy was installed for   *)
(* its port is that principal's: the enforcer is right about it (condition  *)
(* D2 of the experiment).                                                   *)
PerPrincipalSufficient ==
    Mode = "per_principal" =>
        \A c \in Conns :
            log[c] # <<>> =>
                /\ Unambiguous(c)
                /\ \A policy \in Installable(c) : Correct(c, policy)

(* There, too, the mark the kernel sees on a connection is that of every    *)
(* principal recorded on it (_new_conn).                                    *)
MarkTellsPrincipal ==
    Mode = "per_principal" /\ UseMark =>
        \A c \in Conns : \A p \in Distinct(c) : mark[c] = p

(* No more calls on a connection were answered than requests recorded on    *)
(* it, although a call may read the answer to another's request             *)
(* (Upstream.handle records before it replies).                             *)
AnswersAreEarned ==
    \A c \in Conns : answered[c] + replies[c] <= Len(log[c])

(* Every call of handle() ends, even when another caller has read its       *)
(* reply: the Upstream gives up on the silent connection (Upstream.handle). *)
CallReturns == \A a \in Callers : pc[a] # "idle" ~> pc[a] = "idle"
==============================================================================
