-------------------------------- MODULE Authz --------------------------------
(****************************************************************************)
(* The ext_authz verifier of phase5_report/authz.py.                        *)
(*                                                                          *)
(* A client mints a signed proof bound to one request; the gateway asks the *)
(* verifier about each request it receives.  Every ask runs in a thread of  *)
(* its own (ThreadingHTTPServer), so the steps of verify(), note() and      *)
(* _authz() of different asks interleave.  The replay table and the agent   *)
(* keys live in memory: a restart forgets the table and makes new keys.     *)
(*                                                                          *)
(* Time is in whole seconds.  `now' is real time; time.time() is            *)
(* now + skew, so it may be stepped back and forth while the process runs.  *)
(****************************************************************************)
EXTENDS Integers, FiniteSets

CONSTANTS
    Handlers,       \* threads of the HTTP server
    Jti,            \* identities of the proofs clients mint
    Request,        \* (method, path) pairs
    Shapes,         \* the shapes of proof clients present (subset of AllShapes)
    Ttls,           \* lifetimes clients mint proofs with
    NoProof,        \* a jti that no proof carries yet
    NoToken,        \* a request without the x-agent-wpt header
    WINDOW,         \* seconds the replay table remembers a jti (120 in the code)
    MaxSkew,        \* largest step of the wall clock
    MaxStall,       \* longest a thread stays between decoding and the table
    MaxTime,        \* bound: real time explored
    MaxRequests,    \* bound: asks the gateway sends
    MaxLives        \* bound: lifetimes of the verifier process

(* The first check a proof fails whatever the time and the request, "good"  *)
(* when it fails none.  "bad_act" is an act claim that is not an object:    *)
(* .get on it raises.                                                       *)
AllShapes == {"good", "malformed", "bad_alg", "unknown_agent", "bad_signature",
              "bad_audience", "principal_mismatch", "delegation_mismatch",
              "bad_act"}

Reasons == {"missing_token", "malformed", "bad_alg", "unknown_agent",
            "bad_signature", "expired", "invalid", "request_binding_mismatch",
            "replay", "principal_mismatch", "delegation_mismatch", "ok"}

ProofRecord == [iat: Nat, exp: Nat, req: Request, shape: AllShapes, life: Nat]

Job == [jti: Jti \cup {NoToken}, req: Request]

(* Entry of the replay table for a jti that is not in it.                   *)
Never == -1

ASSUME ConstantsAssumption ==
    /\ IsFiniteSet(Handlers)
    /\ Shapes \subseteq AllShapes
    /\ Ttls \subseteq Nat
    /\ NoProof \notin ProofRecord
    /\ NoToken \notin Jti
    /\ Request # {}
    /\ WINDOW \in Nat /\ MaxSkew \in Nat /\ MaxStall \in Nat
    /\ MaxTime \in Nat /\ MaxRequests \in Nat /\ MaxLives \in Nat

VARIABLES
    now,            \* real time
    skew,           \* error of the wall clock
    life,           \* lifetime of the verifier process, and of its keys
    proof,          \* the proof that carries each jti
    seen,           \* seen_jti: when the table recorded each jti
    pc,             \* where each thread is
    job,            \* the token and request each thread was asked about
    checked,        \* when each thread found its proof fresh
    reason,         \* the reason verify() returned to each thread
    received,       \* asks so far
    allowed,        \* stats["allowed"]
    denied,         \* stats["denied"]
    reasons,        \* stats["reasons"]
    passes,         \* history: how often the table let each jti through
    passAt,         \* history: when it did so last
    grants          \* history: 200 responses given for each jti

clockVars   == <<now, skew>>
statVars    == <<allowed, denied, reasons>>
historyVars == <<passes, passAt, grants>>
threadVars  == <<pc, job, checked, reason>>
vars == <<clockVars, life, proof, seen, threadVars, received, statVars,
          historyVars>>

(* time.time()                                                              *)
Wall == now + skew

NoJob == [jti |-> NoToken, req |-> CHOOSE r \in Request : TRUE]

(* The call returns and takes its local variables with it.                  *)
Return(h) ==
    /\ pc' = [pc EXCEPT ![h] = "idle"]
    /\ job' = [job EXCEPT ![h] = NoJob]
    /\ reason' = [reason EXCEPT ![h] = "ok"]

Init ==
    /\ now = 0
    /\ skew \in 0..MaxSkew
    /\ life = 1
    /\ proof = [j \in Jti |-> NoProof]
    /\ seen = [j \in Jti |-> Never]
    /\ pc = [h \in Handlers |-> "idle"]
    /\ job = [h \in Handlers |-> NoJob]
    /\ checked = [h \in Handlers |-> 0]
    /\ reason = [h \in Handlers |-> "ok"]
    /\ received = 0
    /\ allowed = 0
    /\ denied = 0
    /\ reasons = [r \in Reasons |-> 0]
    /\ passes = [j \in Jti |-> 0]
    /\ passAt = [j \in Jti |-> 0]
    /\ grants = [j \in Jti |-> 0]

------------------------------------------------------------------------------
(* The environment: clocks, clients and the gateway.                        *)

(* Real time advances, unless a thread has been between its expiry check    *)
(* and the replay table for MaxStall seconds already.                       *)
Tick ==
    /\ now < MaxTime
    /\ \A h \in Handlers : pc[h] = "decoded" => now < checked[h] + MaxStall
    /\ now' = now + 1
    /\ UNCHANGED <<skew, life, proof, seen, threadVars, received, statVars,
                   historyVars>>

(* The wall clock is stepped, by NTP or an operator.                        *)
StepClock ==
    /\ skew' \in 0..MaxSkew
    /\ skew' # skew
    /\ UNCHANGED <<now, life, proof, seen, threadVars, received, statVars,
                   historyVars>>

(* mint(): a client signs a proof for request r with the agent key of       *)
(* verifier lifetime k, its own copy of which may be out of date.           *)
Mint(j, r, ttl, shape, k) ==
    /\ proof[j] = NoProof
    /\ proof' = [proof EXCEPT ![j] =
                    [iat |-> Wall, exp |-> Wall + ttl, req |-> r,
                     shape |-> shape, life |-> k]]
    /\ UNCHANGED <<clockVars, life, seen, threadVars, received, statVars,
                   historyVars>>

(* do_GET / do_POST: the gateway asks about request r with the proof j, or  *)
(* without one.  The same proof may be presented any number of times.       *)
Receive(h, j, r) ==
    /\ received < MaxRequests
    /\ pc[h] = "idle"
    /\ j # NoToken => proof[j] # NoProof
    /\ pc' = [pc EXCEPT ![h] = "received"]
    /\ job' = [job EXCEPT ![h] = [jti |-> j, req |-> r]]
    /\ received' = received + 1
    /\ UNCHANGED <<clockVars, life, proof, seen, checked, reason, statVars,
                   historyVars>>

------------------------------------------------------------------------------
(* The checks of verify() up to the request binding, in the order of the    *)
(* code, for a proof p presented with request r to a process whose keys are *)
(* those of lifetime n; "ok" when all of them pass.  The JWT library looks  *)
(* at the signature first, then at iat, exp and aud.                        *)
ChecksBefore(p, r, n) ==
    IF p.shape \in {"malformed", "bad_alg", "unknown_agent"} THEN p.shape
    ELSE IF p.shape = "bad_signature" \/ p.life # n THEN "bad_signature"
    ELSE IF p.iat > Wall THEN "invalid"
    ELSE IF p.exp <= Wall THEN "expired"
    ELSE IF p.shape = "bad_audience" THEN "invalid"
    ELSE IF p.req # r THEN "request_binding_mismatch"
    ELSE "ok"

------------------------------------------------------------------------------
(* Mutated forms of the definitions that follow: what the verifier would be *)
(* with one bug each.  Nothing uses them; a run whose model takes one of    *)
(* them in place of the definition it mutates must fail.                    *)

(* Keys that survive a restart, while the replay table does not.            *)
KeptKeysDecodeReason(p, r) == ChecksBefore(p, r, p.life)

(* The binding to the request is not compared.                              *)
UnboundDecodeReason(p, r) == ChecksBefore(p, p.req, life)

(* Entries are dropped one second early.                                    *)
InclusivePruned ==
    [j \in Jti |-> IF seen[j] <= Wall - WINDOW THEN Never ELSE seen[j]]

(* The first failing check is reported by its own name.                     *)
RawDelegationReason(p) == p.shape

(* The jti is recorded without looking for it in the table.                 *)
UncheckedRecord(h) ==
    LET j == job[h].jti IN
    /\ pc[h] = "decoded"
    /\ seen' = [seen EXCEPT ![j] = Wall]
    /\ passes' = [passes EXCEPT ![j] = @ + 1]
    /\ passAt' = [passAt EXCEPT ![j] = now]
    /\ checked' = [checked EXCEPT ![h] = 0]
    /\ pc' = [pc EXCEPT ![h] = "note"]
    /\ reason' = [reason EXCEPT ![h] = "ok"]
    /\ UNCHANGED <<clockVars, life, proof, job, received, statVars, grants>>

(* A refusal as a replay is answered without being counted.                 *)
UncountedDeny(h) ==
    /\ pc[h] = "count"
    /\ reason[h] # "ok"
    /\ Return(h)
    /\ denied' = IF reason[h] = "replay" THEN denied ELSE denied + 1
    /\ UNCHANGED <<clockVars, life, proof, seen, checked, received, allowed,
                   reasons, historyVars>>

------------------------------------------------------------------------------
(* The verifier.                                                            *)

DecodeReason(p, r) == ChecksBefore(p, r, life)

(* verify() up to the replay table, on what the thread holds.               *)
FirstReason(h) ==
    IF job[h].jti = NoToken THEN "missing_token"
    ELSE DecodeReason(proof[job[h].jti], job[h].req)

(* Mutated form of Decode: the jti is recorded before the request binding   *)
(* is compared.                                                             *)
EagerDecode(h) ==
    /\ pc[h] = "received"
    /\ IF FirstReason(h) = "ok"
       THEN /\ pc' = [pc EXCEPT ![h] = "decoded"]
            /\ checked' = [checked EXCEPT ![h] = now]
            /\ UNCHANGED <<reason, seen>>
       ELSE /\ pc' = [pc EXCEPT ![h] = "note"]
            /\ reason' = [reason EXCEPT ![h] = FirstReason(h)]
            /\ seen' = IF FirstReason(h) = "request_binding_mismatch"
                       THEN [seen EXCEPT ![job[h].jti] = Wall]
                       ELSE seen
            /\ UNCHANGED checked
    /\ UNCHANGED <<clockVars, life, proof, job, received, statVars,
                   historyVars>>

Decode(h) ==
    /\ pc[h] = "received"
    /\ IF FirstReason(h) = "ok"
       THEN /\ pc' = [pc EXCEPT ![h] = "decoded"]
            /\ checked' = [checked EXCEPT ![h] = now]
            /\ UNCHANGED reason
       ELSE /\ pc' = [pc EXCEPT ![h] = "note"]
            /\ reason' = [reason EXCEPT ![h] = FirstReason(h)]
            /\ UNCHANGED checked
    /\ UNCHANGED <<clockVars, life, proof, seen, job, received, statVars,
                   historyVars>>

(* The replay table once entries older than WINDOW have been dropped.       *)
Pruned ==
    [j \in Jti |-> IF seen[j] < Wall - WINDOW THEN Never ELSE seen[j]]

(* The delegation checks, which follow the replay table.                    *)
DelegationReason(p) ==
    IF p.shape \in {"principal_mismatch", "delegation_mismatch"}
    THEN p.shape
    ELSE "ok"

(* The block under jti_lock finds the jti in the table: verify() returns.   *)
Replay(h) ==
    /\ pc[h] = "decoded"
    /\ Pruned[job[h].jti] # Never
    /\ seen' = Pruned
    /\ pc' = [pc EXCEPT ![h] = "note"]
    /\ reason' = [reason EXCEPT ![h] = "replay"]
    /\ checked' = [checked EXCEPT ![h] = 0]
    /\ UNCHANGED <<clockVars, life, proof, job, received, statVars,
                   historyVars>>

(* The block under jti_lock records the jti, and the delegation is checked  *)
(* with the thread's own copy of the claims.  A proof whose act claim is    *)
(* not an object raises there: the thread ends with its jti recorded, no    *)
(* answer given and nothing counted.                                        *)
Record(h) ==
    LET j == job[h].jti IN
    /\ pc[h] = "decoded"
    /\ Pruned[j] = Never
    /\ seen' = [Pruned EXCEPT ![j] = Wall]
    /\ passes' = [passes EXCEPT ![j] = @ + 1]
    /\ passAt' = [passAt EXCEPT ![j] = now]
    /\ checked' = [checked EXCEPT ![h] = 0]
    /\ IF proof[j].shape = "bad_act"
       THEN Return(h)
       ELSE /\ pc' = [pc EXCEPT ![h] = "note"]
            /\ reason' = [reason EXCEPT ![h] = DelegationReason(proof[j])]
            /\ UNCHANGED job
    /\ UNCHANGED <<clockVars, life, proof, received, statVars, grants>>

(* note(reason), under stats_lock.                                          *)
Note(h) ==
    /\ pc[h] = "note"
    /\ pc' = [pc EXCEPT ![h] = "count"]
    /\ reasons' = [reasons EXCEPT ![reason[h]] = @ + 1]
    /\ UNCHANGED <<clockVars, life, proof, seen, job, checked, reason,
                   received, allowed, denied, historyVars>>

(* The rest of _authz(): the second counter, taken under stats_lock again,  *)
(* and the 200 or 403 response.                                             *)
Allow(h) ==
    /\ pc[h] = "count"
    /\ reason[h] = "ok"
    /\ Return(h)
    /\ allowed' = allowed + 1
    /\ grants' = [grants EXCEPT ![job[h].jti] = @ + 1]
    /\ UNCHANGED <<clockVars, life, proof, seen, checked, received, denied,
                   reasons, passes, passAt>>

Deny(h) ==
    /\ pc[h] = "count"
    /\ reason[h] # "ok"
    /\ Return(h)
    /\ denied' = denied + 1
    /\ UNCHANGED <<clockVars, life, proof, seen, checked, received, allowed,
                   reasons, historyVars>>

(* The process is killed and started again: the module level creates new    *)
(* agent keys, an empty replay table and zero counters; the daemon threads  *)
(* die with the old process.                                                *)
Restart ==
    /\ life < MaxLives
    /\ life' = life + 1
    /\ seen' = [j \in Jti |-> Never]
    /\ pc' = [h \in Handlers |-> "idle"]
    /\ job' = [h \in Handlers |-> NoJob]
    /\ reason' = [h \in Handlers |-> "ok"]
    /\ checked' = [h \in Handlers |-> 0]
    /\ allowed' = 0
    /\ denied' = 0
    /\ reasons' = [r \in Reasons |-> 0]
    /\ UNCHANGED <<clockVars, proof, received, historyVars>>

------------------------------------------------------------------------------

MintSome ==
    \E j \in Jti, r \in Request, ttl \in Ttls, s \in Shapes, k \in 1..life :
        Mint(j, r, ttl, s, k)

ReceiveSome ==
    \E h \in Handlers, j \in Jti \cup {NoToken}, r \in Request : Receive(h, j, r)

ThreadStep(h) ==
    \/ Decode(h)
    \/ Replay(h)
    \/ Record(h)
    \/ Note(h)
    \/ Allow(h)
    \/ Deny(h)

Next ==
    \/ Tick
    \/ StepClock
    \/ MintSome
    \/ ReceiveSome
    \/ \E h \in Handlers : ThreadStep(h)
    \/ Restart

Spec == Init /\ [][Next]_vars

(* The operating system schedules every thread of the server, and none of   *)
(* them waits for anything but the two short critical sections.             *)
FairSpec == Spec /\ \A h \in Handlers : WF_vars(ThreadStep(h))

------------------------------------------------------------------------------
(* Properties.                                                              *)

TypeOK ==
    /\ now \in Nat
    /\ skew \in 0..MaxSkew
    /\ life \in Nat \ {0}
    /\ proof \in [Jti -> ProofRecord \cup {NoProof}]
    /\ seen \in [Jti -> Nat \cup {Never}]
    /\ pc \in [Handlers -> {"idle", "received", "decoded", "note", "count"}]
    /\ job \in [Handlers -> Job]
    /\ checked \in [Handlers -> Nat]
    /\ reason \in [Handlers -> Reasons]
    /\ received \in Nat
    /\ allowed \in Nat
    /\ denied \in Nat
    /\ reasons \in [Reasons -> Nat]
    /\ passes \in [Jti -> Nat]
    /\ passAt \in [Jti -> Nat]
    /\ grants \in [Jti -> Nat]

(* One signed proof yields at most one 200 response, whatever number of     *)
(* copies of it is delivered, to however many threads at once, before or    *)
(* after a restart, and however the wall clock is stepped (verify()).  It   *)
(* needs proofs that live short enough for the table's window.              *)
AtMostOnce == \A j \in Jti : grants[j] <= 1

ShortLived ==
    \A ttl \in Ttls : ttl + MaxStall + 2 * MaxSkew <= WINDOW

(* Even for proofs that outlive the window, the table lets the same jti     *)
(* through twice only when its first passage is about to leave the window   *)
(* (the pruning loop of verify()).                                          *)
WindowSpacing ==
    [][\A j \in Jti :
          passes[j] > 0 /\ passes'[j] > passes[j]
             => now + MaxSkew > passAt[j] + WINDOW]_vars

(* A thread says "replay" only of a proof that passed every check before    *)
(* the table once already: a copy that was expired, misbound or misaddressed*)
(* never uses up the proof (order of the checks in verify()).               *)
NoSpuriousReplay ==
    \A h \in Handlers :
        pc[h] \in {"note", "count"} /\ reason[h] = "replay"
            => passes[job[h].jti] > 0

(* A thread that is about to answer 200 holds a proof with nothing wrong    *)
(* with it, signed with a key of this very process, for this very request   *)
(* (verify(), and the keys being made at start).                            *)
OkIsGenuine ==
    \A h \in Handlers :
        pc[h] \in {"note", "count"} /\ reason[h] = "ok"
            => /\ job[h].jti \in Jti
               /\ proof[job[h].jti] # NoProof
               /\ proof[job[h].jti].shape = "good"
               /\ proof[job[h].jti].life = life
               /\ proof[job[h].jti].req = job[h].req

(* Threads between note() and the second counter, by what they noted.       *)
Counting(rs) == {h \in Handlers : pc[h] = "count" /\ reason[h] \in rs}

(* What stats["reasons"] says of refusals, whatever the reason.             *)
Refusals ==
    reasons["missing_token"] + reasons["malformed"] + reasons["bad_alg"]
    + reasons["unknown_agent"] + reasons["bad_signature"] + reasons["expired"]
    + reasons["invalid"] + reasons["request_binding_mismatch"]
    + reasons["replay"] + reasons["principal_mismatch"]
    + reasons["delegation_mismatch"]

(* At every moment /__stats may be read, its two views of the traffic       *)
(* differ by exactly the threads between note() and the second counter.     *)
StatsBalance ==
    /\ reasons["ok"] = allowed + Cardinality(Counting({"ok"}))
    /\ Refusals = denied + Cardinality(Counting(Reasons \ {"ok"}))

(* When some thread has found a good proof fresh and rightly bound, the     *)
(* proof is honoured by one of the threads that hold a copy, unless the     *)
(* process restarts first: concurrent copies cannot all be refused.         *)
SomeCopyHonoured ==
    \A j \in Jti, n \in 1..MaxLives :
        (/\ life = n
         /\ \E h \in Handlers : pc[h] = "decoded" /\ job[h].jti = j
         /\ proof[j] # NoProof
         /\ proof[j].shape = "good")
            ~> (grants[j] > 0 \/ life > n)

------------------------------------------------------------------------------
(* The verifier implements ProofOnce: a proof is live while the keys it was *)
(* signed with are in use and it has not been honoured.                     *)
LiveProofs ==
    {j \in Jti : proof[j] # NoProof /\ proof[j].life = life /\ grants[j] = 0}

Promise == INSTANCE ProofOnce WITH live <- LiveProofs, uses <- grants

(* Every step of the verifier is a step its promise allows, or none.        *)
ImplementsProofOnce == Promise!Spec
==============================================================================
