# Verification of the agent identity and enforcement experiments

The repository studies how the identity of an AI agent, proved at the application layer, can be
enforced at the network layer. Its reports rest on a number of small programs: a verifier of
per-request proofs, a gateway that pools connections, two eBPF programs that refuse or admit
`connect()`, two passive observers, a workload attestor and several experiments around them. These
programs are short, but they run with many threads, on many CPUs, through timeouts and restarts,
and the conclusions of the reports depend on them doing what they appear to do. This directory
holds TLA+ models of them, what TLC checks of the models on small instances, and what TLAPS proves
of them for every instance.

## 1. Inventory

| Part | Source | State it keeps | Operations | What makes it correct |
|---|---|---|---|---|
| ext_authz verifier | `phase5_report/authz.py` | agent keys, replay table `seen_jti`, counters; a thread per ask | `mint`, `verify`, `note`, `_authz`, `/__stats`, restart | a proof is honoured at most once, for the request it names; a proof is used up only by a copy that passed every check; the counters add up |
| gateway and Upstream | `phase3_report/demux_experiment.py` | connection pool and its lock; per connection, bytes on their way, a serving thread, the log of principals | `handle`, `_get_conn`, `_new_conn`, `Upstream.handle` and its timeout | one connection for each key; the answers stand for requests; every call ends; a pool keyed by principal lets ports and marks identify principals |
| 5-tuple enforcer | same file, `l4_enforce`, `run_condition` | installed policy of each port | install, judge | right about each connection, when that is possible |
| verdict channel datapath | `phase5_report/enforce.bpf.c` | verdict map, counters, ring buffer | `connect()` hook; writes of userspace | a verdict left alone is the one applied; counters and events agree with decisions |
| policy-class datapath | `phase6b_report/policy_enforce.bpf.c` | policy map, carrier and default in `cfg`, counters | `connect()` hook; configuration | the verdict applied was in force during the call; default-deny |
| pooling experiment | `phase3_report/eqclass_experiment.py` | pool of one run, log and threads of the Upstream | `run_scheme`, `Upstream.handle` | it judges what was answered, all of it and nothing else; policy-class pooling keeps enforcement, gives up attribution |
| attribution analysis | `phase4_report/attribution_experiment.py` | access log | `load_log`, `analyse`, `audit_completeness` | an event that counts as exact can have been caused by one principal only |
| HTTP/2 observer | `Phase4B_report/h2_observer.py` | a parser per connection; two pumps each | `feed`, `pump`, `dump` | the report does not depend on how the bytes are cut; bytes are forwarded unchanged |
| QUIC observer | `phase5_report/quic_observer.py` | header counters; a socket and a thread per client | `parse`, `relay`, `pump_back`, `dump` | each packet counted once; answers go to the client they belong to |
| attestor | `phase1 test/attestor.py` | none; it reads `/proc` | `attest` | the selectors describe one process at one time |
| socket-anchor experiment | `phase2_report/falsify_socket_anchor.py` | observations by port | F1 to F5 | observations are those of the socket under test; no record merges two requests |
| phase 1 driver | `phase1 test/run_experiment.py` | children, report files, results | `run_condition` | selectors, reports and flows are those of the child a label was spawned as |
| route tables | `phase6_report/route_scale.py` | none | two generators, a timing loop | both tables send a principal to the same cluster |
| policy classes | `phase6b_report/policy_class.py` | none | generators, `count` | network classes never outnumber full ones, and are bounded by the templates |
| capacity and benchmark | `phase6_report/capacity.py`, `phase6b_report/ed25519_bench.c` | none | timing loops | measurement only |
| proxy configurations | `phase4_report/envoy_partition.yaml`, `Phase4B_report/fs_tls.yaml` | none | data for Envoy | |

How they interact. A client mints a proof; the proxy asks the verifier about each request and, on a
200, sends it on over a connection it takes from a pool; the connection is made by `connect()`,
where the datapath looks up a verdict that userspace wrote. The verifier thus decides for requests,
the datapath for connections, and the pool's key is what ties the two together: that is why the
gateway's model is about which principals meet on one connection. The observers sit on the path of
such connections, and the attribution analysis reads the proxy's log of them. No program of the
repository calls another one directly; each takes the other side from the network, the kernel or a
file.

The behaviours that are hard, by part: threads of one HTTP server between a check and a table, a
wall clock that is stepped, a restart that forgets one half of the state (verifier); callers that
share a socket, a lock held through a `connect()` that may fail, an idle timeout that races a
request, a dead connection that stays pooled (gateway); a map rewritten and its slots reused under
a running program, an expiry between two reads, a full ring buffer, counters read half way
(datapaths); dictionaries a thread fills while another one reads them without its lock (observers,
pooling); ports and process ids that the kernel gives out again while lists keyed by them are kept
(pooling, sockets, attestor). `PROJECT.json` lists each with its line and the properties that would catch it.

## 2. Modules

| Module | Models | Runs and proofs |
|---|---|---|
| `Authz` | `authz.py` | `MCAuthz` with two configurations; `AuthzProofs` |
| `ProofOnce` | what the verifier promises | implemented by `Authz` |
| `Gateway` | `Gateway`, `Upstream`, `l4_enforce` of `demux_experiment.py` | `MCGateway` with two configurations; `GatewayProofs` |
| `VerdictChannel` | `enforce.bpf.c` | `MCVerdictChannel`; `VerdictChannelProofs` |
| `QuicObserver` | `quic_observer.py` | `MCQuicObserver` with four configurations; `QuicObserverProofs` |
| `H2Observer` | `h2_observer.py` | `MCH2Observer`; `H2ObserverProofs` |
| `PolicyEnforce` | `policy_enforce.bpf.c` | `MCStandalone`; `PolicyProofs` |
| `Pooling` | `eqclass_experiment.py` | `MCStandalone`; `PolicyProofs` |
| `PolicyClasses` | `policy_class.py` | `MCStandalone`; `PolicyProofs` |
| `SocketAnchor` | `falsify_socket_anchor.py` | `MCStandalone`; `IdentityProofs` |
| `CoResident` | `run_experiment.py` over `attestor.py` | `MCStandalone`; `IdentityProofs` |
| `Attribution` | `attribution_experiment.py` | `MCStandalone`, `MCAttribution`; `IdentityProofs` |

The last six are programs that run by themselves. `MCStandalone` extends all of them: its variables
are theirs, `program` says which one a behaviour is of, and the variables of the others stay as they
begin. Nothing is composed by this; it is six instances in one run, and each module has a
specification of its own, which is what the theorems are about. `StandaloneProofs` shows that a
behaviour of the joint specification is one of the program it chose. `PolicyProofs` (policy classes:
the datapath, the counting, the pooling) and `IdentityProofs` (who it was: sockets, processes,
requests) hold the proofs of three modules each, in parts that do not use one another.

### Authz

`proof` holds what each `jti` stands for: its lifetime, the request it names, the process lifetime
whose key signed it, and a shape, the first check it fails apart from time and request. A token's
text is not modelled, only what `verify` can tell of it. `seen` is `seen_jti`, `pc` the place of
each thread. One ask takes the steps

    Receive -> Decode -> Replay or Record -> Note -> Allow or Deny

and these are the steps between which the code releases a lock or touches shared state.
`Decode` is everything before `jti_lock` (it reads no shared state but the clock and the keys);
`Replay` and `Record` are the critical section, with the pruning loop, and what follows it up to
the return; `Note` and `Allow`/`Deny` are the two critical sections under `stats_lock`. `Record`
ends the thread at once for a proof whose `act` claim is not an object, because line 135 raises.
`Restart` empties the table and the counters, ends the threads and starts a new lifetime of the
keys, which line 37 generates at every start.

Time is in seconds. `now` is real time and `now + skew` is `time.time()`; `StepClock` moves the
skew between 0 and `MaxSkew`. In the code a thread may stall anywhere; the model lets it stay between
its expiry check and the replay table for `MaxStall` seconds at most, because no bound on `ttl`
keeps a replay out when it may stay there for ever. `HonouredOnce` states the bound that results:

    ttl + MaxStall + 2 * MaxSkew <= WINDOW        (ShortLived)

The code mints with `ttl` 30 and prunes after 120 seconds, which leaves 90 seconds for a stall and
for the clock. A proof minted with a longer lifetime (`mint` takes any) is covered by
`WindowSpacing` only. The decoding library is outside `src/`: what it checks and in which order
(signature, issue time, expiry, audience) is taken from how `verify` maps its exceptions to reasons.
A proof without a `jti` claim is not modelled; `mint` always sets one.

`ProofOnce` is the promise: a proof is issued, may be spent once, and may be written off with
others at a restart. `Authz` implements it with `uses` the number of 200 answers for a `jti` and
`live` the unspent proofs signed with the keys in use.

### Gateway

One call of `handle` is `Verify`, `Lookup` (with `Connect` or `ConnectFails` when the key is not in
the pool; the lock is held in between, as `_get_conn` holds it), a send and a receive. The bytes on
a connection are two queues, `toUp` and `replies`; the replies are all alike, so a number is enough,
and `recv(4096)` takes any number of those waiting. The Upstream's thread for a connection records a
line and then replies, in two steps, because it releases its lock in between. `IdleTimeout` is its
6-second timeout; it is untimed, so it may race with everything, and `LateTimeout` is the same with a
request already in the socket. A connection the Upstream closed stays in the pool (nothing in
`Gateway` takes it out), so later calls send into it: the first write succeeds, `recv` gives `b""`
or raises, and after the peer's reset a write raises; the model allows each of these when TCP does.
`lports` is what `run_condition` gathers, and `Installable` the policies it may install for a port.

The repository calls `handle` from one thread. The class holds a lock for more, and D1 speaks of
principals multiplexed on one connection, so the model has several callers.

Not modelled: D3 and D4 (measurements), `close()`, the listening socket of the Upstream.

### VerdictChannel

`pc`, `dest`, `slot` and `act` are the locals of the program on each CPU, and its steps are its
accesses to shared memory: the lookup, the expiry test, the read of the action with the hit counter,
the ring buffer, and each counter. `bump(3)` and `bump(4)` belong to the step of the branch that
calls them. The map belongs to the kernel: a hash map with preallocated elements links a free element
for an update and frees the old one at once, so a program's pointer may end up in an element that now
belongs to another destination. `Update`, `Delete`, `Consume` and `Tick` stand for userspace and the
kernel's clock. `steady` records, for each program, the verdict in force at its lookup until that
verdict changes or expires; it is a history variable.

### QuicObserver

A datagram is what `parse` can tell of it: nothing in it, a short header, a long header cut before
its ids, or a long header with two ids, either of which may be empty; a source id may be missing.
The bytes, the times and the version numbers are left out. The main thread (`pc`) takes a datagram
and counts it, parses it, forwards it, and may then be due for a report; each client's thread
(`pump`) takes an answer from its socket and counts it, parses it, sends it on. These are the
critical sections and the calls between them. `inbox` is the queue of a client's socket;
`PumpTimeout` ends a thread whose socket was silent for 30 seconds, and the socket stays in
`upstream`, as in the code. The report is copied under the lock and then walked without it:
`dict(state)` copies one level, so `WalkDcids` and `WalkScids` iterate over dictionaries that
`parse` still fills, and `DumpRaises` is the error Python raises when one of them grew meanwhile.
The other two dictionaries cannot grow during the walk: only the main thread adds client addresses,
and one version is modelled. `answered`, `delivered` and `empties` are history variables.

### H2Observer

The bytes of a stream are offsets, and what is in the parser's buffer lies between `bytes_parsed`
and `bytes_total`; a stream is whether it starts with the preface, the frames in it and where they
end, and its length, which may cut a frame short. `UpRecv` takes any number of bytes that are still
to come, so TLC tries every way to cut a stream. `feed` is one step for each field that the report
may see change (`FeedCount` to `FeedReturns`). A connection has the thread of `handle` (`conn`) and
two pumps (`up`, with the parser, and `down`); `gone` are the ends that peers closed and `shut` the
sockets the pumps shut down in their `finally` clause, one after the other. `dump` is read
expression by expression (`ReadPreface` to `ReadEvents`), every field of an entry in the order of
the code, under a lock that keeps only `Register` out. `bytes_total` and `bytes_parsed` are read on
their own and once more for the fraction, of which the model keeps whether it is zero, at most one
or more; that it is rounded is left out, and so are the times of the events. `MaxRecv` stands for
the 65536 of `recv`.

### PolicyEnforce

As in `VerdictChannel`, the steps are accesses to shared memory on each CPU: the carrier (`Enter`),
the default (`ReadDefault`), the lookup (`Hit`, `Miss`), the action behind the pointer
(`TakeVerdict`), and the counters. `Update` and `Delete` write rules, and slots are reused;
`SetDefault` and `SetCarrier` write the two elements of `cfg`. Cgroup ids and marks are numbers of
the same type, as in `struct policy_key`, so a rule written for one may be found with the other. The
locals of a program are gone when it returns. `seen` holds the verdicts that were in force since a
call began, under the identity the socket then had, and `noise` what was written meanwhile. `lent`
is set when the slot a call has found is given to another key before the call reads it: it is the
verdict of that key, which the code then takes (lines 120 to 122). The three are history variables.
The hits of a rule are left out, since nothing reads them.

### Pooling

`step` is the driver: it opens a connection for a key it meets for the first time, sends, waits,
and at the end copies `up.conns` and judges. `handler`, `request` and `reply` are the Upstream's
thread and the two directions of each port. A thread that has been silent for 6 seconds gives up
(`GiveUp`), also between a round and the next; the connection stays in the driver's pool, the next
request on it is lost, and `recv` returns nothing or raises (`Raise`). A port is used again once
neither side has it. `copied` is the copy, one level deep: the ports are fixed by it and the lists
are not.

### SocketAnchor

The experiments of `main` run in order (`exp`) against one server, which keeps one list of
observations for all of them. A request is two pieces on the wire, its start, with the principal,
and its end; `EndOf` and `Claimed` are the parsing of the buffer. The threads of F2 hold the lock
from the first piece to the second. `Abandon` is the server's timeout, or the end of a connection
the experiment has closed; records of requests that were in the buffer may come after that, and the
port may belong to another experiment by then. `of` is a history of whose it was. `found` is the
places of the list an experiment picks out: the list only grows, and F4 picks none. No two requests
of one experiment are of one principal, as in `main`'s experiments (`AnchorAssumption`); which
principals and how many experiments there are is left open. F3 compares cookies that the kernel
reports and is not modelled.

### CoResident

`proc` is the process table. A process id belongs to a child until its parent waits for it, and
`poll()` waits; then any process may get it (`StartOther`). `Snapshot`, `PollAgain` and the reads of
`attest` (`AttestStatus` to `AttestContainer`) each look at what has the process id at that moment.
The reads of the status file are one step. Reports are files by label, cleared when a condition
begins; agents write them at any time, and so does the impostor of E4, under a name of its own. The
labels differ from each other and from the names the model gives to other processes, the impostor's
included (`ResidentAssumption`; the code has `A` to `D` and `IMPOSTOR`).

### Attribution

Envoy is modelled by what its log says of it: a request arrives, is sent on a connection or waits
for one, ends, and its line reaches the file later. Under HTTP/1.1 a connection carries one request
at a time. `Load` is `load_log`, which may run before the last lines are written. `Concurrent` and
`Exact` are `analyse`, with times doubled so that the middle of a request is a whole number. The
unit of time is the log's, a millisecond, and `ended` is what the log makes of the end: the time of
arrival and a duration in whole units, which may come to one unit less than the time at which the
request ended.

### PolicyClasses

The three generators, one agent at a time, with every outcome of every draw, and `count` of what
they made. `odd` counts the exceptions that fell on a network dimension.

## 3. What the runs check

All runs are exhaustive for their bounds. `CHECK_DEADLOCK FALSE` is set for the gateway and the
datapath, whose calls are bounded: they stop when the calls are used up; for the QUIC observer,
which stops when its main thread has died; for `authz_shapes`, where asks, restarts and time run
out; and for the programs of `standalone`, which end.

| Run | Instance | Shows |
|---|---|---|
| `authz_race` | 2 threads, 3 asks, copies of 1 proof, 2 requests, 2 process lifetimes, skew and stall of 1, time 8, `WINDOW` 5 | `AtMostOnce` where `ShortLived` holds with equality; `OkIsGenuine`; `Authz` implements `ProofOnce` |
| `authz_shapes` | every shape of proof, 2 fair threads, 3 asks, a lifetime of 2 and a window of 1 | `NoSpuriousReplay`, `StatsBalance`, `WindowSpacing`, `SomeCopyHonoured` |
| `gateway_shared` | 2 callers, 3 principals, 3 calls, 2 connections, a shared pool | `OneConnPerKey`, `AnswersAreEarned`, `CallReturns` |
| `gateway_per_principal` | the same with a pool per principal and marks | `PerPrincipalSufficient`, `MarkTellsPrincipal` |
| `verdict_channel` | 2 CPUs, 2 destinations, 3 slots, 2 calls, 3 writes, a ring of 1 | `SteadyVerdictHolds`, `CountersAgree`, `RefusalsAudited` |
| `quic_observer` | 2 clients, 2 datagrams of theirs, 2 answers to each, headers that are empty, cut or long, with an id of length zero | `HeadersAccounted`, `AnswersInOrder` |
| `quic_live` | fair client threads | `AnswersDelivered` |
| `quic_return_path` | 2 clients, 1 answer to each | `ReturnPath` is violated |
| `quic_dump` | the same, with ids that are new | `KeepsRelaying` is violated |
| `h2_observer` | 1 connection; 3 bytes of TLS, or 5 bytes of HTTP/2: a preface of 2, a HEADERS frame of 1, which is the length of a header, another frame of 2; a `recv` of 1 to 3 bytes; a report at any time | `CutsDoNotMatter`, `SeenBeforeSent`, `FractionAtMostOne`, `ReportReadInOrder`, `BothEnd` |
| `standalone` | pooling: 3 principals, 2 classes, 3 ports, both schemes; sockets: F1, F2, F4, F5, 2 principals, 2 ports; co-resident: 2 agents, 3 process ids, 2 conditions; attribution: 3 requests of 2 principals, 1 connection, time 2; classes: 2 dimensions of 3 values, 2 templates, 3 agents; policy hook: 2 CPUs, an unmarked socket, 2 slots, 2 calls, 3 writes | `ObservationsExact`, `EnforcementKept`, `OwnRequestsRecorded`, `StreamsWhole`, `AttestedOwnChild`, `ReportsAreOwn`, `ExactIsAlone`, `SerialIsExact`, `NetworkClassesBounded`, `VerdictInForceOrLent`, `AdmissionsHaveRules` |
| `attribution_one_request` | 3 requests of 2 principals, 1 connection, time 3 | `ExactMeansOneRequest` is violated |

Why the bounds are enough. A replay needs two passages of one proof; two threads and three asks give
every overlap of two of them and one more before or after a restart, and time 8 covers a lifetime,
a whole window and the stall and skew beyond it. A race on the pool needs two callers; the third
call comes after a timeout. A slot is reused after three writes: one that links it, one that
replaces it, one that takes it for another destination; both CPUs are then at any step. Two answers
to a client may be reordered, and two clients confused; a dictionary grows under the report with one
new id. The parser, the pumps and the report of one connection of the HTTP/2 observer share nothing
with another's but the table, and one connection may come at any point of a report. Its five bytes
in pieces of one to three are cut in the preface, after it, between the two frames and in the body
of the second, and a piece may end the preface and hold a frame, or hold two; a header of one byte
is never cut in two, which `CutsLeaveNoTrace` covers, for headers of any length. Three
ports for two connections of a round leave one to be used again in the next; two ports for four
experiments do. With three process ids for two children and an impostor, an id of a child that was
waited for goes to another process. A request that overlaps one of its own principal and one of
another's is three requests. A rule that is found, deleted and whose slot another rule takes is three
writes beside a call, the third of them for the other identity of the socket. Exceptions on a dimension of each kind, beyond two templates, are three agents.
The proofs do not depend on any of these bounds.

Properties.

- `AtMostOnce`: one signed proof gets one 200, whatever the copies, threads, restarts and clock.
- `WindowSpacing`: two passages of a `jti` are the window apart, but for the clock's error.
- `NoSpuriousReplay`: only a copy that passed every earlier check uses a proof up.
- `OkIsGenuine`: a 200 is about to be given only for a flawless proof of this process and request.
- `StatsBalance`: `/__stats` may be read at any time; what its two parts disagree by is the threads
  that are between them.
- `SomeCopyHonoured`: copies that race cannot all be refused.
- `OneConnPerKey`, `AnswersAreEarned`, `CallReturns`, `PerPrincipalSufficient`,
  `MarkTellsPrincipal`: see the table in section 1.
- `SteadyVerdictHolds`: a program whose verdict did not change from lookup to decision applies that
  verdict, whatever was written for other destinations meanwhile.
- `CountersAgree`, `RefusalsAudited`: what may be read of counters and events at any moment.
- `HeadersAccounted`: each datagram is counted once by its header, whatever the threads are doing.
- `AnswersInOrder`, `AnswersDelivered`: a client gets the server's answers to it, in order, and
  those that find its thread alive for certain.
- `CutsDoNotMatter`: between two feeds the parser has listed the frames that have come in full and
  no others, as if the stream had come in one piece.
- `SeenBeforeSent`: the server has no byte the observer has not read, and only one pump's handful is
  read and not yet sent.
- `FractionAtMostOne`: the fraction is of two numbers read while bytes are counted; the numerator is
  read first, and `bytes_total` is counted before anything is parsed.
- `ReportReadInOrder`: a report has as many entries as it says, and what may be relied on in an
  entry, most of which is read beside `feed`. A field read later does not fall short of an earlier
  one (the events are no fewer than `headers_frames` says and cover `distinct_stream_ids`; bytes that
  were parsed give a fraction above zero); a preface, or its absence, was not decided on before
  enough bytes had come; and bytes called opaque have no frames. An entry may still contradict
  itself, and the model shows that it does: `bytes_parsed` may exceed `bytes_total`, there may be
  frames beside `cleartext_h2_preface_seen` false, more `headers_frames` than `frames_seen`, and
  frames beside a fraction of zero. In each of these the bound is read before what it bounds. Only an
  entry that is still true when it is done agrees with itself in them, which the last part of the
  property says.
- `BothEnd`: when one direction of a connection ends, so does the other, and the sockets are closed.
- `VerdictInForceOrLent`: the second hook reads its carrier, its default and its rule at three times;
  what it decides was in force at one, if userspace wrote rules only or the configuration only once,
  with one exception. Between the lookup and the read of the action the rule may be deleted and its
  slot given to a rule of another key; the call then takes the verdict of that rule, which may be an
  ALLOW that was never in force for it. The run reaches this with three writes of rules, and the
  property names it (`lent`) and excludes nothing else of rules. Two kinds of writes during one call
  may tear it as well: the model shows a default that was read with rules that were never in force
  beside it, which is why the property is about one kind at a time.
- `AdmissionsHaveRules`: "default-deny": under it, a call needs a rule to be admitted, on any CPU and
  at every moment the counters are read.
- `ObservationsExact`: though the driver takes no lock, no record is late, lost or left of a round
  before. It holds because an answer follows its record and the driver waits for each answer.
- `EnforcementKept`: what the experiment concludes, under timeouts as well.
- `NetworkClassesBounded`: the claim that the pools do not grow with the agents, with its price for
  exceptions on network dimensions.
- `OwnRequestsRecorded`: what an experiment picks out by its port has all its own requests, in order
  and last. Records of an earlier connection may stand before them when the port was used again; the
  code cannot tell them apart, and the property does not say they are absent.
- `StreamsWhole`: a record is one request's.
- `AttestedOwnChild`: the selectors and flows of a label are its own child's, in whole. It needs that
  every agent lived at the snapshot: when one did not, line 138 polls again and gives up process ids
  that are attested next.
- `ReportsAreOwn`: a report counted for a label was written by its agent, in this condition.
- `ExactIsAlone`, `SerialIsExact`: an event that counts as exact has no rival in the log, by the times
  in the log, and under HTTP/1.1 all do, when no request had to wait for its connection.

Fairness. `Authz!FairSpec`, which `authz_shapes` uses, is weak fairness of each thread's steps: the operating system schedules
the threads, and they wait for short critical sections only. Nothing is assumed of clients, clocks
or restarts. `Gateway!FairSpec` is the same for callers and for the Upstream's threads, and the
timeout of an idle connection: a `recv` with a timeout of 6 seconds returns. `CallReturns` needs it:
a caller whose reply was read by another one is freed only when the Upstream closes.
`QuicObserver!FairSpec` is weak fairness of each client's thread, whose `recvfrom` has a timeout.
`H2Observer!FairSpec` is weak fairness of the parsing, of a pump's way out once its socket is
closed or shut down, and of `handle` after its joins. It assumes nothing of `recv` and `sendall` on
open sockets: they may block for ever, and `BothEnd` shows that the shutdowns free them.

Each property has, in `PROJECT.json`, a mutated form of one definition (a dropped guard, a swapped
order, a missing lock) under which TLC finds it violated. The mutated definitions stand in the
modules, before the definitions they mutate, and nothing uses them.

Findings. Two runs show that the QUIC observer does not do what its header says, "Relays UDP between
Envoy-front (HTTP/3 client) and Envoy-back (QUIC server)":

- `quic_return_path`: a client's thread returns after 30 silent seconds (line 99). Its socket stays
  in `upstream`, so no thread is started when the client sends again (line 130): its datagrams go to
  the server, and the answers are never read.
- `quic_dump`: `json.dump` (line 157) walks dictionaries that a client's thread adds an id to.
  Python raises `RuntimeError` in the main thread, which nothing catches: the relay ends.

One shows that the attribution analysis is not what its header defines:

- `attribution_one_request`: "precisely one logged request" (line 14) is one principal in the code
  (line 97). Two requests of one principal that overlap on a connection, for as long as they took,
  are exact for the code and ambiguous for the definition.

## 4. What is proved

The theorems hold for every value of the constants that the modules' assumptions allow; the
assumptions are that bounds are naturals, that the markers for "nothing" are not values, that the
sets of threads, CPUs, clients, dimensions, requests and connections that are counted are finite,
that a stream's frames follow each other (`WellFormed`), and that lists which the code writes out
(experiments, their principals, labels) are sequences without repetition. `HonouredOnce` and
`KeepsPromise` also assume `ShortLived`. Every safety property that a run checks is the subject of a
theorem.

**AuthzProofs.** `VerifierInv` is inductive and has four parts: a proof is signed with a key of a
lifetime that has begun (`KeyInv`); an entry of the table is no older than the passage it stands
for, and a proof of this lifetime has lost its entry only about `WINDOW` after its passage
(`TableInv`); a thread that was asked about a proof has one (`AskedInv`); and a thread past the
checks holds a proof that passed them (`HeldInv`). `Genuine`, `ReplayIsReal` and `Spacing` follow.
`HonouredOnce` needs three more: lifetimes are those of `Ttls` (`LifetimeInv`), no proof is minted
in the future (`MintedBeforeInv`), and `PassageInv`: a proof passes at most once, has no more 200s
than passages, and has at most one thread on its way to the 200. The step that matters is
`FirstPassage`: a thread that finds a table without the proof's `jti` is the first, because the
entry could only have been pruned after the proof had expired for longer than any thread may stall.
`KeepsPromise` is the refinement: each step of the verifier is a step of `ProofOnce` or leaves its
variables alone. `Balanced` needs no strengthening beyond `TypeOK`: `note()` moves a thread into the
set its reason belongs to as it counts the reason (`NoteCounts`, `Arrives`), the second counter takes
it out again (`Leaves`), and no other step touches that set (`Elsewhere`).

**GatewayProofs.** `GatewayInv` says who holds the lock (`LockInv`), that the pool holds connections
made for its keys (`PoolInv`), that whatever a connection carries, on its way, recorded or noted by
the caller, is of the key it was made for (`KeyInv`), and that replies are not more than recorded
lines (`ReplyInv`). `OneConnection`, `Earned`, `Sufficient` and `MarkIsRight` follow. `Sufficient`
says more than the run: for any number of principals and callers.

**VerdictChannelProofs.** `SteadyInv`: two destinations never share a slot, and a program whose
verdict is still in force holds the slot of its destination. `Counted` and `Audited` are inductive
with the type invariant alone; they need that there are finitely many CPUs.

**QuicObserverProofs.** `CarryInv`: a datagram is held by the thread between its receipt and its
delivery, and a client without a socket has no thread. With it `Accounted` and `InOrder` are
inductive; the first needs that there are finitely many clients, to count those being parsed.

**H2ObserverProofs.** `ParserInv` says, for each connection and in the middle of `feed` too, that
the preface was decided on when enough bytes had come and once (`PrefaceInv`), that the frames
listed are the stream's first ones and `bytes_parsed` is where they end, but for the frame just cut
(`FramesInv`), that outside `feed` no complete frame is left in the buffer (`DrainedInv`), and that
the pumps start with nothing (`FreshInv`). `CutsLeaveNoTrace` follows for every set of streams, any
cuts and any lengths of the preface and a header. `PumpInv` (what a pump holds) gives
`ReadBeforeSent`, `WalkInv` (the count and the walk see one table) gives `AllListed`. `EntryInv`
says what the entry being written says so far and how it compares with the parser now; it is
inductive because what is read of a parser only grows, or stays (`FedGrows`), and gives
`FractionBounded`. `HeadersInv` (the HEADERS listed are no more than the frames, and fewer while one
is on its way) and `ParsedBounds` say what a parser's fields bound of each other at one moment. With
`AllListed` and these, `ReadInOrder` follows.

**PolicyProofs: PolicyEnforce.** `ForceInv`: no key is linked twice (`Unique`); a call that ran beside rules
alone, or beside one write of the configuration, finds in what it has read and in the present
verdict of its key verdicts that were in force, but for a slot that was given to another key, whose
verdict is in it (`Sees`); and as long as the configuration was not
written, its key and its default are those of the configuration (`Settled`). `Settled` is needed
because `seen` speaks of the identity under the carrier of the moment, and the call uses the one it
read. `InForceOrLent` follows. `RulesAdmit` rests on `RuleInv`, which adds to the balance of the counters
the calls that have met a rule and wait to be admitted.

**PolicyProofs: Pooling.** `ExactInv`: no port serves two keys (`Own`); only the connection the driver waits
on is busy, in one of four ways (`Pending`), and all others are `Idle`; and what was recorded on a
port is who was answered there (`On`), with the principal whose turn it is in two of the four.
`ExactObservations` follows, for every number of principals, ports and rounds. `Kept` rests on it by two lemmas:
the policy installed for a port is that of whoever was seen there (`OwnPolicy`), and with a key for
each principal one was (`OneOnAPort`).

**PolicyProofs: PolicyClasses.** `ClassInv`: templates and agents are no more than were drawn, the network
parts of structured agents are those of the templates, and with exceptions the others are no more
than `odd`. `ClassesBounded` follows by counting.

**IdentityProofs: SocketAnchor.** The lemmas `FirstRequest` and `RestOfWire` say what the parsing of
a buffer takes and leaves: if the wire is whole requests with at most one half at the end (`Whole`),
the first complete request is its first two pieces, `Claimed` is the principal of the first, and the
rest is whole again. `WriteStart`, `WriteEnd` and `WriteRequest` say when a write keeps it so. The
invariant has four layers. `LineInv`: every wire is whole (`WireInv`); connections that are still
served belong to different experiments, none to a later one, and to the present one only on its own
port (`PortInv`); a wire that ends in a half is F2's, and the half is of the thread that holds the lock
(`LockInv`: without it `WireInv` is not inductive). `RecordInv`: a record of this experiment is of
its connection, and follows the late records of earlier connections from that port. `StreamInv`: who
is recorded or on the wire has begun to ask (`AskedInv`), and a request on a wire is not recorded
yet and is alone of its principal there (`OnceInv`), which gives `RecordsWhole` at the step that
reads it (`StreamParse`) and is kept by one lemma for all ways of asking (`FreshRequest`).
`ReadInv`: an experiment that waits for each answer is never ahead of the server; between two
requests its wire and its answers are empty and the first `asked` requests are recorded in order
(`AnswerInv`), and while it waits the request is on the wire, or recorded, or answered (`WaitInv`).
With `RecordInv` this is `OwnRequests` when it looks (`LookFinds`), and the list only grows
(`FoundStays`).

**IdentityProofs: CoResident.** `PidInv`: an agent in the process table is of this condition and at
the id `popen` has for its label, and an impostor is the one being waited for (`AgentInv`,
`FakeInv`); labels are spawned in their order (`SpawnInv`); as long as all were alive at the
snapshot, a child's id is not given up (`ChildInv`), and what was taken for alive is what was
spawned (`SnapInv`). Then each read of `attest` sees the child or nothing (`OwnSubject`), and what
was read so far is the child's (`SelectorInv`): `OwnChild`. `ReportInv`, on the files of a condition,
gives `OwnReports`. `ChildInv` fails without its hypothesis: the second `poll()` of line 138 gives
ids up, which is why `AttestedOwnChild` has it too.

**IdentityProofs: Attribution.** `OrderInv`: a request is sent after it arrived and ends after it
arrived, as the log has it, and only lines of ended requests are in the log. `ExactAlone` follows, for any requests, principals and
connections: a rival whose interval on the wire contains the middle of a request is in its
`Concurrent`, whose interval is longer at its beginning, so the request is not exact. `SerialInv`:
under HTTP/1.1 two requests on one connection do not overlap there, and `SerialExact` is arithmetic
from that: the middle of a request that took time lies strictly inside it.

**StandaloneProofs.** `AsPooling`, `AsAnchor` and four more: a behaviour of `MCStandalone` whose
`program` is one of the six satisfies that program's specification, step by step, since no step
changes `program`. `EachTyped` combines the six type theorems by them; the other theorems carry over
to the run in the same way.

Only model-checked: the liveness properties `SomeCopyHonoured`, `CallReturns`, `AnswersDelivered` and
`BothEnd`, which rest on fairness and so on `ENABLED`, out of the prover's reach. The three findings
are counterexamples and not proved.

## 5. Not modelled, and the plan

Next, where more can be shown: what the liveness properties rest on can be proved as safety, though
the properties cannot. For `CallReturns` it is who a waiting caller waits for, and for `BothEnd` that
a pump's way out is open once its socket was shut down.

Left out, and why:

- `route_scale.py`: it writes two fixed route tables and times a proxy that it stops and starts with
  sleeps. What could go wrong is how long a process takes to end, and how the proxy matches routes;
  neither is in the repository.
- `capacity.py`, `ed25519_bench.c`, D3 and D4: timing loops and their statistics, with no state that
  anything depends on.
- `envoy_partition.yaml`, `fs_tls.yaml`: data for a proxy that is a third-party program.
- F3 of `falsify_socket_anchor.py`: it prints what the kernel says of a socket's cookie.
- `audit_completeness` of `attribution_experiment.py`: it counts the rows of the log that lack a
  field.
- The inventory (E2) and the Workload API of `run_experiment.py`: their modules are not in the
  repository.
- A composition of verifier, pool and datapath: no program of the repository calls another one, and
  none has an interface at which they meet; a composed model would be of a system the reports
  describe and the code does not contain.
- Printing, result files, and the recorded results themselves.
