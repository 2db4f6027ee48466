---------------------------- MODULE Attribution -----------------------------
(****************************************************************************)
(* phase4_report/attribution_experiment.py: Envoy pools upstream            *)
(* connections, its access log tells for every request the connection and   *)
(* the time it took, and analyse() asks of the middle of each request whose *)
(* it could be.  Envoy is modelled from what the log says of it.            *)
(****************************************************************************)
EXTENDS Naturals, FiniteSets

CONSTANTS
    Requests, Sender,   \* the requests, and the principal of each
    Conns,              \* upstream connections
    Unknown,            \* "?", for a request that had no connection
    LastTime            \* bound: time explored

ASSUME AttributionAssumption ==
    /\ IsFiniteSet(Requests)
    /\ Unknown \notin Conns
    /\ LastTime \in Nat

VARIABLES
    protocol,   \* of the upstream: "h1" serves one request at a time
    clock,
    stage,      \* of each request
    begun, sent, ended,     \* when it arrived, went upstream and, by what the
                            \* log will say, ended
    via,        \* its connection
    logged,     \* where its line is: nowhere, in Envoy's buffer or in the file
    rows        \* the requests load_log() returned, once it has run

attributionVars == <<protocol, clock, stage, begun, sent, ended, via, logged, rows>>

LInit ==
    /\ protocol = "none" /\ clock = 0
    /\ stage = [r \in Requests |-> "new"]
    /\ begun = [r \in Requests |-> 0] /\ sent = begun /\ ended = begun
    /\ via = [r \in Requests |-> Unknown]
    /\ logged = [r \in Requests |-> "no"]
    /\ rows = {}

(* On its connection from the moment it was sent, r shares it with nobody   *)
(* under HTTP/1.1.                                                          *)
Free(c) == protocol = "h2" \/ \A r \in Requests : ~(stage[r] = "sent" /\ via[r] = c)

------------------------------------------------------------------------------
(* run(): the requests, and Envoy.                                          *)

Configure(p) ==
    /\ protocol = "none"
    /\ protocol' = p
    /\ UNCHANGED <<clock, stage, begun, sent, ended, via, logged, rows>>

Arrive(r) ==
    /\ protocol # "none" /\ stage[r] = "new"
    /\ stage' = [stage EXCEPT ![r] = "pending"]
    /\ begun' = [begun EXCEPT ![r] = clock]
    /\ UNCHANGED <<protocol, clock, sent, ended, via, logged, rows>>

Forward(r, c) ==
    /\ stage[r] = "pending" /\ Free(c)
    /\ stage' = [stage EXCEPT ![r] = "sent"]
    /\ sent' = [sent EXCEPT ![r] = clock]
    /\ via' = [via EXCEPT ![r] = c]
    /\ UNCHANGED <<protocol, clock, begun, ended, logged, rows>>

(* It is answered, or refused without having had a connection; its line     *)
(* goes to the log's buffer.  The line has the duration, in whole units of  *)
(* the clock: added to the time of arrival, it may give the unit before.    *)
Complete(r) ==
    /\ stage[r] \in {"pending", "sent"}
    /\ stage' = [stage EXCEPT ![r] = "ended"]
    /\ \E t \in begun[r]..clock : /\ t + 1 >= clock
                                 /\ ended' = [ended EXCEPT ![r] = t]
    /\ logged' = [logged EXCEPT ![r] = "buffer"]
    /\ UNCHANGED <<protocol, clock, begun, sent, via, rows>>

Flush(r) ==
    /\ logged[r] = "buffer"
    /\ logged' = [logged EXCEPT ![r] = "file"]
    /\ UNCHANGED <<protocol, clock, stage, begun, sent, ended, via, rows>>

Tick ==
    /\ protocol # "none" /\ clock < LastTime
    /\ clock' = clock + 1
    /\ UNCHANGED <<protocol, stage, begun, sent, ended, via, logged, rows>>

(* load_log(), once every client has given up or been answered: the lines   *)
(* that have reached the file by then.                                      *)
Load ==
    /\ rows = {} /\ \A r \in Requests : stage[r] # "new"
    /\ rows' = {r \in Requests : logged[r] = "file"}
    /\ UNCHANGED <<protocol, clock, stage, begun, sent, ended, via, logged>>

LNext ==
    \/ \E p \in {"h1", "h2"} : Configure(p)
    \/ \E r \in Requests : \/ Arrive(r)
                           \/ \E c \in Conns : Forward(r, c)
                           \/ Complete(r)
                           \/ Flush(r)
    \/ Tick
    \/ Load

LSpec == LInit /\ [][LNext]_attributionVars

------------------------------------------------------------------------------
(* analyse().                                                               *)

(* t of the event of r, twice over.                                         *)
Middle(r) == begun[r] + ended[r]

(* Mutated forms of the two definitions that follow.                        *)
HalfOpenConcurrent(r) ==
    {q \in rows : /\ via[q] = via[r]
                  /\ 2 * begun[q] <= Middle(r) /\ Middle(r) < 2 * ended[q]}
AnyConnConcurrent(r) ==
    {q \in rows : 2 * begun[q] <= Middle(r) /\ Middle(r) <= 2 * ended[q]}

(* The logged requests of r's connection whose interval, closed at both     *)
(* ends, holds the middle of r.                                             *)
Concurrent(r) ==
    {q \in rows : /\ via[q] = via[r]
                  /\ 2 * begun[q] <= Middle(r) /\ Middle(r) <= 2 * ended[q]}

Exact(r) == Cardinality({Sender[q] : q \in Concurrent(r)}) = 1

------------------------------------------------------------------------------
(* Properties.                                                              *)

LTypeOK ==
    /\ protocol \in {"none", "h1", "h2"}
    /\ clock \in 0..LastTime
    /\ stage \in [Requests -> {"new", "pending", "sent", "ended"}]
    /\ begun \in [Requests -> 0..clock] /\ sent \in [Requests -> 0..clock]
    /\ ended \in [Requests -> 0..clock]
    /\ via \in [Requests -> Conns \cup {Unknown}]
    /\ logged \in [Requests -> {"no", "buffer", "file"}]
    /\ rows \subseteq Requests

(* analyse(), :92-:97.  An event that counts as exactly attributed could    *)
(* not have been another principal's: no logged request of another was on   *)
(* the connection at that instant, the first and the last included, under   *)
(* either protocol.  (A request is taken to end when the log says so, which *)
(* may be one unit too early; of lines that Envoy writes after load_log()   *)
(* analyse() knows nothing.)                                                *)
ExactIsAlone ==
    \A r \in rows : via[r] # Unknown /\ Exact(r) =>
        \A q \in rows : via[q] = via[r] /\ Sender[q] # Sender[r] =>
            ~(2 * sent[q] <= Middle(r) /\ Middle(r) <= 2 * ended[q])

(* "HTTP/1.1 serialises requests on a connection", :18.  Under HTTP/1.1     *)
(* every request that took time is exactly attributed, as long as none had  *)
(* to wait for its connection: the log's interval begins when the request   *)
(* arrives, not when it is sent.                                            *)
SerialIsExact ==
    protocol = "h1" /\ (\A q \in rows : via[q] # Unknown => sent[q] = begun[q]) =>
        \A r \in rows : via[r] # Unknown /\ begun[r] < ended[r] => Exact(r)

(* "EXACTLY ATTRIBUTED if precisely one logged request on C has             *)
(* [start, start+duration] containing T", :14-:16.  The code asks for one   *)
(* principal, not for one request, also of requests that had a connection   *)
(* and took time.                                                           *)
ExactMeansOneRequest ==
    \A r \in rows : via[r] # Unknown /\ begun[r] < ended[r] /\ Exact(r) =>
        Cardinality(Concurrent(r)) = 1
==============================================================================
