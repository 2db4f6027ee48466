---------------------------- MODULE QuicObserver -----------------------------
(****************************************************************************)
(* The observation point of phase5_report/quic_observer.py: a UDP relay     *)
(* between QUIC clients and a server that reads the headers of the packets  *)
(* it passes on.                                                            *)
(*                                                                          *)
(* The main thread takes the clients' datagrams and, now and then, writes   *)
(* the report; for each client it makes a socket towards the server and a   *)
(* thread that carries the answers back.  A lock guards the counters, but   *)
(* the report is written after the lock was released, from dictionaries the *)
(* threads go on filling.                                                   *)
(****************************************************************************)
EXTENDS Naturals, FiniteSets, Sequences

CONSTANTS
    Clients,        \* addresses of the clients
    Ids,            \* connection ids of one byte or more
    NoBytes,        \* the connection id of length zero
    Absent,         \* a source id that the datagram is too short to hold
    Packets,        \* the datagrams that are sent (subset of PacketRecord)
    NoPacket, NoClient,
    MaxDatagrams,   \* bound: datagrams of the clients
    MaxAnswers      \* bound: answers to each client

(* A datagram by what parse() makes of it: nothing in it, a short header, a *)
(* long header that is cut before the ids, or a long header with its ids.   *)
Forms == {"empty", "short", "cut", "long"}

PacketRecord ==
    [form: Forms, dcid: Ids \cup {NoBytes}, scid: Ids \cup {NoBytes, Absent}]

ASSUME ObserverAssumption ==
    /\ IsFiniteSet(Clients) /\ IsFiniteSet(Ids)
    /\ Packets \subseteq PacketRecord
    /\ NoPacket \notin PacketRecord
    /\ NoClient \notin Clients
    /\ NoBytes \notin Ids /\ Absent \notin Ids /\ Absent # NoBytes
    /\ MaxDatagrams \in Nat /\ MaxAnswers \in Nat

VARIABLES
    c2s, s2c,       \* datagrams_client_to_server, datagrams_server_to_client
    long, short,    \* long_header_packets, short_header_packets
    versions,       \* packets counted in versions_seen
    dcids, scids,   \* dcids_seen_long_header, scids_seen_long_header
    tuples,         \* five_tuples_client_side
    pc, from, data, \* the main thread: its step, caddr and datagram
    size,           \* entries of the dictionary it is iterating over
    upstream,       \* clients that have a socket towards the server
    reached,        \* clients of which the server has seen a datagram
    pump, held,     \* each client's thread and the datagram it carries
    inbox,          \* answers waiting in each client's socket
    answered,       \* history: answers that arrived for each client
    delivered,      \* history: answers sent to each client
    empties         \* history: datagrams with nothing in them

countVars == <<c2s, s2c, tuples>>
headerVars == <<long, short, versions, dcids, scids, empties>>
mainVars == <<pc, from, data, size, upstream>>
pumpVars == <<pump, held, inbox, delivered>>
serverVars == <<reached, answered>>
vars == <<countVars, headerVars, mainVars, pumpVars, serverVars>>

(* The keys of a dictionary of counters, where 0 stands for no entry.       *)
Seen(dict) == {i \in DOMAIN dict : dict[i] > 0}

Init ==
    /\ c2s = 0 /\ s2c = 0
    /\ long = 0 /\ short = 0 /\ versions = 0
    /\ dcids = [i \in Ids \cup {NoBytes} |-> 0]
    /\ scids = [i \in Ids \cup {NoBytes} |-> 0]
    /\ tuples = [c \in Clients |-> 0]
    /\ pc = "recv"
    /\ from = NoClient
    /\ data = NoPacket
    /\ size = 0
    /\ upstream = {}
    /\ reached = {}
    /\ pump = [c \in Clients |-> "none"]
    /\ held = [c \in Clients |-> NoPacket]
    /\ inbox = [c \in Clients |-> <<>>]
    /\ answered = [c \in Clients |-> <<>>]
    /\ delivered = [c \in Clients |-> <<>>]
    /\ empties = 0

(* An exception in the main thread ends the process.                        *)
Alive == pc # "crashed"

------------------------------------------------------------------------------
(* parse(), which holds the lock throughout.                                *)

(* Mutated form of Parse: the length is tested before the packet is counted.*)
CutFirstParse(p) ==
    /\ long' = IF p.form = "long" THEN long + 1 ELSE long
    /\ versions' = IF p.form = "long" THEN versions + 1 ELSE versions
    /\ dcids' = IF p.form = "long" /\ p.dcid # NoBytes
                THEN [dcids EXCEPT ![p.dcid] = @ + 1] ELSE dcids
    /\ scids' = IF p.form = "long" /\ p.scid # Absent
                THEN [scids EXCEPT ![p.scid] = @ + 1] ELSE scids
    /\ short' = IF p.form = "short" THEN short + 1 ELSE short
    /\ empties' = IF p.form = "empty" THEN empties + 1 ELSE empties

(* Long headers are counted before their length is tested.  A source id of  *)
(* length zero is an entry of its dictionary, a destination id is not.      *)
Parse(p) ==
    /\ long' = IF p.form \in {"cut", "long"} THEN long + 1 ELSE long
    /\ versions' = IF p.form = "long" THEN versions + 1 ELSE versions
    /\ dcids' = IF p.form = "long" /\ p.dcid # NoBytes
                THEN [dcids EXCEPT ![p.dcid] = @ + 1] ELSE dcids
    /\ scids' = IF p.form = "long" /\ p.scid # Absent
                THEN [scids EXCEPT ![p.scid] = @ + 1] ELSE scids
    /\ short' = IF p.form = "short" THEN short + 1 ELSE short
    /\ empties' = IF p.form = "empty" THEN empties + 1 ELSE empties

------------------------------------------------------------------------------
(* relay(), the main thread.                                                *)

(* A datagram of client c is received and counted.                          *)
Receive(c, p) ==
    /\ c2s < MaxDatagrams
    /\ pc = "recv"
    /\ c2s' = c2s + 1
    /\ tuples' = [tuples EXCEPT ![c] = @ + 1]
    /\ from' = c
    /\ data' = p
    /\ pc' = "parse"
    /\ UNCHANGED <<s2c, headerVars, size, upstream, pumpVars, serverVars>>

ParseUp ==
    /\ pc = "parse"
    /\ Parse(data)
    /\ pc' = "forward"
    /\ UNCHANGED <<countVars, from, data, size, upstream, pumpVars, serverVars>>

(* It is sent on through the client's own socket, which is made, with its   *)
(* thread, on the first one.  It may be lost, or sendto() may fail.         *)
Forward(lost) ==
    /\ pc = "forward"
    /\ upstream' = upstream \cup {from}
    /\ pump' = IF from \in upstream THEN pump
               ELSE [pump EXCEPT ![from] = "waiting"]
    /\ reached' = IF lost THEN reached ELSE reached \cup {from}
    /\ from' = NoClient
    /\ data' = NoPacket
    /\ pc' = "due"
    /\ UNCHANGED <<countVars, headerVars, size, held, inbox, delivered,
                   answered>>

(* Nothing came for a second.                                               *)
Idle ==
    /\ pc = "recv"
    /\ pc' = "due"
    /\ UNCHANGED <<countVars, headerVars, from, data, size, upstream, pumpVars,
                   serverVars>>

(* The last report is less than a second old.                               *)
NotDue ==
    /\ pc = "due"
    /\ pc' = "recv"
    /\ UNCHANGED <<countVars, headerVars, from, data, size, upstream, pumpVars,
                   serverVars>>

(* dump(): the state is copied under the lock, its dictionaries are shared. *)
Copy ==
    /\ pc = "due"
    /\ pc' = "copied"
    /\ UNCHANGED <<countVars, headerVars, from, data, size, upstream, pumpVars,
                   serverVars>>

(* The iteration of json.dump over a dictionary that had n entries at its   *)
(* start ends well; over one that has grown since it raises.  An empty      *)
(* dictionary is not iterated over.                                         *)
EndsWell(dict) == size = 0 \/ Cardinality(Seen(dict)) = size

WalkDcids ==
    /\ pc = "copied"
    /\ size' = Cardinality(Seen(dcids))
    /\ pc' = "dcids"
    /\ UNCHANGED <<countVars, headerVars, from, data, upstream, pumpVars,
                   serverVars>>

WalkScids ==
    /\ pc = "dcids"
    /\ EndsWell(dcids)
    /\ size' = Cardinality(Seen(scids))
    /\ pc' = "scids"
    /\ UNCHANGED <<countVars, headerVars, from, data, upstream, pumpVars,
                   serverVars>>

FinishDump ==
    /\ pc = "scids"
    /\ EndsWell(scids)
    /\ size' = 0
    /\ pc' = "recv"
    /\ UNCHANGED <<countVars, headerVars, from, data, upstream, pumpVars,
                   serverVars>>

DumpRaises ==
    /\ \/ pc = "dcids" /\ ~EndsWell(dcids)
       \/ pc = "scids" /\ ~EndsWell(scids)
    /\ pc' = "crashed"
    /\ UNCHANGED <<countVars, headerVars, from, data, size, upstream, pumpVars,
                   serverVars>>

------------------------------------------------------------------------------
(* Mutated forms of the definitions that follow, one bug each.              *)

(* The datagram is let go once its header has been read.                    *)
DroppingPumpParse(c) ==
    /\ Alive
    /\ pump[c] = "parse"
    /\ Parse(held[c])
    /\ held' = [held EXCEPT ![c] = NoPacket]
    /\ pump' = [pump EXCEPT ![c] = "send"]
    /\ UNCHANGED <<countVars, mainVars, inbox, delivered, serverVars>>

(* The address is the one of the datagram the main thread holds.            *)
LatePumpSend(c) ==
    LET caddr == IF from = NoClient THEN c ELSE from IN
    /\ Alive
    /\ pump[c] = "send"
    /\ delivered' = [delivered EXCEPT ![caddr] = Append(@, held[c])]
    /\ held' = [held EXCEPT ![c] = NoPacket]
    /\ pump' = [pump EXCEPT ![c] = "waiting"]
    /\ UNCHANGED <<countVars, headerVars, mainVars, inbox, serverVars>>

(* Nothing in a datagram is taken for the end, as it would be with TCP.     *)
StreamPumpTimeout(c) ==
    /\ Alive
    /\ pump[c] = "waiting"
    /\ inbox[c] # <<>> => Head(inbox[c]).form = "empty"
    /\ pump' = [pump EXCEPT ![c] = "ended"]
    /\ UNCHANGED <<countVars, headerVars, mainVars, held, inbox, delivered,
                   serverVars>>

------------------------------------------------------------------------------
(* pump_back(), the thread of client c.                                     *)

PumpReceive(c) ==
    /\ Alive
    /\ pump[c] = "waiting"
    /\ inbox[c] # <<>>
    /\ s2c' = s2c + 1
    /\ held' = [held EXCEPT ![c] = Head(inbox[c])]
    /\ inbox' = [inbox EXCEPT ![c] = Tail(@)]
    /\ pump' = [pump EXCEPT ![c] = "parse"]
    /\ UNCHANGED <<c2s, tuples, headerVars, mainVars, delivered, serverVars>>

PumpParse(c) ==
    /\ Alive
    /\ pump[c] = "parse"
    /\ Parse(held[c])
    /\ pump' = [pump EXCEPT ![c] = "send"]
    /\ UNCHANGED <<countVars, mainVars, held, inbox, delivered, serverVars>>

PumpSend(c) ==
    /\ Alive
    /\ pump[c] = "send"
    /\ delivered' = [delivered EXCEPT ![c] = Append(@, held[c])]
    /\ held' = [held EXCEPT ![c] = NoPacket]
    /\ pump' = [pump EXCEPT ![c] = "waiting"]
    /\ UNCHANGED <<countVars, headerVars, mainVars, inbox, serverVars>>

(* sendto() fails: the thread returns with its datagram.                    *)
PumpSendFails(c) ==
    /\ Alive
    /\ pump[c] = "send"
    /\ held' = [held EXCEPT ![c] = NoPacket]
    /\ pump' = [pump EXCEPT ![c] = "failed"]
    /\ UNCHANGED <<countVars, headerVars, mainVars, inbox, delivered,
                   serverVars>>

(* Nothing came from the server for 30 seconds: the thread returns.  The    *)
(* socket stays in upstream.                                                *)
PumpTimeout(c) ==
    /\ Alive
    /\ pump[c] = "waiting"
    /\ inbox[c] = <<>>
    /\ pump' = [pump EXCEPT ![c] = "ended"]
    /\ UNCHANGED <<countVars, headerVars, mainVars, held, inbox, delivered,
                   serverVars>>

(* The server answers a client it knows of, and the answer is not lost.     *)
Answer(c, p) ==
    /\ Alive
    /\ c \in reached
    /\ Len(answered[c]) < MaxAnswers
    /\ answered' = [answered EXCEPT ![c] = Append(@, p)]
    /\ inbox' = [inbox EXCEPT ![c] = Append(@, p)]
    /\ UNCHANGED <<countVars, headerVars, mainVars, pump, held, delivered,
                   reached>>

------------------------------------------------------------------------------
MainStep ==
    \/ \E c \in Clients, p \in Packets : Receive(c, p)
    \/ ParseUp
    \/ \E lost \in BOOLEAN : Forward(lost)
    \/ Idle
    \/ NotDue
    \/ Copy
    \/ WalkDcids
    \/ WalkScids
    \/ FinishDump
    \/ DumpRaises

PumpStep(c) ==
    \/ PumpReceive(c)
    \/ PumpParse(c)
    \/ PumpSend(c)
    \/ PumpSendFails(c)
    \/ PumpTimeout(c)

Next ==
    \/ MainStep
    \/ \E c \in Clients : PumpStep(c)
    \/ \E c \in Clients, p \in Packets : Answer(c, p)

Spec == Init /\ [][Next]_vars

(* The threads run, and their recvfrom() times out when nothing comes.      *)
FairSpec == Spec /\ \A c \in Clients : WF_vars(PumpStep(c))

------------------------------------------------------------------------------
(* Properties.                                                              *)

TypeOK ==
    /\ c2s \in Nat /\ s2c \in Nat
    /\ long \in Nat /\ short \in Nat /\ versions \in Nat /\ empties \in Nat
    /\ dcids \in [Ids \cup {NoBytes} -> Nat]
    /\ scids \in [Ids \cup {NoBytes} -> Nat]
    /\ tuples \in [Clients -> Nat]
    /\ pc \in {"recv", "parse", "forward", "due", "copied", "dcids", "scids",
               "crashed"}
    /\ from \in Clients \cup {NoClient}
    /\ data \in PacketRecord \cup {NoPacket}
    /\ size \in Nat
    /\ upstream \subseteq Clients /\ reached \subseteq Clients
    /\ pump \in [Clients -> {"none", "waiting", "parse", "send", "ended",
                             "failed"}]
    /\ held \in [Clients -> PacketRecord \cup {NoPacket}]
    /\ inbox \in [Clients -> Seq(PacketRecord)]
    /\ answered \in [Clients -> Seq(PacketRecord)]
    /\ delivered \in [Clients -> Seq(PacketRecord)]

(* Threads that have counted a datagram and not yet read its header.        *)
Unparsed == {c \in Clients : pump[c] = "parse"}

(* Whenever a report may be taken, every datagram counted in one direction  *)
(* or the other is counted by the form of its header exactly once, but for  *)
(* those being looked at and those with nothing in them (parse(), from      *)
(* several threads).                                                        *)
HeadersAccounted ==
    long + short + empties + Cardinality(Unparsed)
        + (IF pc = "parse" THEN 1 ELSE 0) = c2s + s2c

(* What a client gets is what the server answered it, in that order, and    *)
(* nothing meant for another client, as long as its thread lives            *)
(* (pump_back() and its closure over the address).                          *)
AnswersInOrder ==
    \A c \in Clients :
        LET carried == IF held[c] = NoPacket THEN <<>> ELSE <<held[c]>> IN
        pump[c] # "failed" =>
            delivered[c] \o carried \o inbox[c] = answered[c]

(* An answer that finds its thread waiting or at work is delivered, unless  *)
(* a send fails or the process dies (pump_back()).                          *)
AnswersDelivered ==
    \A c \in Clients, n \in 1..MaxAnswers :
        (Len(answered[c]) = n /\ pump[c] \in {"waiting", "parse", "send"})
            ~> (Len(delivered[c]) >= n \/ pump[c] = "failed" \/ ~Alive)

(* The observer relays between clients and server: a client it has a socket *)
(* for has a thread that carries the answers back, unless sending failed    *)
(* (relay(); a thread returns after 30 silent seconds, and the socket       *)
(* stays).                                                                  *)
ReturnPath == \A c \in upstream : pump[c] # "ended"

(* The observer goes on relaying, whenever it writes its report (dump()).   *)
KeepsRelaying == Alive
==============================================================================
