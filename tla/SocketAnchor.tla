---------------------------- MODULE SocketAnchor ----------------------------
(****************************************************************************)
(* phase2_report/falsify_socket_anchor.py: several principals on one        *)
(* socket.  The experiments run one after the other against one keep-alive  *)
(* server, which records who asked on which port; every experiment picks    *)
(* out the records of its own port.                                         *)
(****************************************************************************)
EXTENDS Naturals, Sequences, FiniteSets, Functions

CONSTANTS
    Experiments,    \* in order: [how |-> "ask", "stream" or "hand",
                    \*            who |-> the principals of its requests]
    Sources,        \* source ports
    NoSource, Unnamed

People == UNION {Range(Experiments[f].who) : f \in DOMAIN Experiments}

ASSUME AnchorAssumption ==
    /\ NoSource \notin Sources /\ Unnamed \notin People
    /\ Experiments # <<>>
    /\ Experiments \in Seq([how : {"ask", "stream", "hand"}, who : Seq(People)])
    /\ \A f \in DOMAIN Experiments : IsInjective(Experiments[f].who)

VARIABLES
    exp,        \* the experiment that runs
    doing,      \* where it is
    asked,      \* requests answered so far, or written by threads
    line,       \* the port of its connection
    part,       \* F2: the halves each thread has written
    lock,       \* F2: who holds the lock around sendall()
    wire,       \* what was written to each port and not yet parsed
    serving,    \* the server's thread on each port
    answers,    \* responses that wait on each port
    observations,   \* the server's; "of" is a history: the experiment whose
                    \* connection it was
    found,      \* what the experiment found on its port: places in the list
    owner       \* history: the experiment that opened each port last

anchorVars == <<exp, doing, asked, line, part, lock, wire, serving, answers,
                observations, found, owner>>

AInit ==
    /\ exp = 1 /\ doing = "connect" /\ asked = 0
    /\ line = NoSource /\ lock = Unnamed
    /\ part = [p \in People |-> 0]
    /\ wire = [q \in Sources |-> <<>>]
    /\ serving = [q \in Sources |-> "none"]
    /\ answers = [q \in Sources |-> 0]
    /\ observations = <<>> /\ found = {}
    /\ owner = [q \in Sources |-> 1]

How == Experiments[exp].how
Who == Experiments[exp].who
Running == exp \in DOMAIN Experiments
Start(p) == [who |-> p, end |-> FALSE]
End(p) == [who |-> p, end |-> TRUE]

(* The place on the wire where the first complete request ends.             *)
EndOf(s) == CHOOSE i \in DOMAIN s : s[i].end /\ \A j \in 1..i - 1 : ~s[j].end
(* The last X-Agent-Principal line before it, if there is one.              *)
Claimed(s) ==
    LET lines == {j \in 1..EndOf(s) : ~s[j].end}
    IN IF lines = {} THEN Unnamed
       ELSE s[CHOOSE j \in lines : \A i \in lines : i <= j].who

------------------------------------------------------------------------------
(* Mutated forms of the definitions that follow, one bug each.              *)

(* The threads of F2 write without the lock.                                *)
UnlockedSendHead(p) ==
    /\ Running /\ doing = "run" /\ How = "stream" /\ p \in Range(Who)
    /\ part[p] = 0
    /\ part' = [part EXCEPT ![p] = 1] /\ lock' = p
    /\ wire' = [wire EXCEPT ![line] = Append(@, Start(p))]
    /\ UNCHANGED <<exp, doing, asked, line, serving, answers, observations, found,
                   owner>>

(* The response goes out first.                                             *)
EagerParse(q) ==
    \/ /\ serving[q] = "recv" /\ \E i \in DOMAIN wire[q] : wire[q][i].end
       /\ answers' = [answers EXCEPT ![q] = @ + 1]
       /\ serving' = [serving EXCEPT ![q] = "respond"]
       /\ UNCHANGED <<exp, doing, asked, line, part, lock, wire, observations,
                      found, owner>>
    \/ /\ serving[q] = "respond" /\ wire[q] # <<>>
       /\ observations' = Append(observations,
                             [port |-> q, who |-> Claimed(wire[q]), of |-> owner[q]])
       /\ wire' = [wire EXCEPT ![q] = SubSeq(@, EndOf(@) + 1, Len(@))]
       /\ serving' = [serving EXCEPT ![q] = "recv"]
       /\ UNCHANGED <<exp, doing, asked, line, part, lock, answers, found, owner>>

------------------------------------------------------------------------------
(* The experiments.                                                         *)

(* An experiment opens its connection from port q, and the server accepts   *)
(* it in a thread of its own.                                               *)
Connect(q) ==
    /\ Running /\ doing = "connect"
    /\ serving[q] = "none"
    /\ line' = q
    /\ serving' = [serving EXCEPT ![q] = "recv"]
    /\ wire' = [wire EXCEPT ![q] = <<>>]
    /\ answers' = [answers EXCEPT ![q] = 0]
    /\ owner' = [owner EXCEPT ![q] = exp]
    /\ part' = [p \in People |-> 0]
    /\ asked' = 0 /\ doing' = "run"
    /\ UNCHANGED <<exp, lock, observations, found>>

(* F1 and F5: conn.request(), when the answer to the one before was read.   *)
Ask ==
    /\ Running /\ doing = "run" /\ How = "ask" /\ asked < Len(Who)
    /\ wire' = [wire EXCEPT ![line] = @ \o <<Start(Who[asked + 1]), End(Who[asked + 1])>>]
    /\ doing' = "wait"
    /\ UNCHANGED <<exp, asked, line, part, lock, serving, answers, observations,
                   found, owner>>

GetResponse ==
    /\ doing = "wait" /\ answers[line] > 0
    /\ answers' = [answers EXCEPT ![line] = @ - 1]
    /\ asked' = asked + 1 /\ doing' = "run"
    /\ UNCHANGED <<exp, line, part, lock, wire, serving, observations, found, owner>>

(* The server has closed the connection: http.client raises.                *)
RemoteDisconnected ==
    /\ doing = "wait" /\ answers[line] = 0 /\ serving[line] = "none"
    /\ doing' = "raised"
    /\ UNCHANGED <<exp, asked, line, part, lock, wire, serving, answers,
                   observations, found, owner>>

(* F2: a thread writes its request, in two pieces at least, under the lock. *)
SendHead(p) ==
    /\ Running /\ doing = "run" /\ How = "stream" /\ p \in Range(Who)
    /\ part[p] = 0 /\ lock = Unnamed
    /\ part' = [part EXCEPT ![p] = 1] /\ lock' = p
    /\ wire' = [wire EXCEPT ![line] = Append(@, Start(p))]
    /\ UNCHANGED <<exp, doing, asked, line, serving, answers, observations, found,
                   owner>>

SendTail(p) ==
    /\ Running /\ doing = "run" /\ How = "stream"
    /\ part[p] = 1
    /\ part' = [part EXCEPT ![p] = 2] /\ lock' = Unnamed
    /\ asked' = asked + 1
    /\ wire' = [wire EXCEPT ![line] = Append(@, End(p))]
    /\ UNCHANGED <<exp, doing, line, serving, answers, observations, found, owner>>

(* F4: the child that was given the socket writes a request of its own, and *)
(* reports; nobody reads the response.                                      *)
ChildWrites ==
    /\ Running /\ doing = "run" /\ How = "hand" /\ asked < Len(Who)
    /\ wire' = [wire EXCEPT ![line] = @ \o <<Start(Who[asked + 1]), End(Who[asked + 1])>>]
    /\ asked' = asked + 1
    /\ UNCHANGED <<exp, doing, line, part, lock, serving, answers, observations,
                   found, owner>>

(* server.observations, filtered by the port; F4 does not look.             *)
Look ==
    /\ Running /\ doing = "run" /\ asked = Len(Who)
    /\ found' = IF How = "hand" THEN {}
                ELSE {k \in DOMAIN observations : observations[k].port = line}
    /\ doing' = "close"
    /\ UNCHANGED <<exp, asked, line, part, lock, wire, serving, answers,
                   observations, owner>>

Leave ==
    /\ doing = "close"
    /\ line' = NoSource /\ exp' = exp + 1 /\ doing' = "connect"
    /\ UNCHANGED <<asked, part, lock, wire, serving, answers, observations, found,
                   owner>>

------------------------------------------------------------------------------
(* The server: handle(), on the connection from port q.                     *)

(* A complete request is cut off the buffer and recorded.                   *)
Parse(q) ==
    /\ serving[q] = "recv"
    /\ \E i \in DOMAIN wire[q] : wire[q][i].end
    /\ observations' = Append(observations,
                          [port |-> q, who |-> Claimed(wire[q]), of |-> owner[q]])
    /\ wire' = [wire EXCEPT ![q] = SubSeq(@, EndOf(@) + 1, Len(@))]
    /\ serving' = [serving EXCEPT ![q] = "respond"]
    /\ UNCHANGED <<exp, doing, asked, line, part, lock, answers, found, owner>>

Respond(q) ==
    /\ serving[q] = "respond"
    /\ answers' = [answers EXCEPT ![q] = @ + 1]
    /\ serving' = [serving EXCEPT ![q] = "recv"]
    /\ UNCHANGED <<exp, doing, asked, line, part, lock, wire, observations, found,
                   owner>>

(* Eight seconds without the rest of a request; or the client has closed,   *)
(* and a reset takes what was not read with it.                             *)
Abandon(q) ==
    /\ \/ serving[q] = "recv" /\ \A i \in DOMAIN wire[q] : ~wire[q][i].end
       \/ serving[q] # "none" /\ line # q
    /\ serving' = [serving EXCEPT ![q] = "none"]
    /\ UNCHANGED <<exp, doing, asked, line, part, lock, wire, answers,
                   observations, found, owner>>

ANext ==
    \/ \E q \in Sources : Connect(q) \/ Parse(q) \/ Respond(q) \/ Abandon(q)
    \/ Ask
    \/ GetResponse
    \/ RemoteDisconnected
    \/ \E p \in People : SendHead(p) \/ SendTail(p)
    \/ ChildWrites
    \/ Look
    \/ Leave

ASpec == AInit /\ [][ANext]_anchorVars

------------------------------------------------------------------------------
(* Properties.                                                              *)

ATypeOK ==
    /\ exp \in 1..Len(Experiments) + 1
    /\ doing \in {"connect", "run", "wait", "close", "raised"}
    /\ asked \in Nat
    /\ line \in Sources \cup {NoSource}
    /\ part \in [People -> 0..2]
    /\ lock \in People \cup {Unnamed}
    /\ wire \in [Sources -> Seq([who : People, end : BOOLEAN])]
    /\ serving \in [Sources -> {"none", "recv", "respond"}]
    /\ answers \in [Sources -> Nat]
    /\ observations \in Seq([port : Sources, who : People \cup {Unnamed},
                             of : DOMAIN Experiments])
    /\ found \subseteq DOMAIN observations
    /\ owner \in [Sources -> DOMAIN Experiments]

(* f1_connection_pooling(), f5_pool_reuse(): an experiment that reads every *)
(* answer finds all its requests on its port, once each, in order and last, *)
(* though connections of other experiments may have used the port and their *)
(* late records go to the same list.                                        *)
OwnRequestsRecorded ==
    doing = "close" /\ How = "ask" =>
        LET own == {k \in found : observations[k].of = exp} IN
        /\ \A i \in DOMAIN Who : \E k \in own : observations[k].who = Who[i]
        /\ \A k, m \in own : k < m =>
              \E i, j \in DOMAIN Who : /\ i < j
                                      /\ observations[k].who = Who[i]
                                      /\ observations[m].who = Who[j]
        /\ \A k \in own, m \in found \ own : m < k

(* f2_stream_multiplexing(), :160.  No record merges two streams or names   *)
(* nobody: on every connection each principal that asked is recorded at     *)
(* most once, by the name it gave.                                          *)
StreamsWhole ==
    \A i \in DOMAIN observations :
        /\ observations[i].who \in Range(Experiments[observations[i].of].who)
        /\ \A j \in DOMAIN observations :
              observations[i].of = observations[j].of
              /\ observations[i].who = observations[j].who => i = j
==============================================================================
