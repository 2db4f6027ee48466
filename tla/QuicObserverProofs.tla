------------------------- MODULE QuicObserverProofs --------------------------
(****************************************************************************)
(* Proofs about QuicObserver, for any finite sets of clients and connection *)
(* ids, every set of datagrams, and any number of them.                     *)
(****************************************************************************)
EXTENDS QuicObserver, SequenceTheorems, FiniteSetTheorems, TLAPS

(* Counting one more under a key.                                           *)
LEMMA CountMore ==
    ASSUME NEW D, NEW f \in [D -> Nat], NEW i \in D
    PROVE  [f EXCEPT ![i] = @ + 1] \in [D -> Nat]
  OBVIOUS

(* What parse() does to the counters, whatever the datagram.                *)
LEMMA ParseCounts ==
    ASSUME TypeOK, NEW p \in PacketRecord, Parse(p)
    PROVE  /\ long' \in Nat /\ short' \in Nat /\ empties' \in Nat
           /\ versions' \in Nat
           /\ dcids' \in [Ids \cup {NoBytes} -> Nat]
           /\ scids' \in [Ids \cup {NoBytes} -> Nat]
           /\ long' + short' + empties' = long + short + empties + 1
<1>1. /\ p.form \in Forms
      /\ p.dcid \in Ids \cup {NoBytes}
      /\ p.scid \in Ids \cup {NoBytes, Absent}
  BY DEF PacketRecord
<1>2. /\ long \in Nat /\ short \in Nat /\ empties \in Nat /\ versions \in Nat
      /\ dcids \in [Ids \cup {NoBytes} -> Nat]
      /\ scids \in [Ids \cup {NoBytes} -> Nat]
  BY DEF TypeOK
<1>3. dcids' \in [Ids \cup {NoBytes} -> Nat]
  <2>1. CASE p.form = "long" /\ p.dcid # NoBytes
    <3>1. dcids' = [dcids EXCEPT ![p.dcid] = @ + 1]
      BY <2>1 DEF Parse
    <3> QED BY <1>1, <1>2, <3>1, CountMore
  <2>2. CASE ~(p.form = "long" /\ p.dcid # NoBytes)
    BY <1>2, <2>2 DEF Parse
  <2> QED BY <2>1, <2>2
<1>4. scids' \in [Ids \cup {NoBytes} -> Nat]
  <2>1. CASE p.form = "long" /\ p.scid # Absent
    <3>1. scids' = [scids EXCEPT ![p.scid] = @ + 1]
      BY <2>1 DEF Parse
    <3>2. p.scid \in Ids \cup {NoBytes}
      BY <1>1, <2>1
    <3> QED BY <1>2, <3>1, <3>2, CountMore
  <2>2. CASE ~(p.form = "long" /\ p.scid # Absent)
    BY <1>2, <2>2 DEF Parse
  <2> QED BY <2>1, <2>2
<1>5. /\ long' \in Nat /\ short' \in Nat /\ empties' \in Nat /\ versions' \in Nat
      /\ long' + short' + empties' = long + short + empties + 1
  BY <1>1, <1>2 DEF Parse, Forms
<1> QED BY <1>3, <1>4, <1>5

------------------------------------------------------------------------------
(* Who holds a datagram: the main thread between its receipt and its        *)
(* forwarding, a client's thread between its receipt and its delivery.  A   *)
(* client without a socket has no thread.                                   *)
CarryInv ==
    /\ pc \in {"parse", "forward"} => from \in Clients /\ data \in PacketRecord
    /\ \A c \in Clients :
          /\ pump[c] \in {"parse", "send"} => held[c] \in PacketRecord
          /\ pump[c] \notin {"parse", "send"} => held[c] = NoPacket
          /\ c \notin upstream => pump[c] = "none"

LEMMA TypedStep ==
    ASSUME TypeOK, CarryInv, [Next]_vars
    PROVE  TypeOK' /\ CarryInv'
<1> USE ObserverAssumption
       DEF countVars, headerVars, mainVars, pumpVars, serverVars
<1>1. ASSUME NEW c \in Clients, NEW p \in Packets, Receive(c, p)
      PROVE  TypeOK' /\ CarryInv'
  <2>1. TypeOK'
    BY <1>1 DEF TypeOK, Receive
  <2> QED BY <2>1, <1>1 DEF CarryInv, Receive
<1>2. CASE ParseUp
  <2>1. data \in PacketRecord /\ from \in Clients
    BY <1>2 DEF CarryInv, ParseUp
  <2>2. /\ long' \in Nat /\ short' \in Nat /\ empties' \in Nat
        /\ versions' \in Nat
        /\ dcids' \in [Ids \cup {NoBytes} -> Nat]
        /\ scids' \in [Ids \cup {NoBytes} -> Nat]
    BY <1>2, <2>1, ParseCounts DEF ParseUp
  <2>3. /\ UNCHANGED <<countVars, from, data, size, upstream, pumpVars, serverVars>>
        /\ pc' = "forward"
    BY <1>2 DEF ParseUp
  <2>4. TypeOK'
    BY <2>2, <2>3 DEF TypeOK
  <2> QED BY <2>1, <2>3, <2>4 DEF CarryInv
<1>3. ASSUME NEW lost \in BOOLEAN, Forward(lost)
      PROVE  TypeOK' /\ CarryInv'
  <2>1. from \in Clients
    BY <1>3 DEF CarryInv, Forward
  <2>2. TypeOK'
    BY <1>3, <2>1 DEF TypeOK, Forward
  <2> QED BY <2>1, <2>2, <1>3 DEF CarryInv, Forward, TypeOK
<1>4. CASE Idle \/ NotDue \/ Copy \/ DumpRaises
  BY <1>4 DEF TypeOK, CarryInv, Idle, NotDue, Copy, DumpRaises
<1>5. CASE WalkDcids \/ WalkScids \/ FinishDump
  <2>1. \A S \in SUBSET (Ids \cup {NoBytes}) : Cardinality(S) \in Nat
    BY FS_AddElement, FS_Subset, FS_CardinalityType
  <2>2. /\ Seen(dcids) \in SUBSET (Ids \cup {NoBytes})
        /\ Seen(scids) \in SUBSET (Ids \cup {NoBytes})
    BY DEF Seen, TypeOK
  <2>3. size' \in Nat
    BY <1>5, <2>1, <2>2 DEF WalkDcids, WalkScids, FinishDump
  <2> QED BY <2>3, <1>5 DEF TypeOK, CarryInv, WalkDcids, WalkScids, FinishDump
<1>6. ASSUME NEW c \in Clients, PumpReceive(c)
      PROVE  TypeOK' /\ CarryInv'
  <2>1. /\ inbox[c] \in Seq(PacketRecord) /\ inbox[c] # <<>>
    BY <1>6 DEF PumpReceive, TypeOK
  <2>2. Head(inbox[c]) \in PacketRecord /\ Tail(inbox[c]) \in Seq(PacketRecord)
    BY <2>1, HeadTailProperties
  <2>3. TypeOK'
    BY <1>6, <2>2 DEF TypeOK, PumpReceive
  <2> QED BY <1>6, <2>2, <2>3 DEF CarryInv, PumpReceive, TypeOK
<1>7. ASSUME NEW c \in Clients, PumpParse(c)
      PROVE  TypeOK' /\ CarryInv'
  <2>1. held[c] \in PacketRecord
    BY <1>7 DEF CarryInv, PumpParse
  <2>2. /\ long' \in Nat /\ short' \in Nat /\ empties' \in Nat
        /\ versions' \in Nat
        /\ dcids' \in [Ids \cup {NoBytes} -> Nat]
        /\ scids' \in [Ids \cup {NoBytes} -> Nat]
    BY <1>7, <2>1, ParseCounts DEF PumpParse
  <2>3. /\ UNCHANGED <<countVars, mainVars, held, inbox, delivered, serverVars>>
        /\ pump[c] = "parse"
        /\ pump' = [pump EXCEPT ![c] = "send"]
    BY <1>7 DEF PumpParse
  <2>4. TypeOK'
    BY <2>2, <2>3 DEF TypeOK
  <2> QED BY <2>1, <2>3, <2>4 DEF CarryInv, TypeOK
<1>8. ASSUME NEW c \in Clients, PumpSend(c)
      PROVE  TypeOK' /\ CarryInv'
  <2>1. held[c] \in PacketRecord
    BY <1>8 DEF CarryInv, PumpSend
  <2>2. TypeOK'
    BY <1>8, <2>1 DEF TypeOK, PumpSend
  <2> QED BY <1>8, <2>2 DEF CarryInv, PumpSend, TypeOK
<1>9. ASSUME NEW c \in Clients, PumpSendFails(c) \/ PumpTimeout(c)
      PROVE  TypeOK' /\ CarryInv'
  BY <1>9 DEF CarryInv, PumpSendFails, PumpTimeout, TypeOK
<1>10. ASSUME NEW c \in Clients, NEW p \in Packets, Answer(c, p)
       PROVE  TypeOK' /\ CarryInv'
  <2>1. p \in PacketRecord
    OBVIOUS
  <2>2. TypeOK'
    BY <1>10, <2>1 DEF TypeOK, Answer
  <2> QED BY <1>10, <2>2 DEF CarryInv, Answer
<1>11. CASE UNCHANGED vars
  BY <1>11 DEF vars, TypeOK, CarryInv
<1> QED
  BY <1>1, <1>2, <1>3, <1>4, <1>5, <1>6, <1>7, <1>8, <1>9, <1>10, <1>11
     DEF Next, MainStep, PumpStep

LEMMA TypedAlways == Spec => [](TypeOK /\ CarryInv)
<1>1. Init => TypeOK /\ CarryInv
  BY ObserverAssumption DEF Init, TypeOK, CarryInv
<1>2. TypeOK /\ CarryInv /\ [Next]_vars => (TypeOK /\ CarryInv)'
  BY TypedStep
<1> QED BY <1>1, <1>2, PTL DEF Spec

(* The observer's state keeps its types.                                    *)
THEOREM TypeCorrect == Spec => []TypeOK
  BY TypedAlways, PTL

------------------------------------------------------------------------------
(* Every datagram is counted once by its direction and once by its header.  *)

LEMMA CountStep ==
    ASSUME NEW S, IsFiniteSet(S), NEW x
    PROVE  /\ x \notin S => Cardinality(S \cup {x}) = Cardinality(S) + 1
           /\ x \in S => Cardinality(S \ {x}) = Cardinality(S) - 1
           /\ Cardinality(S) \in Nat
  BY FS_AddElement, FS_RemoveElement, FS_CardinalityType

(* Of what the datagrams are, only their number matters: each of the two    *)
(* receivers raises the right-hand side and what it is looking at.          *)
LEMMA AccountedStep ==
    ASSUME TypeOK, CarryInv, HeadersAccounted, [Next]_vars
    PROVE  HeadersAccounted'
<1> DEFINE looking == IF pc = "parse" THEN 1 ELSE 0
<1> USE DEF countVars, headerVars, mainVars, pumpVars, serverVars
<1>0. /\ IsFiniteSet(Unparsed)
      /\ Cardinality(Unparsed) \in Nat
      /\ c2s \in Nat /\ s2c \in Nat
      /\ long \in Nat /\ short \in Nat /\ empties \in Nat
  BY ObserverAssumption, FS_Subset, FS_CardinalityType DEF Unparsed, TypeOK
<1>1. ASSUME UNCHANGED <<c2s, s2c, long, short, empties>>,
             Unparsed' = Unparsed, looking' = looking
      PROVE  HeadersAccounted'
  BY <1>1 DEF HeadersAccounted
<1>2. ASSUME NEW c \in Clients, NEW p \in Packets, Receive(c, p)
      PROVE  HeadersAccounted'
  <2>1. Unparsed' = Unparsed
    BY <1>2 DEF Receive, Unparsed
  <2>2. /\ c2s' = c2s + 1 /\ UNCHANGED <<s2c, long, short, empties>>
        /\ looking = 0 /\ looking' = 1
    BY <1>2 DEF Receive
  <2> QED BY <1>0, <2>1, <2>2 DEF HeadersAccounted
<1>3. CASE ParseUp
  <2>1. Unparsed' = Unparsed
    BY <1>3 DEF ParseUp, Unparsed
  <2>2. /\ long' + short' + empties' = long + short + empties + 1
        /\ long' \in Nat /\ short' \in Nat /\ empties' \in Nat
    <3>1. data \in PacketRecord
      BY <1>3 DEF CarryInv, ParseUp
    <3> QED BY <1>3, <3>1, ParseCounts DEF ParseUp
  <2>3. /\ UNCHANGED <<c2s, s2c>>
        /\ looking = 1 /\ looking' = 0
    BY <1>3 DEF ParseUp
  <2>4. Cardinality(Unparsed)' = Cardinality(Unparsed)
    BY <2>1
  <2>5. long' + short' + empties' + Cardinality(Unparsed) + 0
            = long + short + empties + Cardinality(Unparsed) + 1
    <3> DEFINE s == long + short + empties
               t == long' + short' + empties'
               n == Cardinality(Unparsed)
    <3>1. s \in Nat /\ n \in Nat
      BY <1>0
    <3>2. t = s + 1
      BY <2>2
    <3> HIDE DEF s, t, n
    <3>3. t + n + 0 = s + n + 1
      BY <3>1, <3>2
    <3> QED BY <3>3 DEF s, t, n
  <2> QED BY <2>3, <2>4, <2>5 DEF HeadersAccounted
<1>4. ASSUME NEW lost \in BOOLEAN, Forward(lost)
      PROVE  HeadersAccounted'
  <2>1. Unparsed' = Unparsed
    <3>1. from \in Clients
      BY <1>4 DEF CarryInv, Forward
    <3>2. from \notin upstream => pump[from] = "none"
      BY <3>1 DEF CarryInv
    <3> QED BY <1>4, <3>1, <3>2 DEF Forward, Unparsed, TypeOK
  <2> QED BY <1>1, <1>4, <2>1 DEF Forward
<1>5. CASE \/ Idle \/ NotDue \/ Copy \/ DumpRaises
           \/ WalkDcids \/ WalkScids \/ FinishDump
  <2>1. Unparsed' = Unparsed
    BY <1>5 DEF Idle, NotDue, Copy, DumpRaises, WalkDcids, WalkScids,
                FinishDump, Unparsed
  <2> QED
    BY <1>1, <1>5, <2>1 DEF Idle, NotDue, Copy, DumpRaises, WalkDcids,
                            WalkScids, FinishDump
<1>6. ASSUME NEW c \in Clients, PumpReceive(c)
      PROVE  HeadersAccounted'
  <2>1. c \notin Unparsed /\ Unparsed' = Unparsed \cup {c}
    BY <1>6 DEF PumpReceive, Unparsed, TypeOK
  <2>2. Cardinality(Unparsed') = Cardinality(Unparsed) + 1
    BY <1>0, <2>1, CountStep
  <2>3. s2c' = s2c + 1 /\ UNCHANGED <<c2s, long, short, empties, pc>>
    BY <1>6 DEF PumpReceive
  <2> QED BY <1>0, <2>2, <2>3 DEF HeadersAccounted
<1>7. ASSUME NEW c \in Clients, PumpParse(c)
      PROVE  HeadersAccounted'
  <2>1. c \in Unparsed /\ Unparsed' = Unparsed \ {c}
    BY <1>7 DEF PumpParse, Unparsed, TypeOK
  <2>2. Cardinality(Unparsed') = Cardinality(Unparsed) - 1
    BY <1>0, <2>1, CountStep
  <2>3. /\ long' + short' + empties' = long + short + empties + 1
        /\ long' \in Nat /\ short' \in Nat /\ empties' \in Nat
    <3>1. held[c] \in PacketRecord
      BY <1>7 DEF CarryInv, PumpParse
    <3> QED BY <1>7, <3>1, ParseCounts DEF PumpParse
  <2>4. UNCHANGED <<c2s, s2c, pc>>
    BY <1>7 DEF PumpParse
  <2>5. long' + short' + empties' + (Cardinality(Unparsed) - 1) + looking
            = long + short + empties + Cardinality(Unparsed) + looking
    <3> DEFINE s == long + short + empties
               t == long' + short' + empties'
               n == Cardinality(Unparsed)
    <3>1. s \in Nat /\ n \in Nat /\ looking \in Nat
      BY <1>0
    <3>2. t = s + 1
      BY <2>3
    <3> HIDE DEF s, t, n, looking
    <3>3. t + (n - 1) + looking = s + n + looking
      BY <3>1, <3>2
    <3> QED BY <3>3 DEF s, t, n
  <2> QED BY <2>2, <2>4, <2>5 DEF HeadersAccounted
<1>8. ASSUME NEW c \in Clients,
             PumpSend(c) \/ PumpSendFails(c) \/ PumpTimeout(c)
      PROVE  HeadersAccounted'
  <2>1. Unparsed' = Unparsed
    BY <1>8 DEF PumpSend, PumpSendFails, PumpTimeout, Unparsed, TypeOK
  <2> QED BY <1>1, <1>8, <2>1 DEF PumpSend, PumpSendFails, PumpTimeout
<1>9. ASSUME NEW c \in Clients, NEW p \in Packets, Answer(c, p)
      PROVE  HeadersAccounted'
  BY <1>1, <1>9 DEF Answer, Unparsed
<1>10. CASE UNCHANGED vars
  BY <1>1, <1>10 DEF vars, Unparsed
<1> QED
  BY <1>2, <1>3, <1>4, <1>5, <1>6, <1>7, <1>8, <1>9, <1>10
     DEF Next, MainStep, PumpStep

(* The packets counted by header, the datagrams with nothing in them and    *)
(* the ones being looked at make up the datagrams received (parse()).       *)
THEOREM Accounted == Spec => []HeadersAccounted
<1>1. Init => HeadersAccounted
  <2> SUFFICES ASSUME Init PROVE HeadersAccounted
    OBVIOUS
  <2>1. Unparsed = {}
    BY DEF Init, Unparsed
  <2> QED BY <2>1, FS_EmptySet DEF Init, HeadersAccounted
<1>2. TypeOK /\ CarryInv /\ HeadersAccounted /\ [Next]_vars
      => HeadersAccounted'
  BY AccountedStep
<1> QED BY <1>1, <1>2, TypedAlways, PTL DEF Spec

------------------------------------------------------------------------------
(* The answers of each client.                                              *)

(* What a client's thread carries, as a sequence.                           *)
Carried(c) == IF held[c] = NoPacket THEN <<>> ELSE <<held[c]>>

LEMMA MoveLast ==
    ASSUME NEW S, NEW q \in Seq(S), NEW r \in Seq(S), NEW p \in S
    PROVE  r \o Append(q, p) = Append(r \o q, p)
  BY SMT

LEMMA MoveHead ==
    ASSUME NEW S, NEW q \in Seq(S), q # <<>>, NEW r \in Seq(S)
    PROVE  r \o <<>> \o q = r \o <<Head(q)>> \o Tail(q)
<1>1. q = <<Head(q)>> \o Tail(q)
  BY SMT
<1> QED BY <1>1, SMT

LEMMA OrderStep ==
    ASSUME TypeOK, CarryInv, AnswersInOrder, [Next]_vars
    PROVE  AnswersInOrder'
<1> USE ObserverAssumption
       DEF countVars, headerVars, mainVars, pumpVars, serverVars
<1> SUFFICES ASSUME NEW k \in Clients, pump'[k] # "failed"
             PROVE  delivered'[k] \o Carried(k)' \o inbox'[k] = answered'[k]
  BY DEF AnswersInOrder, Carried
<1>0. /\ delivered[k] \in Seq(PacketRecord)
      /\ inbox[k] \in Seq(PacketRecord)
      /\ answered[k] \in Seq(PacketRecord)
      /\ Carried(k) \in Seq(PacketRecord)
  BY DEF TypeOK, Carried
<1>1. pump[k] # "failed" => delivered[k] \o Carried(k) \o inbox[k] = answered[k]
  BY DEF AnswersInOrder, Carried
<1>2. ASSUME /\ delivered'[k] = delivered[k] /\ held'[k] = held[k]
             /\ inbox'[k] = inbox[k] /\ answered'[k] = answered[k]
             /\ pump[k] # "failed"
      PROVE  delivered'[k] \o Carried(k)' \o inbox'[k] = answered'[k]
  BY <1>1, <1>2 DEF Carried
<1>3. CASE MainStep
  <2>1. /\ UNCHANGED <<delivered, held, inbox, answered>>
    BY <1>3 DEF MainStep, Receive, ParseUp, Forward, Idle, NotDue, Copy,
                WalkDcids, WalkScids, FinishDump, DumpRaises
  <2>2. CASE \E lost \in BOOLEAN : Forward(lost)
    <3>1. from \in Clients /\ (from \notin upstream => pump[from] = "none")
      BY <2>2 DEF CarryInv, Forward
    <3>2. pump[k] # "failed"
      BY <2>2, <3>1 DEF Forward, TypeOK
    <3> QED BY <1>2, <2>1, <3>2
  <2>3. CASE ~ \E lost \in BOOLEAN : Forward(lost)
    <3>1. pump' = pump
      BY <1>3, <2>3 DEF MainStep, Receive, ParseUp, Idle, NotDue, Copy,
                        WalkDcids, WalkScids, FinishDump, DumpRaises
    <3> QED BY <1>2, <2>1, <3>1
  <2> QED BY <2>2, <2>3
<1>4. ASSUME NEW c \in Clients, PumpReceive(c)
      PROVE  delivered'[k] \o Carried(k)' \o inbox'[k] = answered'[k]
  <2>1. CASE c = k
    <3>1. /\ held[k] = NoPacket /\ pump[k] # "failed" /\ inbox[k] # <<>>
          /\ held'[k] = Head(inbox[k]) /\ inbox'[k] = Tail(inbox[k])
          /\ delivered'[k] = delivered[k] /\ answered'[k] = answered[k]
      BY <1>4, <2>1 DEF PumpReceive, CarryInv, TypeOK
    <3>2. Head(inbox[k]) # NoPacket
      BY <1>0, <3>1, HeadTailProperties
    <3>3. Carried(k) = <<>> /\ Carried(k)' = <<Head(inbox[k])>>
      BY <3>1, <3>2 DEF Carried
    <3>4. delivered[k] \o <<>> \o inbox[k]
            = delivered[k] \o <<Head(inbox[k])>> \o Tail(inbox[k])
      BY <1>0, <3>1, MoveHead
    <3> QED BY <1>1, <3>1, <3>3, <3>4
  <2>2. CASE c # k
    BY <1>2, <1>4, <2>2 DEF PumpReceive, TypeOK
  <2> QED BY <2>1, <2>2
<1>5. ASSUME NEW c \in Clients, PumpParse(c)
      PROVE  delivered'[k] \o Carried(k)' \o inbox'[k] = answered'[k]
  BY <1>2, <1>5 DEF PumpParse, TypeOK
<1>6. ASSUME NEW c \in Clients, PumpSend(c)
      PROVE  delivered'[k] \o Carried(k)' \o inbox'[k] = answered'[k]
  <2>1. CASE c = k
    <3>1. /\ held[k] \in PacketRecord /\ pump[k] # "failed"
          /\ held'[k] = NoPacket /\ inbox'[k] = inbox[k]
          /\ delivered'[k] = Append(delivered[k], held[k])
          /\ answered'[k] = answered[k]
      BY <1>6, <2>1 DEF PumpSend, CarryInv, TypeOK
    <3>2. Carried(k) = <<held[k]>> /\ Carried(k)' = <<>>
      BY <3>1 DEF Carried
    <3>3. Append(delivered[k], held[k]) \o <<>> = delivered[k] \o <<held[k]>>
      BY <1>0, <3>1, SMT
    <3> QED BY <1>1, <3>1, <3>2, <3>3
  <2>2. CASE c # k
    BY <1>2, <1>6, <2>2 DEF PumpSend, TypeOK
  <2> QED BY <2>1, <2>2
<1>7. ASSUME NEW c \in Clients, PumpSendFails(c) \/ PumpTimeout(c)
      PROVE  delivered'[k] \o Carried(k)' \o inbox'[k] = answered'[k]
  <2>1. CASE c = k
    <3>1. PumpTimeout(c)
      BY <1>7, <2>1 DEF PumpSendFails, TypeOK
    <3> QED BY <1>2, <2>1, <3>1 DEF PumpTimeout, TypeOK
  <2>2. CASE c # k
    BY <1>2, <1>7, <2>2 DEF PumpSendFails, PumpTimeout, TypeOK
  <2> QED BY <2>1, <2>2
<1>8. ASSUME NEW c \in Clients, NEW p \in Packets, Answer(c, p)
      PROVE  delivered'[k] \o Carried(k)' \o inbox'[k] = answered'[k]
  <2>1. CASE c = k
    <3>1. /\ pump[k] # "failed" /\ p \in PacketRecord
          /\ held'[k] = held[k] /\ delivered'[k] = delivered[k]
          /\ inbox'[k] = Append(inbox[k], p)
          /\ answered'[k] = Append(answered[k], p)
      BY <1>8, <2>1 DEF Answer, TypeOK
    <3>2. Carried(k)' = Carried(k)
      BY <3>1 DEF Carried
    <3>3. delivered[k] \o Carried(k) \in Seq(PacketRecord)
      BY <1>0, ConcatProperties
    <3>4. (delivered[k] \o Carried(k)) \o Append(inbox[k], p)
            = Append((delivered[k] \o Carried(k)) \o inbox[k], p)
      BY <1>0, <3>1, <3>3, MoveLast
    <3> QED BY <1>1, <3>1, <3>2, <3>4
  <2>2. CASE c # k
    BY <1>2, <1>8, <2>2 DEF Answer, TypeOK
  <2> QED BY <2>1, <2>2
<1>9. CASE UNCHANGED vars
  BY <1>2, <1>9 DEF vars
<1> QED
  BY <1>3, <1>4, <1>5, <1>6, <1>7, <1>8, <1>9 DEF Next, PumpStep

(* What a client has been sent, what its thread holds and what waits in its *)
(* socket are the server's answers, in order (pump_back()).                 *)
THEOREM InOrder == Spec => []AnswersInOrder
<1>1. Init => AnswersInOrder
  BY ObserverAssumption DEF Init, AnswersInOrder
<1>2. TypeOK /\ CarryInv /\ AnswersInOrder /\ [Next]_vars => AnswersInOrder'
  BY OrderStep
<1> QED BY <1>1, <1>2, TypedAlways, PTL DEF Spec
==============================================================================
