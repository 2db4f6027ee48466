---------------------------- MODULE GatewayProofs ----------------------------
(****************************************************************************)
(* Proofs about Gateway, for every set of callers, principals, policies and *)
(* ports, both pool modes, and any number of calls.                         *)
(****************************************************************************)
EXTENDS Gateway, SequenceTheorems, TLAPS

(* The range of a sequence grows by what is appended and never by a tail.   *)
LEMMA RangeAppend ==
    ASSUME NEW S, NEW s \in Seq(S), NEW e \in S
    PROVE  Range(Append(s, e)) = Range(s) \cup {e}
<1>1. /\ DOMAIN s = 1..Len(s)
      /\ DOMAIN Append(s, e) = 1..(Len(s) + 1)
      /\ Append(s, e)[Len(s) + 1] = e
      /\ \A i \in 1..Len(s) : Append(s, e)[i] = s[i]
      /\ Len(s) \in Nat
  OBVIOUS
<1>2. 1..(Len(s) + 1) = (1..Len(s)) \cup {Len(s) + 1}
  BY <1>1
<1> QED BY <1>1, <1>2, Zenon DEF Range

LEMMA RangeTail ==
    ASSUME NEW S, NEW s \in Seq(S), s # <<>>
    PROVE  /\ Head(s) \in S
           /\ Head(s) \in Range(s)
           /\ Tail(s) \in Seq(S)
           /\ Range(Tail(s)) \subseteq Range(s)
<1>1. /\ DOMAIN s = 1..Len(s)
      /\ Len(s) \in Nat
      /\ Len(s) > 0
      /\ Head(s) = s[1]
      /\ Tail(s) \in Seq(S)
      /\ DOMAIN Tail(s) = 1..(Len(s) - 1)
      /\ \A i \in 1..(Len(s) - 1) : Tail(s)[i] = s[i + 1]
      /\ \A i \in 1..Len(s) : s[i] \in S
  OBVIOUS
<1>2. 1 \in DOMAIN s /\ \A i \in 1..(Len(s) - 1) : i + 1 \in DOMAIN s
  BY <1>1
<1>3. Range(Tail(s)) \subseteq Range(s)
  BY <1>1, <1>2 DEF Range
<1>4. Head(s) \in Range(s)
  BY <1>1, <1>2 DEF Range
<1> QED BY <1>1, <1>2, <1>3, <1>4

LEMMA RangeOfSome ==
    ASSUME NEW S, NEW s \in Seq(S)
    PROVE  /\ Range(s) \subseteq S
           /\ Range(s) = {} <=> s = <<>>
<1>1. DOMAIN s = 1..Len(s) /\ Len(s) \in Nat /\ \A i \in 1..Len(s) : s[i] \in S
  OBVIOUS
<1>2. s # <<>> => 1 \in 1..Len(s)
  BY <1>1
<1>3. s = <<>> => 1..Len(s) = {}
  OBVIOUS
<1> QED BY <1>1, <1>2, <1>3 DEF Range

(* A call past its verification has a principal, and past the pool a        *)
(* connection.                                                              *)
CallInv ==
    \A a \in Callers :
        /\ pc[a] # "idle" => who[a] \in Principals
        /\ pc[a] \in {"connected", "sent"} => conn[a] \in Conns

LEMMA TypedStep ==
    ASSUME TypeOK, CallInv, [Next]_vars
    PROVE  TypeOK' /\ CallInv'
<1> USE GatewayAssumption DEF TypeOK, callVars, connVars
<1>1. ASSUME NEW a \in Callers, NEW p \in Principals, NEW g \in BOOLEAN,
             Verify(a, p, g)
      PROVE  TypeOK' /\ CallInv'
  <2>1. CASE g
    <3>1. /\ pc' = [pc EXCEPT ![a] = "verified"]
          /\ who' = [who EXCEPT ![a] = p]
          /\ calls' = calls + 1
          /\ UNCHANGED <<pool, lock, conn, connVars, lports, answered>>
      BY <1>1, <2>1 DEF Verify
    <3>2. TypeOK'
      BY <3>1
    <3>3. CallInv'
      BY <3>1 DEF CallInv
    <3> QED BY <3>2, <3>3
  <2>2. CASE ~g
    BY <1>1, <2>2 DEF Verify, CallInv
  <2> QED BY <2>1, <2>2
<1>2. ASSUME NEW a \in Callers, Lookup(a)
      PROVE  TypeOK' /\ CallInv'
  <2>1. KeyOf(who[a]) \in Keys
    BY <1>2 DEF Lookup, CallInv, KeyOf, Keys
  <2>2. CASE pool[KeyOf(who[a])] = NoConn
    BY <1>2, <2>2 DEF Lookup, CallInv
  <2>3. CASE pool[KeyOf(who[a])] # NoConn
    BY <1>2, <2>1, <2>3 DEF Lookup, CallInv
  <2> QED BY <2>2, <2>3
<1>3. ASSUME NEW a \in Callers, NEW c \in Conns, Connect(a, c)
      PROVE  TypeOK' /\ CallInv'
  <2>1. who[a] \in Principals
    BY <1>3 DEF Connect, CallInv
  <2>2. TypeOK'
    BY <1>3, <2>1 DEF Connect, Stamp
  <2>3. CallInv'
    BY <1>3, <2>1 DEF Connect, CallInv
  <2> QED BY <2>2, <2>3
<1>4. ASSUME NEW a \in Callers,
             ConnectFails(a) \/ SendRaises(a) \/ ReceiveRaises(a)
      PROVE  TypeOK' /\ CallInv'
  BY <1>4 DEF ConnectFails, SendRaises, ReceiveRaises, Leave, CallInv
<1>5. ASSUME NEW a \in Callers, Send(a)
      PROVE  TypeOK' /\ CallInv'
  <2>1. who[a] \in Principals /\ conn[a] \in Conns
    BY <1>5 DEF Send, CallInv
  <2>2. Append(toUp[conn[a]], who[a]) \in Seq(Principals)
    BY <2>1
  <2>3. TypeOK'
    BY <1>5, <2>2 DEF Send
  <2>4. CallInv'
    BY <1>5 DEF Send, CallInv
  <2> QED BY <2>3, <2>4
<1>6. ASSUME NEW a \in Callers, SendLost(a)
      PROVE  TypeOK' /\ CallInv'
  BY <1>6 DEF SendLost, CallInv
<1>7. ASSUME NEW a \in Callers, Receive(a)
      PROVE  TypeOK' /\ CallInv'
  <2>1. who[a] \in Principals /\ conn[a] \in Conns
    BY <1>7 DEF Receive, CallInv
  <2>2. PICK n \in 1..replies[conn[a]] :
            replies' = [replies EXCEPT ![conn[a]] = @ - n]
    BY <1>7 DEF Receive
  <2>3. replies[conn[a]] - n \in Nat
    BY <2>1, <2>2
  <2>4. replies' \in [Conns -> Nat]
    BY <2>2, <2>3
  <2>5. answered' \in [Conns -> Nat] /\ lports' \in [Principals -> SUBSET Conns]
    BY <1>7, <2>1 DEF Receive, Report
  <2>6. TypeOK'
    BY <1>7, <2>4, <2>5 DEF Receive, Report, Leave
  <2>7. CallInv'
    BY <1>7 DEF Receive, Report, Leave, CallInv
  <2> QED BY <2>6, <2>7
<1>8. ASSUME NEW a \in Callers, ReceiveNothing(a)
      PROVE  TypeOK' /\ CallInv'
  <2>1. who[a] \in Principals /\ conn[a] \in Conns
    BY <1>8 DEF ReceiveNothing, CallInv
  <2>2. TypeOK'
    BY <1>8, <2>1 DEF ReceiveNothing, Report, Leave
  <2>3. CallInv'
    BY <1>8 DEF ReceiveNothing, Report, Leave, CallInv
  <2> QED BY <2>2, <2>3
<1>9. ASSUME NEW c \in Conns, Record(c)
      PROVE  TypeOK' /\ CallInv'
  <2>1. /\ Head(toUp[c]) \in Principals
        /\ Tail(toUp[c]) \in Seq(Principals)
    BY <1>9, RangeTail DEF Record
  <2>2. Append(log[c], Head(toUp[c])) \in Seq(Principals)
    BY <2>1
  <2>3. TypeOK'
    BY <1>9, <2>1, <2>2 DEF Record
  <2>4. CallInv'
    BY <1>9 DEF Record, CallInv
  <2> QED BY <2>3, <2>4
<1>10. ASSUME NEW c \in Conns, Reply(c)
       PROVE  TypeOK' /\ CallInv'
  BY <1>10 DEF Reply, CallInv
<1>11. ASSUME NEW c \in Conns, IdleTimeout(c)
       PROVE  TypeOK' /\ CallInv'
  BY <1>11 DEF IdleTimeout, CallInv
<1>12. ASSUME NEW c \in Conns, LateTimeout(c)
       PROVE  TypeOK' /\ CallInv'
  <2>1. <<>> \in Seq(Principals)
    OBVIOUS
  <2>2. TypeOK'
    BY <1>12, <2>1 DEF LateTimeout
  <2>3. CallInv'
    BY <1>12 DEF LateTimeout, CallInv
  <2> QED BY <2>2, <2>3
<1>13. CASE UNCHANGED vars
  BY <1>13 DEF vars, CallInv
<1> QED
  BY <1>1, <1>2, <1>3, <1>4, <1>5, <1>6, <1>7, <1>8, <1>9, <1>10, <1>11,
     <1>12, <1>13 DEF Next, CallerStep, UpstreamStep

LEMMA TypedAlways == Spec => [](TypeOK /\ CallInv)
<1>1. Init => TypeOK /\ CallInv
  <2> SUFFICES ASSUME Init PROVE TypeOK /\ CallInv
    OBVIOUS
  <2>1. <<>> \in Seq(Principals)
    OBVIOUS
  <2>2. TypeOK
    BY <2>1, GatewayAssumption DEF Init, TypeOK
  <2>3. CallInv
    BY DEF Init, CallInv
  <2> QED BY <2>2, <2>3
<1>2. TypeOK /\ CallInv /\ [Next]_vars => (TypeOK /\ CallInv)'
  BY TypedStep
<1> QED BY <1>1, <1>2, PTL DEF Spec

(* The variables of the experiment hold values of the types the code gives  *)
(* them (Gateway, Upstream).                                                *)
THEOREM TypeCorrect == Spec => []TypeOK
<1>1. TypeOK /\ CallInv => TypeOK
  OBVIOUS
<1> QED BY <1>1, TypedAlways, PTL

------------------------------------------------------------------------------
(* The inductive invariant: the pool and the owners of the connections      *)
(* mirror each other, and whatever is on a connection belongs to its key.   *)

(* The lock is held exactly by the one call that is connecting, and that    *)
(* call's key has no connection.                                            *)
LockInv ==
    \A a \in Callers :
        pc[a] = "connecting" => lock = a /\ pool[KeyOf(who[a])] = NoConn

(* A pooled connection was made for its key, and a connection that was made *)
(* is the pooled one of its key; it carries its principal's mark.           *)
PoolInv ==
    /\ \A k \in Keys : pool[k] # NoConn =>
          /\ owner[pool[k]] # Nobody
          /\ KeyOf(owner[pool[k]]) = k
    /\ \A c \in Conns :
          /\ upstream[c] = "none" => owner[c] = Nobody
          /\ owner[c] # Nobody => pool[KeyOf(owner[c])] = c
          /\ owner[c] # Nobody => mark[c] = Stamp(owner[c])

(* Principals of the same key as the owner of connection c.                 *)
Shares(p, c) == owner[c] # Nobody /\ KeyOf(owner[c]) = KeyOf(p)

(* Calls, requests, records and reported ports keep to their key.           *)
KeyInv ==
    /\ \A a \in Callers :
          pc[a] \in {"connected", "sent"} => Shares(who[a], conn[a])
    /\ \A c \in Conns :
          /\ \A p \in Range(toUp[c]) : Shares(p, c)
          /\ \A p \in Range(log[c]) : Shares(p, c)
    /\ \A p \in Principals : \A c \in lports[p] : Shares(p, c)

(* The replies on a connection, read or not, and the one being prepared     *)
(* were each preceded by a record.                                          *)
ReplyInv ==
    \A c \in Conns :
        answered[c] + replies[c] + (IF upstream[c] = "replying" THEN 1 ELSE 0)
            <= Len(log[c])

GatewayInv ==
    /\ LockInv
    /\ PoolInv
    /\ KeyInv
    /\ ReplyInv

LEMMA GatewayInit == Init => GatewayInv
<1> SUFFICES ASSUME Init PROVE GatewayInv
  OBVIOUS
<1> USE GatewayAssumption DEF Init
<1>1. Range(<<>>) = {}
  BY DEF Range
<1>2. LockInv /\ PoolInv
  BY DEF LockInv, PoolInv
<1>3. KeyInv
  BY <1>1 DEF KeyInv
<1>4. ReplyInv
  BY DEF ReplyInv
<1> QED BY <1>2, <1>3, <1>4 DEF GatewayInv

LEMMA GatewayStep ==
    ASSUME TypeOK, CallInv, TypeOK', CallInv', GatewayInv, [Next]_vars
    PROVE  GatewayInv'
<1> USE GatewayAssumption DEF GatewayInv, callVars, connVars
<1>1. ASSUME NEW a \in Callers, NEW p \in Principals, NEW g \in BOOLEAN,
             Verify(a, p, g)
      PROVE  GatewayInv'
  <2>1. /\ \A b \in Callers : b # a => pc'[b] = pc[b] /\ who'[b] = who[b]
        /\ pc'[a] \in {"idle", "verified"}
    BY <1>1 DEF Verify, TypeOK
  <2>2. LockInv' /\ PoolInv' /\ ReplyInv'
    BY <1>1, <2>1 DEF Verify, LockInv, PoolInv, ReplyInv
  <2>3. KeyInv'
    BY <1>1, <2>1 DEF Verify, KeyInv, Shares
  <2> QED BY <2>2, <2>3
<1>2. ASSUME NEW a \in Callers, Lookup(a)
      PROVE  GatewayInv'
  <2>1. /\ \A b \in Callers : b # a => pc'[b] = pc[b] /\ conn'[b] = conn[b]
        /\ lock = NoCaller
        /\ who[a] \in Principals /\ KeyOf(who[a]) \in Keys
        /\ UNCHANGED <<pool, who, connVars, lports, answered>>
    BY <1>2 DEF Lookup, TypeOK, CallInv, KeyOf, Keys
  <2>2. PoolInv' /\ ReplyInv'
    BY <2>1 DEF PoolInv, ReplyInv
  <2>3. \A b \in Callers : pc[b] # "connecting"
    BY <2>1 DEF LockInv, TypeOK
  <2>4. CASE pool[KeyOf(who[a])] = NoConn
    <3>1. pc'[a] = "connecting" /\ lock' = a
      BY <1>2, <2>4 DEF Lookup, TypeOK
    <3>2. LockInv'
      BY <2>1, <2>3, <2>4, <3>1 DEF LockInv
    <3>3. KeyInv'
      BY <2>1, <3>1 DEF KeyInv, Shares
    <3> QED BY <2>2, <3>2, <3>3
  <2>5. CASE pool[KeyOf(who[a])] # NoConn
    <3>1. pc'[a] = "connected" /\ conn'[a] = pool[KeyOf(who[a])]
      BY <1>2, <2>5 DEF Lookup, TypeOK
    <3>2. LockInv'
      BY <2>1, <2>3, <3>1 DEF LockInv
    <3>3. Shares(who[a], conn'[a])
      BY <2>1, <2>5, <3>1 DEF PoolInv, Shares
    <3>4. KeyInv'
      BY <2>1, <3>1, <3>3 DEF KeyInv, Shares
    <3> QED BY <2>2, <3>2, <3>4
  <2> QED BY <2>4, <2>5
<1>3. ASSUME NEW a \in Callers, NEW c \in Conns, Connect(a, c)
      PROVE  GatewayInv'
  <2> DEFINE k == KeyOf(who[a])
  <2>1. /\ who[a] \in Principals /\ k \in Keys
        /\ pc[a] = "connecting"
        /\ pool[k] = NoConn
        /\ lock = a
        /\ owner[c] = Nobody
        /\ upstream[c] = "none"
    BY <1>3 DEF Connect, CallInv, LockInv, PoolInv, KeyOf, Keys
  <2>2. /\ pool'[k] = c
        /\ \A i \in Keys : i # k => pool'[i] = pool[i]
        /\ owner'[c] = who[a]
        /\ mark'[c] = Stamp(who[a])
        /\ upstream'[c] = "serving"
        /\ \A d \in Conns : d # c => /\ owner'[d] = owner[d]
                                    /\ mark'[d] = mark[d]
                                    /\ upstream'[d] = upstream[d]
        /\ pc'[a] = "connected" /\ conn'[a] = c
        /\ \A b \in Callers : b # a => pc'[b] = pc[b] /\ conn'[b] = conn[b]
        /\ UNCHANGED <<who, toUp, replies, log, lports, answered>>
    BY <1>3, <2>1 DEF Connect, TypeOK
  <2>3. LockInv'
    BY <2>1, <2>2 DEF LockInv
  <2>4. PoolInv'
    <3>1. \A d \in Conns : owner[d] # Nobody => KeyOf(owner[d]) # k
      BY <2>1 DEF PoolInv
    <3>2. \A d \in Conns : owner[d] # Nobody => KeyOf(owner[d]) \in Keys
      BY DEF TypeOK, KeyOf, Keys
    <3>3. \A i \in Keys : pool[i] # NoConn => pool[i] \in Conns /\ pool[i] # c
      BY <2>1 DEF PoolInv, TypeOK
    <3>4. \A i \in Keys : pool'[i] # NoConn =>
             owner'[pool'[i]] # Nobody /\ KeyOf(owner'[pool'[i]]) = i
      BY <2>1, <2>2, <3>3 DEF PoolInv
    <3>5. \A d \in Conns :
             /\ upstream'[d] = "none" => owner'[d] = Nobody
             /\ owner'[d] # Nobody => pool'[KeyOf(owner'[d])] = d
             /\ owner'[d] # Nobody => mark'[d] = Stamp(owner'[d])
      BY <2>1, <2>2, <3>1, <3>2 DEF PoolInv
    <3> QED BY <3>4, <3>5 DEF PoolInv
  <2>5. KeyInv'
    <3>1. \A p \in Principals \cup {Nobody} : \A d \in Conns :
             Shares(p, d) => Shares(p, d)'
      BY <2>1, <2>2 DEF Shares
    <3>2. Shares(who[a], c)'
      BY <2>1, <2>2 DEF Shares
    <3>3. \A d \in Conns : /\ Range(toUp[d]) \subseteq Principals
                          /\ Range(log[d]) \subseteq Principals
      BY RangeOfSome DEF TypeOK
    <3>4. \A b \in Callers : pc'[b] \in {"connected", "sent"} =>
             Shares(who[b], conn[b])'
      <4> SUFFICES ASSUME NEW b \in Callers, pc'[b] \in {"connected", "sent"}
                   PROVE  Shares(who[b], conn[b])'
        OBVIOUS
      <4>1. CASE b = a
        BY <2>1, <2>2, <3>2, <4>1 DEF Shares
      <4>2. CASE b # a
        <5>1. /\ conn[b] \in Conns /\ who[b] \in Principals
              /\ Shares(who[b], conn[b])
              /\ conn'[b] = conn[b] /\ who'[b] = who[b]
          BY <2>2, <4>2 DEF KeyInv, CallInv
        <5> QED BY <3>1, <5>1 DEF Shares
      <4> QED BY <4>1, <4>2
    <3>5. \A d \in Conns :
             /\ \A p \in Range(toUp'[d]) : Shares(p, d)'
             /\ \A p \in Range(log'[d]) : Shares(p, d)'
      BY <2>2, <3>1, <3>3 DEF KeyInv
    <3>6. \A p \in Principals : \A d \in lports'[p] : Shares(p, d)'
      BY <2>2, <3>1 DEF KeyInv, TypeOK
    <3> QED BY <3>4, <3>5, <3>6 DEF KeyInv
  <2>6. ReplyInv'
    BY <2>1, <2>2 DEF ReplyInv
  <2> QED BY <2>3, <2>4, <2>5, <2>6
<1>4. ASSUME NEW a \in Callers,
             \/ ConnectFails(a)
             \/ SendRaises(a)
             \/ ReceiveRaises(a)
             \/ ReceiveNothing(a)
      PROVE  GatewayInv'
  <2>1. /\ pc'[a] = "idle"
        /\ \A b \in Callers : b # a => /\ pc'[b] = pc[b]
                                      /\ who'[b] = who[b]
                                      /\ conn'[b] = conn[b]
        /\ UNCHANGED <<pool, connVars, answered>>
    BY <1>4 DEF ConnectFails, SendRaises, ReceiveRaises, ReceiveNothing, Report,
                Leave, TypeOK
  <2>2. lock' = lock \/ lock = a
    BY <1>4 DEF ConnectFails, SendRaises, ReceiveRaises, ReceiveNothing, LockInv
  <2>3. LockInv'
    BY <2>1, <2>2 DEF LockInv
  <2>4. PoolInv' /\ ReplyInv'
    BY <2>1 DEF PoolInv, ReplyInv
  <2>5. \A p \in Principals : \A c \in lports'[p] : Shares(p, c)
    <3>1. CASE UNCHANGED lports
      BY <3>1 DEF KeyInv
    <3>2. CASE ReceiveNothing(a)
      <4>1. Shares(who[a], conn[a])
        BY <3>2 DEF ReceiveNothing, KeyInv
      <4>2. lports' = [lports EXCEPT ![who[a]] = @ \cup {conn[a]}]
        BY <3>2 DEF ReceiveNothing, Report
      <4> QED BY <4>1, <4>2 DEF KeyInv, TypeOK
    <3> QED
      BY <1>4, <3>1, <3>2 DEF ConnectFails, SendRaises, ReceiveRaises
  <2>6. KeyInv'
    BY <2>1, <2>5 DEF KeyInv, Shares
  <2> QED BY <2>3, <2>4, <2>6
<1>5. ASSUME NEW a \in Callers, Send(a)
      PROVE  GatewayInv'
  <2> DEFINE c == conn[a]
  <2>1. /\ c \in Conns /\ who[a] \in Principals
        /\ Shares(who[a], c)
        /\ toUp' = [toUp EXCEPT ![c] = Append(@, who[a])]
        /\ pc'[a] = "sent"
        /\ \A b \in Callers : b # a => pc'[b] = pc[b]
        /\ UNCHANGED <<pool, lock, who, conn, owner, mark, replies, upstream,
                      log, lports, answered>>
    BY <1>5 DEF Send, KeyInv, CallInv, TypeOK
  <2>2. Range(toUp'[c]) = Range(toUp[c]) \cup {who[a]}
    BY <2>1, RangeAppend DEF TypeOK
  <2>3. \A d \in Conns : d # c => toUp'[d] = toUp[d]
    BY <2>1 DEF TypeOK
  <2>4. LockInv' /\ PoolInv' /\ ReplyInv'
    BY <2>1 DEF LockInv, PoolInv, ReplyInv
  <2>5. KeyInv'
    BY <1>5, <2>1, <2>2, <2>3 DEF Send, KeyInv, Shares
  <2> QED BY <2>4, <2>5
<1>6. ASSUME NEW a \in Callers, SendLost(a)
      PROVE  GatewayInv'
  <2>1. /\ pc[a] = "connected" /\ pc'[a] = "sent"
        /\ \A b \in Callers : b # a => pc'[b] = pc[b]
        /\ UNCHANGED <<pool, lock, who, conn, owner, mark, toUp, replies,
                      upstream, log, lports, answered>>
    BY <1>6 DEF SendLost, TypeOK
  <2>2. LockInv' /\ PoolInv' /\ ReplyInv'
    BY <2>1 DEF LockInv, PoolInv, ReplyInv
  <2>3. KeyInv'
    BY <2>1 DEF KeyInv, Shares
  <2> QED BY <2>2, <2>3
<1>7. ASSUME NEW a \in Callers, Receive(a)
      PROVE  GatewayInv'
  <2> DEFINE c == conn[a]
  <2>1. /\ c \in Conns /\ who[a] \in Principals
        /\ Shares(who[a], c)
        /\ pc[a] = "sent" /\ pc'[a] = "idle"
        /\ \A b \in Callers : b # a => /\ pc'[b] = pc[b]
                                      /\ who'[b] = who[b]
                                      /\ conn'[b] = conn[b]
        /\ lports' = [lports EXCEPT ![who[a]] = @ \cup {c}]
        /\ answered' = [answered EXCEPT ![c] = @ + 1]
        /\ UNCHANGED <<pool, lock, owner, mark, toUp, upstream, log>>
    BY <1>7 DEF Receive, Report, Leave, KeyInv, CallInv, TypeOK
  <2>2. PICK n \in 1..replies[c] : replies' = [replies EXCEPT ![c] = @ - n]
    BY <1>7 DEF Receive
  <2>3. LockInv' /\ PoolInv'
    BY <2>1 DEF LockInv, PoolInv
  <2>4. KeyInv'
    <3>1. \A p \in Principals : \A d \in lports'[p] : Shares(p, d)
      BY <2>1 DEF KeyInv, TypeOK
    <3> QED BY <2>1, <3>1 DEF KeyInv, Shares
  <2>5. ReplyInv'
    <3>1. /\ answered'[c] = answered[c] + 1
          /\ replies'[c] = replies[c] - n
          /\ replies[c] \in Nat /\ answered[c] \in Nat /\ Len(log[c]) \in Nat
          /\ n \in Nat /\ n >= 1
          /\ \A d \in Conns : d # c => /\ answered'[d] = answered[d]
                                      /\ replies'[d] = replies[d]
      BY <2>1, <2>2 DEF TypeOK
    <3>2. answered'[c] + replies'[c] <= answered[c] + replies[c]
      BY <3>1
    <3>3. answered'[c] \in Nat /\ replies'[c] \in Nat
      BY <2>1 DEF TypeOK
    <3>4. answered'[c] + replies'[c]
            + (IF upstream'[c] = "replying" THEN 1 ELSE 0) <= Len(log'[c])
      <4> DEFINE owed == IF upstream[c] = "replying" THEN 1 ELSE 0
      <4>1. owed \in Nat
        OBVIOUS
      <4>2. answered[c] + replies[c] + owed <= Len(log[c])
        BY <2>1 DEF ReplyInv
      <4>3. upstream' = upstream /\ log' = log
        BY <2>1
      <4> HIDE DEF owed
      <4>4. answered'[c] + replies'[c] + owed <= Len(log[c])
        <5>1. \A x, y, v, w, o, l \in Nat :
                 v + w <= x + y /\ x + y + o <= l => v + w + o <= l
          OBVIOUS
        <5>2. /\ answered[c] \in Nat /\ replies[c] \in Nat /\ Len(log[c]) \in Nat
          BY <3>1
        <5> QED BY <3>2, <3>3, <4>1, <4>2, <5>1, <5>2
      <4> QED BY <4>3, <4>4 DEF owed
    <3> QED BY <2>1, <3>1, <3>4 DEF ReplyInv
  <2> QED BY <2>3, <2>4, <2>5
<1>8. ASSUME NEW c \in Conns, Record(c)
      PROVE  GatewayInv'
  <2>1. /\ toUp[c] # <<>>
        /\ upstream[c] = "serving"
        /\ toUp' = [toUp EXCEPT ![c] = Tail(@)]
        /\ log' = [log EXCEPT ![c] = Append(@, Head(toUp[c]))]
        /\ upstream' = [upstream EXCEPT ![c] = "replying"]
        /\ UNCHANGED <<pool, lock, pc, who, conn, owner, mark, replies, lports,
                      answered>>
    BY <1>8 DEF Record
  <2>2. /\ Head(toUp[c]) \in Principals
        /\ Head(toUp[c]) \in Range(toUp[c])
        /\ Range(Tail(toUp[c])) \subseteq Range(toUp[c])
    BY <2>1, RangeTail DEF TypeOK
  <2>3. /\ Range(toUp'[c]) \subseteq Range(toUp[c])
        /\ Range(log'[c]) = Range(log[c]) \cup {Head(toUp[c])}
        /\ Len(log'[c]) = Len(log[c]) + 1
    BY <2>1, <2>2, RangeAppend DEF TypeOK
  <2>4. \A d \in Conns : d # c => /\ toUp'[d] = toUp[d]
                                /\ log'[d] = log[d]
                                /\ upstream'[d] = upstream[d]
    BY <2>1 DEF TypeOK
  <2>5. LockInv' /\ PoolInv'
    BY <2>1 DEF LockInv, PoolInv, TypeOK
  <2>6. KeyInv'
    BY <2>1, <2>2, <2>3, <2>4 DEF KeyInv, Shares
  <2>7. ReplyInv'
    BY <2>1, <2>3, <2>4 DEF ReplyInv, TypeOK
  <2> QED BY <2>5, <2>6, <2>7
<1>9. ASSUME NEW c \in Conns, Reply(c)
      PROVE  GatewayInv'
  <2>1. /\ upstream[c] = "replying"
        /\ upstream' = [upstream EXCEPT ![c] = "serving"]
        /\ replies' = [replies EXCEPT ![c] = @ + 1]
        /\ UNCHANGED <<pool, lock, pc, who, conn, owner, mark, toUp, log,
                      lports, answered>>
    BY <1>9 DEF Reply
  <2>2. LockInv' /\ PoolInv' /\ KeyInv'
    BY <2>1 DEF LockInv, PoolInv, KeyInv, Shares, TypeOK
  <2>3. ReplyInv'
    BY <2>1 DEF ReplyInv, TypeOK
  <2> QED BY <2>2, <2>3
<1>10. ASSUME NEW c \in Conns, IdleTimeout(c) \/ LateTimeout(c)
       PROVE  GatewayInv'
  <2>1. /\ upstream[c] = "serving"
        /\ upstream' = [upstream EXCEPT ![c] = "closed"]
        /\ toUp' = [toUp EXCEPT ![c] = <<>>]
        /\ UNCHANGED <<pool, lock, pc, who, conn, owner, mark, replies, log,
                      lports, answered>>
    BY <1>10 DEF IdleTimeout, LateTimeout, TypeOK
  <2>2. Range(toUp'[c]) = {}
    BY <2>1 DEF Range, TypeOK
  <2>3. \A d \in Conns : d # c => toUp'[d] = toUp[d]
    BY <2>1 DEF TypeOK
  <2>4. LockInv' /\ PoolInv'
    BY <2>1 DEF LockInv, PoolInv, TypeOK
  <2>5. KeyInv'
    BY <2>1, <2>2, <2>3 DEF KeyInv, Shares
  <2>6. ReplyInv'
    BY <2>1 DEF ReplyInv, TypeOK
  <2> QED BY <2>4, <2>5, <2>6
<1>11. CASE UNCHANGED vars
  BY <1>11 DEF vars, LockInv, PoolInv, KeyInv, Shares, ReplyInv
<1> QED
  BY <1>1, <1>2, <1>3, <1>4, <1>5, <1>6, <1>7, <1>8, <1>9, <1>10, <1>11
     DEF Next, CallerStep, UpstreamStep

LEMMA GatewayAlways == Spec => [](TypeOK /\ CallInv /\ GatewayInv)
<1>1. /\ TypeOK /\ TypeOK' /\ CallInv /\ CallInv' /\ GatewayInv
      /\ [Next]_vars
      => GatewayInv'
  BY GatewayStep
<1> QED
  BY <1>1, GatewayInit, TypedAlways, PTL DEF Spec

(* No key ever has two connections, however many callers miss the pool at   *)
(* once (_get_conn).                                                        *)
THEOREM OneConnection == Spec => []OneConnPerKey
<1>1. GatewayInv => OneConnPerKey
  BY DEF GatewayInv, PoolInv, OneConnPerKey
<1> QED BY <1>1, GatewayAlways, PTL

(* Keyed by verified principal, the pool makes a port-based enforcer right  *)
(* about every connection it observes (condition D2).                       *)
THEOREM Sufficient == Spec => []PerPrincipalSufficient
<1>1. TypeOK /\ GatewayInv => PerPrincipalSufficient
  <2> SUFFICES ASSUME TypeOK, GatewayInv, Mode = "per_principal",
                      NEW c \in Conns, log[c] # <<>>
               PROVE  /\ Unambiguous(c)
                      /\ \A policy \in Installable(c) : Correct(c, policy)
    BY DEF PerPrincipalSufficient
  <2>1. Distinct(c) # {} /\ Distinct(c) \subseteq Principals
    BY RangeOfSome DEF TypeOK, Distinct
  <2>2. \A p \in Distinct(c) : p = owner[c]
    BY DEF GatewayInv, KeyInv, Shares, Distinct, KeyOf
  <2>3. Distinct(c) = {owner[c]} /\ owner[c] \in Principals
    BY <2>1, <2>2
  <2>4. \A p \in Principals : c \in lports[p] => p = owner[c]
    BY DEF GatewayInv, KeyInv, Shares, KeyOf
  <2>5. Unambiguous(c)
    BY <2>3 DEF Unambiguous
  <2>6. ASSUME NEW policy \in Installable(c)
        PROVE  Correct(c, policy)
    <3>1. policy = Policy[owner[c]]
      BY <2>4 DEF Installable
    <3> QED BY <2>3, <3>1 DEF Correct
  <2> QED BY <2>5, <2>6
<1> QED BY <1>1, GatewayAlways, PTL

(* There the kernel's mark of a connection names the principal of every     *)
(* request recorded on it (_new_conn).                                      *)
THEOREM MarkIsRight == Spec => []MarkTellsPrincipal
<1>1. TypeOK /\ GatewayInv => MarkTellsPrincipal
  BY DEF TypeOK, GatewayInv, KeyInv, PoolInv, Shares, Distinct, KeyOf, Stamp,
         MarkTellsPrincipal
<1> QED BY <1>1, GatewayAlways, PTL

(* Answers on a connection never outnumber the requests recorded on it      *)
(* (Upstream.handle).                                                       *)
THEOREM Earned == Spec => []AnswersAreEarned
<1>1. TypeOK /\ GatewayInv => AnswersAreEarned
  <2> SUFFICES ASSUME TypeOK, GatewayInv, NEW c \in Conns
               PROVE  answered[c] + replies[c] <= Len(log[c])
    BY DEF AnswersAreEarned
  <2>1. answered[c] \in Nat /\ replies[c] \in Nat /\ Len(log[c]) \in Nat
    BY DEF TypeOK
  <2>2. answered[c] + replies[c]
          + (IF upstream[c] = "replying" THEN 1 ELSE 0) <= Len(log[c])
    BY DEF GatewayInv, ReplyInv
  <2> QED BY <2>1, <2>2
<1> QED BY <1>1, GatewayAlways, PTL
==============================================================================
