----------------------------- MODULE AuthzProofs -----------------------------
(****************************************************************************)
(* Proofs about Authz, for every set of threads, proofs and requests, every *)
(* window, every bound on stalls and clock steps, and any bound on the      *)
(* length of a run.                                                         *)
(****************************************************************************)
EXTENDS Authz, FiniteSetTheorems, TLAPS

(* Counting one more at a place of a table of counters, or at no place.     *)
LEMMA CountType ==
    ASSUME NEW S, NEW f \in [S -> Nat], NEW x
    PROVE  [f EXCEPT ![x] = @ + 1] \in [S -> Nat]
<1>1. CASE x \in S
  BY <1>1
<1>2. CASE x \notin S
  BY <1>2
<1> QED BY <1>1, <1>2

(* Writing a value at a place of a table, or at no place.                   *)
LEMMA WriteType ==
    ASSUME NEW S, NEW T, NEW f \in [S -> T], NEW x, NEW v \in T
    PROVE  [f EXCEPT ![x] = v] \in [S -> T]
OBVIOUS

(* The variables of verify() and _authz() hold values of the types the code *)
(* gives them, whatever the interleaving.                                   *)
THEOREM TypeCorrect == Spec => []TypeOK
<1> USE ConstantsAssumption DEF Never
<1>1. NoJob \in Job
  BY DEF NoJob, Job
<1>2. Init => TypeOK
  BY <1>1 DEF Init, TypeOK, Reasons
<1>3. TypeOK /\ [Next]_vars => TypeOK'
  <2> SUFFICES ASSUME TypeOK, [Next]_vars
               PROVE  TypeOK'
    OBVIOUS
  <2> USE DEF TypeOK, clockVars, statVars, historyVars, threadVars
  <2>1. CASE Tick
    BY <2>1 DEF Tick
  <2>2. CASE StepClock
    BY <2>2 DEF StepClock
  <2>3. ASSUME NEW j \in Jti, NEW r \in Request, NEW ttl \in Ttls,
               NEW s \in Shapes, NEW k \in 1..life, Mint(j, r, ttl, s, k)
        PROVE  TypeOK'
    <3>1. [iat |-> Wall, exp |-> Wall + ttl, req |-> r, shape |-> s,
           life |-> k] \in ProofRecord
      BY DEF ProofRecord, Wall
    <3>2. proof' \in [Jti -> ProofRecord \cup {NoProof}]
      BY <2>3, <3>1 DEF Mint
    <3> QED BY <2>3, <3>2 DEF Mint
  <2>4. ASSUME NEW h \in Handlers, NEW j \in Jti \cup {NoToken},
               NEW r \in Request, Receive(h, j, r)
        PROVE  TypeOK'
    BY <2>4 DEF Receive, Job
  <2>5. ASSUME NEW h \in Handlers, Decode(h)
        PROVE  TypeOK'
    <3>1. FirstReason(h) \in Reasons
      BY DEF FirstReason, DecodeReason, ChecksBefore, Reasons
    <3> QED BY <2>5, <3>1 DEF Decode
  <2>6. Pruned \in [Jti -> Nat \cup {Never}]
    BY DEF Pruned
  <2>7. ASSUME NEW h \in Handlers, Replay(h)
        PROVE  TypeOK'
    BY <2>6, <2>7 DEF Replay, Reasons
  <2>8. ASSUME NEW h \in Handlers, Record(h)
        PROVE  TypeOK'
    <3>1. DelegationReason(proof[job[h].jti]) \in Reasons
      BY DEF DelegationReason, Reasons
    <3>2. seen' \in [Jti -> Nat \cup {Never}]
      <4>1. Wall \in Nat \cup {Never}
        BY DEF Wall
      <4>2. seen' = [Pruned EXCEPT ![job[h].jti] = Wall]
        BY <2>8 DEF Record
      <4> QED BY <2>6, <4>1, <4>2, WriteType
    <3>3. /\ passes' \in [Jti -> Nat]
          /\ passAt' \in [Jti -> Nat]
      BY <2>8, CountType, WriteType DEF Record
    <3>4. /\ pc' \in [Handlers -> {"idle", "received", "decoded", "note", "count"}]
          /\ job' \in [Handlers -> Job]
          /\ reason' \in [Handlers -> Reasons]
      BY <1>1, <2>8, <3>1 DEF Record, Return, Reasons
    <3> QED BY <2>8, <3>2, <3>3, <3>4 DEF Record
  <2>9. ASSUME NEW h \in Handlers, Note(h)
        PROVE  TypeOK'
    BY <2>9 DEF Note
  <2>10. ASSUME NEW h \in Handlers, Allow(h)
         PROVE  TypeOK'
    <3>1. grants' \in [Jti -> Nat]
      BY <2>10, CountType DEF Allow
    <3> QED BY <1>1, <2>10, <3>1 DEF Allow, Return, Reasons
  <2>11. ASSUME NEW h \in Handlers, Deny(h)
         PROVE  TypeOK'
    BY <1>1, <2>11 DEF Deny, Return, Reasons
  <2>12. CASE Restart
    BY <1>1, <2>12 DEF Restart, Reasons
  <2>13. CASE UNCHANGED vars
    BY <2>13 DEF vars
  <2> QED
    BY <2>1, <2>2, <2>3, <2>4, <2>5, <2>7, <2>8, <2>9, <2>10, <2>11, <2>12,
       <2>13 DEF Next, MintSome, ReceiveSome, ThreadStep
<1> QED
  BY <1>2, <1>3, PTL DEF Spec

------------------------------------------------------------------------------
(* The inductive invariant behind the safety properties.                    *)

(* No proof is signed with a key of a later lifetime.                       *)
KeyInv ==
    \A j \in Jti : proof[j] # NoProof => proof[j].life <= life

(* What the table knows of the passages it granted: an entry is no older    *)
(* than the passage, and a proof of this lifetime has lost its entry only   *)
(* once its passage is about WINDOW seconds back.                           *)
TableInv ==
    \A j \in Jti :
        /\ passes[j] > 0 => proof[j] # NoProof /\ passAt[j] <= now
        /\ seen[j] # Never => passes[j] > 0 /\ passAt[j] <= seen[j]
        /\ passes[j] > 0 /\ seen[j] = Never /\ proof[j].life = life
             => now + MaxSkew > passAt[j] + WINDOW

(* A thread is asked only about proofs that exist, and on its way to the    *)
(* table it has found out the following about its own.                      *)
AskedInv ==
    \A h \in Handlers :
        pc[h] = "received" /\ job[h].jti # NoToken
            => proof[job[h].jti] # NoProof

HeldInv ==
    \A h \in Handlers :
        pc[h] = "decoded" =>
            /\ job[h].jti \in Jti
            /\ proof[job[h].jti] # NoProof
            /\ proof[job[h].jti].life = life
            /\ proof[job[h].jti].req = job[h].req
            /\ proof[job[h].jti].shape \in
                  {"good", "principal_mismatch", "delegation_mismatch", "bad_act"}
            /\ checked[h] < proof[job[h].jti].exp
            /\ checked[h] <= now
            /\ now <= checked[h] + MaxStall

VerifierInv ==
    /\ KeyInv
    /\ TableInv
    /\ AskedInv
    /\ HeldInv
    /\ OkIsGenuine
    /\ NoSpuriousReplay

LEMMA VerifierInit == Init => VerifierInv
<1> USE ConstantsAssumption
<1> QED
  BY DEF Init, VerifierInv, KeyInv, TableInv, AskedInv, HeldInv,
         OkIsGenuine, NoSpuriousReplay

(* Pruning drops an entry only when its passage is leaving the window.      *)
LEMMA PruneKeepsTable ==
    ASSUME TypeOK, TableInv, NEW j \in Jti
    PROVE  /\ Pruned[j] # Never => /\ Pruned[j] = seen[j]
                                   /\ passes[j] > 0
                                   /\ passAt[j] <= seen[j]
           /\ passes[j] > 0 /\ Pruned[j] = Never /\ proof[j].life = life
                => now + MaxSkew > passAt[j] + WINDOW
  BY ConstantsAssumption DEF TypeOK, TableInv, Pruned, Wall, Never

LEMMA VerifierStep ==
    ASSUME TypeOK, TypeOK', VerifierInv, [Next]_vars
    PROVE  VerifierInv'
<1> USE ConstantsAssumption DEF VerifierInv
<1> USE DEF clockVars, statVars, historyVars, threadVars
<1>1. CASE Tick
  <2>1. KeyInv'
    BY <1>1 DEF Tick, KeyInv
  <2>2. TableInv'
    BY <1>1 DEF Tick, TableInv, TypeOK
  <2>3. AskedInv' /\ HeldInv'
    BY <1>1 DEF Tick, AskedInv, HeldInv, TypeOK
  <2>4. OkIsGenuine' /\ NoSpuriousReplay'
    BY <1>1 DEF Tick, OkIsGenuine, NoSpuriousReplay
  <2> QED BY <2>1, <2>2, <2>3, <2>4
<1>2. CASE StepClock
  <2>1. KeyInv' /\ TableInv'
    BY <1>2 DEF StepClock, KeyInv, TableInv
  <2>2. AskedInv' /\ HeldInv'
    BY <1>2 DEF StepClock, AskedInv, HeldInv
  <2>3. OkIsGenuine' /\ NoSpuriousReplay'
    BY <1>2 DEF StepClock, OkIsGenuine, NoSpuriousReplay
  <2> QED BY <2>1, <2>2, <2>3
<1>3. ASSUME NEW j \in Jti, NEW r \in Request, NEW ttl \in Ttls,
             NEW s \in Shapes, NEW k \in 1..life, Mint(j, r, ttl, s, k)
      PROVE  VerifierInv'
  <2>1. /\ proof[j] = NoProof
        /\ proof'[j].life = k
        /\ proof'[j] # NoProof
        /\ \A i \in Jti : i # j => proof'[i] = proof[i]
    <3>1. proof' = [proof EXCEPT ![j] =
                      [iat |-> Wall, exp |-> Wall + ttl, req |-> r,
                       shape |-> s, life |-> k]]
      BY <1>3 DEF Mint
    <3>2. [iat |-> Wall, exp |-> Wall + ttl, req |-> r, shape |-> s,
           life |-> k] \in ProofRecord
      BY DEF ProofRecord, Wall, TypeOK
    <3> QED BY <1>3, <3>1, <3>2 DEF Mint, TypeOK
  <2>2. KeyInv'
    BY <1>3, <2>1 DEF Mint, KeyInv, TypeOK
  <2>3. TableInv'
    BY <1>3, <2>1 DEF Mint, TableInv, TypeOK
  <2>4. AskedInv' /\ HeldInv'
    BY <1>3, <2>1 DEF Mint, AskedInv, HeldInv
  <2>5. OkIsGenuine' /\ NoSpuriousReplay'
    BY <1>3, <2>1 DEF Mint, OkIsGenuine, NoSpuriousReplay
  <2> QED BY <2>2, <2>3, <2>4, <2>5
<1>4. ASSUME NEW h \in Handlers, NEW j \in Jti \cup {NoToken},
             NEW r \in Request, Receive(h, j, r)
      PROVE  VerifierInv'
  <2>1. /\ pc'[h] = "received"
        /\ \A g \in Handlers : g # h => pc'[g] = pc[g] /\ job'[g] = job[g]
    BY <1>4 DEF Receive, TypeOK
  <2>2. KeyInv' /\ TableInv'
    BY <1>4 DEF Receive, KeyInv, TableInv
  <2>3. AskedInv' /\ HeldInv'
    BY <1>4, <2>1 DEF Receive, AskedInv, HeldInv, TypeOK
  <2>4. OkIsGenuine' /\ NoSpuriousReplay'
    BY <1>4, <2>1 DEF Receive, OkIsGenuine, NoSpuriousReplay
  <2> QED BY <2>2, <2>3, <2>4
<1>5. ASSUME NEW h \in Handlers, Decode(h)
      PROVE  VerifierInv'
  <2>1. KeyInv' /\ TableInv' /\ AskedInv'
    BY <1>5 DEF Decode, KeyInv, TableInv, AskedInv, TypeOK
  <2>2. CASE FirstReason(h) = "ok"
    <3>1. /\ pc' = [pc EXCEPT ![h] = "decoded"]
          /\ checked' = [checked EXCEPT ![h] = now]
          /\ reason' = reason
      BY <1>5, <2>2 DEF Decode
    <3>2. /\ job[h].jti # NoToken
          /\ DecodeReason(proof[job[h].jti], job[h].req) = "ok"
      BY <2>2 DEF FirstReason
    <3> DEFINE p == proof[job[h].jti]
    <3>3. /\ job[h].jti \in Jti
          /\ p \in ProofRecord \cup {NoProof}
          /\ now \in Nat /\ Wall \in Nat /\ now <= Wall
      BY <3>2 DEF TypeOK, Job, Wall
    <3>5. p # NoProof
      BY <1>5, <3>2 DEF Decode, AskedInv
    <3>6. /\ p.life = life
          /\ p.req = job[h].req
          /\ p.shape \in
               {"good", "principal_mismatch", "delegation_mismatch", "bad_act"}
          /\ now < p.exp
      <4>1. p \in ProofRecord
        BY <3>3, <3>5
      <4>2. /\ p.shape \in AllShapes
            /\ p.exp \in Nat
        BY <4>1 DEF ProofRecord
      <4>3. /\ p.shape \notin {"malformed", "bad_alg", "unknown_agent",
                               "bad_signature", "bad_audience"}
            /\ p.life = life
            /\ ~(p.exp <= Wall)
            /\ p.req = job[h].req
        BY <3>2 DEF DecodeReason, ChecksBefore
      <4> QED BY <3>3, <4>2, <4>3 DEF AllShapes
    <3>7. HeldInv'
      BY <1>5, <3>1, <3>3, <3>5, <3>6 DEF Decode, HeldInv, TypeOK
    <3>4. OkIsGenuine' /\ NoSpuriousReplay'
      BY <1>5, <3>1 DEF Decode, OkIsGenuine, NoSpuriousReplay, TypeOK
    <3> QED BY <2>1, <3>7, <3>4
  <2>3. CASE FirstReason(h) # "ok"
    <3>1. /\ pc' = [pc EXCEPT ![h] = "note"]
          /\ reason' = [reason EXCEPT ![h] = FirstReason(h)]
          /\ checked' = checked
      BY <1>5, <2>3 DEF Decode
    <3>2. FirstReason(h) \notin {"ok", "replay"}
      BY <2>3 DEF FirstReason, DecodeReason, ChecksBefore
    <3>3. HeldInv'
      BY <1>5, <3>1 DEF Decode, HeldInv, TypeOK
    <3>4. OkIsGenuine' /\ NoSpuriousReplay'
      BY <1>5, <3>1, <3>2 DEF Decode, OkIsGenuine, NoSpuriousReplay, TypeOK
    <3> QED BY <2>1, <3>3, <3>4
  <2> QED BY <2>2, <2>3
<1>6. ASSUME NEW h \in Handlers, Replay(h)
      PROVE  VerifierInv'
  <2> DEFINE j == job[h].jti
  <2>1. /\ j \in Jti
        /\ Pruned[j] # Never
        /\ seen' = Pruned
        /\ pc' = [pc EXCEPT ![h] = "note"]
        /\ reason' = [reason EXCEPT ![h] = "replay"]
    BY <1>6 DEF Replay, HeldInv
  <2>2. KeyInv'
    BY <1>6 DEF Replay, KeyInv
  <2>3. TableInv'
    BY <1>6, <2>1, PruneKeepsTable DEF Replay, TableInv
  <2>4. AskedInv' /\ HeldInv'
    BY <1>6, <2>1 DEF Replay, AskedInv, HeldInv, TypeOK
  <2>5. OkIsGenuine'
    BY <1>6, <2>1 DEF Replay, OkIsGenuine, TypeOK
  <2>6. NoSpuriousReplay'
    BY <1>6, <2>1, PruneKeepsTable DEF Replay, NoSpuriousReplay, TypeOK
  <2> QED BY <2>2, <2>3, <2>4, <2>5, <2>6
<1>7. ASSUME NEW h \in Handlers, Record(h)
      PROVE  VerifierInv'
  <2> DEFINE j == job[h].jti
  <2>1. /\ j \in Jti
        /\ proof[j] # NoProof
        /\ proof[j].life = life
        /\ proof[j].req = job[h].req
        /\ proof[j].shape \in
             {"good", "principal_mismatch", "delegation_mismatch", "bad_act"}
    BY <1>7 DEF Record, HeldInv
  <2>2. /\ seen' = [Pruned EXCEPT ![j] = Wall]
        /\ passes' = [passes EXCEPT ![j] = @ + 1]
        /\ passAt' = [passAt EXCEPT ![j] = now]
        /\ UNCHANGED <<now, skew, life, proof>>
    BY <1>7 DEF Record
  <2>3. Pruned \in [Jti -> Nat \cup {Never}] /\ Wall \in Nat /\ now <= Wall
    BY DEF Pruned, Wall, TypeOK, Never
  <2>4. KeyInv'
    BY <2>2 DEF KeyInv
  <2>5. TableInv'
    <3>1. ASSUME NEW i \in Jti, i # j
          PROVE  /\ seen'[i] = Pruned[i]
                 /\ passes'[i] = passes[i]
                 /\ passAt'[i] = passAt[i]
      BY <2>2, <2>3, <3>1 DEF TypeOK
    <3>2. /\ seen'[j] = Wall
          /\ passes'[j] > 0
          /\ passAt'[j] = now
      BY <2>1, <2>2, <2>3 DEF TypeOK
    <3> QED
      BY <2>1, <2>2, <2>3, <3>1, <3>2, PruneKeepsTable
         DEF TableInv, TypeOK, Never
  <2>6. \A g \in Handlers : g # h => /\ pc'[g] = pc[g]
                                    /\ job'[g] = job[g]
                                    /\ reason'[g] = reason[g]
                                    /\ checked'[g] = checked[g]
    BY <1>7 DEF Record, Return, TypeOK
  <2>7. CASE proof[j].shape = "bad_act"
    <3>1. pc'[h] = "idle"
      BY <1>7, <2>7 DEF Record, Return, TypeOK
    <3> QED
      BY <2>1, <2>2, <2>4, <2>5, <2>6, <3>1
         DEF AskedInv, HeldInv, OkIsGenuine, NoSpuriousReplay, TypeOK
  <2>8. CASE proof[j].shape # "bad_act"
    <3>1. /\ pc'[h] = "note"
          /\ job'[h] = job[h]
          /\ reason'[h] = DelegationReason(proof[j])
      BY <1>7, <2>8 DEF Record, TypeOK
    <3>2. /\ reason'[h] # "replay"
          /\ reason'[h] = "ok" => proof[j].shape = "good"
      BY <2>1, <2>8, <3>1 DEF DelegationReason
    <3>3. AskedInv' /\ HeldInv'
      BY <2>2, <2>6, <3>1 DEF AskedInv, HeldInv
    <3>4. OkIsGenuine'
      BY <2>1, <2>2, <2>6, <3>1, <3>2 DEF OkIsGenuine
    <3>5. NoSpuriousReplay'
      BY <2>1, <2>2, <2>6, <3>1, <3>2 DEF NoSpuriousReplay, TypeOK
    <3> QED BY <2>4, <2>5, <3>3, <3>4, <3>5
  <2> QED BY <2>7, <2>8
<1>8. ASSUME NEW h \in Handlers, Note(h)
      PROVE  VerifierInv'
  <2>1. KeyInv' /\ TableInv'
    BY <1>8 DEF Note, KeyInv, TableInv
  <2>2. AskedInv' /\ HeldInv'
    BY <1>8 DEF Note, AskedInv, HeldInv, TypeOK
  <2>3. OkIsGenuine' /\ NoSpuriousReplay'
    BY <1>8 DEF Note, OkIsGenuine, NoSpuriousReplay, TypeOK
  <2> QED BY <2>1, <2>2, <2>3
<1>9. ASSUME NEW h \in Handlers, Allow(h) \/ Deny(h)
      PROVE  VerifierInv'
  <2>1. /\ pc'[h] = "idle"
        /\ \A g \in Handlers : g # h => /\ pc'[g] = pc[g]
                                       /\ job'[g] = job[g]
                                       /\ reason'[g] = reason[g]
        /\ UNCHANGED <<now, life, proof, seen, checked, passes, passAt>>
    BY <1>9 DEF Allow, Deny, Return, TypeOK
  <2>2. KeyInv' /\ TableInv'
    BY <2>1 DEF KeyInv, TableInv
  <2>3. AskedInv' /\ HeldInv'
    BY <2>1 DEF AskedInv, HeldInv
  <2>4. OkIsGenuine' /\ NoSpuriousReplay'
    BY <2>1 DEF OkIsGenuine, NoSpuriousReplay
  <2> QED BY <2>2, <2>3, <2>4
<1>10. CASE Restart
  <2>1. KeyInv'
    BY <1>10 DEF Restart, KeyInv, TypeOK, ProofRecord
  <2>2. TableInv'
    BY <1>10 DEF Restart, TableInv, KeyInv, TypeOK, ProofRecord
  <2>3. AskedInv' /\ HeldInv' /\ OkIsGenuine' /\ NoSpuriousReplay'
    BY <1>10 DEF Restart, AskedInv, HeldInv, OkIsGenuine, NoSpuriousReplay
  <2> QED BY <2>1, <2>2, <2>3
<1>11. CASE UNCHANGED vars
  BY <1>11 DEF vars, KeyInv, TableInv, AskedInv, HeldInv, OkIsGenuine,
               NoSpuriousReplay
<1> QED
  BY <1>1, <1>2, <1>3, <1>4, <1>5, <1>6, <1>7, <1>8, <1>9, <1>10, <1>11
     DEF Next, MintSome, ReceiveSome, ThreadStep

LEMMA VerifierAlways == Spec => [](TypeOK /\ VerifierInv)
<1>1. TypeOK /\ TypeOK' /\ VerifierInv /\ [Next]_vars => VerifierInv'
  BY VerifierStep
<1> QED
  BY <1>1, VerifierInit, TypeCorrect, PTL DEF Spec

(* A 200 response is only ever prepared for a good proof of this process    *)
(* and this request (verify()).                                             *)
THEOREM Genuine == Spec => []OkIsGenuine
<1>1. VerifierInv => OkIsGenuine
  BY DEF VerifierInv
<1> QED BY <1>1, VerifierAlways, PTL

(* Only a passage of every earlier check makes a later copy a replay        *)
(* (verify()).                                                              *)
THEOREM ReplayIsReal == Spec => []NoSpuriousReplay
<1>1. VerifierInv => NoSpuriousReplay
  BY DEF VerifierInv
<1> QED BY <1>1, VerifierAlways, PTL

(* The table lets a jti through again only as its last passage leaves the   *)
(* window (the pruning loop of verify()).                                   *)
THEOREM Spacing == Spec => WindowSpacing
<1> DEFINE Spaced ==
      \A j \in Jti :
          passes[j] > 0 /\ passes'[j] > passes[j]
             => now + MaxSkew > passAt[j] + WINDOW
<1>1. TypeOK /\ VerifierInv /\ [Next]_vars => [Spaced]_vars
  <2> SUFFICES ASSUME TypeOK, VerifierInv, Next,
                      NEW j \in Jti, passes[j] > 0, passes'[j] > passes[j]
               PROVE  now + MaxSkew > passAt[j] + WINDOW
    OBVIOUS
  <2>1. CASE \E h \in Handlers : Record(h)
    <3>1. PICK h \in Handlers : Record(h)
      BY <2>1
    <3>2. job[h].jti = j /\ Pruned[j] = Never /\ proof[j].life = life
      BY <3>1 DEF Record, TypeOK, VerifierInv, HeldInv
    <3> QED BY <3>2, PruneKeepsTable DEF VerifierInv
  <2>2. CASE ~ \E h \in Handlers : Record(h)
    <3>1. UNCHANGED passes
      BY <2>2 DEF Next, Tick, StepClock, MintSome, Mint, ReceiveSome, Receive,
                  ThreadStep, Decode, Replay, Note, Allow, Deny, Restart,
                  historyVars
    <3> QED BY <3>1 DEF TypeOK
  <2> QED BY <2>1, <2>2
<1> QED
  BY <1>1, VerifierAlways, PTL DEF Spec, WindowSpacing

------------------------------------------------------------------------------
(* At most once.  A proof cannot be fresh any more when its entry leaves    *)
(* the table, so the table lets it through once in its lifetime; keys of a  *)
(* new lifetime do not verify it.                                           *)

(* No proof outlives the window.                                            *)
LifetimeInv ==
    \A j \in Jti :
        proof[j] # NoProof =>
            proof[j].exp + MaxStall + 2 * MaxSkew <= proof[j].iat + WINDOW

(* A proof is minted before it is found fresh, and before it passes.        *)
MintedBeforeInv ==
    /\ \A h \in Handlers :
          pc[h] = "decoded" => proof[job[h].jti].iat <= checked[h] + MaxSkew
    /\ \A j \in Jti :
          passes[j] > 0 => proof[j].iat <= passAt[j] + MaxSkew

HasPassed(h) == pc[h] \in {"note", "count"} /\ reason[h] = "ok"

(* One passage, and until it is turned into the 200 response one thread     *)
(* that owes it.                                                            *)
PassageInv ==
    /\ \A j \in Jti : passes[j] <= 1 /\ grants[j] <= passes[j]
    /\ \A h \in Handlers :
          HasPassed(h) => passes[job[h].jti] = 1 /\ grants[job[h].jti] = 0
    /\ \A g, h \in Handlers :
          HasPassed(g) /\ HasPassed(h) /\ job[g].jti = job[h].jti => g = h

OnceInv ==
    /\ LifetimeInv
    /\ MintedBeforeInv
    /\ PassageInv

LEMMA OnceInit == Init => OnceInv
  BY ConstantsAssumption
     DEF Init, OnceInv, LifetimeInv, MintedBeforeInv, PassageInv, HasPassed

(* The table lets no proof through that it let through before.              *)
LEMMA FirstPassage ==
    ASSUME TypeOK, VerifierInv, OnceInv, NEW h \in Handlers, Record(h)
    PROVE  passes[job[h].jti] = 0
<1> USE ConstantsAssumption
<1> DEFINE j == job[h].jti
<1>1. SUFFICES ASSUME passes[j] > 0
               PROVE  FALSE
  BY DEF TypeOK, VerifierInv, HeldInv, Record
<1>2. /\ j \in Jti /\ proof[j] # NoProof /\ proof[j].life = life
      /\ checked[h] < proof[j].exp
      /\ now <= checked[h] + MaxStall
  BY DEF VerifierInv, HeldInv, Record
<1>3. Pruned[j] = Never
  BY DEF Record
<1>4. now + MaxSkew > passAt[j] + WINDOW
  BY <1>1, <1>2, <1>3, PruneKeepsTable DEF VerifierInv
<1>5. proof[j].iat <= passAt[j] + MaxSkew
  BY <1>1, <1>2 DEF OnceInv, MintedBeforeInv
<1>6. proof[j].exp + MaxStall + 2 * MaxSkew <= proof[j].iat + WINDOW
  BY <1>2 DEF OnceInv, LifetimeInv
<1>7. /\ proof[j].exp \in Nat /\ proof[j].iat \in Nat
      /\ now \in Nat /\ passAt[j] \in Nat /\ checked[h] \in Nat
  BY <1>2 DEF TypeOK, ProofRecord
<1> QED
  BY <1>2, <1>4, <1>5, <1>6, <1>7

LEMMA OnceStep ==
    ASSUME ShortLived, TypeOK, TypeOK', VerifierInv, OnceInv, [Next]_vars
    PROVE  OnceInv'
<1> USE ConstantsAssumption DEF OnceInv
<1> USE DEF clockVars, statVars, historyVars, threadVars, HasPassed
<1>1. CASE Tick \/ StepClock
  BY <1>1 DEF Tick, StepClock, LifetimeInv, MintedBeforeInv, PassageInv
<1>2. ASSUME NEW j \in Jti, NEW r \in Request, NEW ttl \in Ttls,
             NEW s \in Shapes, NEW k \in 1..life, Mint(j, r, ttl, s, k)
      PROVE  OnceInv'
  <2>1. Wall \in Nat /\ ttl \in Nat
    BY DEF Wall, TypeOK
  <2>2. /\ proof[j] = NoProof
        /\ proof'[j].iat = Wall
        /\ proof'[j].exp = Wall + ttl
        /\ \A i \in Jti : i # j => proof'[i] = proof[i]
    BY <1>2 DEF Mint, TypeOK
  <2>3. LifetimeInv'
    <3>1. ttl + MaxStall + 2 * MaxSkew <= WINDOW
      BY DEF ShortLived
    <3> QED BY <2>1, <2>2, <3>1 DEF LifetimeInv
  <2>4. MintedBeforeInv'
    BY <1>2, <2>2 DEF Mint, MintedBeforeInv, VerifierInv, HeldInv, TableInv
  <2>5. PassageInv'
    BY <1>2 DEF Mint, PassageInv
  <2> QED BY <2>3, <2>4, <2>5
<1>3. ASSUME NEW h \in Handlers, NEW j \in Jti \cup {NoToken},
             NEW r \in Request, Receive(h, j, r)
      PROVE  OnceInv'
  <2>1. /\ pc'[h] = "received"
        /\ \A g \in Handlers : g # h => pc'[g] = pc[g] /\ job'[g] = job[g]
    BY <1>3 DEF Receive, TypeOK
  <2>2. LifetimeInv' /\ MintedBeforeInv'
    BY <1>3, <2>1 DEF Receive, LifetimeInv, MintedBeforeInv
  <2>3. PassageInv'
    BY <1>3, <2>1 DEF Receive, PassageInv
  <2> QED BY <2>2, <2>3
<1>4. ASSUME NEW h \in Handlers, Decode(h)
      PROVE  OnceInv'
  <2>1. CASE FirstReason(h) = "ok"
    <3>1. /\ pc' = [pc EXCEPT ![h] = "decoded"]
          /\ checked' = [checked EXCEPT ![h] = now]
          /\ UNCHANGED <<reason, proof, job, passes, passAt, grants>>
      BY <1>4, <2>1 DEF Decode
    <3>2. job[h].jti # NoToken /\ ~(proof[job[h].jti].iat > Wall)
      BY <2>1 DEF FirstReason, DecodeReason, ChecksBefore
    <3>3. /\ job[h].jti \in Jti
          /\ proof[job[h].jti] \in ProofRecord
      BY <1>4, <3>2 DEF Decode, TypeOK, Job, VerifierInv, AskedInv
    <3>4. proof[job[h].jti].iat <= now + MaxSkew
      BY <3>2, <3>3 DEF TypeOK, Wall, ProofRecord
    <3>5. MintedBeforeInv'
      BY <3>1, <3>4 DEF MintedBeforeInv, TypeOK
    <3>6. LifetimeInv' /\ PassageInv'
      BY <1>4, <3>1 DEF LifetimeInv, PassageInv, TypeOK
    <3> QED BY <3>5, <3>6
  <2>2. CASE FirstReason(h) # "ok"
    <3>1. /\ pc' = [pc EXCEPT ![h] = "note"]
          /\ reason' = [reason EXCEPT ![h] = FirstReason(h)]
          /\ UNCHANGED <<checked, proof, job, passes, passAt, grants>>
      BY <1>4, <2>2 DEF Decode
    <3>2. LifetimeInv' /\ MintedBeforeInv'
      BY <3>1 DEF LifetimeInv, MintedBeforeInv, TypeOK
    <3>3. PassageInv'
      BY <2>2, <3>1 DEF PassageInv, TypeOK
    <3> QED BY <3>2, <3>3
  <2> QED BY <2>1, <2>2
<1>5. ASSUME NEW h \in Handlers, Replay(h)
      PROVE  OnceInv'
  <2>1. /\ pc' = [pc EXCEPT ![h] = "note"]
        /\ reason' = [reason EXCEPT ![h] = "replay"]
        /\ checked' = [checked EXCEPT ![h] = 0]
        /\ UNCHANGED <<proof, job, passes, passAt, grants>>
    BY <1>5 DEF Replay
  <2>2. LifetimeInv' /\ MintedBeforeInv'
    BY <2>1 DEF LifetimeInv, MintedBeforeInv, TypeOK
  <2>3. PassageInv'
    BY <2>1 DEF PassageInv, TypeOK
  <2> QED BY <2>2, <2>3
<1>6. ASSUME NEW h \in Handlers, Record(h)
      PROVE  OnceInv'
  <2> DEFINE j == job[h].jti
  <2>1. /\ j \in Jti /\ passes[j] = 0 /\ grants[j] = 0
        /\ checked[h] <= now
        /\ proof[j].iat <= checked[h] + MaxSkew
        /\ proof[j] \in ProofRecord
    <3>1. /\ j \in Jti /\ proof[j] # NoProof
          /\ checked[h] <= now
          /\ proof[j].iat <= checked[h] + MaxSkew
      BY <1>6 DEF Record, VerifierInv, HeldInv, MintedBeforeInv
    <3>2. passes[j] = 0
      BY <1>6, FirstPassage
    <3>3. grants[j] = 0
      BY <3>1, <3>2 DEF PassageInv, TypeOK
    <3> QED BY <3>1, <3>2, <3>3 DEF TypeOK
  <2>2. /\ passes' = [passes EXCEPT ![j] = @ + 1]
        /\ passAt' = [passAt EXCEPT ![j] = now]
        /\ UNCHANGED <<proof, grants>>
    BY <1>6 DEF Record
  <2>3. \A g \in Handlers : g # h => /\ pc'[g] = pc[g]
                                    /\ job'[g] = job[g]
                                    /\ reason'[g] = reason[g]
                                    /\ checked'[g] = checked[g]
    BY <1>6 DEF Record, Return, TypeOK
  <2>4. /\ pc'[h] \in {"idle", "note"}
        /\ pc'[h] = "note" => job'[h] = job[h]
    BY <1>6 DEF Record, Return, TypeOK
  <2>5. LifetimeInv'
    BY <2>2 DEF LifetimeInv
  <2>6. proof[j].iat <= now + MaxSkew
    BY <2>1 DEF ProofRecord, TypeOK
  <2>7. MintedBeforeInv'
    BY <2>2, <2>3, <2>4, <2>6 DEF MintedBeforeInv, TypeOK
  <2>8. PassageInv'
    <3>1. \A i \in Jti : i # j => passes'[i] = passes[i]
      BY <2>2 DEF TypeOK
    <3>2. passes'[j] = 1
      BY <2>1, <2>2 DEF TypeOK
    <3>3. \A g \in Handlers : HasPassed(g) => job[g].jti \in Jti /\ job[g].jti # j
      BY <2>1 DEF PassageInv, VerifierInv, OkIsGenuine
    <3> QED
      BY <2>1, <2>2, <2>3, <2>4, <3>1, <3>2, <3>3 DEF PassageInv, TypeOK
  <2> QED BY <2>5, <2>7, <2>8
<1>7. ASSUME NEW h \in Handlers, Note(h)
      PROVE  OnceInv'
  <2>1. LifetimeInv' /\ MintedBeforeInv'
    BY <1>7 DEF Note, LifetimeInv, MintedBeforeInv, TypeOK
  <2>2. PassageInv'
    BY <1>7 DEF Note, PassageInv, TypeOK
  <2> QED BY <2>1, <2>2
<1>8. ASSUME NEW h \in Handlers, Allow(h)
      PROVE  OnceInv'
  <2> DEFINE j == job[h].jti
  <2>1. /\ HasPassed(h)
        /\ j \in Jti
        /\ grants' = [grants EXCEPT ![j] = @ + 1]
        /\ UNCHANGED <<proof, passes, passAt, checked>>
    BY <1>8 DEF Allow, VerifierInv, OkIsGenuine
  <2>2. /\ pc'[h] = "idle"
        /\ \A g \in Handlers : g # h => /\ pc'[g] = pc[g]
                                       /\ job'[g] = job[g]
                                       /\ reason'[g] = reason[g]
    BY <1>8 DEF Allow, Return, TypeOK
  <2>3. LifetimeInv' /\ MintedBeforeInv'
    BY <2>1, <2>2 DEF LifetimeInv, MintedBeforeInv
  <2>4. PassageInv'
    BY <2>1, <2>2 DEF PassageInv, TypeOK
  <2> QED BY <2>3, <2>4
<1>9. ASSUME NEW h \in Handlers, Deny(h)
      PROVE  OnceInv'
  <2>1. /\ pc'[h] = "idle"
        /\ \A g \in Handlers : g # h => /\ pc'[g] = pc[g]
                                       /\ job'[g] = job[g]
                                       /\ reason'[g] = reason[g]
        /\ UNCHANGED <<proof, passes, passAt, checked, grants>>
    BY <1>9 DEF Deny, Return, TypeOK
  <2> QED
    BY <2>1 DEF LifetimeInv, MintedBeforeInv, PassageInv
<1>10. CASE Restart
  BY <1>10 DEF Restart, LifetimeInv, MintedBeforeInv, PassageInv
<1>11. CASE UNCHANGED vars
  BY <1>11 DEF vars, LifetimeInv, MintedBeforeInv, PassageInv
<1> QED
  BY <1>1, <1>2, <1>3, <1>4, <1>5, <1>6, <1>7, <1>8, <1>9, <1>10, <1>11
     DEF Next, MintSome, ReceiveSome, ThreadStep

LEMMA OnceAlways ==
    ASSUME ShortLived
    PROVE  Spec => [](TypeOK /\ VerifierInv /\ OnceInv)
<1>1. TypeOK /\ TypeOK' /\ VerifierInv /\ OnceInv /\ [Next]_vars => OnceInv'
  BY OnceStep
<1> QED
  BY <1>1, OnceInit, VerifierAlways, PTL DEF Spec

(* When every proof expires early enough for the window, each is honoured   *)
(* at most once, through any interleaving, any restart and any clock step   *)
(* (verify()).                                                              *)
THEOREM HonouredOnce ==
    ASSUME ShortLived
    PROVE  Spec => []AtMostOnce
<1>1. TypeOK /\ OnceInv => AtMostOnce
  BY DEF OnceInv, PassageInv, AtMostOnce, TypeOK
<1> QED BY <1>1, OnceAlways, PTL

------------------------------------------------------------------------------
(* The verifier keeps its promise: with short-lived proofs every step of it *)
(* is a step of ProofOnce or leaves live proofs and uses as they are.       *)

LEMMA PromiseStep ==
    ASSUME TypeOK, TypeOK', VerifierInv, OnceInv, [Next]_vars
    PROVE  [Promise!Next]_(Promise!vars)
<1> USE ConstantsAssumption
<1> USE DEF clockVars, statVars, historyVars, threadVars, Promise!vars
<1>1. ASSUME NEW j \in Jti, NEW r \in Request, NEW ttl \in Ttls,
             NEW s \in Shapes, NEW k \in 1..life, Mint(j, r, ttl, s, k)
      PROVE  [Promise!Next]_(Promise!vars)
  <2>1. /\ proof[j] = NoProof
        /\ proof'[j].life = k
        /\ proof'[j] # NoProof
        /\ \A i \in Jti : i # j => proof'[i] = proof[i]
        /\ UNCHANGED <<life, grants>>
    <3>1. proof' = [proof EXCEPT ![j] =
                      [iat |-> Wall, exp |-> Wall + ttl, req |-> r,
                       shape |-> s, life |-> k]]
      BY <1>1 DEF Mint
    <3>2. [iat |-> Wall, exp |-> Wall + ttl, req |-> r, shape |-> s,
           life |-> k] \in ProofRecord
      BY DEF ProofRecord, Wall, TypeOK
    <3> QED BY <1>1, <3>1, <3>2 DEF Mint, TypeOK
  <2>2. grants[j] = 0
    BY <2>1 DEF OnceInv, PassageInv, VerifierInv, TableInv, TypeOK
  <2>3. CASE k = life
    <3>1. LiveProofs' = LiveProofs \cup {j}
      BY <2>1, <2>2, <2>3 DEF LiveProofs
    <3>2. j \notin LiveProofs
      BY <2>1 DEF LiveProofs
    <3>3. Promise!Issue(j)
      BY <2>1, <2>2, <3>1, <3>2 DEF Promise!Issue
    <3> QED BY <3>3 DEF Promise!Next
  <2>4. CASE k # life
    <3>1. LiveProofs' = LiveProofs
      BY <2>1, <2>4 DEF LiveProofs
    <3> QED BY <2>1, <3>1
  <2> QED BY <2>3, <2>4
<1>2. ASSUME NEW h \in Handlers, Allow(h)
      PROVE  [Promise!Next]_(Promise!vars)
  <2> DEFINE j == job[h].jti
  <2>1. /\ j \in Jti
        /\ proof[j] # NoProof
        /\ proof[j].life = life
        /\ grants[j] = 0
    BY <1>2 DEF Allow, VerifierInv, OkIsGenuine, OnceInv, PassageInv, HasPassed
  <2>2. /\ grants' = [grants EXCEPT ![j] = @ + 1]
        /\ UNCHANGED <<proof, life>>
    BY <1>2 DEF Allow
  <2>3. j \in LiveProofs
    BY <2>1 DEF LiveProofs
  <2>4. LiveProofs' = LiveProofs \ {j}
    <3>1. grants'[j] # 0 /\ \A i \in Jti : i # j => grants'[i] = grants[i]
      BY <2>1, <2>2 DEF TypeOK
    <3> QED BY <2>1, <2>2, <3>1 DEF LiveProofs
  <2>5. Promise!Spend(j)
    BY <2>2, <2>3, <2>4 DEF Promise!Spend
  <2> QED BY <2>1, <2>5 DEF Promise!Next
<1>3. CASE Restart
  <2>1. life' = life + 1 /\ UNCHANGED <<proof, grants>>
    BY <1>3 DEF Restart
  <2>2. LiveProofs' = {}
    BY <2>1 DEF LiveProofs, VerifierInv, KeyInv, TypeOK, ProofRecord
  <2>3. Promise!WriteOff
    BY <2>1, <2>2 DEF Promise!WriteOff
  <2> QED BY <2>3 DEF Promise!Next
<1>4. ASSUME UNCHANGED <<proof, life, grants>>
      PROVE  [Promise!Next]_(Promise!vars)
  BY <1>4 DEF LiveProofs
<1> QED
  BY <1>1, <1>2, <1>3, <1>4
     DEF Next, MintSome, ReceiveSome, ThreadStep, Tick, StepClock, Receive,
         Decode, Replay, Record, Note, Deny, vars

(* With short-lived proofs the verifier of authz.py implements the abstract *)
(* promise: a live proof is spent at most once, a restart writes all off.   *)
THEOREM KeepsPromise ==
    ASSUME ShortLived
    PROVE  Spec => ImplementsProofOnce
<1>1. Init => Promise!Init
  BY ConstantsAssumption DEF Init, Promise!Init, LiveProofs
<1>2. TypeOK /\ TypeOK' /\ VerifierInv /\ OnceInv /\ [Next]_vars
        => [Promise!Next]_(Promise!vars)
  BY PromiseStep
<1> QED
  BY <1>1, <1>2, OnceAlways, PTL DEF Spec, ImplementsProofOnce, Promise!Spec
------------------------------------------------------------------------------
(* /__stats: what its two parts differ by.                                  *)

LEMMA CountingFinite ==
    ASSUME NEW rs
    PROVE  /\ IsFiniteSet(Counting(rs))
           /\ Cardinality(Counting(rs)) \in Nat
<1>1. Counting(rs) \in SUBSET Handlers
  BY DEF Counting
<1> QED BY <1>1, ConstantsAssumption, FS_Subset, FS_CardinalityType

(* note() adds one to the refusals exactly when it is given one.            *)
LEMMA NoteCounts ==
    ASSUME TypeOK, NEW h \in Handlers, Note(h)
    PROVE  /\ reason[h] = "ok" => /\ reasons'["ok"] = reasons["ok"] + 1
                                  /\ Refusals' = Refusals
           /\ reason[h] # "ok" => /\ reasons'["ok"] = reasons["ok"]
                                  /\ Refusals' = Refusals + 1
<1>1. /\ reason[h] \in Reasons
      /\ reasons \in [Reasons -> Nat]
      /\ reasons' = [reasons EXCEPT ![reason[h]] = @ + 1]
  BY DEF TypeOK, Note
<1>2. \A r \in Reasons : /\ reasons[r] \in Nat
                         /\ reasons'[r] = IF r = reason[h] THEN reasons[r] + 1
                                                          ELSE reasons[r]
  BY <1>1
<1> QED BY <1>1, <1>2 DEF Refusals, Reasons

(* A thread that comes to the second counter, or leaves it, changes only    *)
(* the number of the threads that count what it counts.                     *)
LEMMA Arrives ==
    ASSUME NEW h \in Handlers, TypeOK, pc[h] # "count",
           pc' = [pc EXCEPT ![h] = "count"], reason' = reason,
           NEW rs
    PROVE  Cardinality(Counting(rs)') =
              IF reason[h] \in rs THEN Cardinality(Counting(rs)) + 1
                                         ELSE Cardinality(Counting(rs))
<1>1. h \notin Counting(rs)
  BY DEF Counting
<1>2. CASE reason[h] \in rs
  <2>1. Counting(rs)' = Counting(rs) \cup {h}
    BY <1>2 DEF Counting, TypeOK
  <2> QED BY <1>1, <1>2, <2>1, CountingFinite, FS_AddElement
<1>3. CASE reason[h] \notin rs
  <2>1. Counting(rs)' = Counting(rs)
    BY <1>3 DEF Counting, TypeOK
  <2> QED BY <1>3, <2>1
<1> QED BY <1>2, <1>3

LEMMA Leaves ==
    ASSUME NEW h \in Handlers, TypeOK, pc[h] = "count", Return(h),
           NEW rs
    PROVE  Cardinality(Counting(rs)') =
              IF reason[h] \in rs THEN Cardinality(Counting(rs)) - 1
                                         ELSE Cardinality(Counting(rs))
<1>1. CASE reason[h] \in rs
  <2>1. Counting(rs)' = Counting(rs) \ {h}
    BY <1>1 DEF Counting, Return, TypeOK
  <2>2. h \in Counting(rs)
    BY <1>1 DEF Counting
  <2> QED BY <1>1, <2>1, <2>2, CountingFinite, FS_RemoveElement
<1>2. CASE reason[h] \notin rs
  <2>1. Counting(rs)' = Counting(rs)
    BY <1>2 DEF Counting, Return, TypeOK
  <2> QED BY <1>2, <2>1
<1> QED BY <1>1, <1>2

(* Any other step of a thread leaves the second counter's threads alone.    *)
LEMMA Elsewhere ==
    ASSUME NEW h \in Handlers, TypeOK, pc[h] # "count", pc'[h] # "count",
           \A g \in Handlers : g # h => /\ pc'[g] = pc[g]
                                        /\ reason'[g] = reason[g],
           UNCHANGED <<allowed, denied, reasons>>, StatsBalance
    PROVE  StatsBalance'
<1>1. /\ Counting({"ok"})' = Counting({"ok"})
      /\ Counting(Reasons \ {"ok"})' = Counting(Reasons \ {"ok"})
  BY DEF Counting
<1>2. Refusals' = Refusals
  BY DEF Refusals
<1> QED BY <1>1, <1>2 DEF StatsBalance

LEMMA BalanceStep ==
    ASSUME TypeOK, StatsBalance, [Next]_vars
    PROVE  StatsBalance'
<1> USE DEF clockVars, statVars, historyVars, threadVars
<1>1. CASE UNCHANGED <<pc, reason, statVars>>
  BY <1>1 DEF StatsBalance, Refusals, Counting
<1>2. CASE Tick \/ StepClock \/ MintSome \/ UNCHANGED vars
  BY <1>1, <1>2 DEF Tick, StepClock, MintSome, Mint, vars
<1>3. ASSUME NEW h \in Handlers, NEW j \in Jti \cup {NoToken},
             NEW r \in Request, Receive(h, j, r)
      PROVE  StatsBalance'
  BY <1>3, Elsewhere DEF Receive, TypeOK
<1>4. ASSUME NEW h \in Handlers, Decode(h) \/ Replay(h)
      PROVE  StatsBalance'
  BY <1>4, Elsewhere DEF Decode, Replay, TypeOK
<1>5. ASSUME NEW h \in Handlers, Record(h)
      PROVE  StatsBalance'
  BY <1>5, Elsewhere DEF Record, Return, TypeOK
<1>6. ASSUME NEW h \in Handlers, Note(h)
      PROVE  StatsBalance'
  <2>1. /\ pc[h] = "note"
        /\ pc' = [pc EXCEPT ![h] = "count"]
        /\ reason' = reason
        /\ allowed' = allowed /\ denied' = denied
    BY <1>6 DEF Note
  <2> DEFINE granted == Cardinality(Counting({"ok"}))
             refused == Cardinality(Counting(Reasons \ {"ok"}))
  <2>2. /\ granted' = IF reason[h] \in {"ok"} THEN granted + 1 ELSE granted
        /\ refused' = IF reason[h] \in Reasons \ {"ok"} THEN refused + 1
                                                       ELSE refused
    BY <2>1, Arrives
  <2>3. granted \in Nat /\ refused \in Nat /\ reason[h] \in Reasons
    BY CountingFinite DEF TypeOK
  <2>4. allowed \in Nat /\ denied \in Nat
    BY DEF TypeOK
  <2>b. /\ reasons["ok"] = allowed + granted
        /\ Refusals = denied + refused
    BY DEF StatsBalance
  <2>g. SUFFICES /\ reasons'["ok"] = allowed' + granted'
                 /\ Refusals' = denied' + refused'
    BY DEF StatsBalance
  <2> HIDE DEF granted, refused
  <2>5. CASE reason[h] = "ok"
    BY <1>6, <2>1, <2>2, <2>3, <2>4, <2>b, <2>5, NoteCounts
  <2>6. CASE reason[h] # "ok"
    BY <1>6, <2>1, <2>2, <2>3, <2>4, <2>b, <2>6, NoteCounts
  <2> QED BY <2>5, <2>6
<1>7. ASSUME NEW h \in Handlers, Allow(h) \/ Deny(h)
      PROVE  StatsBalance'
  <2>1. /\ pc[h] = "count"
        /\ Return(h)
        /\ reasons' = reasons
    BY <1>7 DEF Allow, Deny
  <2> DEFINE granted == Cardinality(Counting({"ok"}))
             refused == Cardinality(Counting(Reasons \ {"ok"}))
  <2>2. /\ granted' = IF reason[h] \in {"ok"} THEN granted - 1 ELSE granted
        /\ refused' = IF reason[h] \in Reasons \ {"ok"} THEN refused - 1
                                                       ELSE refused
    BY <2>1, Leaves
  <2>3. granted \in Nat /\ refused \in Nat /\ reason[h] \in Reasons
    BY CountingFinite DEF TypeOK
  <2>4. allowed \in Nat /\ denied \in Nat
    BY DEF TypeOK
  <2>b. /\ reasons["ok"] = allowed + granted
        /\ Refusals = denied + refused
    BY DEF StatsBalance
  <2>g. SUFFICES /\ reasons'["ok"] = allowed' + granted'
                 /\ Refusals' = denied' + refused'
    BY DEF StatsBalance
  <2> HIDE DEF granted, refused
  <2>5. Refusals' = Refusals
    BY <2>1 DEF Refusals
  <2>6. CASE Allow(h)
    <3>1. /\ reason[h] = "ok"
          /\ allowed' = allowed + 1
          /\ denied' = denied
      BY <2>6 DEF Allow
    <3> QED BY <2>1, <2>2, <2>3, <2>4, <2>b, <2>5, <3>1
  <2>7. CASE Deny(h)
    <3>1. /\ reason[h] # "ok"
          /\ denied' = denied + 1
          /\ allowed' = allowed
      BY <2>7 DEF Deny
    <3> QED BY <2>1, <2>2, <2>3, <2>4, <2>b, <2>5, <3>1
  <2> QED BY <1>7, <2>6, <2>7
<1>8. CASE Restart
  <2>1. /\ Cardinality(Counting({"ok"}))' = 0
        /\ Cardinality(Counting(Reasons \ {"ok"}))' = 0
    <3>1. /\ Counting({"ok"})' = {}
          /\ Counting(Reasons \ {"ok"})' = {}
      BY <1>8 DEF Restart, Counting
    <3> QED BY <3>1, FS_EmptySet
  <2>2. \A r \in Reasons : reasons'[r] = 0
    BY <1>8 DEF Restart
  <2>3. reasons'["ok"] = 0 /\ Refusals' = 0
    BY <2>2 DEF Refusals, Reasons
  <2>4. allowed' = 0 /\ denied' = 0
    BY <1>8 DEF Restart
  <2> QED BY <2>1, <2>3, <2>4 DEF StatsBalance
<1> QED
  BY <1>2, <1>3, <1>4, <1>5, <1>6, <1>7, <1>8
     DEF Next, ReceiveSome, ThreadStep

(* Whenever /__stats is read, the reasons exceed the two counters by the    *)
(* threads that noted a reason and have not counted it yet (note() and      *)
(* _authz()).                                                               *)
THEOREM Balanced == Spec => []StatsBalance
<1>1. Init => StatsBalance
  <2> SUFFICES ASSUME Init
               PROVE  StatsBalance
    OBVIOUS
  <2>1. /\ Cardinality(Counting({"ok"})) = 0
        /\ Cardinality(Counting(Reasons \ {"ok"})) = 0
    <3>1. Counting({"ok"}) = {} /\ Counting(Reasons \ {"ok"}) = {}
      BY DEF Init, Counting
    <3> QED BY <3>1, FS_EmptySet
  <2>2. reasons["ok"] = 0 /\ Refusals = 0
    BY DEF Init, Refusals, Reasons
  <2>3. allowed = 0 /\ denied = 0
    BY DEF Init
  <2> QED BY <2>1, <2>2, <2>3 DEF StatsBalance
<1>2. TypeOK /\ StatsBalance /\ [Next]_vars => StatsBalance'
  BY BalanceStep
<1> QED BY <1>1, <1>2, TypeCorrect, PTL DEF Spec
==============================================================================
