--------------------------- MODULE IdentityProofs ----------------------------
(******************************************************************************)
(* Proofs about the programs that find out who it was: by the records of a    *)
(* shared connection, by the process behind a socket, by when requests were   *)
(* seen.  The three parts do not depend on one another.                       *)
(******************************************************************************)
EXTENDS SocketAnchor, CoResident, Attribution, SequenceTheorems, FiniteSetTheorems,
        TLAPS

------------------------------------------------------------------------------
(******************************************************************************)
(* SocketAnchor, for any experiments, principals and source ports.            *)
(******************************************************************************)

Lines == [who : People, end : BOOLEAN]

LEMMA Posed ==
    /\ Len(Experiments) \in Nat /\ Len(Experiments) > 0
    /\ DOMAIN Experiments = 1..Len(Experiments)
    /\ \A f \in DOMAIN Experiments :
          /\ Experiments[f].how \in {"ask", "stream", "hand"}
          /\ Experiments[f].who \in Seq(People)
          /\ Len(Experiments[f].who) \in Nat
          /\ DOMAIN Experiments[f].who = 1..Len(Experiments[f].who)
          /\ \A i, j \in 1..Len(Experiments[f].who) :
                Experiments[f].who[i] = Experiments[f].who[j] => i = j
<1> DEFINE E == [how : {"ask", "stream", "hand"}, who : Seq(People)]
<1>1. Experiments \in Seq(E) /\ Experiments # <<>>
  BY AnchorAssumption
<1> HIDE DEF E
<1>2. /\ Len(Experiments) \in Nat /\ Len(Experiments) > 0
      /\ DOMAIN Experiments = 1..Len(Experiments)
      /\ \A f \in DOMAIN Experiments : Experiments[f] \in E
  BY <1>1
<1>3. ASSUME NEW f \in DOMAIN Experiments
      PROVE  /\ Experiments[f].how \in {"ask", "stream", "hand"}
             /\ Experiments[f].who \in Seq(People)
             /\ IsInjective(Experiments[f].who)
  BY <1>2, AnchorAssumption DEF E
<1>4. ASSUME NEW f \in DOMAIN Experiments
      PROVE  /\ Len(Experiments[f].who) \in Nat
             /\ DOMAIN Experiments[f].who = 1..Len(Experiments[f].who)
             /\ \A i, j \in 1..Len(Experiments[f].who) :
                   Experiments[f].who[i] = Experiments[f].who[j] => i = j
  BY <1>3 DEF IsInjective
<1> QED BY <1>2, <1>3, <1>4

------------------------------------------------------------------------------
(* Requests on the wire.                                                    *)

(* A wire carries requests, each the line that names the principal and the  *)
(* end of the same principal's request; the last one may lack its end.      *)
Whole(s) ==
    /\ s # <<>> => ~s[1].end
    /\ \A i \in 1..Len(s) - 1 : /\ s[i + 1].end <=> ~s[i].end
                                /\ s[i + 1].end => s[i + 1].who = s[i].who
Unended(s) == s # <<>> /\ ~s[Len(s)].end

(* The first complete request is the first two lines, and is its first      *)
(* line's; what follows it is whole again.                                  *)
LEMMA FirstRequest ==
    ASSUME NEW s \in Seq(Lines), Whole(s), NEW e \in DOMAIN s, s[e].end
    PROVE  /\ Len(s) \in Nat /\ Len(s) >= 2
           /\ EndOf(s) = 2 /\ Claimed(s) = s[1].who /\ s[1].who \in People
           /\ ~s[1].end
<1>1. Len(s) \in Nat /\ DOMAIN s = 1..Len(s)
  OBVIOUS
<1>2. s # <<>> /\ ~s[1].end
  BY <1>1 DEF Whole
<1>3. Len(s) >= 2
  BY <1>1, <1>2
<1>4. s[2].end
  <2>1. s[1 + 1].end <=> ~s[1].end
    BY <1>1, <1>3 DEF Whole
  <2> QED BY <1>2, <2>1
<1>5. EndOf(s) = 2
  <2> DEFINE P(i) == s[i].end /\ \A j \in 1..i - 1 : ~s[j].end
  <2>1. 2 \in DOMAIN s /\ P(2)
    BY <1>1, <1>2, <1>3, <1>4
  <2>2. \A i \in DOMAIN s : P(i) => i = 2
    <3> SUFFICES ASSUME NEW i \in DOMAIN s, P(i), i # 2
                 PROVE  FALSE
      OBVIOUS
    <3>1. i > 2 \/ i = 1
      BY <1>1
    <3>2. i > 2 => 2 \in 1..i - 1
      BY <1>1
    <3> QED BY <1>2, <1>4, <3>1, <3>2
  <2> QED BY <2>1, <2>2 DEF EndOf
<1>6. Claimed(s) = s[1].who
  <2> DEFINE lines == {j \in 1..EndOf(s) : ~s[j].end}
  <2>1. lines = {1}
    BY <1>2, <1>4, <1>5
  <2>2. (CHOOSE j \in lines : \A i \in lines : i <= j) = 1
    <3> HIDE DEF lines
    <3> QED BY <2>1
  <2> QED BY <2>1, <2>2 DEF Claimed
<1>7. s[1] \in Lines
  BY <1>1, <1>3
<1> QED BY <1>1, <1>2, <1>3, <1>5, <1>6, <1>7 DEF Lines

LEMMA RestOfWire ==
    ASSUME NEW s \in Seq(Lines), Whole(s), Len(s) >= 2,
           NEW r, r = SubSeq(s, 3, Len(s))
    PROVE  /\ r \in Seq(Lines) /\ Len(r) = Len(s) - 2
           /\ \A i \in 1..Len(r) : r[i] = s[i + 2]
           /\ Whole(r)
           /\ Unended(r) <=> Unended(s)
           /\ Unended(r) => r[Len(r)] = s[Len(s)]
<1>1. Len(s) \in Nat /\ DOMAIN s = 1..Len(s)
  OBVIOUS
<1>2. /\ r \in Seq(Lines) /\ Len(r) = Len(s) - 2
      /\ \A i \in 1..Len(r) : r[i] = s[i + 2]
  <2>1. 3 \in Int /\ Len(s) \in Int /\ \A i \in 3..Len(s) : s[i] \in Lines
    BY <1>1
  <2>2. /\ SubSeq(s, 3, Len(s)) \in Seq(Lines)
        /\ Len(SubSeq(s, 3, Len(s))) = IF 3 <= Len(s) THEN Len(s) - 3 + 1 ELSE 0
        /\ \A i \in 1..Len(s) - 3 + 1 : SubSeq(s, 3, Len(s))[i] = s[3 + i - 1]
    <3> DEFINE n == Len(s)
    <3> HIDE DEF n
    <3> QED BY <2>1, SubSeqProperties DEF n
  <2>3. /\ r \in Seq(Lines) /\ Len(r) = Len(s) - 2
    BY <1>1, <2>2
  <2>4. ASSUME NEW i \in 1..Len(r)
        PROVE  r[i] = s[i + 2]
    <3>1. i \in 1..Len(s) - 3 + 1 /\ 3 + i - 1 = i + 2
      BY <1>1, <2>3
    <3> QED BY <2>2, <3>1
  <2> QED BY <2>3, <2>4
<1>3. /\ s[2].end /\ ~s[1].end
      /\ \A i \in 1..Len(s) - 1 : /\ s[i + 1].end <=> ~s[i].end
                                  /\ s[i + 1].end => s[i + 1].who = s[i].who
  <2>1. \A i \in 1..Len(s) - 1 : /\ s[i + 1].end <=> ~s[i].end
                                 /\ s[i + 1].end => s[i + 1].who = s[i].who
    BY DEF Whole
  <2>2. ~s[1].end
    BY <1>1 DEF Whole
  <2>3. s[1 + 1].end
    BY <1>1, <2>1, <2>2
  <2> QED BY <2>1, <2>2, <2>3
<1>4. Whole(r)
  <2>1. r # <<>> => ~r[1].end
    <3> SUFFICES ASSUME r # <<>>
                 PROVE  ~r[1].end
      OBVIOUS
    <3>1. Len(r) \in Nat /\ Len(r) # 0
      BY <1>2
    <3>2. r[1] = s[3] /\ 2 \in 1..Len(s) - 1
      BY <1>1, <1>2, <3>1
    <3>3. s[2 + 1].end <=> ~s[2].end
      BY <1>3, <3>2
    <3> QED BY <1>3, <3>2, <3>3
  <2>2. ASSUME NEW i \in 1..Len(r) - 1
        PROVE  /\ r[i + 1].end <=> ~r[i].end
               /\ r[i + 1].end => r[i + 1].who = r[i].who
    <3>1. i + 2 \in 1..Len(s) - 1 /\ (i + 2) + 1 = (i + 1) + 2
      BY <1>1, <1>2
    <3>2. r[i] = s[i + 2] /\ r[i + 1] = s[(i + 2) + 1]
      BY <1>1, <1>2, <3>1
    <3> QED BY <1>3, <3>1, <3>2
  <2> QED BY <2>1, <2>2 DEF Whole
<1>5. Len(r) \in Nat
  BY <1>2
<1>6. CASE Len(r) = 0
  <2>1. Len(s) = 2
    BY <1>1, <1>2, <1>6
  <2>2. r = <<>>
    BY <1>2, <1>6, EmptySeq
  <2> QED BY <1>2, <1>3, <1>4, <2>1, <2>2 DEF Unended
<1>7. CASE Len(r) > 0
  <2>1. r[Len(r)] = s[Len(s)] /\ r # <<>> /\ s # <<>>
    <3>1. Len(r) \in 1..Len(r) /\ Len(r) + 2 = Len(s)
      BY <1>1, <1>2, <1>5, <1>7
    <3>2. r[Len(r)] = s[Len(r) + 2]
      BY <1>2, <3>1
    <3>3. r # <<>>
      <4>1. Len(<<>>) = 0
        OBVIOUS
      <4>2. ASSUME r = <<>> PROVE FALSE
        <5>1. Len(r) = 0
          BY <4>1, <4>2
        <5> QED BY <1>7, <5>1
      <4> QED BY <4>2
    <3>4. s # <<>>
      <4>1. Len(s) # 0
        BY <1>1, <1>5, <1>7, <3>1
      <4> QED BY <4>1
    <3> QED BY <3>1, <3>2, <3>3, <3>4
  <2> QED BY <1>2, <1>4, <2>1 DEF Unended
<1>8. Len(r) = 0 \/ Len(r) > 0
  BY <1>5
<1> QED BY <1>6, <1>7, <1>8

(* A thread writes its half of a request.                                   *)
LEMMA WriteStart ==
    ASSUME NEW s \in Seq(Lines), Whole(s), ~Unended(s), NEW p \in People
    PROVE  LET w == Append(s, Start(p)) IN
           /\ w \in Seq(Lines) /\ Len(w) = Len(s) + 1 /\ Len(s) \in Nat
           /\ \A i \in 1..Len(s) : w[i] = s[i]
           /\ w[Len(s) + 1] = Start(p)
           /\ Whole(w) /\ Unended(w)
<1> DEFINE w == Append(s, Start(p))
<1>1. Start(p) \in Lines /\ ~Start(p).end
  BY DEF Start, Lines
<1>2. /\ w \in Seq(Lines) /\ Len(w) = Len(s) + 1 /\ Len(s) \in Nat
      /\ \A i \in 1..Len(s) : w[i] = s[i]
      /\ w[Len(s) + 1] = Start(p)
  BY <1>1
<1> HIDE DEF w
<1>3. Unended(w)
  BY <1>1, <1>2 DEF Unended
<1>4. w # <<>> => ~w[1].end
  <2>1. CASE Len(s) = 0
    BY <1>1, <1>2, <2>1
  <2>2. CASE Len(s) # 0
    BY <1>2, <2>2 DEF Whole
  <2> QED BY <2>1, <2>2
<1>5. ASSUME NEW i \in 1..Len(w) - 1
      PROVE  /\ w[i + 1].end <=> ~w[i].end
             /\ w[i + 1].end => w[i + 1].who = w[i].who
  <2>1. CASE i = Len(s)
    <3>1. s[Len(s)].end /\ w[i] = s[Len(s)] /\ w[i + 1] = Start(p)
      BY <1>2, <2>1 DEF Unended
    <3> QED BY <1>1, <3>1
  <2>2. CASE i # Len(s)
    <3>1. i \in 1..Len(s) - 1 /\ w[i] = s[i] /\ w[i + 1] = s[i + 1]
      BY <1>2, <2>2
    <3> QED BY <3>1 DEF Whole
  <2> QED BY <2>1, <2>2
<1>6. Whole(w)
  BY <1>4, <1>5 DEF Whole
<1> QED BY <1>2, <1>3, <1>6 DEF w

LEMMA WriteEnd ==
    ASSUME NEW s \in Seq(Lines), Whole(s), Unended(s), NEW p \in People,
           s[Len(s)].who = p
    PROVE  LET w == Append(s, End(p)) IN
           /\ w \in Seq(Lines) /\ Len(w) = Len(s) + 1 /\ Len(s) \in Nat
           /\ \A i \in 1..Len(s) : w[i] = s[i]
           /\ w[Len(s) + 1] = End(p)
           /\ Whole(w) /\ ~Unended(w)
<1> DEFINE w == Append(s, End(p))
<1>1. End(p) \in Lines /\ End(p).end /\ End(p).who = p
  BY DEF End, Lines
<1>2. /\ w \in Seq(Lines) /\ Len(w) = Len(s) + 1 /\ Len(s) \in Nat
      /\ \A i \in 1..Len(s) : w[i] = s[i]
      /\ w[Len(s) + 1] = End(p)
  BY <1>1
<1> HIDE DEF w
<1>3. ~Unended(w)
  BY <1>1, <1>2 DEF Unended
<1>4. Len(s) # 0 /\ ~s[Len(s)].end
  BY DEF Unended
<1>5. w # <<>> => ~w[1].end
  BY <1>2, <1>4 DEF Whole
<1>6. ASSUME NEW i \in 1..Len(w) - 1
      PROVE  /\ w[i + 1].end <=> ~w[i].end
             /\ w[i + 1].end => w[i + 1].who = w[i].who
  <2>1. CASE i = Len(s)
    <3>1. w[i] = s[Len(s)] /\ w[i + 1] = End(p)
      BY <1>2, <1>4, <2>1
    <3> QED BY <1>1, <1>4, <3>1
  <2>2. CASE i # Len(s)
    <3>1. i \in 1..Len(s) - 1 /\ w[i] = s[i] /\ w[i + 1] = s[i + 1]
      BY <1>2, <2>2
    <3> QED BY <3>1 DEF Whole
  <2> QED BY <2>1, <2>2
<1>7. Whole(w)
  BY <1>5, <1>6 DEF Whole
<1> QED BY <1>2, <1>3, <1>7 DEF w

LEMMA WriteRequest ==
    ASSUME NEW s \in Seq(Lines), Whole(s), ~Unended(s), NEW p \in People
    PROVE  LET w == s \o <<Start(p), End(p)>> IN
           /\ w \in Seq(Lines) /\ Len(w) = Len(s) + 2 /\ Len(s) \in Nat
           /\ \A i \in 1..Len(s) : w[i] = s[i]
           /\ w[Len(s) + 1] = Start(p) /\ w[Len(s) + 2] = End(p)
           /\ Whole(w) /\ ~Unended(w)
<1> DEFINE h == Append(s, Start(p))
<1>1. Start(p) \in Lines /\ End(p) \in Lines /\ Start(p).who = p
  BY DEF Start, End, Lines
<1>2. s \o <<Start(p), End(p)>> = Append(h, End(p))
  BY <1>1
<1>3. /\ h \in Seq(Lines) /\ Len(h) = Len(s) + 1 /\ Len(s) \in Nat
      /\ \A i \in 1..Len(s) : h[i] = s[i]
      /\ h[Len(s) + 1] = Start(p)
      /\ Whole(h) /\ Unended(h)
  BY WriteStart
<1> HIDE DEF h
<1> DEFINE w == Append(h, End(p))
<1>4. /\ w \in Seq(Lines) /\ Len(w) = Len(h) + 1
      /\ \A i \in 1..Len(h) : w[i] = h[i]
      /\ w[Len(h) + 1] = End(p)
      /\ Whole(w) /\ ~Unended(w)
  BY <1>1, <1>3, WriteEnd
<1> HIDE DEF w
<1>5. /\ Len(w) = Len(s) + 2
      /\ \A i \in 1..Len(s) : w[i] = s[i]
      /\ w[Len(s) + 1] = Start(p) /\ w[Len(s) + 2] = End(p)
  BY <1>3, <1>4
<1> QED BY <1>2, <1>3, <1>4, <1>5 DEF w

------------------------------------------------------------------------------
(* The connections.                                                         *)

WireInv == \A q \in Sources : Whole(wire[q])

(* A connection that is served is of an experiment before, or of this one.  *)
PortInv ==
    /\ doing # "connect" => Running /\ line \in Sources /\ owner[line] = exp
    /\ doing = "connect" => line = NoSource
    /\ doing = "wait" => How = "ask" /\ asked < Len(Who)
    /\ \A q \in Sources : serving[q] # "none" =>
          owner[q] < exp \/ (owner[q] = exp /\ q = line)
    /\ \A q, r \in Sources :
          q # r /\ serving[q] # "none" /\ serving[r] # "none" => owner[q] # owner[r]

(* Only the thread that holds the lock has written one half.                *)
LockInv ==
    doing # "connect" =>
        /\ \A p \in People : part[p] = 1 => lock = p /\ Unended(wire[line])
        /\ Unended(wire[line]) =>
              /\ How = "stream" /\ lock \in People
              /\ wire[line][Len(wire[line])].who = lock

LineInv == ATypeOK /\ WireInv /\ PortInv /\ LockInv

LEMMA OnTheLine ==
    ASSUME LineInv, doing # "connect"
    PROVE  /\ line \in Sources /\ owner[line] = exp /\ exp \in DOMAIN Experiments
           /\ wire[line] \in Seq(Lines) /\ Whole(wire[line])
           /\ Who \in Seq(People) /\ Len(Who) \in Nat /\ DOMAIN Who = 1..Len(Who)
           /\ \A i, j \in 1..Len(Who) : Who[i] = Who[j] => i = j
           /\ Range(Who) \subseteq People
<1>1. line \in Sources /\ owner[line] = exp /\ exp \in DOMAIN Experiments
  BY DEF LineInv, PortInv, Running
<1>2. wire[line] \in Seq(Lines) /\ Whole(wire[line])
  BY <1>1 DEF LineInv, ATypeOK, WireInv, Lines
<1>3. /\ Who \in Seq(People) /\ Len(Who) \in Nat /\ DOMAIN Who = 1..Len(Who)
      /\ \A i, j \in 1..Len(Who) : Who[i] = Who[j] => i = j
  BY <1>1, Posed DEF Who
<1>4. Range(Who) \subseteq People
  <2>1. \A i \in 1..Len(Who) : Who[i] \in People
    BY <1>3
  <2> QED BY <1>3, <2>1 DEF Range
<1> QED BY <1>1, <1>2, <1>3, <1>4

(* The wire of a connection after a write or a parse is a wire.             *)
LEMMA WireStep ==
    ASSUME LineInv, NEW q \in Sources, NEW w \in Seq(Lines), Whole(w),
           wire' = [wire EXCEPT ![q] = w]
    PROVE  /\ wire' \in [Sources -> Seq([who : People, end : BOOLEAN])]
           /\ WireInv'
           /\ wire'[q] = w /\ \A r \in Sources \ {q} : wire'[r] = wire[r]
<1>1. wire \in [Sources -> Seq(Lines)]
  BY DEF LineInv, ATypeOK, Lines
<1>2. wire' \in [Sources -> Seq(Lines)]
  BY <1>1
<1>3. wire'[q] = w /\ \A r \in Sources \ {q} : wire'[r] = wire[r]
  BY <1>1
<1>4. WireInv'
  BY <1>3 DEF LineInv, WireInv
<1> QED BY <1>2, <1>3, <1>4 DEF Lines

LEMMA LineConnect ==
    ASSUME LineInv, NEW q \in Sources, Connect(q)
    PROVE  LineInv'
<1> USE DEF Connect
<1>1. <<>> \in Seq(Lines) /\ Whole(<<>>) /\ ~Unended(<<>>)
  BY DEF Whole, Unended
<1>2. WireInv' /\ wire'[q] = <<>>
      /\ wire' \in [Sources -> Seq([who : People, end : BOOLEAN])]
  BY <1>1, WireStep
<1>3. ATypeOK'
  <2>1. owner' \in [Sources -> DOMAIN Experiments]
    BY DEF LineInv, ATypeOK, Running
  <2>2. /\ part' \in [People -> 0..2] /\ asked' \in Nat
        /\ answers' \in [Sources -> Nat]
        /\ serving' \in [Sources -> {"none", "recv", "respond"}]
    BY DEF LineInv, ATypeOK
  <2> QED BY <1>2, <2>1, <2>2 DEF LineInv, ATypeOK
<1>4. PortInv'
  <2>1. \A r \in Sources : serving[r] # "none" => owner[r] < exp
    BY AnchorAssumption DEF LineInv, PortInv
  <2>2. \A r \in Sources : owner[r] \in Nat
    BY Posed DEF LineInv, ATypeOK
  <2>3. exp \in Nat /\ Running /\ Running'
    BY Posed DEF LineInv, ATypeOK, Running
  <2>4. /\ line' = q /\ owner'[q] = exp /\ exp' = exp /\ doing' = "run"
        /\ \A r \in Sources \ {q} : owner'[r] = owner[r] /\ serving'[r] = serving[r]
    BY DEF LineInv, ATypeOK
  <2>5. \A r \in Sources : serving'[r] # "none" =>
           owner'[r] < exp' \/ (owner'[r] = exp' /\ r = line')
    BY <2>1, <2>4
  <2>6. \A r, t \in Sources :
           r # t /\ serving'[r] # "none" /\ serving'[t] # "none"
           => owner'[r] # owner'[t]
    <3> SUFFICES ASSUME NEW r \in Sources, NEW t \in Sources, r # t,
                        serving'[r] # "none", serving'[t] # "none"
                 PROVE  owner'[r] # owner'[t]
      OBVIOUS
    <3>1. CASE r = q
      BY <2>1, <2>2, <2>3, <2>4, <3>1
    <3>2. CASE t = q
      BY <2>1, <2>2, <2>3, <2>4, <3>2
    <3>3. CASE r # q /\ t # q
      BY <2>4, <3>3 DEF LineInv, PortInv
    <3> QED BY <3>1, <3>2, <3>3
  <2> QED BY <2>3, <2>4, <2>5, <2>6 DEF PortInv
<1>5. LockInv'
  BY <1>1, <1>2 DEF LockInv
<1> QED BY <1>2, <1>3, <1>4, <1>5 DEF LineInv

(* A whole request is written where nobody writes by halves.                *)
LEMMA WholeRequest ==
    ASSUME LineInv, doing = "run", How # "stream", asked < Len(Who),
           wire' = [wire EXCEPT ![line] =
                        @ \o <<Start(Who[asked + 1]), End(Who[asked + 1])>>],
           UNCHANGED <<exp, line, part, lock>>
    PROVE  /\ wire' \in [Sources -> Seq([who : People, end : BOOLEAN])]
           /\ WireInv' /\ LockInv'
<1>1. /\ line \in Sources /\ wire[line] \in Seq(Lines) /\ Whole(wire[line])
      /\ Who[asked + 1] \in People
  <2>1. asked + 1 \in 1..Len(Who)
    BY OnTheLine DEF LineInv, ATypeOK
  <2> QED BY <2>1, OnTheLine
<1>2. ~Unended(wire[line])
  BY DEF LineInv, LockInv
<1> DEFINE w == wire[line] \o <<Start(Who[asked + 1]), End(Who[asked + 1])>>
<1>3. w \in Seq(Lines) /\ Whole(w) /\ ~Unended(w)
  BY <1>1, <1>2, WriteRequest
<1>4. wire' = [wire EXCEPT ![line] = w]
  OBVIOUS
<1> HIDE DEF w
<1>5. /\ wire' \in [Sources -> Seq([who : People, end : BOOLEAN])]
      /\ WireInv' /\ wire'[line] = w
  BY <1>1, <1>3, <1>4, WireStep
<1>6. LockInv'
  BY <1>2, <1>3, <1>5 DEF LineInv, LockInv
<1> QED BY <1>5, <1>6

LEMMA LineSendHead ==
    ASSUME LineInv, NEW p \in People, SendHead(p)
    PROVE  LineInv'
<1> USE DEF SendHead
<1>1. line \in Sources /\ wire[line] \in Seq(Lines) /\ Whole(wire[line])
  BY OnTheLine
<1>2. ~Unended(wire[line])
  BY AnchorAssumption DEF LineInv, LockInv
<1> DEFINE w == Append(wire[line], Start(p))
<1>3. /\ w \in Seq(Lines) /\ Whole(w) /\ Unended(w) /\ w[Len(w)].who = p
  BY <1>1, <1>2, WriteStart DEF Start
<1>4. wire' = [wire EXCEPT ![line] = w]
  OBVIOUS
<1> HIDE DEF w
<1>5. /\ wire' \in [Sources -> Seq([who : People, end : BOOLEAN])]
      /\ WireInv' /\ wire'[line] = w
  BY <1>1, <1>3, <1>4, WireStep
<1>6. ATypeOK'
  BY <1>5 DEF LineInv, ATypeOK
<1>7. PortInv'
  BY DEF LineInv, PortInv, Running, How, Who
<1>8. LockInv'
  <2>1. \A r \in People : part[r] # 1
    BY AnchorAssumption DEF LineInv, LockInv
  <2>2. \A r \in People : part'[r] = 1 => r = p
    BY <2>1 DEF LineInv, ATypeOK
  <2>3. How' = "stream" /\ line' = line /\ lock' = p
    BY DEF How
  <2> QED BY <1>3, <1>5, <2>2, <2>3 DEF LockInv
<1> QED BY <1>5, <1>6, <1>7, <1>8 DEF LineInv

LEMMA LineSendTail ==
    ASSUME LineInv, NEW p \in People, SendTail(p)
    PROVE  LineInv'
<1> USE DEF SendTail
<1>1. line \in Sources /\ wire[line] \in Seq(Lines) /\ Whole(wire[line])
  BY OnTheLine
<1>2. Unended(wire[line]) /\ wire[line][Len(wire[line])].who = p /\ lock = p
  BY DEF LineInv, LockInv
<1> DEFINE w == Append(wire[line], End(p))
<1>3. /\ w \in Seq(Lines) /\ Whole(w) /\ ~Unended(w)
  BY <1>1, <1>2, WriteEnd
<1>4. wire' = [wire EXCEPT ![line] = w]
  OBVIOUS
<1> HIDE DEF w
<1>5. /\ wire' \in [Sources -> Seq([who : People, end : BOOLEAN])]
      /\ WireInv' /\ wire'[line] = w
  BY <1>1, <1>3, <1>4, WireStep
<1>6. ATypeOK'
  BY <1>5 DEF LineInv, ATypeOK
<1>7. PortInv'
  BY DEF LineInv, PortInv, Running, How, Who
<1>8. LockInv'
  <2>1. \A r \in People : part'[r] # 1
    BY <1>2 DEF LineInv, LockInv, ATypeOK
  <2> QED BY <1>3, <1>5, <2>1 DEF LockInv
<1> QED BY <1>5, <1>6, <1>7, <1>8 DEF LineInv

(* What is cut off and what remains, when the server reads a request.       *)
LEMMA Cut ==
    ASSUME LineInv, NEW q \in Sources, Parse(q)
    PROVE  /\ wire[q] \in Seq(Lines) /\ Len(wire[q]) \in Nat /\ Len(wire[q]) >= 2
           /\ ~wire[q][1].end /\ wire[q][1].who \in People
           /\ observations' = Append(observations,
                 [port |-> q, who |-> wire[q][1].who, of |-> owner[q]])
           /\ wire' \in [Sources -> Seq([who : People, end : BOOLEAN])] /\ WireInv'
           /\ Len(wire'[q]) = Len(wire[q]) - 2
           /\ \A i \in 1..Len(wire'[q]) : wire'[q][i] = wire[q][i + 2]
           /\ Unended(wire'[q]) <=> Unended(wire[q])
           /\ Unended(wire'[q]) =>
                 wire'[q][Len(wire'[q])] = wire[q][Len(wire[q])]
           /\ \A r \in Sources \ {q} : wire'[r] = wire[r]
<1> USE DEF Parse
<1> DEFINE s == wire[q]  rest == SubSeq(s, 3, Len(s))
<1>1. s \in Seq(Lines) /\ Whole(s)
  BY DEF LineInv, ATypeOK, WireInv, Lines
<1>2. PICK e \in DOMAIN s : s[e].end
  OBVIOUS
<1>3. /\ Len(s) \in Nat /\ Len(s) >= 2 /\ EndOf(s) = 2 /\ Claimed(s) = s[1].who
      /\ s[1].who \in People /\ ~s[1].end
  <2> HIDE DEF s
  <2> QED BY <1>1, <1>2, FirstRequest
<1>4. /\ rest \in Seq(Lines) /\ Len(rest) = Len(s) - 2
      /\ \A i \in 1..Len(rest) : rest[i] = s[i + 2]
      /\ Whole(rest)
      /\ Unended(rest) <=> Unended(s)
      /\ Unended(rest) => rest[Len(rest)] = s[Len(s)]
  <2> HIDE DEF s
  <2> QED BY <1>1, <1>3, RestOfWire
<1>5. wire' = [wire EXCEPT ![q] = rest]
  BY <1>3
<1>6. observations' = Append(observations,
         [port |-> q, who |-> s[1].who, of |-> owner[q]])
  BY <1>3
<1> HIDE DEF rest
<1>7. /\ wire' \in [Sources -> Seq([who : People, end : BOOLEAN])] /\ WireInv'
      /\ wire'[q] = rest /\ \A r \in Sources \ {q} : wire'[r] = wire[r]
  BY <1>4, <1>5, WireStep
<1> QED BY <1>1, <1>3, <1>4, <1>6, <1>7

LEMMA LineParse ==
    ASSUME LineInv, NEW q \in Sources, Parse(q)
    PROVE  LineInv'
<1>1. ATypeOK'
  <2>1. /\ owner[q] \in DOMAIN Experiments
        /\ observations \in Seq([port : Sources, who : People \cup {Unnamed},
                                 of : DOMAIN Experiments])
        /\ found \subseteq DOMAIN observations
    BY DEF LineInv, ATypeOK
  <2>2. /\ observations' \in Seq([port : Sources, who : People \cup {Unnamed},
                                  of : DOMAIN Experiments])
        /\ found \subseteq DOMAIN observations'
    <3> DEFINE R == [port : Sources, who : People \cup {Unnamed},
                     of : DOMAIN Experiments]
               n == [port |-> q, who |-> wire[q][1].who, of |-> owner[q]]
    <3>1. n \in R /\ observations \in Seq(R) /\ observations' = Append(observations, n)
      BY <2>1, Cut
    <3> HIDE DEF R, n
    <3>2. observations' \in Seq(R) /\ DOMAIN observations \subseteq DOMAIN observations'
      BY <3>1
    <3> QED BY <2>1, <3>2 DEF R
  <2> QED BY <2>2, Cut DEF Parse, LineInv, ATypeOK
<1>2. PortInv'
  BY DEF LineInv, PortInv, Running, How, Who, Parse, ATypeOK
<1>3. LockInv'
  <2> SUFFICES ASSUME doing # "connect"
               PROVE  LockInv'
    BY DEF Parse, LockInv
  <2>1. line \in Sources
    BY OnTheLine
  <2>2. UNCHANGED <<doing, part, lock, line, exp>> /\ How' = How
    BY DEF Parse, How
  <2>3. /\ Unended(wire'[line]) <=> Unended(wire[line])
        /\ Unended(wire'[line]) =>
              wire'[line][Len(wire'[line])] = wire[line][Len(wire[line])]
    <3>1. CASE q = line
      BY <3>1, Cut
    <3>2. CASE q # line
      <4>1. wire'[line] = wire[line]
        BY <2>1, <3>2, Cut
      <4> QED BY <4>1
    <3> QED BY <3>1, <3>2
  <2>4. LockInv
    BY DEF LineInv
  <2> HIDE DEF Unended
  <2> QED BY <2>2, <2>3, <2>4 DEF LockInv
<1> QED BY <1>1, <1>2, <1>3, Cut DEF LineInv

LEMMA LineStep == LineInv /\ [ANext]_anchorVars => LineInv'
<1> SUFFICES ASSUME LineInv, [ANext]_anchorVars
             PROVE  LineInv'
  OBVIOUS
<1>1. ASSUME NEW q \in Sources, Respond(q)
      PROVE  LineInv'
  <2>1. /\ answers' \in [Sources -> Nat]
        /\ serving' \in [Sources -> {"none", "recv", "respond"}]
        /\ \A r \in Sources : serving'[r] # "none" <=> serving[r] # "none"
    BY <1>1 DEF Respond, LineInv, ATypeOK
  <2>2. ATypeOK'
    BY <1>1, <2>1 DEF Respond, LineInv, ATypeOK
  <2>3. PortInv'
    BY <1>1, <2>1 DEF Respond, LineInv, PortInv, Running, How, Who
  <2> QED BY <1>1, <2>2, <2>3 DEF Respond, LineInv, WireInv, LockInv, How
<1>2. ASSUME NEW q \in Sources, Abandon(q)
      PROVE  LineInv'
  BY <1>2 DEF Abandon, LineInv, ATypeOK, WireInv, PortInv, LockInv, Running, How, Who
<1>3. CASE Ask
  <2>1. /\ wire' \in [Sources -> Seq([who : People, end : BOOLEAN])]
        /\ WireInv' /\ LockInv'
    BY <1>3, WholeRequest DEF Ask
  <2>2. ATypeOK'
    BY <1>3, <2>1 DEF Ask, LineInv, ATypeOK
  <2>3. PortInv'
    BY <1>3 DEF Ask, LineInv, PortInv, Running, How, Who
  <2> QED BY <2>1, <2>2, <2>3 DEF LineInv
<1>4. CASE GetResponse
  <2>1. line \in Sources
    BY <1>4, OnTheLine DEF GetResponse
  <2>2. ATypeOK'
    <3>1. asked' \in Nat /\ answers' \in [Sources -> Nat]
      BY <1>4, <2>1 DEF GetResponse, LineInv, ATypeOK
    <3> QED BY <1>4, <3>1 DEF GetResponse, LineInv, ATypeOK
  <2> QED BY <1>4, <2>2
          DEF GetResponse, LineInv, WireInv, PortInv, LockInv, Running, How, Who
<1>5. CASE RemoteDisconnected
  BY <1>5 DEF RemoteDisconnected, LineInv, ATypeOK, WireInv, PortInv, LockInv,
              Running, How, Who
<1>6. CASE ChildWrites
  <2>1. /\ wire' \in [Sources -> Seq([who : People, end : BOOLEAN])]
        /\ WireInv' /\ LockInv'
    BY <1>6, WholeRequest DEF ChildWrites
  <2>2. ATypeOK'
    <3>1. asked' \in Nat
      BY <1>6 DEF ChildWrites, LineInv, ATypeOK
    <3> QED BY <1>6, <2>1, <3>1 DEF ChildWrites, LineInv, ATypeOK
  <2>3. PortInv'
    BY <1>6 DEF ChildWrites, LineInv, PortInv, Running, How, Who
  <2> QED BY <2>1, <2>2, <2>3 DEF LineInv
<1>7. CASE Look
  <2>1. found' \subseteq DOMAIN observations
    BY <1>7 DEF Look
  <2> QED BY <1>7, <2>1 DEF Look, LineInv, ATypeOK, WireInv, PortInv, LockInv,
                            Running, How, Who
<1>8. CASE Leave
  <2>1. exp \in 1..Len(Experiments)
    BY <1>8, OnTheLine, Posed DEF Leave
  <2>2. ATypeOK'
    <3>1. exp' \in 1..Len(Experiments) + 1
      BY <1>8, <2>1, Posed DEF Leave
    <3> QED BY <1>8, <3>1 DEF Leave, LineInv, ATypeOK
  <2>3. PortInv'
    <3>1. \A q \in Sources : owner[q] \in Nat
      BY Posed DEF LineInv, ATypeOK
    <3>2. \A q \in Sources : serving[q] # "none" => owner[q] < exp + 1
      BY <2>1, <3>1, Posed DEF LineInv, PortInv
    <3> QED BY <1>8, <3>2 DEF Leave, LineInv, PortInv
  <2> QED BY <1>8, <2>2, <2>3 DEF Leave, LineInv, WireInv, LockInv
<1>9. CASE UNCHANGED anchorVars
  BY <1>9 DEF anchorVars, LineInv, ATypeOK, WireInv, PortInv, LockInv, Running,
              How, Who
<1> QED BY <1>1, <1>2, <1>3, <1>4, <1>5, <1>6, <1>7, <1>8, <1>9, LineConnect,
           LineParse, LineSendHead, LineSendTail DEF ANext

------------------------------------------------------------------------------
(* The records.                                                             *)

(* A record of this experiment is of this connection, and comes after those *)
(* of earlier connections from the port.                                    *)
RecordInv ==
    /\ \A k \in DOMAIN observations :
          observations[k].of < exp
          \/ (observations[k].of = exp /\ observations[k].port = line)
    /\ \A k, m \in DOMAIN observations :
          observations[k].of = exp /\ observations[m].of # exp
          /\ observations[m].port = line => m < k

LEMMA RecordTypes ==
    ASSUME LineInv
    PROVE  /\ exp \in Nat /\ Len(observations) \in Nat
           /\ DOMAIN observations = 1..Len(observations)
           /\ \A k \in DOMAIN observations :
                 /\ observations[k].port \in Sources
                 /\ observations[k].of \in DOMAIN Experiments
                 /\ observations[k].of \in Nat
           /\ \A q \in Sources : owner[q] \in DOMAIN Experiments /\ owner[q] \in Nat
<1> DEFINE R == [port : Sources, who : People \cup {Unnamed}, of : DOMAIN Experiments]
<1>1. observations \in Seq(R)
  BY DEF LineInv, ATypeOK
<1>2. Len(observations) \in Nat /\ DOMAIN observations = 1..Len(observations)
      /\ \A k \in DOMAIN observations : observations[k] \in R
  <2> HIDE DEF R
  <2> QED BY <1>1
<1>3. DOMAIN Experiments \subseteq Nat /\ exp \in Nat
  BY Posed DEF LineInv, ATypeOK
<1> QED BY <1>2, <1>3 DEF LineInv, ATypeOK

(* The list after a request was read.                                       *)
LEMMA NewRecord ==
    ASSUME LineInv, NEW q \in Sources, Parse(q)
    PROVE  LET n == Len(observations) + 1 IN
           /\ DOMAIN observations' = 1..n
           /\ \A k \in DOMAIN observations : /\ k < n /\ k \in DOMAIN observations'
                                             /\ observations'[k] = observations[k]
           /\ \A k \in DOMAIN observations' : k = n \/ k \in DOMAIN observations
           /\ observations'[n].port = q /\ observations'[n].of = owner[q]
           /\ observations'[n].who = wire[q][1].who
           /\ owner[q] < exp \/ (owner[q] = exp /\ q = line /\ doing # "connect")
<1> DEFINE R == [port : Sources, who : People \cup {Unnamed}, of : DOMAIN Experiments]
           r == [port |-> q, who |-> wire[q][1].who, of |-> owner[q]]
           n == Len(observations) + 1
<1>1. observations \in Seq(R) /\ r \in R /\ observations' = Append(observations, r)
  BY Cut DEF LineInv, ATypeOK
<1>2. r.port = q /\ r.who = wire[q][1].who /\ r.of = owner[q]
  OBVIOUS
<1>3. serving[q] # "none"
  BY DEF Parse
<1>4. owner[q] < exp \/ (owner[q] = exp /\ q = line /\ doing # "connect")
  BY <1>3, AnchorAssumption DEF LineInv, PortInv
<1> HIDE DEF R, r
<1>5. /\ DOMAIN observations' = 1..n
      /\ \A k \in DOMAIN observations : /\ k < n /\ k \in DOMAIN observations'
                                        /\ observations'[k] = observations[k]
      /\ \A k \in DOMAIN observations' : k = n \/ k \in DOMAIN observations
      /\ observations'[n] = r
  BY <1>1
<1> QED BY <1>2, <1>4, <1>5

LEMMA RecordStep == LineInv /\ RecordInv /\ [ANext]_anchorVars => RecordInv'
<1> SUFFICES ASSUME LineInv, RecordInv, [ANext]_anchorVars
             PROVE  RecordInv'
  OBVIOUS
<1>1. ASSUME NEW q \in Sources, Connect(q)
      PROVE  RecordInv'
  <2>1. doing = "connect" /\ line = NoSource
    BY <1>1 DEF Connect, LineInv, PortInv
  <2>2. \A k \in DOMAIN observations : observations[k].of < exp
    BY <2>1, RecordTypes, AnchorAssumption DEF RecordInv
  <2>3. UNCHANGED <<exp, observations>>
    BY <1>1 DEF Connect
  <2>4. \A k \in DOMAIN observations : observations[k].of # exp
    BY <2>2, RecordTypes
  <2> QED BY <2>2, <2>3, <2>4 DEF RecordInv
<1>2. ASSUME NEW q \in Sources, Parse(q)
      PROVE  RecordInv'
  <2> DEFINE n == Len(observations) + 1
  <2>1. UNCHANGED <<exp, line>>
    BY <1>2 DEF Parse
  <2>2. /\ DOMAIN observations' = 1..n
        /\ \A k \in DOMAIN observations : /\ k < n /\ k \in DOMAIN observations'
                                          /\ observations'[k] = observations[k]
        /\ \A k \in DOMAIN observations' : k = n \/ k \in DOMAIN observations
        /\ observations'[n].port = q /\ observations'[n].of = owner[q]
        /\ owner[q] < exp \/ (owner[q] = exp /\ q = line /\ doing # "connect")
    BY <1>2, NewRecord
  <2>3. q = line => owner[q] = exp
    BY AnchorAssumption DEF LineInv, PortInv
  <2> HIDE DEF n
  <2>4. \A k \in DOMAIN observations' :
           observations'[k].of < exp
           \/ (observations'[k].of = exp /\ observations'[k].port = line)
    BY <2>2 DEF RecordInv
  <2>5. ASSUME NEW k \in DOMAIN observations', NEW m \in DOMAIN observations',
               observations'[k].of = exp, observations'[m].of # exp,
               observations'[m].port = line
        PROVE  m < k
    <3>1. m # n
      BY <2>2, <2>3, <2>5
    <3>2. m \in DOMAIN observations /\ observations'[m] = observations[m]
      BY <2>2, <3>1
    <3>3. CASE k = n
      BY <2>2, <3>2, <3>3
    <3>4. CASE k # n
      BY <2>2, <2>5, <3>2, <3>4 DEF RecordInv
    <3> QED BY <3>3, <3>4
  <2> QED BY <2>1, <2>4, <2>5 DEF RecordInv
<1>3. CASE Leave
  <2>1. exp' = exp + 1 /\ observations' = observations
    BY <1>3 DEF Leave
  <2>2. \A k \in DOMAIN observations :
           observations[k].of < exp + 1 /\ observations[k].of # exp + 1
    BY RecordTypes DEF RecordInv
  <2> QED BY <2>1, <2>2 DEF RecordInv
<1>4. CASE UNCHANGED <<exp, line, observations>>
  BY <1>4 DEF RecordInv
<1> QED BY <1>1, <1>2, <1>3, <1>4 DEF ANext, anchorVars, Respond, Abandon, Ask,
           GetResponse, RemoteDisconnected, SendHead, SendTail, ChildWrites, Look

------------------------------------------------------------------------------
(* Each principal asks once.                                                *)

(* Who has begun to ask in this experiment.                                 *)
Places == 1..(IF doing = "wait" THEN asked + 1 ELSE asked)
Begun(p) ==
    IF How = "stream" THEN part[p] # 0
    ELSE \E i \in Places \cap DOMAIN Who : p = Who[i]

AskedInv ==
    doing \in {"run", "wait"} =>
        /\ \A k \in DOMAIN observations :
              observations[k].of = exp => Begun(observations[k].who)
        /\ \A i \in DOMAIN wire[line] : Begun(wire[line][i].who)

(* A request on the wire is of one of its experiment's principals, who has  *)
(* not been recorded and has no other request there.                        *)
OnceInv ==
    \A q \in Sources : serving[q] # "none" =>
        \A i \in DOMAIN wire[q] : ~wire[q][i].end =>
            /\ wire[q][i].who \in Range(Experiments[owner[q]].who)
            /\ \A k \in DOMAIN observations :
                  observations[k].of = owner[q] => observations[k].who # wire[q][i].who
            /\ \A j \in DOMAIN wire[q] :
                  j # i /\ ~wire[q][j].end => wire[q][j].who # wire[q][i].who

StreamInv == AskedInv /\ OnceInv /\ StreamsWhole

(* A principal of the experiment that had not begun writes its request.     *)
LEMMA FreshRequest ==
    ASSUME LineInv, StreamInv, doing = "run",
           NEW p \in Range(Who), ~Begun(p),
           NEW w \in Seq(Lines), wire' = [wire EXCEPT ![line] = w],
           Len(w) > Len(wire[line]),
           \A i \in 1..Len(wire[line]) : w[i] = wire[line][i],
           \A i \in Len(wire[line]) + 1..Len(w) :
              w[i].who = p /\ (~w[i].end => i = Len(wire[line]) + 1),
           UNCHANGED <<exp, line, serving, owner, observations>>,
           doing' \in {"run", "wait"}, Begun(p)',
           \A r : Begun(r) => Begun(r)'
    PROVE  StreamInv'
<1> DEFINE s == wire[line]
<1>1. /\ line \in Sources /\ owner[line] = exp /\ s \in Seq(Lines)
      /\ Len(s) \in Nat /\ DOMAIN s = 1..Len(s) /\ DOMAIN w = 1..Len(w)
      /\ Len(w) \in Nat
  BY OnTheLine
<1>2. wire'[line] = w /\ \A r \in Sources \ {line} : wire'[r] = wire[r]
  BY <1>1 DEF LineInv, ATypeOK
<1>3. \A i \in DOMAIN w : (i \in DOMAIN s /\ w[i] = s[i])
                          \/ (i \notin DOMAIN s /\ w[i].who = p
                              /\ (~w[i].end => i = Len(s) + 1))
  <2> HIDE DEF s
  <2> SUFFICES ASSUME NEW i \in 1..Len(w)
               PROVE  (i \in 1..Len(s) /\ w[i] = s[i])
                      \/ (i \notin 1..Len(s) /\ w[i].who = p
                          /\ (~w[i].end => i = Len(s) + 1))
    BY <1>1
  <2>1. i \in 1..Len(s) \/ (i \in Len(s) + 1..Len(w) /\ i \notin 1..Len(s))
    BY <1>1
  <2> QED BY <2>1 DEF s
<1>4. /\ \A k \in DOMAIN observations :
            observations[k].of = exp => Begun(observations[k].who)
      /\ \A i \in DOMAIN s : Begun(s[i].who)
  BY DEF StreamInv, AskedInv
<1>5. AskedInv'
  <2>1. \A k \in DOMAIN observations :
           observations[k].of = exp => Begun(observations[k].who)'
    BY <1>4
  <2>2. \A i \in DOMAIN w : Begun(w[i].who)'
    BY <1>3, <1>4
  <2>3. Begun(p)' /\ UNCHANGED <<observations, exp, line>> /\ wire'[line] = w
    BY <1>2
  <2> QED BY <2>1, <2>2, <2>3 DEF AskedInv
<1>6. OnceInv'
  <2> SUFFICES ASSUME NEW q \in Sources, serving[q] # "none",
                      NEW i \in DOMAIN wire'[q], ~wire'[q][i].end
               PROVE  /\ wire'[q][i].who \in Range(Experiments[owner[q]].who)
                      /\ \A k \in DOMAIN observations :
                            observations[k].of = owner[q]
                            => observations[k].who # wire'[q][i].who
                      /\ \A j \in DOMAIN wire'[q] :
                            j # i /\ ~wire'[q][j].end
                            => wire'[q][j].who # wire'[q][i].who
    BY DEF OnceInv
  <2>1. CASE q # line
    BY <1>2, <2>1 DEF StreamInv, OnceInv
  <2>2. CASE q = line /\ i \in DOMAIN s
    <3>1. w[i] = s[i] /\ ~s[i].end /\ Begun(s[i].who)
      BY <1>2, <1>3, <1>4, <2>2
    <3>2. /\ s[i].who \in Range(Experiments[owner[q]].who)
          /\ \A k \in DOMAIN observations :
                observations[k].of = owner[q] => observations[k].who # s[i].who
          /\ \A j \in DOMAIN s : j # i /\ ~s[j].end => s[j].who # s[i].who
      BY <2>2, <3>1 DEF StreamInv, OnceInv
    <3>3. s[i].who # p
      BY <3>1
    <3>4. \A j \in DOMAIN w : j # i /\ ~w[j].end => w[j].who # s[i].who
      BY <1>3, <3>2, <3>3
    <3> QED BY <1>2, <2>2, <3>1, <3>2, <3>4
  <2>3. CASE q = line /\ i \notin DOMAIN s
    <3>1. w[i].who = p /\ i = Len(s) + 1
      BY <1>2, <1>3, <2>3
    <3>2. p \in Range(Experiments[owner[q]].who)
      BY <1>1, <2>3 DEF Who
    <3>3. \A k \in DOMAIN observations :
             observations[k].of = owner[q] => observations[k].who # p
      BY <1>1, <1>4, <2>3
    <3>4. \A j \in DOMAIN w : j # i /\ ~w[j].end => w[j].who # p
      BY <1>3, <1>4, <3>1
    <3> QED BY <1>2, <2>3, <3>1, <3>2, <3>3, <3>4
  <2> QED BY <2>1, <2>2, <2>3
<1>7. StreamsWhole'
  BY DEF StreamInv, StreamsWhole
<1> QED BY <1>5, <1>6, <1>7 DEF StreamInv

(* A whole request of the next principal in turn.                           *)
LEMMA NextInTurn ==
    ASSUME LineInv, StreamInv, doing = "run", How # "stream", asked < Len(Who),
           wire' = [wire EXCEPT ![line] =
                        @ \o <<Start(Who[asked + 1]), End(Who[asked + 1])>>],
           UNCHANGED <<exp, line, serving, owner, observations>>,
           doing' \in {"run", "wait"}, Places' = 1..asked + 1
    PROVE  StreamInv'
<1> DEFINE s == wire[line]
<1>1. /\ asked \in Nat /\ asked + 1 \in 1..Len(Who) /\ DOMAIN Who = 1..Len(Who)
      /\ s \in Seq(Lines) /\ Whole(s) /\ line \in Sources /\ Range(Who) \subseteq People
  <2>1. asked \in Nat
    BY DEF LineInv, ATypeOK
  <2>2. /\ Len(Who) \in Nat /\ DOMAIN Who = 1..Len(Who)
        /\ s \in Seq(Lines) /\ Whole(s) /\ line \in Sources
        /\ Range(Who) \subseteq People
    BY OnTheLine
  <2> QED BY <2>1, <2>2
<1>2. PICK p \in Range(Who) : p = Who[asked + 1] /\ p \in People
  BY <1>1 DEF Range
<1>3. ~Unended(s)
  BY DEF LineInv, LockInv
<1>4. Places = 1..asked
  BY DEF Places
<1>5. ~Begun(p)
  <2> SUFFICES ASSUME NEW i \in 1..asked, p = Who[i]
               PROVE  FALSE
    BY <1>1, <1>4 DEF Begun
  <2>1. i \in 1..Len(Who) /\ i # asked + 1
    BY <1>1
  <2> QED BY <1>1, <1>2, <2>1, OnTheLine
<1>6. Who' = Who /\ How' = How
  BY DEF Who, How
<1>7. Begun(p)' /\ \A r : Begun(r) => Begun(r)'
  <2>1. \A r : Begun(r)' <=> \E i \in (1..asked + 1) \cap DOMAIN Who : r = Who[i]
    BY <1>6 DEF Begun
  <2>2. asked + 1 \in 1..asked + 1 /\ 1..asked \subseteq 1..asked + 1
    BY <1>1
  <2>3. \A r : Begun(r) => Begun(r)'
    BY <1>4, <2>1, <2>2 DEF Begun
  <2>4. Begun(p)'
    BY <1>1, <1>2, <2>1, <2>2
  <2> QED BY <2>3, <2>4
<1>8. PICK w \in Seq(Lines) :
         /\ w = s \o <<Start(p), End(p)>>
         /\ Len(w) = Len(s) + 2 /\ Len(s) \in Nat
         /\ \A i \in 1..Len(s) : w[i] = s[i]
         /\ w[Len(s) + 1] = Start(p) /\ w[Len(s) + 2] = End(p)
  <2> HIDE DEF s
  <2> QED BY <1>1, <1>2, <1>3, WriteRequest
<1>9. \A i \in Len(s) + 1..Len(w) : w[i].who = p /\ (~w[i].end => i = Len(s) + 1)
  <2>1. \A i \in Len(s) + 1..Len(w) : i = Len(s) + 1 \/ i = Len(s) + 2
    BY <1>8
  <2>2. Start(p).who = p /\ End(p).who = p /\ End(p).end
    BY DEF Start, End
  <2> QED BY <1>8, <2>1, <2>2
<1>10. wire' = [wire EXCEPT ![line] = w]
  BY <1>2, <1>8
<1>11. Len(w) > Len(s)
  BY <1>8
<1>12. \A i \in 1..Len(s) : w[i] = s[i]
  BY <1>8
<1>13. p \in Range(Who) /\ w \in Seq(Lines)
  OBVIOUS
<1> QED BY <1>5, <1>7, <1>9, <1>10, <1>11, <1>12, <1>13, FreshRequest, Zenon

LEMMA StreamSendHead ==
    ASSUME LineInv, StreamInv, NEW p \in People, SendHead(p)
    PROVE  StreamInv'
<1> USE DEF SendHead
<1> DEFINE s == wire[line]
           w == Append(s, Start(p))
<1>1. s \in Seq(Lines) /\ Whole(s) /\ line \in Sources /\ ~Unended(s)
  BY OnTheLine, AnchorAssumption DEF LineInv, LockInv
<1>2. ~Begun(p)
  BY DEF Begun
<1>3. Begun(p)' /\ \A r : Begun(r) => Begun(r)'
  <2>1. part \in [People -> 0..2] /\ part' = [part EXCEPT ![p] = 1] /\ How' = "stream"
    BY DEF LineInv, ATypeOK, How
  <2>2. part'[p] # 0 /\ \A r : part[r] # 0 => part'[r] # 0
    <3>1. part'[p] = 1
      BY <2>1
    <3>2. ASSUME NEW r, r # p
          PROVE  part'[r] = part[r]
      <4>1. CASE r \in People
        BY <2>1, <3>2, <4>1
      <4>2. CASE r \notin People
        BY <2>1, <3>2, <4>2
      <4> QED BY <4>1, <4>2
    <3> QED BY <3>1, <3>2
  <2> QED BY <2>1, <2>2 DEF Begun
<1>4. /\ w \in Seq(Lines) /\ Len(w) = Len(s) + 1 /\ Len(s) \in Nat
      /\ \A i \in 1..Len(s) : w[i] = s[i]
      /\ w[Len(s) + 1].who = p
  <2> HIDE DEF s
  <2> QED BY <1>1, WriteStart DEF Start
<1>5. \A i \in Len(s) + 1..Len(w) : w[i].who = p /\ (~w[i].end => i = Len(s) + 1)
  BY <1>4
<1>6. wire' = [wire EXCEPT ![line] = w] /\ Len(w) > Len(s)
  BY <1>4
<1> HIDE DEF w
<1> QED BY <1>2, <1>3, <1>4, <1>5, <1>6, FreshRequest

(* An end of a request names a principal that is on the wire already.       *)
LEMMA StreamSendTail ==
    ASSUME LineInv, StreamInv, NEW p \in People, SendTail(p)
    PROVE  StreamInv'
<1> USE DEF SendTail
<1> DEFINE s == wire[line]
<1>1. /\ s \in Seq(Lines) /\ Whole(s) /\ line \in Sources
      /\ Unended(s) /\ s[Len(s)].who = p
  BY OnTheLine DEF LineInv, LockInv
<1>2. PICK w \in Seq(Lines) :
         /\ w = Append(s, End(p)) /\ Len(w) = Len(s) + 1 /\ Len(s) \in Nat
         /\ \A i \in 1..Len(s) : w[i] = s[i]
         /\ w[Len(s) + 1].end /\ w[Len(s) + 1].who = p
  <2> HIDE DEF s
  <2>1. End(p).end /\ End(p).who = p
    BY DEF End
  <2>2. /\ Append(s, End(p)) \in Seq(Lines) /\ Len(Append(s, End(p))) = Len(s) + 1
        /\ Len(s) \in Nat
        /\ \A i \in 1..Len(s) : Append(s, End(p))[i] = s[i]
        /\ Append(s, End(p))[Len(s) + 1] = End(p)
    BY <1>1, WriteEnd
  <2> QED BY <2>1, <2>2
<1>3. wire' = [wire EXCEPT ![line] = w]
  BY <1>2
<1>4. wire'[line] = w /\ \A r \in Sources \ {line} : wire'[r] = wire[r]
  BY <1>1, <1>3 DEF LineInv, ATypeOK
<1>5. /\ DOMAIN w = 1..Len(s) + 1 /\ DOMAIN s = 1..Len(s)
      /\ \A i \in DOMAIN w : i \in DOMAIN s \/ i = Len(s) + 1
  BY <1>1, <1>2
<1>6. \A r : Begun(r)' <=> Begun(r)
  <2>1. part \in [People -> 0..2] /\ How' = "stream"
    BY DEF LineInv, ATypeOK, How
  <2>2. \A r : part[r] # 0 <=> part'[r] # 0
    <3>1. part[p] # 0 /\ part'[p] # 0
      BY <2>1
    <3>2. ASSUME NEW r, r # p
          PROVE  part'[r] = part[r]
      <4>1. CASE r \in People
        BY <2>1, <3>2, <4>1
      <4>2. CASE r \notin People
        BY <2>1, <3>2, <4>2
      <4> QED BY <4>1, <4>2
    <3> QED BY <3>1, <3>2
  <2> QED BY <2>1, <2>2 DEF Begun
<1>7. AskedInv'
  <2>1. Begun(p)
    BY DEF Begun
  <2>2. \A i \in DOMAIN w : Begun(w[i].who)
    BY <1>2, <1>5, <2>1 DEF StreamInv, AskedInv
  <2>3. \A i \in DOMAIN w : Begun(w[i].who)'
    BY <1>6, <2>2
  <2>4. \A k \in DOMAIN observations :
           observations[k].of = exp => Begun(observations[k].who)
    BY DEF StreamInv, AskedInv
  <2>5. UNCHANGED <<exp, line, observations>>
    OBVIOUS
  <2> QED BY <1>4, <1>6, <2>3, <2>4, <2>5 DEF AskedInv
<1>8. OnceInv'
  <2> SUFFICES ASSUME NEW q \in Sources, serving[q] # "none",
                      NEW i \in DOMAIN wire'[q], ~wire'[q][i].end
               PROVE  /\ wire'[q][i].who \in Range(Experiments[owner[q]].who)
                      /\ \A k \in DOMAIN observations :
                            observations[k].of = owner[q]
                            => observations[k].who # wire'[q][i].who
                      /\ \A j \in DOMAIN wire'[q] :
                            j # i /\ ~wire'[q][j].end
                            => wire'[q][j].who # wire'[q][i].who
    BY DEF OnceInv
  <2>1. CASE q # line
    BY <1>4, <2>1 DEF StreamInv, OnceInv
  <2>2. CASE q = line
    <3>1. i \in DOMAIN s /\ w[i] = s[i] /\ ~s[i].end
      BY <1>2, <1>4, <1>5, <2>2
    <3>2. \A j \in DOMAIN w : ~w[j].end => j \in DOMAIN s /\ w[j] = s[j]
      BY <1>2, <1>5
    <3> QED BY <1>4, <2>2, <3>1, <3>2 DEF StreamInv, OnceInv
  <2> QED BY <2>1, <2>2
<1>9. StreamsWhole'
  BY DEF StreamInv, StreamsWhole
<1> QED BY <1>7, <1>8, <1>9 DEF StreamInv

(* The request that is read leaves the wire and enters the list.            *)
LEMMA StreamParse ==
    ASSUME LineInv, StreamInv, NEW q \in Sources, Parse(q)
    PROVE  StreamInv'
<1> DEFINE n == Len(observations) + 1
           s == wire[q]
           who == s[1].who
<1>1. /\ UNCHANGED <<exp, doing, asked, line, part, owner>>
      /\ serving[q] # "none"
      /\ \A r \in Sources : serving'[r] # "none" => serving[r] # "none"
  BY DEF Parse, LineInv, ATypeOK
<1>2. /\ DOMAIN observations' = 1..n
      /\ \A k \in DOMAIN observations : /\ k < n /\ k \in DOMAIN observations'
                                        /\ observations'[k] = observations[k]
      /\ \A k \in DOMAIN observations' : k = n \/ k \in DOMAIN observations
      /\ observations'[n].port = q /\ observations'[n].of = owner[q]
      /\ observations'[n].who = who
      /\ owner[q] < exp \/ (owner[q] = exp /\ q = line)
  BY NewRecord
<1>3. /\ DOMAIN s = 1..Len(s) /\ Len(s) \in Nat /\ Len(s) >= 2 /\ ~s[1].end
      /\ DOMAIN wire'[q] = 1..Len(s) - 2
      /\ \A i \in 1..Len(s) - 2 : wire'[q][i] = s[i + 2]
      /\ \A r \in Sources \ {q} : wire'[r] = wire[r]
  <2>1. wire'[q] \in Seq(Lines)
    BY Cut DEF Lines
  <2>2. DOMAIN wire'[q] = 1..Len(wire'[q])
    BY <2>1
  <2>3. s \in Seq(Lines)
    BY Cut
  <2>4. DOMAIN s = 1..Len(s)
    BY <2>3
  <2> QED BY <2>2, <2>4, Cut
<1>4. 1 \in DOMAIN s /\ \A i \in DOMAIN wire'[q] : /\ i + 2 \in DOMAIN s /\ i + 2 # 1
                                                   /\ wire'[q][i] = s[i + 2]
  BY <1>3
<1>5. \A i, j \in DOMAIN wire'[q] : i # j => i + 2 # j + 2
  BY <1>3
<1> HIDE DEF n
<1>6. /\ who \in Range(Experiments[owner[q]].who)
      /\ \A k \in DOMAIN observations :
            observations[k].of = owner[q] => observations[k].who # who
      /\ \A j \in DOMAIN s : j # 1 /\ ~s[j].end => s[j].who # who
  BY <1>1, <1>3, <1>4 DEF StreamInv, OnceInv
<1>7. AskedInv'
  <2> SUFFICES ASSUME doing \in {"run", "wait"}
               PROVE  /\ \A k \in DOMAIN observations' :
                            observations'[k].of = exp => Begun(observations'[k].who)
                      /\ \A i \in DOMAIN wire'[line] : Begun(wire'[line][i].who)
    <3>1. \A r : Begun(r)' <=> Begun(r)
      BY <1>1 DEF Begun, Places, How, Who
    <3> QED BY <1>1, <3>1 DEF AskedInv
  <2>1. /\ \A k \in DOMAIN observations :
              observations[k].of = exp => Begun(observations[k].who)
        /\ \A i \in DOMAIN wire[line] : Begun(wire[line][i].who)
    BY DEF StreamInv, AskedInv
  <2>2. \A i \in DOMAIN wire'[line] : Begun(wire'[line][i].who)
    <3>1. line \in Sources
      BY OnTheLine
    <3>2. CASE q = line
      BY <1>4, <2>1, <3>2
    <3>3. CASE q # line
      BY <1>3, <2>1, <3>1, <3>3
    <3> QED BY <3>2, <3>3
  <2>3. owner[q] = exp => Begun(who)
    <3>1. owner[q] = exp => q = line
      BY <1>2, RecordTypes
    <3> QED BY <1>4, <2>1, <3>1
  <2> QED BY <1>2, <2>1, <2>2, <2>3
<1>8. OnceInv'
  <2> SUFFICES ASSUME NEW r \in Sources, serving[r] # "none",
                      NEW i \in DOMAIN wire'[r], ~wire'[r][i].end
               PROVE  /\ wire'[r][i].who \in Range(Experiments[owner[r]].who)
                      /\ \A k \in DOMAIN observations' :
                            observations'[k].of = owner[r]
                            => observations'[k].who # wire'[r][i].who
                      /\ \A j \in DOMAIN wire'[r] :
                            j # i /\ ~wire'[r][j].end
                            => wire'[r][j].who # wire'[r][i].who
    BY <1>1 DEF OnceInv
  <2>1. CASE r # q
    <3>1. owner[r] # owner[q] /\ wire'[r] = wire[r]
      BY <1>1, <1>3, <2>1 DEF LineInv, PortInv
    <3>2. /\ wire[r][i].who \in Range(Experiments[owner[r]].who)
          /\ \A k \in DOMAIN observations :
                observations[k].of = owner[r] => observations[k].who # wire[r][i].who
          /\ \A j \in DOMAIN wire[r] :
                j # i /\ ~wire[r][j].end => wire[r][j].who # wire[r][i].who
      BY <3>1 DEF StreamInv, OnceInv
    <3> QED BY <1>2, <3>1, <3>2
  <2>2. CASE r = q
    <3>1. i + 2 \in DOMAIN s /\ wire'[q][i] = s[i + 2] /\ ~s[i + 2].end
      BY <1>4, <2>2
    <3>2. /\ s[i + 2].who \in Range(Experiments[owner[q]].who)
          /\ \A k \in DOMAIN observations :
                observations[k].of = owner[q] => observations[k].who # s[i + 2].who
          /\ \A j \in DOMAIN s :
                j # i + 2 /\ ~s[j].end => s[j].who # s[i + 2].who
      BY <1>1, <3>1 DEF StreamInv, OnceInv
    <3>3. s[i + 2].who # who
      BY <1>4, <1>6, <2>2, <3>1
    <3>4. \A j \in DOMAIN wire'[q] :
             j # i /\ ~wire'[q][j].end => wire'[q][j].who # s[i + 2].who
      BY <1>4, <1>5, <2>2, <3>2
    <3> QED BY <1>2, <2>2, <3>1, <3>2, <3>3, <3>4
  <2> QED BY <2>1, <2>2
<1>9. StreamsWhole'
  <2> SUFFICES ASSUME NEW i \in DOMAIN observations'
               PROVE  /\ observations'[i].who \in Range(Experiments[observations'[i].of].who)
                      /\ \A j \in DOMAIN observations' :
                            observations'[i].of = observations'[j].of
                            /\ observations'[i].who = observations'[j].who => i = j
    BY DEF StreamsWhole
  <2>1. CASE i = n
    BY <1>2, <1>6, <2>1
  <2>2. CASE i # n
    <3>1. i \in DOMAIN observations /\ observations'[i] = observations[i]
      BY <1>2, <2>2
    <3>2. /\ observations[i].who \in Range(Experiments[observations[i].of].who)
          /\ \A j \in DOMAIN observations :
                observations[i].of = observations[j].of
                /\ observations[i].who = observations[j].who => i = j
      BY <3>1 DEF StreamInv, StreamsWhole
    <3> QED BY <1>2, <1>6, <3>1, <3>2
  <2> QED BY <2>1, <2>2
<1> QED BY <1>7, <1>8, <1>9 DEF StreamInv

LEMMA StreamStep ==
    LineInv /\ RecordInv /\ StreamInv /\ [ANext]_anchorVars => StreamInv'
<1> SUFFICES ASSUME LineInv, RecordInv, StreamInv, [ANext]_anchorVars
             PROVE  StreamInv'
  OBVIOUS
<1>1. ASSUME NEW q \in Sources, Connect(q)
      PROVE  StreamInv'
  <2>1. /\ \A k \in DOMAIN observations : observations[k].of # exp
        /\ UNCHANGED <<exp, observations>> /\ line' = q /\ wire'[q] = <<>>
        /\ \A r \in Sources \ {q} : /\ owner'[r] = owner[r] /\ wire'[r] = wire[r]
                                    /\ serving'[r] = serving[r]
    <3>1. doing = "connect" /\ line = NoSource
      BY <1>1 DEF Connect, LineInv, PortInv
    <3>2. \A k \in DOMAIN observations : observations[k].of < exp
      BY <3>1, RecordTypes, AnchorAssumption DEF RecordInv
    <3>3. \A k \in DOMAIN observations : observations[k].of # exp
      BY <3>2, RecordTypes
    <3> QED BY <1>1, <3>3 DEF Connect, LineInv, ATypeOK
  <2>2. AskedInv'
    BY <2>1 DEF AskedInv
  <2>3. OnceInv'
    <3> SUFFICES ASSUME NEW r \in Sources, serving'[r] # "none",
                        NEW i \in DOMAIN wire'[r], ~wire'[r][i].end
                 PROVE  /\ wire'[r][i].who \in Range(Experiments[owner'[r]].who)
                        /\ \A k \in DOMAIN observations :
                              observations[k].of = owner'[r]
                              => observations[k].who # wire'[r][i].who
                        /\ \A j \in DOMAIN wire'[r] :
                              j # i /\ ~wire'[r][j].end
                              => wire'[r][j].who # wire'[r][i].who
      BY <2>1 DEF OnceInv
    <3>1. CASE r = q
      BY <2>1, <3>1
    <3>2. CASE r # q
      BY <2>1, <3>2 DEF StreamInv, OnceInv
    <3> QED BY <3>1, <3>2
  <2> QED BY <2>1, <2>2, <2>3 DEF StreamInv, StreamsWhole
<1>2. ASSUME NEW q \in Sources, Abandon(q)
      PROVE  StreamInv'
  <2>1. \A r \in Sources : serving'[r] # "none" => serving[r] # "none"
    BY <1>2 DEF Abandon, LineInv, ATypeOK
  <2>2. OnceInv'
    BY <1>2, <2>1 DEF Abandon, StreamInv, OnceInv
  <2> QED BY <1>2, <2>2 DEF Abandon, StreamInv, AskedInv, StreamsWhole, Begun,
                            Places, How, Who
<1>3. ASSUME NEW q \in Sources, Respond(q)
      PROVE  StreamInv'
  <2>1. \A r \in Sources : serving'[r] # "none" => serving[r] # "none"
    BY <1>3 DEF Respond, LineInv, ATypeOK
  <2>2. OnceInv'
    BY <1>3, <2>1 DEF Respond, StreamInv, OnceInv
  <2> QED BY <1>3, <2>2 DEF Respond, StreamInv, AskedInv, StreamsWhole, Begun,
                            Places, How, Who
<1>4. CASE Ask
  <2>1. Places' = 1..asked + 1
    BY <1>4 DEF Ask, Places
  <2> QED BY <1>4, <2>1, NextInTurn DEF Ask
<1>5. CASE ChildWrites
  <2>1. Places' = 1..asked + 1
    BY <1>5 DEF ChildWrites, Places
  <2> QED BY <1>5, <2>1, NextInTurn DEF ChildWrites
<1>6. CASE GetResponse
  <2>1. Places' = Places /\ How' = How /\ Who' = Who
    BY <1>6 DEF GetResponse, Places, How, Who
  <2>2. \A r : Begun(r)' <=> Begun(r)
    BY <1>6, <2>1 DEF GetResponse, Begun
  <2> QED BY <1>6, <2>2 DEF GetResponse, StreamInv, AskedInv, OnceInv, StreamsWhole
<1>7. CASE RemoteDisconnected
  BY <1>7 DEF RemoteDisconnected, StreamInv, AskedInv, OnceInv, StreamsWhole
<1>8. CASE Look
  BY <1>8 DEF Look, StreamInv, AskedInv, OnceInv, StreamsWhole
<1>9. CASE Leave
  BY <1>9 DEF Leave, StreamInv, AskedInv, OnceInv, StreamsWhole
<1>10. CASE UNCHANGED anchorVars
  BY <1>10 DEF anchorVars, StreamInv, AskedInv, OnceInv, StreamsWhole, Begun,
               Places, How, Who
<1> QED BY <1>1, <1>2, <1>3, <1>4, <1>5, <1>6, <1>7, <1>8, <1>9, <1>10,
           StreamParse, StreamSendHead, StreamSendTail DEF ANext

------------------------------------------------------------------------------
(* An experiment that reads its answers.                                    *)

OwnRecords == {k \in DOMAIN observations : observations[k].of = exp}

(* The first n requests were recorded, in their order.                      *)
Recorded(n) ==
    /\ \A i \in 1..n : \E k \in OwnRecords : observations[k].who = Who[i]
    /\ \A k \in OwnRecords : \E i \in 1..n : observations[k].who = Who[i]
    /\ \A k, m \in OwnRecords : k < m =>
          \E i, j \in 1..n : /\ i < j
                             /\ observations[k].who = Who[i]
                             /\ observations[m].who = Who[j]

(* It is never ahead of the server: between two requests every request has  *)
(* been recorded and every answer read ...                                  *)
AnswerInv ==
    doing = "run" /\ How = "ask" =>
        /\ wire[line] = <<>> /\ serving[line] # "respond" /\ answers[line] = 0
        /\ asked <= Len(Who) /\ Recorded(asked)
(* ... and while it waits, its request is on the wire, or recorded and not  *)
(* answered, or answered.                                                   *)
WaitInv ==
    doing = "wait" =>
        \/ /\ wire[line] = <<Start(Who[asked + 1]), End(Who[asked + 1])>>
           /\ serving[line] # "respond" /\ answers[line] = 0
           /\ Recorded(asked)
        \/ /\ wire[line] = <<>>
           /\ IF serving[line] = "respond" THEN answers[line] = 0
                                           ELSE answers[line] = 1
           /\ Recorded(asked + 1)

ReadInv == AnswerInv /\ WaitInv /\ OwnRequestsRecorded

LEMMA RecordedKept ==
    ASSUME UNCHANGED <<exp, observations>>, NEW n, Recorded(n)
    PROVE  Recorded(n)'
<1>1. OwnRecords' = OwnRecords /\ Who' = Who
  BY DEF OwnRecords, Who
<1> QED BY <1>1 DEF Recorded

(* A late record of an earlier connection is not of this experiment.        *)
LEMMA RecordedBesideLate ==
    ASSUME LineInv, NEW q \in Sources, Parse(q), owner[q] # exp, NEW n, Recorded(n)
    PROVE  Recorded(n)'
<1>1. OwnRecords' = OwnRecords /\ \A k \in OwnRecords : observations'[k] = observations[k]
  <2>1. exp' = exp
    BY DEF Parse
  <2> QED BY <2>1, NewRecord DEF OwnRecords
<1>2. Who' = Who
  BY DEF Parse, Who
<1> QED BY <1>1, <1>2 DEF Recorded

LEMMA RecordedNext ==
    ASSUME LineInv, NEW q \in Sources, Parse(q), owner[q] = exp,
           NEW n \in Nat, wire[q][1].who = Who[n + 1], Recorded(n)
    PROVE  Recorded(n + 1)'
<1> DEFINE last == Len(observations) + 1
<1>1. UNCHANGED <<exp, Who>>
  BY DEF Parse, Who
<1>2. /\ last \in DOMAIN observations'
      /\ \A k \in DOMAIN observations : /\ k < last /\ k \in DOMAIN observations'
                                        /\ observations'[k] = observations[k]
      /\ \A k \in DOMAIN observations' : k = last \/ k \in DOMAIN observations
      /\ observations'[last].of = exp /\ observations'[last].who = Who[n + 1]
      /\ DOMAIN observations \subseteq Nat /\ last \in Nat
  BY NewRecord, RecordTypes
<1> HIDE DEF last
<1>3. OwnRecords' = OwnRecords \cup {last} /\ \A k \in OwnRecords : k < last
                             /\ observations'[k] = observations[k]
  BY <1>1, <1>2 DEF OwnRecords
<1>4. n + 1 \in 1..n + 1 /\ (\A i \in 1..n + 1 : i = n + 1 \/ i \in 1..n)
      /\ (\A i \in 1..n : i \in 1..n + 1 /\ i < n + 1)
  OBVIOUS
<1>5. ASSUME NEW i \in 1..n + 1
      PROVE  \E k \in OwnRecords' : observations'[k].who = Who[i]
  <2>1. CASE i = n + 1
    BY <1>2, <1>3, <2>1
  <2>2. CASE i \in 1..n
    <3>1. PICK k \in OwnRecords : observations[k].who = Who[i]
      BY <2>2 DEF Recorded
    <3> QED BY <1>3, <3>1
  <2> QED BY <1>4, <2>1, <2>2
<1>6. \A k \in OwnRecords' : \E i \in 1..n + 1 : observations'[k].who = Who[i]
  BY <1>2, <1>3, <1>4 DEF Recorded
<1>7. ASSUME NEW k \in OwnRecords', NEW m \in OwnRecords', k < m
      PROVE  \E i, j \in 1..n + 1 : /\ i < j
                                    /\ observations'[k].who = Who[i]
                                    /\ observations'[m].who = Who[j]
  <2>1. k # last
    <3>1. m < last \/ m = last
      BY <1>3
    <3>2. m \in Nat
      BY <1>2, <1>3 DEF OwnRecords
    <3> QED BY <1>2, <1>7, <3>1, <3>2
  <2>2. k \in OwnRecords /\ observations'[k] = observations[k]
    BY <1>3, <2>1
  <2>3. CASE m = last
    <3>1. PICK i \in 1..n : observations[k].who = Who[i]
      BY <2>2 DEF Recorded
    <3> QED BY <1>2, <1>4, <2>2, <2>3, <3>1
  <2>4. CASE m # last
    <3>1. m \in OwnRecords /\ observations'[m] = observations[m]
      BY <1>3, <2>4
    <3>2. PICK i \in 1..n, j \in 1..n : /\ i < j
                                        /\ observations[k].who = Who[i]
                                        /\ observations[m].who = Who[j]
      BY <1>7, <2>2, <3>1 DEF Recorded
    <3> QED BY <1>4, <2>2, <3>1, <3>2
  <2> QED BY <2>3, <2>4
<1> QED BY <1>1, <1>5, <1>6, <1>7 DEF Recorded

(* What it has recorded when it looks is what was asked.                    *)
LEMMA LookFinds ==
    ASSUME LineInv, RecordInv, ReadInv, Look
    PROVE  OwnRequestsRecorded'
<1> USE DEF Look
<1> SUFFICES ASSUME How = "ask"
             PROVE  OwnRequestsRecorded'
  BY DEF OwnRequestsRecorded, How
<1>1. Recorded(Len(Who)) /\ DOMAIN Who = 1..Len(Who)
  BY OnTheLine DEF ReadInv, AnswerInv
<1>2. found' = {k \in DOMAIN observations : observations[k].port = line}
  OBVIOUS
<1>3. {k \in found' : observations[k].of = exp} = OwnRecords
  <2>1. \A k \in DOMAIN observations : observations[k].of = exp
                                       => observations[k].port = line
    BY RecordTypes DEF RecordInv
  <2> QED BY <1>2, <2>1 DEF OwnRecords
<1>4. \A k \in OwnRecords, m \in found' \ OwnRecords : m < k
  BY <1>2 DEF RecordInv, OwnRecords
<1>5. UNCHANGED <<observations, exp, Who, How>>
  BY DEF Who, How
<1> DEFINE own == {k \in found' : observations'[k].of = exp'}
<1>6. own = OwnRecords
  BY <1>3, <1>5
<1>7. /\ \A i \in DOMAIN Who : \E k \in OwnRecords : observations[k].who = Who[i]
      /\ \A k, m \in OwnRecords : k < m =>
            \E i, j \in DOMAIN Who : /\ i < j
                                    /\ observations[k].who = Who[i]
                                    /\ observations[m].who = Who[j]
  <2> DEFINE D == DOMAIN Who
  <2>1. D = 1..Len(Who)
    BY <1>1
  <2> HIDE DEF D
  <2> SUFFICES /\ \A i \in D : \E k \in OwnRecords : observations[k].who = Who[i]
               /\ \A k, m \in OwnRecords : k < m =>
                     \E i, j \in D : /\ i < j
                                     /\ observations[k].who = Who[i]
                                     /\ observations[m].who = Who[j]
    BY DEF D
  <2> QED BY <1>1, <2>1, Zenon DEF Recorded
<1> HIDE DEF own
<1>8. /\ \A i \in DOMAIN Who : \E k \in own : observations[k].who = Who[i]
      /\ \A k, m \in own : k < m =>
            \E i, j \in DOMAIN Who : /\ i < j
                                    /\ observations[k].who = Who[i]
                                    /\ observations[m].who = Who[j]
      /\ \A k \in own, m \in found' \ own : m < k
  BY <1>4, <1>6, <1>7
<1> QED BY <1>5, <1>8 DEF OwnRequestsRecorded, own

(* Records that come later change nothing about those it found.             *)
LEMMA FoundStays ==
    ASSUME LineInv, NEW q \in Sources, Parse(q), OwnRequestsRecorded
    PROVE  OwnRequestsRecorded'
<1>1. \A k \in found : observations'[k] = observations[k]
  BY NewRecord DEF LineInv, ATypeOK
<1>2. UNCHANGED <<found, exp, doing, Who, How>>
  BY DEF Parse, Who, How
<1> DEFINE own == {k \in found : observations[k].of = exp}
           ownp == {k \in found' : observations'[k].of = exp'}
<1>3. ownp = own
  BY <1>1, <1>2
<1> SUFFICES ASSUME doing = "close", How = "ask"
             PROVE  OwnRequestsRecorded'
  BY <1>2 DEF OwnRequestsRecorded
<1>4. /\ \A i \in DOMAIN Who : \E k \in own : observations[k].who = Who[i]
      /\ \A k, m \in own : k < m =>
            \E i, j \in DOMAIN Who : /\ i < j
                                    /\ observations[k].who = Who[i]
                                    /\ observations[m].who = Who[j]
      /\ \A k \in own, m \in found \ own : m < k
  BY DEF OwnRequestsRecorded
<1>5. own \subseteq found
  OBVIOUS
<1> HIDE DEF own, ownp
<1>6. /\ \A i \in DOMAIN Who : \E k \in ownp : observations'[k].who = Who[i]
      /\ \A k, m \in ownp : k < m =>
            \E i, j \in DOMAIN Who : /\ i < j
                                    /\ observations'[k].who = Who[i]
                                    /\ observations'[m].who = Who[j]
      /\ \A k \in ownp, m \in found \ ownp : m < k
  BY <1>1, <1>3, <1>4, <1>5
<1> QED BY <1>2, <1>6 DEF OwnRequestsRecorded, ownp

LEMMA ReadConnect ==
    ASSUME LineInv, RecordInv, NEW q \in Sources, Connect(q)
    PROVE  ReadInv'
<1> USE DEF Connect
<1>1. doing = "connect" /\ line = NoSource
  BY DEF LineInv, PortInv
<1>2. OwnRecords = {}
  <2>1. \A k \in DOMAIN observations : observations[k].of < exp
    BY <1>1, RecordTypes, AnchorAssumption DEF RecordInv
  <2> QED BY <2>1, RecordTypes DEF OwnRecords
<1>3. Recorded(0)
  BY <1>2 DEF Recorded
<1>4. Recorded(0)'
  BY <1>3, RecordedKept
<1>5. /\ line' = q /\ wire'[q] = <<>> /\ serving'[q] = "recv" /\ answers'[q] = 0
      /\ asked' = 0 /\ Recorded(asked)'
  BY <1>4 DEF LineInv, ATypeOK
<1>6. 0 <= Len(Who')
  <2>1. Running
    OBVIOUS
  <2> QED BY <2>1, Posed DEF Running, Who
<1> QED BY <1>5, <1>6 DEF ReadInv, AnswerInv, WaitInv, OwnRequestsRecorded

LEMMA ReadAsk ==
    ASSUME LineInv, ReadInv, Ask
    PROVE  ReadInv'
<1> USE DEF Ask
<1>1. /\ wire[line] = <<>> /\ serving[line] # "respond" /\ answers[line] = 0
      /\ Recorded(asked) /\ line \in Sources
  BY OnTheLine DEF ReadInv, AnswerInv
<1>2. Recorded(asked)' /\ Who' = Who
  <2>1. \A n : Recorded(n) => Recorded(n)'
    BY RecordedKept
  <2>2. PICK n : n = asked
    OBVIOUS
  <2>3. Recorded(n)'
    BY <1>1, <2>1, <2>2
  <2>4. asked' = n
    BY <2>2
  <2> QED BY <2>3, <2>4 DEF Who
<1>3. wire'[line] = <<Start(Who[asked + 1]), End(Who[asked + 1])>>
  <2> DEFINE p == Who[asked + 1]
  <2>1. wire'[line] = <<>> \o <<Start(p), End(p)>>
    BY <1>1 DEF LineInv, ATypeOK
  <2> HIDE DEF p
  <2>2. Start(p) \in [who : {p}, end : BOOLEAN] /\ End(p) \in [who : {p}, end : BOOLEAN]
    BY DEF Start, End
  <2> DEFINE t == <<Start(p), End(p)>>
  <2>3. t \in Seq([who : {p}, end : BOOLEAN])
    BY <2>2
  <2> HIDE DEF t
  <2>4. <<>> \o t = t
    BY <2>3
  <2> QED BY <2>1, <2>4 DEF t, p
<1>4. WaitInv'
  <2>1. wire'[line'] = <<Start(Who'[asked' + 1]), End(Who'[asked' + 1])>>
    BY <1>2, <1>3
  <2>2. serving'[line'] # "respond" /\ answers'[line'] = 0
    BY <1>1
  <2> QED BY <1>2, <2>1, <2>2 DEF WaitInv, Start, End
<1> QED BY <1>4 DEF ReadInv, AnswerInv, OwnRequestsRecorded

LEMMA ReadGetResponse ==
    ASSUME LineInv, ReadInv, GetResponse
    PROVE  ReadInv'
<1> USE DEF GetResponse
<1>1. line \in Sources /\ asked \in Nat /\ Len(Who) \in Nat /\ asked < Len(Who)
  BY OnTheLine DEF LineInv, ATypeOK, PortInv
<1>2. /\ wire[line] = <<>> /\ serving[line] # "respond" /\ answers[line] = 1
      /\ Recorded(asked + 1)
  BY <1>1 DEF ReadInv, WaitInv
<1>3. Recorded(asked)' /\ Who' = Who
  <2>1. PICK n : n = asked + 1
    OBVIOUS
  <2>2. Recorded(n)'
    BY <1>2, <2>1, RecordedKept
  <2>3. asked' = n
    BY <2>1
  <2> QED BY <2>2, <2>3 DEF Who
<1>4. answers'[line] = 0
  BY <1>1, <1>2 DEF LineInv, ATypeOK
<1>5. AnswerInv'
  <2>1. asked + 1 <= Len(Who)
    BY <1>1
  <2> QED BY <1>2, <1>3, <1>4, <2>1 DEF AnswerInv
<1> QED BY <1>5 DEF ReadInv, WaitInv, OwnRequestsRecorded

LEMMA ReadParse ==
    ASSUME LineInv, ReadInv, NEW q \in Sources, Parse(q)
    PROVE  ReadInv'
<1>1. UNCHANGED <<exp, doing, asked, line, answers, How, Who>>
  BY DEF Parse, How, Who
<1>2. Len(wire[q]) >= 2 /\ Len(wire[q]) \in Nat /\ wire[q] # <<>>
  <2>1. Len(wire[q]) >= 2 /\ Len(wire[q]) \in Nat
    BY Cut
  <2>2. Len(<<>>) = 0
    OBVIOUS
  <2>3. wire[q] = <<>> => Len(wire[q]) = 0
    BY <2>2
  <2> QED BY <2>1, <2>3
<1>3. OwnRequestsRecorded'
  BY FoundStays DEF ReadInv
<1>4. CASE q = line
  <2>1. ~(doing = "run" /\ How = "ask")
    BY <1>2, <1>4 DEF ReadInv, AnswerInv
  <2>2. AnswerInv'
    BY <1>1, <2>1 DEF AnswerInv
  <2>3. WaitInv'
    <3> SUFFICES ASSUME doing = "wait"
                 PROVE  WaitInv'
      BY <1>1 DEF WaitInv
    <3>1. /\ wire[line] = <<Start(Who[asked + 1]), End(Who[asked + 1])>>
          /\ answers[line] = 0 /\ Recorded(asked)
      BY <1>2, <1>4 DEF ReadInv, WaitInv
    <3>2. Len(wire[line]) = 2 /\ wire[line][1].who = Who[asked + 1]
      BY <3>1 DEF Start, End
    <3>3. wire'[line] = <<>>
      <4>1. Len(wire'[line]) = Len(wire[line]) - 2
        BY <1>4, Cut
      <4>2. Len(wire'[line]) = 0
        BY <3>2, <4>1
      <4>3. wire'[line] \in Seq(Lines)
        BY <1>4, Cut DEF Lines
      <4> QED BY <4>2, <4>3, EmptySeq
    <3>4. serving'[line] = "respond" /\ owner[line] = exp
      BY <1>4, OnTheLine DEF Parse, LineInv, ATypeOK
    <3>5. Recorded(asked + 1)'
      <4>1. PICK n \in Nat : n = asked
        BY DEF LineInv, ATypeOK
      <4>2. Recorded(n + 1)'
        BY <1>4, <3>1, <3>2, <3>4, <4>1, RecordedNext
      <4>3. asked' = n
        BY <1>1, <4>1
      <4> QED BY <4>2, <4>3
    <3> QED BY <1>1, <3>1, <3>3, <3>4, <3>5 DEF WaitInv
  <2> QED BY <1>3, <2>2, <2>3 DEF ReadInv
<1>5. CASE q # line
  <2>1. doing # "connect" => wire'[line] = wire[line] /\ serving'[line] = serving[line]
    <3>1. doing # "connect" => line \in Sources
      BY OnTheLine
    <3> QED BY <1>5, <3>1, Cut DEF Parse, LineInv, ATypeOK
  <2>2. owner[q] # exp
    BY <1>5, NewRecord, RecordTypes
  <2>3. \A n : Recorded(n) => Recorded(n)'
    BY <2>2, RecordedBesideLate
  <2>4. Recorded(asked) => Recorded(asked)'
    <3>1. PICK n : n = asked
      OBVIOUS
    <3>2. asked' = n
      BY <1>1, <3>1
    <3> QED BY <2>3, <3>1, <3>2
  <2>5. Recorded(asked + 1) => Recorded(asked + 1)'
    <3>1. PICK n : n = asked + 1
      OBVIOUS
    <3>2. asked' + 1 = n
      BY <1>1, <3>1
    <3> QED BY <2>3, <3>1, <3>2
  <2>6. AnswerInv'
    BY <1>1, <2>1, <2>4 DEF ReadInv, AnswerInv
  <2>7. WaitInv'
    BY <1>1, <2>1, <2>4, <2>5 DEF ReadInv, WaitInv, Start, End
  <2> QED BY <1>3, <2>6, <2>7 DEF ReadInv
<1> QED BY <1>4, <1>5

(* The server's other steps on the connection it waits for.                 *)
LEMMA ReadServer ==
    ASSUME LineInv, ReadInv, NEW q \in Sources, Respond(q) \/ Abandon(q)
    PROVE  ReadInv'
<1>1. UNCHANGED <<exp, doing, asked, line, wire, observations, found, How, Who>>
  BY DEF Respond, Abandon, How, Who
<1>2. OwnRequestsRecorded'
  BY <1>1 DEF ReadInv, OwnRequestsRecorded
<1>3. Recorded(asked)' = Recorded(asked) /\ Recorded(asked + 1)' = Recorded(asked + 1)
  BY <1>1 DEF Recorded, OwnRecords
<1>4. CASE doing \notin {"run", "wait"}
  BY <1>1, <1>2, <1>4 DEF ReadInv, AnswerInv, WaitInv
<1>5. CASE doing \in {"run", "wait"}
  <2>1. line \in Sources
    BY <1>5, OnTheLine
  <2>2. CASE q # line
    <3>1. serving'[line] = serving[line] /\ answers'[line] = answers[line]
      BY <2>1, <2>2 DEF Respond, Abandon, LineInv, ATypeOK
    <3>2. AnswerInv'
      BY <1>1, <1>3, <3>1 DEF ReadInv, AnswerInv
    <3>3. WaitInv'
      BY <1>1, <1>3, <3>1 DEF ReadInv, WaitInv, Start, End
    <3> QED BY <1>2, <3>2, <3>3 DEF ReadInv
  <2>3. CASE q = line /\ Respond(q)
    <3>1. /\ serving[line] = "respond" /\ serving'[line] = "recv"
          /\ answers'[line] = answers[line] + 1
      BY <2>1, <2>3 DEF Respond, LineInv, ATypeOK
    <3>2. AnswerInv'
      BY <1>1, <3>1 DEF ReadInv, AnswerInv
    <3>3. WaitInv'
      BY <1>1, <1>3, <3>1 DEF ReadInv, WaitInv
    <3> QED BY <1>2, <3>2, <3>3 DEF ReadInv
  <2>4. CASE q = line /\ Abandon(q)
    <3>1. serving[line] = "recv" /\ serving'[line] = "none" /\ answers' = answers
      BY <2>1, <2>4 DEF Abandon, LineInv, ATypeOK
    <3>2. AnswerInv'
      BY <1>1, <1>3, <3>1 DEF ReadInv, AnswerInv
    <3>3. WaitInv'
      BY <1>1, <1>3, <3>1 DEF ReadInv, WaitInv, Start, End
    <3> QED BY <1>2, <3>2, <3>3 DEF ReadInv
  <2> QED BY <2>2, <2>3, <2>4
<1> QED BY <1>4, <1>5

LEMMA ReadStep ==
    LineInv /\ RecordInv /\ ReadInv /\ [ANext]_anchorVars => ReadInv'
<1> SUFFICES ASSUME LineInv, RecordInv, ReadInv, [ANext]_anchorVars
             PROVE  ReadInv'
  OBVIOUS
<1>1. CASE RemoteDisconnected
  BY <1>1 DEF RemoteDisconnected, ReadInv, AnswerInv, WaitInv, OwnRequestsRecorded
<1>2. ASSUME NEW p \in People, SendHead(p) \/ SendTail(p)
      PROVE  ReadInv'
  BY <1>2 DEF SendHead, SendTail, ReadInv, AnswerInv, WaitInv, OwnRequestsRecorded, How
<1>3. CASE ChildWrites
  BY <1>3 DEF ChildWrites, ReadInv, AnswerInv, WaitInv, OwnRequestsRecorded, How
<1>4. CASE Look
  BY <1>4, LookFinds DEF Look, ReadInv, AnswerInv, WaitInv
<1>5. CASE Leave
  BY <1>5 DEF Leave, ReadInv, AnswerInv, WaitInv, OwnRequestsRecorded
<1>6. CASE UNCHANGED anchorVars
  <2>1. UNCHANGED <<How, Who>> /\ UNCHANGED anchorVars
    BY <1>6 DEF anchorVars, How, Who
  <2>2. Recorded(asked)' = Recorded(asked) /\ Recorded(asked + 1)' = Recorded(asked + 1)
    BY <2>1 DEF anchorVars, Recorded, OwnRecords
  <2>3. AnswerInv' /\ OwnRequestsRecorded'
    BY <2>1, <2>2 DEF anchorVars, ReadInv, AnswerInv, OwnRequestsRecorded
  <2>4. WaitInv'
    BY <2>1, <2>2 DEF anchorVars, ReadInv, WaitInv, Start, End
  <2> QED BY <2>3, <2>4 DEF ReadInv
<1> QED BY <1>1, <1>2, <1>3, <1>4, <1>5, <1>6, ReadConnect, ReadAsk,
           ReadGetResponse, ReadParse, ReadServer DEF ANext

------------------------------------------------------------------------------
(* The theorems.                                                            *)

AnchorInv == LineInv /\ RecordInv /\ StreamInv /\ ReadInv

LEMMA AnchorBegins == AInit => AnchorInv
<1> SUFFICES ASSUME AInit
             PROVE  AnchorInv
  OBVIOUS
<1>1. ATypeOK
  <2>1. /\ exp \in 1..Len(Experiments) + 1
        /\ owner \in [Sources -> DOMAIN Experiments]
    BY Posed DEF AInit
  <2>2. observations \in Seq([port : Sources, who : People \cup {Unnamed},
                              of : DOMAIN Experiments])
    BY DEF AInit
  <2>3. wire \in [Sources -> Seq([who : People, end : BOOLEAN])]
    BY DEF AInit
  <2> QED BY <2>1, <2>2, <2>3 DEF AInit, ATypeOK
<1>2. DOMAIN observations = {} /\ \A q \in Sources : wire[q] = <<>>
  BY DEF AInit
<1>3. LineInv
  BY <1>1, <1>2 DEF LineInv, WireInv, PortInv, LockInv, Whole, AInit
<1>4. RecordInv /\ StreamInv /\ ReadInv
  BY <1>2 DEF RecordInv, StreamInv, AskedInv, OnceInv, StreamsWhole, ReadInv,
              AnswerInv, WaitInv, OwnRequestsRecorded, AInit
<1> QED BY <1>3, <1>4 DEF AnchorInv

LEMMA AnchorAlways == ASpec => []AnchorInv
<1>1. AnchorInv /\ [ANext]_anchorVars => AnchorInv'
  BY LineStep, RecordStep, StreamStep, ReadStep DEF AnchorInv
<1> QED BY <1>1, AnchorBegins, PTL DEF ASpec

(* The programs of the socket-anchor experiment and its server keep their   *)
(* state in its type: a record names an experiment, a port and, since every *)
(* request that is cut off a wire begins with its X-Agent-Principal line, a *)
(* principal or nobody; what was found is in the list.                      *)
THEOREM AnchorTyped == ASpec => []ATypeOK
<1>1. AnchorInv => ATypeOK
  BY DEF AnchorInv, LineInv
<1> QED BY <1>1, AnchorAlways, PTL

(* f2_stream_multiplexing(): with the lock around sendall(), whatever the   *)
(* order in which threads, child and server run and however ports are used  *)
(* again, no record of the server merges two requests, names nobody or      *)
(* repeats a principal on one connection.                                   *)
THEOREM RecordsWhole == ASpec => []StreamsWhole
<1>1. AnchorInv => StreamsWhole
  BY DEF AnchorInv, StreamInv
<1> QED BY <1>1, AnchorAlways, PTL

(* f1_connection_pooling(), f5_pool_reuse(): for any experiments, an        *)
(* experiment that reads every answer finds all its own requests on its     *)
(* port, in order and after every record of an earlier connection there.    *)
THEOREM OwnRequests == ASpec => []OwnRequestsRecorded
<1>1. AnchorInv => OwnRequestsRecorded
  BY DEF AnchorInv, ReadInv
<1> QED BY <1>1, AnchorAlways, PTL

------------------------------------------------------------------------------
(******************************************************************************)
(* CoResident, for any labels, pids and conditions.                           *)
(******************************************************************************)

(* What the assumptions say of the labels.                                  *)
LEMMA Labelled ==
    /\ Len(Labels) \in Nat /\ DOMAIN Labels = 1..Len(Labels)
    /\ \A i \in 1..Len(Labels) : Labels[i] \in Roster
    /\ \A l \in Roster : \E i \in 1..Len(Labels) : Labels[i] = l
    /\ \A i, j \in 1..Len(Labels) : Labels[i] = Labels[j] => i = j
    /\ Conditions \in Seq(BOOLEAN) /\ Len(Conditions) \in Nat
<1>1. Labels \in Seq(Roster) /\ IsInjective(Labels)
  BY ResidentAssumption
<1>2. Len(Labels) \in Nat /\ DOMAIN Labels = 1..Len(Labels)
  BY <1>1
<1>3. /\ \A i \in 1..Len(Labels) : Labels[i] \in Roster
      /\ \A l \in Roster : \E i \in 1..Len(Labels) : Labels[i] = l
  BY <1>2 DEF Roster, Range
<1>4. \A i, j \in 1..Len(Labels) : Labels[i] = Labels[j] => i = j
  BY <1>1, <1>2 DEF IsInjective
<1> QED BY <1>2, <1>3, <1>4, ResidentAssumption

LEMMA RosterSize == IsFiniteSet(Roster) /\ Cardinality(Roster) = Len(Labels)
<1>1. Labels \in Bijection(1..Len(Labels), Roster)
  BY Labelled, ResidentAssumption DEF Bijection, Injection, Surjection, IsInjective
<1>2. IsFiniteSet(1..Len(Labels)) /\ Cardinality(1..Len(Labels)) = Len(Labels)
  <2> DEFINE n == Len(Labels)
  <2>1. 1 \in Int /\ n \in Int /\ n \in Nat
    BY Labelled
  <2> HIDE DEF n
  <2>2. IsFiniteSet(1..n) /\ Cardinality(1..n) = IF 1 > n THEN 0 ELSE n - 1 + 1
    BY <2>1, FS_Interval
  <2>3. Cardinality(1..n) = n
    BY <2>1, <2>2
  <2> QED BY <2>2, <2>3 DEF n
<1> QED BY <1>1, <1>2, FS_Bijection DEF ExistsBijection

LEMMA Sentinels ==
    /\ Roster \subseteq Names
    /\ "nobody" \notin Names /\ "other" \notin Names /\ "impostor" \notin Roster
    /\ Absent.who = "nobody" /\ Absent.state = "absent" /\ Absent \in Processes
BY ResidentAssumption, Labelled DEF Names, Absent, Processes

------------------------------------------------------------------------------
(* Types.                                                                   *)

Reading == {"exe", "hash", "cgroup"}
Snapped == Reading \cup {"check", "attest", "flows", "impostor", "faked", "wait"}

(* A place of the process table is free, or holds a process that runs or    *)
(* waits to be waited for.                                                  *)
TableInv ==
    \A p \in Pids :
        proc[p] = Absent \/ /\ proc[p].who \in Names \cup {"other"}
                            /\ proc[p].state \in {"run", "zombie"}

(* What is attested is one of the labels that were alive.                   *)
CursorInv ==
    place \in Reading => cursor \in 1..Len(Labels) /\ Labels[cursor] \in LiveOnes

LEMMA ReapedTable ==
    ASSUME RTypeOK, TableInv, NEW ps
    PROVE  /\ Reaped(ps) \in [Pids -> Processes]
           /\ \A p \in Pids :
                 Reaped(ps)[p] = Absent \/
                     /\ Reaped(ps)[p].who \in Names \cup {"other"}
                     /\ Reaped(ps)[p].state \in {"run", "zombie"}
BY Sentinels DEF RTypeOK, TableInv, Reaped

(* What is read of a live label's process is of a process.                  *)
LEMMA SubjectKnown ==
    ASSUME RTypeOK, TableInv, Labels[cursor] \in LiveOnes
    PROVE  /\ live[Labels[cursor]] \in Pids
           /\ Subject \in Processes
           /\ Subject # Absent => Id(Subject) \in Ids
<1>1. live[Labels[cursor]] \in Pids
  BY DEF RTypeOK, LiveOnes
<1>2. Subject \in Processes
  BY <1>1 DEF RTypeOK, Subject
<1> QED BY <1>1, <1>2 DEF TableInv, Subject, Id, Ids, Processes

LEMMA SpawnCount ==
    ASSUME RTypeOK
    PROVE  /\ Spawned \in Nat /\ Spawned <= Len(Labels)
           /\ IsFiniteSet({l \in Roster : popen[l] # NoPid})
           /\ Spawned = Len(Labels) => \A l \in Roster : popen[l] # NoPid
<1> DEFINE S == {l \in Roster : popen[l] # NoPid}
<1>1. S \in SUBSET Roster
  OBVIOUS
<1>2. /\ IsFiniteSet(S) /\ Cardinality(S) <= Len(Labels)
      /\ Len(Labels) = Cardinality(S) => Roster = S
  BY <1>1, RosterSize, FS_Subset
<1>3. Cardinality(S) \in Nat
  BY <1>2, FS_CardinalityType
<1> QED BY <1>2, <1>3 DEF Spawned

LEMMA ResidentTypeStep ==
    ASSUME RTypeOK, TableInv, CursorInv, [RNext]_residentVars
    PROVE  RTypeOK' /\ TableInv' /\ CursorInv'
<1> USE Labelled, Sentinels
<1>1. CASE BeginCondition
  BY <1>1 DEF BeginCondition, ClearedReports, RTypeOK, TableInv, CursorInv, Reading
<1>2. ASSUME NEW p \in Pids, Spawn(p)
      PROVE  RTypeOK' /\ TableInv' /\ CursorInv'
  <2>1. Labels[Spawned + 1] \in Roster
    BY <1>2, SpawnCount DEF Spawn
  <2>2. [who |-> Labels[Spawned + 1], cond |-> cond, state |-> "run"] \in Processes
    BY <2>1 DEF Processes, RTypeOK
  <2> QED BY <1>2, <2>1, <2>2 DEF Spawn, RTypeOK, TableInv, CursorInv, Reading
<1>3. ASSUME NEW p \in Pids, Impersonate(p)
      PROVE  RTypeOK' /\ TableInv' /\ CursorInv'
  <2>1. /\ [who |-> "impostor", cond |-> cond, state |-> "run"] \in Processes
        /\ "impostor" \in Names
    BY DEF Processes, RTypeOK, Names
  <2> QED BY <1>3, <2>1 DEF Impersonate, RTypeOK, TableInv, CursorInv, Reading
<1>4. CASE Snapshot
  BY <1>4, ReapedTable DEF Snapshot, RTypeOK, TableInv, CursorInv, Reading
<1>5. CASE PollAgain
  BY <1>5, ReapedTable DEF PollAgain, RTypeOK, TableInv, CursorInv, Reading
<1>6. CASE AttestStatus
  <2>1. Subject # Absent => Id(Subject) \in Ids
    BY <1>6, SubjectKnown DEF AttestStatus
  <2>2. Labels[cursor] \in Roster /\ cursor \in 1..Len(Labels)
    BY <1>6 DEF AttestStatus, RTypeOK
  <2>3. CASE Subject = Absent
    BY <1>6, <2>2, <2>3 DEF AttestStatus, FinishAttest, RTypeOK, TableInv, CursorInv,
                            Reading
  <2>4. CASE Subject # Absent
    BY <1>6, <2>1, <2>2, <2>4 DEF AttestStatus, RTypeOK, TableInv, CursorInv,
                                  Reading, LiveOnes
  <2> QED BY <2>3, <2>4
<1>7. CASE AttestPath \/ AttestHash \/ AttestContainer
  <2>1. cursor \in 1..Len(Labels) /\ Labels[cursor] \in LiveOnes
    BY <1>7 DEF AttestPath, AttestHash, AttestContainer, CursorInv, Reading
  <2>2. /\ Subject # Absent => Id(Subject) \in Ids
        /\ Subject.state = "run" => Subject # Absent
    BY <2>1, SubjectKnown
  <2>3. Labels[cursor] \in Roster
    BY <2>1
  <2>4. CASE AttestPath
    BY <2>1, <2>2, <2>3, <2>4 DEF AttestPath, FinishAttest, RTypeOK, TableInv,
                                  CursorInv, Reading, LiveOnes
  <2>5. CASE AttestHash
    BY <2>1, <2>2, <2>3, <2>5 DEF AttestHash, RTypeOK, TableInv, CursorInv,
                                  Reading, LiveOnes
  <2>6. CASE AttestContainer
    BY <2>1, <2>2, <2>3, <2>6 DEF AttestContainer, FinishAttest, RTypeOK, TableInv,
                                  CursorInv, Reading
  <2> QED BY <1>7, <2>4, <2>5, <2>6
<1>8. CASE Skip
  BY <1>8 DEF Skip, RTypeOK, TableInv, CursorInv, Reading
<1>9. CASE CollectReports
  BY <1>9 DEF CollectReports, RTypeOK, TableInv, CursorInv, Reading
<1>10. CASE CollectFlows
  <2>1. ASSUME NEW l \in LiveOnes, proc[live[l]].state = "run"
        PROVE  l \in Roster /\ Id(proc[live[l]]) \in Ids
    <3>1. l \in Roster /\ live[l] \in Pids
      BY <2>1 DEF LiveOnes, RTypeOK
    <3>2. proc[live[l]] \in Processes /\ proc[live[l]] # Absent
      BY <2>1, <3>1 DEF RTypeOK
    <3> QED BY <3>1, <3>2 DEF TableInv, Id, Ids, Processes
  <2>2. \A o \in flowOwners' : o.label \in Roster /\ o.process \in Ids
    BY <1>10, <2>1 DEF CollectFlows
  <2> QED BY <1>10, <2>2 DEF CollectFlows, RTypeOK, TableInv, CursorInv, Reading
<1>11. CASE WaitFake
  BY <1>11, ReapedTable DEF WaitFake, RTypeOK, TableInv, CursorInv, Reading
<1>12. CASE WaitAll
  BY <1>12 DEF WaitAll, RTypeOK, TableInv, CursorInv, Reading
<1>13. ASSUME NEW p \in Pids, WriteReport(p)
       PROVE  RTypeOK' /\ TableInv' /\ CursorInv'
  BY <1>13 DEF WriteReport, RTypeOK, TableInv, CursorInv, Reading, LiveOnes
<1>14. ASSUME NEW p \in Pids, EndProcess(p)
       PROVE  RTypeOK' /\ TableInv' /\ CursorInv'
  <2>1. [proc[p] EXCEPT !.state = "zombie"] \in Processes
    <3>1. proc[p] \in Processes
      BY DEF RTypeOK
    <3> QED BY <3>1 DEF Processes
  <2> QED BY <1>14, <2>1 DEF EndProcess, RTypeOK, TableInv, CursorInv, Reading,
                             LiveOnes, Processes
<1>15. ASSUME NEW p \in Pids, StartOther(p)
       PROVE  RTypeOK' /\ TableInv' /\ CursorInv'
  <2>1. [who |-> "other", cond |-> 0, state |-> "run"] \in Processes
    BY DEF Processes
  <2> QED BY <1>15, <2>1 DEF StartOther, RTypeOK, TableInv, CursorInv, Reading,
                             LiveOnes
<1>16. CASE UNCHANGED residentVars
  BY <1>16 DEF residentVars, RTypeOK, TableInv, CursorInv, Reading, LiveOnes
<1> QED
  BY <1>1, <1>2, <1>3, <1>4, <1>5, <1>6, <1>7, <1>8, <1>9, <1>10, <1>11, <1>12,
     <1>13, <1>14, <1>15, <1>16 DEF RNext

------------------------------------------------------------------------------
(* Whose the process ids are.                                               *)

(* Agents are of the condition that runs; those of the roster are the       *)
(* children of run_condition(), and an impostor is the one it waits for.    *)
AgentInv ==
    \A p \in Pids : proc[p].who \in Names =>
        /\ place # "between" /\ proc[p].cond = cond
        /\ proc[p].who \in Roster => popen[proc[p].who] = p
        /\ proc[p].who = "impostor" => place \in {"faked", "raised"} /\ fake = p

FakeInv == place = "faked" => fake \in Pids /\ proc[fake].who = "impostor"

(* Labels are spawned in their order, and none is live before the snapshot. *)
SpawnInv ==
    place = "spawn" =>
        /\ \A i \in 1..Len(Labels) : popen[Labels[i]] # NoPid <=> i <= Spawned
        /\ \A l \in Roster : live[l] = NoPid

(* No child gives its process id up before all are waited for, if all were  *)
(* alive at the snapshot.                                                   *)
ChildInv ==
    (place = "spawn" \/ (place \in Snapped /\ LiveOnes = Roster)) =>
        \A l \in Roster : popen[l] # NoPid => proc[popen[l]].who = l

SnapInv == place \in Snapped /\ LiveOnes = Roster => live = popen

PidInv == AgentInv /\ FakeInv /\ SpawnInv /\ ChildInv /\ SnapInv

(* When all are alive nobody polls again.                                   *)
LEMMA AllAlive == LiveOnes = Roster => ~PollsAgain
BY RosterSize, Labelled DEF PollsAgain

(* Places between which a step that leaves processes alone makes no         *)
(* difference.                                                              *)
Quiet == Reading \cup {"attest", "flows", "impostor", "wait"}

LEMMA PidsUntouched ==
    ASSUME PidInv, UNCHANGED <<cond, proc, popen, live, fake>>,
           place' = place \/ {place, place'} \subseteq Quiet
    PROVE  PidInv'
<1> USE DEF PidInv
<1>1. AgentInv'
  BY DEF AgentInv, Quiet, Reading
<1>2. FakeInv'
  BY DEF FakeInv, Quiet, Reading
<1>3. SpawnInv'
  BY DEF SpawnInv, Quiet, Reading, Spawned
<1>4. ChildInv' /\ SnapInv'
  BY DEF ChildInv, SnapInv, Quiet, Reading, Snapped, LiveOnes
<1> QED BY <1>1, <1>2, <1>3, <1>4

LEMMA PidStep ==
    ASSUME RTypeOK, TableInv, CursorInv, PidInv, [RNext]_residentVars
    PROVE  PidInv'
<1> USE Labelled, Sentinels DEF PidInv
<1>1. CASE BeginCondition
  <2>1. AgentInv' /\ FakeInv'
    BY <1>1 DEF BeginCondition, AgentInv, FakeInv
  <2>2. /\ popen' = [l \in Roster |-> NoPid]
        /\ live' = popen'
        /\ place' = "spawn"
    BY <1>1 DEF BeginCondition
  <2>3. Spawned' = 0
    <3>1. {l \in Roster : popen'[l] # NoPid} = {}
      BY <2>2
    <3> QED BY <3>1, FS_EmptySet DEF Spawned
  <2>4. SpawnInv' /\ ChildInv' /\ SnapInv'
    BY <2>2, <2>3 DEF SpawnInv, ChildInv, SnapInv, Snapped, Reading
  <2> QED BY <2>1, <2>4
<1>2. ASSUME NEW p \in Pids, Spawn(p)
      PROVE  PidInv'
  <2> DEFINE l == Labels[Spawned + 1]
             S == {m \in Roster : popen[m] # NoPid}
  <2>1. /\ place = "spawn" /\ place' = "spawn"
        /\ Spawned \in Nat /\ Spawned + 1 \in 1..Len(Labels)
        /\ proc[p] = Absent
        /\ proc' = [proc EXCEPT ![p] = [who |-> l, cond |-> cond, state |-> "run"]]
        /\ popen' = [popen EXCEPT ![l] = p]
        /\ UNCHANGED <<cond, live, fake>>
    BY <1>2, SpawnCount DEF Spawn
  <2>2. l \in Roster /\ p # NoPid /\ popen[l] = NoPid
    BY <2>1, ResidentAssumption DEF SpawnInv
  <2>a. /\ proc'[p].who = l /\ proc'[p].cond = cond
        /\ popen'[l] = p
        /\ \A q \in Pids : q # p => proc'[q] = proc[q]
        /\ \A m \in Roster : m # l => popen'[m] = popen[m]
    <3> HIDE DEF l
    <3> QED BY <2>1, <2>2 DEF RTypeOK
  <2>c. \A m \in Roster : popen[m] # NoPid => proc[popen[m]].who = m
    <3>1. place = "spawn"
      BY <2>1
    <3> QED BY <3>1 DEF ChildInv
  <2> HIDE DEF l
  <2>3. AgentInv'
    <3> SUFFICES ASSUME NEW q \in Pids, proc'[q].who \in Names
                 PROVE  /\ proc'[q].cond = cond
                        /\ proc'[q].who \in Roster => popen'[proc'[q].who] = q
                        /\ proc'[q].who # "impostor"
      BY <2>1 DEF AgentInv
    <3>1. CASE q = p
      BY <2>2, <2>a, <3>1
    <3>2. CASE q # p
      <4>1. /\ proc'[q] = proc[q] /\ proc[q].cond = cond
            /\ proc[q].who # "impostor"
            /\ proc[q].who \in Roster => popen[proc[q].who] = q
        BY <2>1, <2>a, <3>2 DEF AgentInv
      <4>2. q # NoPid
        BY ResidentAssumption
      <4> QED BY <2>2, <2>a, <4>1, <4>2
    <3> QED BY <3>1, <3>2
  <2>4. FakeInv' /\ ChildInv' /\ SnapInv'
    <3>1. ChildInv'
      <4> SUFFICES ASSUME NEW m \in Roster, popen'[m] # NoPid
                   PROVE  proc'[popen'[m]].who = m
        BY DEF ChildInv
      <4>1. CASE m = l
        BY <2>a, <4>1
      <4>2. CASE m # l
        <5>1. popen'[m] = popen[m] /\ popen[m] \in Pids
          BY <2>a, <4>2 DEF RTypeOK
        <5>2. proc[popen[m]].who = m
          BY <2>c, <5>1
        <5>3. popen[m] # p
          BY <2>1, <5>2
        <5> QED BY <2>a, <5>1, <5>2, <5>3
      <4> QED BY <4>1, <4>2
    <3> QED BY <2>1, <3>1 DEF FakeInv, SnapInv, Snapped, Reading
  <2>5. Spawned' = Spawned + 1
    <3>1. {m \in Roster : popen'[m] # NoPid} = S \cup {l}
      BY <2>1, <2>2 DEF RTypeOK
    <3>2. l \notin S /\ IsFiniteSet(S) /\ Spawned = Cardinality(S)
      BY <2>2, SpawnCount DEF Spawned
    <3>3. Cardinality(S \cup {l}) = Cardinality(S) + 1
      BY <3>2, FS_AddElement
    <3> QED BY <3>1, <3>2, <3>3 DEF Spawned
  <2>6. ASSUME NEW i \in 1..Len(Labels)
        PROVE  popen'[Labels[i]] # NoPid <=> i <= Spawned + 1
    <3>1. CASE i = Spawned + 1
      BY <2>1, <2>2, <2>a, <3>1 DEF l
    <3>2. CASE i # Spawned + 1
      <4>1. Labels[i] # l /\ Labels[i] \in Roster
        BY <2>1, <3>2 DEF l
      <4>2. popen'[Labels[i]] = popen[Labels[i]]
        BY <2>a, <4>1
      <4> QED BY <2>1, <3>2, <4>2 DEF SpawnInv
    <3> QED BY <3>1, <3>2
  <2>7. SpawnInv'
    BY <2>1, <2>5, <2>6 DEF SpawnInv
  <2> QED BY <2>3, <2>4, <2>7
<1>3. ASSUME NEW p \in Pids, Impersonate(p)
      PROVE  PidInv'
  <2>1. CASE place' = "raised"
    BY <1>3, <2>1 DEF Impersonate, AgentInv, FakeInv, SpawnInv, ChildInv, SnapInv,
                      Snapped, Reading
  <2>2. CASE place' # "raised"
    <3>1. /\ place = "impostor" /\ place' = "faked"
          /\ proc[p] = Absent
          /\ proc' = [proc EXCEPT ![p] =
                         [who |-> "impostor", cond |-> cond, state |-> "run"]]
          /\ fake' = p
          /\ UNCHANGED <<cond, popen, live>>
      BY <1>3, <2>2 DEF Impersonate
    <3>2. AgentInv' /\ FakeInv'
      BY <3>1 DEF AgentInv, FakeInv, RTypeOK
    <3>3. SpawnInv' /\ ChildInv' /\ SnapInv'
      BY <3>1 DEF SpawnInv, ChildInv, SnapInv, Snapped, Reading, LiveOnes, RTypeOK
    <3> QED BY <3>2, <3>3
  <2> QED BY <2>1, <2>2
<1>4. CASE Snapshot
  <2>1. /\ place = "spawn" /\ place' = "check"
        /\ live' = [l \in Roster |-> IF proc[popen[l]].state = "run"
                                     THEN popen[l] ELSE NoPid]
        /\ proc' = Reaped(Children)
        /\ UNCHANGED <<cond, popen, fake>>
        /\ \A l \in Roster : popen[l] \in Pids
    BY <1>4, SpawnCount DEF Snapshot, RTypeOK
  <2>2. AgentInv' /\ FakeInv' /\ SpawnInv'
    BY <2>1 DEF AgentInv, FakeInv, SpawnInv, Reaped, RTypeOK
  <2>3. ASSUME LiveOnes' = Roster
        PROVE  \A l \in Roster : proc[popen[l]].state = "run"
    BY <2>1, <2>3 DEF LiveOnes
  <2>4. SnapInv'
    BY <2>1, <2>3 DEF SnapInv, RTypeOK
  <2>c. \A m \in Roster : popen[m] # NoPid => proc[popen[m]].who = m
    <3>1. place = "spawn"
      BY <2>1
    <3> QED BY <3>1 DEF ChildInv
  <2>5. ChildInv'
    <3> SUFFICES ASSUME LiveOnes' = Roster, NEW l \in Roster
                 PROVE  proc'[popen[l]].who = l
      BY <2>1 DEF ChildInv
    <3>1. proc[popen[l]].who = l /\ popen[l] \in Pids /\ popen[l] # NoPid
      BY <2>1, <2>c, ResidentAssumption
    <3>2. proc[popen[l]].state # "zombie"
      BY <2>3
    <3> QED BY <2>1, <3>1, <3>2 DEF Reaped
  <2> QED BY <2>2, <2>4, <2>5
<1>5. CASE PollAgain
  <2>1. /\ place = "check" /\ place' = "attest"
        /\ UNCHANGED <<cond, popen, live, fake>>
        /\ proc' = IF PollsAgain THEN Reaped(Children) ELSE proc
    BY <1>5 DEF PollAgain
  <2>2. AgentInv' /\ FakeInv' /\ SpawnInv'
    BY <2>1 DEF AgentInv, FakeInv, SpawnInv, Reaped, RTypeOK
  <2>3. ChildInv' /\ SnapInv'
    BY <2>1, AllAlive DEF ChildInv, SnapInv, Snapped, Reading, LiveOnes
  <2> QED BY <2>2, <2>3
<1>6. CASE AttestStatus \/ AttestPath \/ AttestHash \/ AttestContainer
           \/ Skip \/ CollectReports \/ CollectFlows
  <2>1. UNCHANGED <<cond, proc, popen, live, fake>>
    BY <1>6 DEF AttestStatus, AttestPath, AttestHash, AttestContainer, Skip,
                CollectReports, CollectFlows
  <2>2. place' = place \/ {place, place'} \subseteq Quiet
    BY <1>6 DEF AttestStatus, AttestPath, AttestHash, AttestContainer, Skip,
                CollectReports, CollectFlows, FinishAttest, Quiet, Reading
  <2> QED BY <2>1, <2>2, PidsUntouched
<1>7. CASE WaitFake
  <2>1. /\ place = "faked"
        /\ proc' = Reaped({fake})
        /\ place' = IF proc[fake].state = "zombie" THEN "wait" ELSE "raised"
        /\ UNCHANGED <<cond, popen, live, fake>>
    BY <1>7 DEF WaitFake
  <2>2. fake \in Pids /\ proc[fake].who = "impostor"
    BY <2>1 DEF FakeInv
  <2>3. AgentInv'
    BY <2>1, <2>2 DEF AgentInv, Reaped, RTypeOK
  <2>4. FakeInv' /\ SpawnInv' /\ SnapInv'
    BY <2>1 DEF FakeInv, SpawnInv, SnapInv, Snapped, LiveOnes
  <2>5. ChildInv'
    BY <2>1, <2>2 DEF ChildInv, Snapped, Reading, LiveOnes, Reaped, RTypeOK
  <2> QED BY <2>3, <2>4, <2>5
<1>8. CASE WaitAll
  <2>1. /\ place = "wait" /\ place' = "between"
        /\ proc' = [p \in Pids |-> IF p \in Children /\ proc[p].cond = cond
                                      /\ proc[p].who \in Roster
                                   THEN Absent ELSE proc[p]]
        /\ UNCHANGED <<cond, popen>>
    BY <1>8 DEF WaitAll
  <2>2. ASSUME NEW p \in Pids, proc[p].who \in Names
        PROVE  p \in Children /\ proc[p].cond = cond /\ proc[p].who \in Roster
    <3>1. proc[p].who \in Roster /\ proc[p].cond = cond /\ popen[proc[p].who] = p
      BY <2>1, <2>2 DEF AgentInv, Names
    <3>2. p \in Range(popen) /\ p # NoPid
      BY <3>1, ResidentAssumption DEF Range, RTypeOK
    <3> QED BY <3>1, <3>2 DEF Children
  <2>3. AgentInv'
    BY <2>1, <2>2 DEF AgentInv
  <2> QED BY <2>1, <2>3 DEF FakeInv, SpawnInv, ChildInv, SnapInv, Snapped, Reading
<1>9. ASSUME NEW p \in Pids, WriteReport(p)
      PROVE  PidInv'
  BY <1>9, PidsUntouched DEF WriteReport
<1>10. ASSUME NEW p \in Pids, EndProcess(p)
       PROVE  PidInv'
  <2>1. /\ proc' = [proc EXCEPT ![p] = IF proc[p].who = "other" THEN Absent
                                       ELSE [proc[p] EXCEPT !.state = "zombie"]]
        /\ UNCHANGED <<place, cond, popen, live, fake>>
    BY <1>10 DEF EndProcess
  <2>2. ASSUME NEW q \in Pids
        PROVE  \/ proc'[q].who = proc[q].who /\ proc'[q].cond = proc[q].cond
               \/ proc[q].who = "other" /\ proc'[q] = Absent
    BY <2>1 DEF RTypeOK, Processes
  <2>3. AgentInv'
    BY <2>1, <2>2 DEF AgentInv
  <2>4. FakeInv' /\ SpawnInv' /\ SnapInv'
    BY <2>1, <2>2 DEF FakeInv, SpawnInv, SnapInv, LiveOnes, Spawned, Names
  <2>5. ChildInv'
    BY <2>1, <2>2 DEF ChildInv, LiveOnes, RTypeOK
  <2> QED BY <2>3, <2>4, <2>5
<1>11. ASSUME NEW p \in Pids, StartOther(p)
       PROVE  PidInv'
  <2>1. /\ proc[p] = Absent
        /\ proc' = [proc EXCEPT ![p] = [who |-> "other", cond |-> 0, state |-> "run"]]
        /\ UNCHANGED <<place, cond, popen, live, fake>>
    BY <1>11 DEF StartOther
  <2>2. AgentInv' /\ FakeInv'
    BY <2>1 DEF AgentInv, FakeInv, RTypeOK, Names
  <2>3. SpawnInv' /\ SnapInv'
    BY <2>1 DEF SpawnInv, SnapInv, LiveOnes, Spawned
  <2>4. ChildInv'
    BY <2>1 DEF ChildInv, LiveOnes, RTypeOK
  <2> QED BY <2>2, <2>3, <2>4
<1>12. CASE UNCHANGED residentVars
  BY <1>12, PidsUntouched DEF residentVars
<1> QED
  BY <1>1, <1>2, <1>3, <1>4, <1>5, <1>6, <1>7, <1>8, <1>9, <1>10, <1>11, <1>12
     DEF RNext

------------------------------------------------------------------------------
(* What is attested, and what is reported.                                  *)

(* Until the snapshot nothing is attested; then, if all were alive, what    *)
(* was read so far is of the child whose selectors it will be.              *)
SelectorInv ==
    /\ place \in {"spawn", "check"} =>
          flowOwners = {} /\ \A l \in Roster : selectors[l] = {}
    /\ place \in Reading /\ LiveOnes = Roster => reads \subseteq {Here(Labels[cursor])}

(* A name's file was written by an agent of that name, in this condition.   *)
ReportInv ==
    \A n \in Names : reports[n] # Absent => reports[n].who = n /\ reports[n].cond = cond

ResidentInv ==
    RTypeOK /\ TableInv /\ CursorInv /\ PidInv /\ SelectorInv /\ AttestedOwnChild
    /\ ReportInv /\ ReportsAreOwn

(* A process found under the id of a label is the label's child, if all     *)
(* were alive.                                                              *)
LEMMA OwnSubject ==
    ASSUME RTypeOK, TableInv, PidInv, place \in Snapped, LiveOnes = Roster,
           NEW l \in Roster
    PROVE  /\ live[l] \in Pids
           /\ Id(proc[live[l]]) = Here(l)
<1>1. live[l] = popen[l] /\ live[l] \in Pids /\ live[l] # NoPid
  BY ResidentAssumption DEF PidInv, SnapInv, LiveOnes, RTypeOK
<1>2. proc[live[l]].who = l
  BY <1>1 DEF PidInv, ChildInv
<1>3. proc[live[l]].cond = cond
  BY <1>1, <1>2, Sentinels DEF PidInv, AgentInv
<1> QED BY <1>1, <1>2, <1>3 DEF Id, Here

LEMMA AttestStep ==
    ASSUME ResidentInv, [RNext]_residentVars
    PROVE  SelectorInv' /\ AttestedOwnChild'
<1> USE Labelled, Sentinels DEF ResidentInv
<1>1. CASE BeginCondition
  BY <1>1 DEF BeginCondition, SelectorInv, AttestedOwnChild, Reading
<1>2. CASE Snapshot
  BY <1>2 DEF Snapshot, SelectorInv, AttestedOwnChild, Reading
<1>3. CASE AttestStatus \/ AttestPath \/ AttestHash \/ AttestContainer
  <2>1. /\ place \in Reading \cup {"attest"} /\ place \in Snapped
        /\ place' \in Reading \cup {"attest"}
        /\ UNCHANGED <<cond, proc, popen, live, flowOwners>>
    BY <1>3 DEF AttestStatus, AttestPath, AttestHash, AttestContainer, FinishAttest,
                Reading, Snapped
  <2> DEFINE l == Labels[cursor]
  <2>2. l \in LiveOnes /\ l \in Roster
    BY <1>3 DEF AttestStatus, AttestPath, AttestHash, AttestContainer, CursorInv,
                Reading, LiveOnes
  <2>3. LiveOnes' = LiveOnes /\ \A m : Here(m)' = Here(m)
    BY <2>1 DEF LiveOnes, Here
  <2>4. ASSUME LiveOnes = Roster
        PROVE  /\ reads' \subseteq {Here(l)}
               /\ place' \in Reading => cursor' = cursor
               /\ \/ selectors' = selectors
                  \/ \E result \in SUBSET {Here(l)} :
                        selectors' = [selectors EXCEPT ![l] = result]
    <3>1. Id(Subject) = Here(l)
      BY <2>1, <2>2, <2>4, OwnSubject DEF Subject
    <3>2. place \in Reading => reads \subseteq {Here(l)}
      BY <2>4 DEF SelectorInv
    <3>3. CASE AttestStatus
      <4>1. CASE Subject = Absent
        <5>1. FinishAttest({})
          BY <3>3, <4>1 DEF AttestStatus
        <5>2. /\ selectors' = [selectors EXCEPT ![l] = {}]
              /\ reads' = {} /\ place' = "attest"
          BY <5>1 DEF FinishAttest
        <5>3. {} \in SUBSET {Here(l)}
          OBVIOUS
        <5> QED BY <5>2, <5>3 DEF Reading
      <4>2. CASE Subject # Absent
        BY <3>1, <3>3, <4>2 DEF AttestStatus
      <4> QED BY <4>1, <4>2
    <3>4. CASE AttestPath
      BY <3>1, <3>2, <3>4 DEF AttestPath, FinishAttest, Reading
    <3>5. CASE AttestHash
      BY <3>1, <3>2, <3>5 DEF AttestHash, Reading
    <3>6. CASE AttestContainer
      BY <3>1, <3>2, <3>6 DEF AttestContainer, FinishAttest, Reading
    <3> QED BY <1>3, <3>3, <3>4, <3>5, <3>6
  <2>5. SelectorInv'
    BY <2>1, <2>3, <2>4 DEF SelectorInv, Reading
  <2>6. AttestedOwnChild'
    BY <2>1, <2>2, <2>3, <2>4 DEF AttestedOwnChild, RTypeOK
  <2> QED BY <2>5, <2>6
<1>4. CASE CollectFlows
  <2>1. /\ place = "flows" /\ place \in Snapped
        /\ UNCHANGED <<cond, live, selectors>>
        /\ place' \in {"wait", "impostor"}
        /\ flowOwners' = {[label |-> l, process |-> Id(proc[live[l]])] :
                             l \in {l \in LiveOnes : proc[live[l]].state = "run"}}
    BY <1>4 DEF CollectFlows, Snapped
  <2>2. LiveOnes' = LiveOnes /\ \A m : Here(m)' = Here(m)
    BY <2>1 DEF LiveOnes, Here
  <2>3. ASSUME LiveOnes = Roster, NEW o \in flowOwners'
        PROVE  o.process = Here(o.label)
    BY <2>1, <2>3, OwnSubject
  <2>4. SelectorInv'
    BY <2>1 DEF SelectorInv, Reading
  <2> QED BY <2>1, <2>2, <2>3, <2>4 DEF AttestedOwnChild
<1>5. CASE UNCHANGED <<cond, live, cursor, reads, selectors, flowOwners>>
           /\ (place' = place \/ place' \notin Reading \cup {"spawn", "check"})
  <2>1. LiveOnes' = LiveOnes /\ \A m : Here(m)' = Here(m)
    BY <1>5 DEF LiveOnes, Here
  <2> QED BY <1>5, <2>1 DEF SelectorInv, AttestedOwnChild
<1>6. CASE Skip
  <2>1. LiveOnes' = LiveOnes /\ \A m : Here(m)' = Here(m)
    BY <1>6 DEF Skip, LiveOnes, Here
  <2> QED BY <1>6, <2>1 DEF Skip, SelectorInv, AttestedOwnChild, Reading
<1>7. CASE \/ PollAgain \/ CollectReports \/ WaitFake \/ WaitAll
           \/ \E p \in Pids : \/ Spawn(p) \/ Impersonate(p) \/ WriteReport(p)
                              \/ EndProcess(p) \/ StartOther(p)
           \/ UNCHANGED residentVars
  BY <1>5, <1>7 DEF PollAgain, CollectReports, WaitFake, WaitAll, Spawn, Impersonate,
                    WriteReport, EndProcess, StartOther, residentVars, Reading
<1> QED
  BY <1>1, <1>2, <1>3, <1>4, <1>6, <1>7 DEF RNext

LEMMA ReportStep ==
    ASSUME ResidentInv, [RNext]_residentVars
    PROVE  ReportInv' /\ ReportsAreOwn'
<1> USE Labelled, Sentinels DEF ResidentInv
<1>1. CASE BeginCondition
  BY <1>1 DEF BeginCondition, ClearedReports, ReportInv, ReportsAreOwn
<1>2. ASSUME NEW p \in Pids, WriteReport(p)
      PROVE  ReportInv' /\ ReportsAreOwn'
  <2>1. proc[p].cond = cond
    BY <1>2 DEF WriteReport, PidInv, AgentInv
  <2>2. ReportInv'
    BY <1>2, <2>1 DEF WriteReport, ReportInv, RTypeOK
  <2>3. ReportsAreOwn'
    BY <1>2 DEF WriteReport, ReportsAreOwn, Here
  <2> QED BY <2>2, <2>3
<1>3. CASE CollectReports
  <2>1. ReportInv'
    BY <1>3 DEF CollectReports, ReportInv
  <2>2. ASSUME NEW l \in Roster, svids'[l] # Absent
        PROVE  Id(svids'[l]) = Here(l)
    BY <1>3, <2>2 DEF CollectReports, ReportInv, Id, Here
  <2>3. ReportsAreOwn'
    BY <1>3, <2>2 DEF CollectReports, ReportsAreOwn, Here
  <2> QED BY <2>1, <2>3
<1>4. CASE UNCHANGED <<cond, reports, svids>>
  BY <1>4 DEF ReportInv, ReportsAreOwn, Here
<1>5. CASE \/ Snapshot \/ PollAgain \/ AttestStatus \/ AttestPath \/ AttestHash
           \/ AttestContainer \/ Skip \/ CollectFlows \/ WaitFake \/ WaitAll
           \/ \E p \in Pids : \/ Spawn(p) \/ Impersonate(p) \/ EndProcess(p)
                              \/ StartOther(p)
           \/ UNCHANGED residentVars
  BY <1>4, <1>5 DEF Snapshot, PollAgain, AttestStatus, AttestPath, AttestHash,
                    AttestContainer, Skip, CollectFlows, WaitFake, WaitAll, Spawn,
                    Impersonate, EndProcess, StartOther, residentVars
<1> QED
  BY <1>1, <1>2, <1>3, <1>5 DEF RNext

LEMMA ResidentAlways == RSpec => []ResidentInv
<1>1. RInit => ResidentInv
  BY Labelled, Sentinels, ResidentAssumption
     DEF RInit, ResidentInv, RTypeOK, TableInv, CursorInv, PidInv, AgentInv,
         FakeInv, SpawnInv, ChildInv, SnapInv, SelectorInv, AttestedOwnChild,
         ReportInv, ReportsAreOwn, Reading, Snapped
<1>2. ResidentInv /\ [RNext]_residentVars => ResidentInv'
  BY ResidentTypeStep, PidStep, AttestStep, ReportStep DEF ResidentInv
<1> QED BY <1>1, <1>2, PTL DEF RSpec

(* run_condition() keeps its types, for any labels, process ids and         *)
(* conditions.                                                              *)
THEOREM ResidentTyped == RSpec => []RTypeOK
<1>1. ResidentInv => RTypeOK
  BY DEF ResidentInv
<1> QED BY <1>1, ResidentAlways, PTL

(* With every agent alive at the snapshot, attest() and the flows of E3 are *)
(* of the children they are taken for, whatever ends, starts and gets their *)
(* process ids meanwhile (run_condition()).                                 *)
THEOREM OwnChild == RSpec => []AttestedOwnChild
<1>1. ResidentInv => AttestedOwnChild
  BY DEF ResidentInv
<1> QED BY <1>1, ResidentAlways, PTL

(* A report is counted for the agent and the condition that wrote it        *)
(* (run_condition()).                                                       *)
THEOREM OwnReports == RSpec => []ReportsAreOwn
<1>1. ResidentInv => ReportsAreOwn
  BY DEF ResidentInv
<1> QED BY <1>1, ResidentAlways, PTL

------------------------------------------------------------------------------
(******************************************************************************)
(* Attribution, for any requests and principals, with any spacing.            *)
(******************************************************************************)

(* The state of the requests, of the log and of run_once() keeps its types. *)
THEOREM AttributionTyped == LSpec => []LTypeOK
<1>1. LInit => LTypeOK
  BY AttributionAssumption DEF LInit, LTypeOK
<1>2. LTypeOK /\ [LNext]_attributionVars => LTypeOK'
  <2> SUFFICES ASSUME LTypeOK, [LNext]_attributionVars
               PROVE  LTypeOK'
    OBVIOUS
  <2> USE AttributionAssumption DEF LTypeOK
  <2>1. ASSUME NEW p \in {"h1", "h2"}, Configure(p)
        PROVE  LTypeOK'
    BY <2>1 DEF Configure
  <2>2. ASSUME NEW r \in Requests, Arrive(r)
        PROVE  LTypeOK'
    BY <2>2 DEF Arrive
  <2>3. ASSUME NEW r \in Requests, NEW c \in Conns, Forward(r, c)
        PROVE  LTypeOK'
    BY <2>3 DEF Forward
  <2>4. ASSUME NEW r \in Requests, Complete(r)
        PROVE  LTypeOK'
    <3>1. PICK t \in begun[r]..clock : ended' = [ended EXCEPT ![r] = t]
      BY <2>4 DEF Complete
    <3>2. begun[r] \in 0..clock /\ t \in 0..clock
      OBVIOUS
    <3> QED BY <2>4, <3>1, <3>2 DEF Complete
  <2>5. ASSUME NEW r \in Requests, Flush(r)
        PROVE  LTypeOK'
    BY <2>5 DEF Flush
  <2>6. CASE Tick
    BY <2>6 DEF Tick
  <2>7. CASE Load
    BY <2>7 DEF Load
  <2>8. CASE UNCHANGED attributionVars
    BY <2>8 DEF attributionVars
  <2> QED
    BY <2>1, <2>2, <2>3, <2>4, <2>5, <2>6, <2>7, <2>8 DEF LNext
<1> QED BY <1>1, <1>2, PTL DEF LSpec

(* A request is sent after it arrived and ends after it arrived, its line   *)
(* is written when it has ended, and the rows are lines of the file.        *)
OrderInv ==
    /\ protocol = "none" => \A r \in Requests : stage[r] = "new"
    /\ \A r \in Requests :
          /\ stage[r] \in {"new", "pending"} => via[r] = Unknown
          /\ stage[r] = "sent" => via[r] # Unknown
          /\ via[r] # Unknown => begun[r] <= sent[r]
          /\ stage[r] = "ended" => begun[r] <= ended[r]
          /\ logged[r] # "no" => stage[r] = "ended"
    /\ \A r \in rows : logged[r] = "file"

(* Under HTTP/1.1 a request is sent on a connection when those sent on it   *)
(* before have ended.                                                       *)
SerialInv ==
    protocol = "h1" =>
        \A q, r \in Requests :
            q # r /\ via[q] = via[r] /\ via[r] # Unknown =>
                \/ stage[q] = "ended" /\ ended[q] <= sent[r]
                \/ stage[r] = "ended" /\ ended[r] <= sent[q]

LogInv == OrderInv /\ SerialInv

LEMMA LogStep ==
    ASSUME LTypeOK, LogInv, [LNext]_attributionVars
    PROVE  LogInv'
<1> USE AttributionAssumption DEF LTypeOK
<1>1. ASSUME NEW p \in {"h1", "h2"}, Configure(p)
      PROVE  LogInv'
  BY <1>1 DEF Configure, LogInv, OrderInv, SerialInv
<1>2. ASSUME NEW r \in Requests, Arrive(r)
      PROVE  LogInv'
  <2>1. OrderInv'
    BY <1>2 DEF Arrive, LogInv, OrderInv
  <2>2. SerialInv'
    BY <1>2 DEF Arrive, LogInv, OrderInv, SerialInv
  <2> QED BY <2>1, <2>2 DEF LogInv
<1>3. ASSUME NEW r \in Requests, NEW c \in Conns, Forward(r, c)
      PROVE  LogInv'
  <2>1. OrderInv'
    BY <1>3 DEF Forward, LogInv, OrderInv
  <2>2. /\ via' = [via EXCEPT ![r] = c]
        /\ sent' = [sent EXCEPT ![r] = clock]
        /\ stage' = [stage EXCEPT ![r] = "sent"]
        /\ stage[r] = "pending" /\ Free(c)
        /\ protocol' = protocol /\ ended' = ended
    BY <1>3 DEF Forward
  <2>3. SerialInv'
    <3> SUFFICES ASSUME protocol = "h1", NEW q \in Requests, NEW s \in Requests,
                        q # s, via'[q] = via'[s], via'[s] # Unknown
                 PROVE  \/ stage'[q] = "ended" /\ ended[q] <= sent'[s]
                        \/ stage'[s] = "ended" /\ ended[s] <= sent'[q]
      BY <2>2 DEF SerialInv
    <3>1. CASE q # r /\ s # r
      BY <2>2, <3>1 DEF LogInv, SerialInv
    <3>2. ASSUME NEW o \in Requests, o # r, via[o] = c
          PROVE  stage[o] = "ended" /\ ended[o] <= clock
      BY <2>2, <3>2 DEF Free, LogInv, OrderInv
    <3> QED BY <2>2, <3>1, <3>2
  <2> QED BY <2>1, <2>3 DEF LogInv
<1>4. ASSUME NEW r \in Requests, Complete(r)
      PROVE  LogInv'
  <2>1. PICK t \in begun[r]..clock : ended' = [ended EXCEPT ![r] = t]
    BY <1>4 DEF Complete
  <2>2. begun[r] \in Nat /\ t \in Nat /\ begun[r] <= t
    OBVIOUS
  <2>3. OrderInv'
    BY <1>4, <2>1, <2>2 DEF Complete, LogInv, OrderInv
  <2>4. SerialInv'
    BY <1>4, <2>1 DEF Complete, LogInv, OrderInv, SerialInv
  <2> QED BY <2>3, <2>4 DEF LogInv
<1>5. ASSUME NEW r \in Requests, Flush(r)
      PROVE  LogInv'
  BY <1>5 DEF Flush, LogInv, OrderInv, SerialInv
<1>6. CASE Tick
  BY <1>6 DEF Tick, LogInv, OrderInv, SerialInv
<1>7. CASE Load
  BY <1>7 DEF Load, LogInv, OrderInv, SerialInv
<1>8. CASE UNCHANGED attributionVars
  BY <1>8 DEF attributionVars, LogInv, OrderInv, SerialInv
<1> QED
  BY <1>1, <1>2, <1>3, <1>4, <1>5, <1>6, <1>7, <1>8 DEF LNext

LEMMA LogAlways == LSpec => [](LTypeOK /\ LogInv)
<1>1. LInit => LogInv
  BY AttributionAssumption DEF LInit, LogInv, OrderInv, SerialInv
<1>2. LTypeOK /\ LogInv /\ [LNext]_attributionVars => LogInv'
  BY LogStep
<1> QED BY <1>1, <1>2, AttributionTyped, PTL DEF LSpec

(* A logged request is concurrent with itself.                              *)
LEMMA SelfConcurrent ==
    ASSUME LTypeOK, LogInv, NEW r \in rows
    PROVE  /\ r \in Requests
           /\ r \in Concurrent(r)
<1>1. r \in Requests /\ logged[r] = "file"
  BY DEF LTypeOK, LogInv, OrderInv
<1>2. /\ begun[r] \in Nat /\ ended[r] \in Nat
      /\ begun[r] <= ended[r]
  BY <1>1, AttributionAssumption DEF LTypeOK, LogInv, OrderInv
<1> QED BY <1>1, <1>2 DEF Concurrent, Middle

LEMMA ConcurrentFinite ==
    ASSUME LTypeOK, NEW r
    PROVE  IsFiniteSet({Sender[q] : q \in Concurrent(r)})
<1>1. Concurrent(r) \in SUBSET Requests
  BY DEF Concurrent, LTypeOK
<1>2. IsFiniteSet(Concurrent(r))
  BY <1>1, AttributionAssumption, FS_Subset
<1> DEFINE S == {Sender[q] : q \in Concurrent(r)}
           f == [q \in Concurrent(r) |-> Sender[q]]
<1>3. f \in Surjection(Concurrent(r), S)
  BY DEF Surjection
<1> QED BY <1>2, <1>3, FS_Surjection

(* What analyse() counts as exactly attributed had one possible cause, for  *)
(* any number of requests and connections.                                  *)
THEOREM ExactAlone == LSpec => []ExactIsAlone
<1>1. LTypeOK /\ LogInv => ExactIsAlone
  <2> SUFFICES ASSUME LTypeOK, LogInv,
                      NEW r \in rows, via[r] # Unknown, Exact(r),
                      NEW q \in rows, via[q] = via[r], Sender[q] # Sender[r],
                      2 * sent[q] <= Middle(r), Middle(r) <= 2 * ended[q]
               PROVE  FALSE
    BY DEF ExactIsAlone
  <2>1. q \in Requests /\ r \in Requests
    BY DEF LTypeOK
  <2>2. /\ begun[q] \in Nat /\ sent[q] \in Nat
        /\ Middle(r) \in Nat
        /\ begun[q] <= sent[q]
    BY <2>1, AttributionAssumption DEF LTypeOK, LogInv, OrderInv, Middle
  <2>3. q \in Concurrent(r)
    BY <2>2 DEF Concurrent
  <2>4. r \in Concurrent(r)
    BY SelfConcurrent
  <2> DEFINE S == {Sender[p] : p \in Concurrent(r)}
  <2>5. Sender[q] \in S /\ Sender[r] \in S
    BY <2>3, <2>4
  <2>6. PICK x : S = {x}
    <3>1. IsFiniteSet(S) /\ Cardinality(S) = 1
      BY ConcurrentFinite DEF Exact
    <3> HIDE DEF S
    <3> QED BY <3>1, FS_Singleton
  <2> QED BY <2>5, <2>6
<1> QED BY <1>1, LogAlways, PTL

(* HTTP/1.1 without waiting makes attribution exact, for any number of      *)
(* requests and connections.                                                *)
THEOREM SerialExact == LSpec => []SerialIsExact
<1>1. LTypeOK /\ LogInv => SerialIsExact
  <2> SUFFICES ASSUME LTypeOK, LogInv, protocol = "h1",
                      \A q \in rows : via[q] # Unknown => sent[q] = begun[q],
                      NEW r \in rows, via[r] # Unknown, begun[r] < ended[r]
               PROVE  Exact(r)
    BY DEF SerialIsExact
  <2>1. r \in Requests /\ r \in Concurrent(r)
    BY SelfConcurrent
  <2>2. ASSUME NEW q \in Concurrent(r), q # r
        PROVE  FALSE
    <3>1. /\ q \in rows /\ q \in Requests
          /\ via[q] = via[r]
          /\ 2 * begun[q] <= Middle(r) /\ Middle(r) <= 2 * ended[q]
      BY DEF Concurrent, LTypeOK
    <3>2. sent[q] = begun[q] /\ sent[r] = begun[r]
      BY <3>1
    <3>3. ended[q] <= sent[r] \/ ended[r] <= sent[q]
      BY <2>1, <2>2, <3>1 DEF LogInv, SerialInv
    <3>4. /\ begun[q] \in Nat /\ ended[q] \in Nat
          /\ begun[r] \in Nat /\ ended[r] \in Nat
      BY <2>1, <3>1, AttributionAssumption DEF LTypeOK
    <3> QED BY <3>1, <3>2, <3>3, <3>4 DEF Middle
  <2>3. {Sender[q] : q \in Concurrent(r)} = {Sender[r]}
    BY <2>1, <2>2
  <2> QED BY <2>3, FS_Singleton DEF Exact
<1> QED BY <1>1, LogAlways, PTL
==============================================================================
