-------------------------- MODULE H2ObserverProofs ---------------------------
(****************************************************************************)
(* Proofs about H2Observer, for any number of connections, every set of     *)
(* streams, and every length of the preface and of a frame's header.        *)
(****************************************************************************)
EXTENDS H2Observer, SequenceTheorems, TLAPS

(* What the parser of connection c has made of the bytes it was fed.        *)

(* Bytes parsed when k frames are listed.                                   *)
ParsedWith(c, k) ==
    IF k > 0 THEN stream[c].frames[k].end
    ELSE IF preface_seen[c] THEN PrefaceLen ELSE 0

(* The preface is decided on as soon as enough bytes have come, and once.   *)
PrefaceInv(c) ==
    /\ preface_seen[c] = (preface_checked[c] /\ stream[c].h2)
    /\ parse_failed[c] = (preface_checked[c] /\ ~stream[c].h2)
    /\ preface_checked[c] => bytes_total[c] >= PrefaceLen
    /\ up[c] # "preface" => preface_checked[c] = (bytes_total[c] >= PrefaceLen)

(* The frames listed are the first ones, and all their bytes have come.     *)
FramesInv(c) ==
    LET s == stream[c]
        k == Len(frames[c])
    IN  /\ k <= Len(s.frames)
        /\ \A j \in 1..k : frames[c][j] = s.frames[j]
        /\ k > 0 => preface_seen[c] /\ s.frames[k].end <= bytes_total[c]
        /\ up[c] = "cut" => k = 0 /\ bytes_parsed[c] = 0 /\ preface_seen[c]
        /\ up[c] = "enter" => /\ k < Len(s.frames) /\ preface_seen[c]
                              /\ s.frames[k + 1].end <= bytes_total[c]
                              /\ bytes_parsed[c] = s.frames[k + 1].end
        /\ up[c] = "headers" => k > 0
        /\ up[c] \notin {"cut", "enter"} => bytes_parsed[c] = ParsedWith(c, k)

(* Outside feed() no complete frame is left in the buffer.                  *)
DrainedInv(c) ==
    up[c] \notin Feeding =>
        \A j \in 1..Len(stream[c].frames) :
            stream[c].frames[j].end <= bytes_total[c] => j <= Len(frames[c])

(* A connection that is not yet accepted has no stream and no bytes; the    *)
(* pumps start when the server was reached.                                 *)
FreshInv(c) ==
    /\ conn[c] \in {"none", "accepted"} => up[c] = "none"
    /\ conn[c] = "none" => /\ bytes_total[c] = 0 /\ bytes_parsed[c] = 0
                           /\ ~preface_checked[c]
                           /\ frames[c] = <<>>

ParserInv ==
    \A c \in Conns :
        /\ PrefaceInv(c)
        /\ FramesInv(c)
        /\ DrainedInv(c)
        /\ FreshInv(c)

------------------------------------------------------------------------------
(* Streams.                                                                 *)

LEMMA StreamShape ==
    ASSUME NEW s \in Streams \cup {NoStream}
    PROVE  /\ s.h2 \in BOOLEAN /\ s.size \in Nat
           /\ s.frames \in Seq(Frame) /\ Len(s.frames) \in Nat
           /\ \A k \in 1..Len(s.frames) : /\ s.frames[k] \in Frame
                                          /\ s.frames[k].end \in Nat
                                          /\ s.frames[k].type \in {"HEADERS", "other"}
           /\ WellFormed(s)
<1>1. CASE s \in Streams
  <2>1. s \in StreamRecord /\ WellFormed(s)
    BY <1>1, ObserverAssumption
  <2>2. /\ s.h2 \in BOOLEAN /\ s.size \in Nat
        /\ s.frames \in Seq(Frame)
    BY <2>1 DEF StreamRecord
  <2>3. \A k \in 1..Len(s.frames) : s.frames[k] \in Frame
    BY <2>2, ElementOfSeq
  <2>4. \A f \in Frame : f.end \in Nat /\ f.type \in {"HEADERS", "other"}
    BY DEF Frame
  <2> QED BY <2>1, <2>2, <2>3, <2>4, LenProperties
<1>2. CASE s = NoStream
  BY <1>2 DEF NoStream, WellFormed
<1> QED BY <1>1, <1>2

(* The first frame ends after the preface and a header, and each later one  *)
(* a header or more after the one before.                                   *)
LEMMA FrameEnds ==
    ASSUME NEW s \in Streams \cup {NoStream},
           NEW j \in 1..Len(s.frames), NEW k \in 1..Len(s.frames)
    PROVE  /\ s.h2
           /\ s.frames[k].end >= PrefaceLen + HeaderLen
           /\ j < k => s.frames[k].end >= s.frames[j].end + HeaderLen
<1>1. /\ s.frames \in Seq(Frame) /\ Len(s.frames) \in Nat
      /\ \A i \in 1..Len(s.frames) : s.frames[i].end \in Nat
      /\ WellFormed(s)
  BY StreamShape
<1>2. s.frames # <<>> /\ 1 \in 1..Len(s.frames)
  BY <1>1
<1>3. s.h2 /\ s.frames[1].end >= PrefaceLen + HeaderLen
  BY <1>1, <1>2 DEF WellFormed
<1>4. \A i, l \in 1..Len(s.frames) :
          i < l => s.frames[l].end >= s.frames[i].end + HeaderLen
  BY <1>1 DEF WellFormed
<1>5. s.frames[k].end >= PrefaceLen + HeaderLen
  <2>1. CASE k = 1
    BY <1>3, <2>1
  <2>2. CASE 1 < k
    <3>1. s.frames[k].end >= s.frames[1].end + HeaderLen
      BY <1>2, <1>4, <2>2
    <3> QED BY <1>1, <1>2, <1>3, <3>1, ObserverAssumption
  <2> QED BY <2>1, <2>2
<1> QED BY <1>3, <1>4, <1>5

------------------------------------------------------------------------------
(* Steps that leave the parser of a connection alone.                       *)

(* What the invariant of one connection reads.                              *)
Fed(c) == <<stream[c], bytes_total[c], bytes_parsed[c], preface_checked[c],
            preface_seen[c], parse_failed[c], frames[c]>>

LEMMA SameConn ==
    ASSUME NEW c \in Conns, PrefaceInv(c), FramesInv(c), DrainedInv(c),
           FreshInv(c), Fed(c)' = Fed(c), up'[c] = up[c], conn'[c] = conn[c]
    PROVE  PrefaceInv(c)' /\ FramesInv(c)' /\ DrainedInv(c)' /\ FreshInv(c)'
  BY DEF PrefaceInv, FramesInv, DrainedInv, FreshInv, Fed, ParsedWith

(* The pump moves from one step outside feed() to another, or into it.      *)
LEMMA PumpMoves ==
    ASSUME NEW c \in Conns, PrefaceInv(c), FramesInv(c), DrainedInv(c),
           FreshInv(c), Fed(c)' = Fed(c),
           up[c] \notin Feeding,
           up'[c] \notin Feeding \/ up'[c] = "feed",
           conn'[c] \notin {"none", "accepted"}
    PROVE  PrefaceInv(c)' /\ FramesInv(c)' /\ DrainedInv(c)' /\ FreshInv(c)'
  BY DEF PrefaceInv, FramesInv, DrainedInv, FreshInv, Fed, ParsedWith, Feeding

------------------------------------------------------------------------------
(* The steps of feed().                                                     *)

LEMMA FeedStep ==
    ASSUME TypeOK, NEW c \in Conns, PrefaceInv(c), FramesInv(c),
           DrainedInv(c), FreshInv(c), Feed(c)
    PROVE  /\ PrefaceInv(c)' /\ FramesInv(c)' /\ DrainedInv(c)' /\ FreshInv(c)'
           /\ frames' \in [Conns -> Seq(Frame)]
           /\ headers_frames' \in [Conns -> Seq(Frame)]
           /\ bytes_parsed' \in [Conns -> Nat]
           /\ up' \in [Conns -> UpSteps]
<1> DEFINE s == stream[c]
           k == Len(frames[c])
<1>1. /\ s \in Streams \cup {NoStream}
      /\ s.h2 \in BOOLEAN /\ s.frames \in Seq(Frame) /\ Len(s.frames) \in Nat
      /\ \A j \in 1..Len(s.frames) : /\ s.frames[j] \in Frame
                                     /\ s.frames[j].end \in Nat
                                     /\ s.frames[j].type \in {"HEADERS", "other"}
      /\ PrefaceLen \in Nat \ {0} /\ HeaderLen \in Nat \ {0}
  BY StreamShape, ObserverAssumption DEF TypeOK
<1>2. /\ bytes_total[c] \in Nat /\ bytes_parsed[c] \in Nat /\ held[c] \in Nat
      /\ frames[c] \in Seq(Frame) /\ k \in Nat /\ k <= Len(s.frames)
      /\ headers_frames[c] \in Seq(Frame)
      /\ preface_seen[c] \in BOOLEAN /\ parse_failed[c] \in BOOLEAN
      /\ preface_checked[c] \in BOOLEAN
      /\ up[c] # "none"
      /\ conn[c] \notin {"none", "accepted"}
  BY LenProperties
     DEF TypeOK, FramesInv, FreshInv, Feed, FeedCount, FeedPreface,
         FeedCutPreface, FeedCutFrame, FeedEnter, FeedHeaders, FeedReturns
<1>3. conn' = conn /\ stream' = stream
  BY DEF Feed, FeedCount, FeedPreface, FeedCutPreface, FeedCutFrame, FeedEnter,
         FeedHeaders, FeedReturns, peerVars
<1>4. FreshInv(c)'
  BY <1>2, <1>3 DEF FreshInv
<1>5. up' \in [Conns -> UpSteps] /\ headers_frames' \in [Conns -> Seq(Frame)]
  <2>1. CASE FeedHeaders(c)
    <3>1. k > 0
      BY <2>1 DEF FeedHeaders, FramesInv
    <3>2. frames[c][k] \in Frame
      BY <1>2, <3>1, ElementOfSeq
    <3>3. Append(headers_frames[c], frames[c][k]) \in Seq(Frame)
      BY <1>2, <3>2, AppendProperties
    <3>4. headers_frames' \in [Conns -> Seq(Frame)]
      BY <2>1, <3>3 DEF FeedHeaders, TypeOK
    <3>5. up' \in [Conns -> UpSteps]
      <4>1. up' = [up EXCEPT ![c] = "frames"] /\ up \in [Conns -> UpSteps]
        BY <2>1 DEF FeedHeaders, TypeOK
      <4>2. "frames" \in UpSteps
        BY DEF UpSteps, Feeding
      <4> QED BY <4>1, <4>2
    <3> QED BY <3>4, <3>5
  <2>2. CASE ~FeedHeaders(c)
    BY <2>2 DEF Feed, FeedCount, FeedPreface, FeedCutPreface, FeedCutFrame,
                FeedEnter, FeedReturns, TypeOK, UpSteps, Feeding, parserVars
  <2> QED BY <2>1, <2>2
<1>6. CASE FeedCount(c)
  <2>1. /\ up[c] = "feed" /\ up'[c] = "preface"
        /\ bytes_total'[c] = bytes_total[c] + held[c]
        /\ UNCHANGED <<bytes_parsed, preface_checked, preface_seen,
                       parse_failed, frames, stream>>
    BY <1>6 DEF FeedCount, TypeOK, peerVars
  <2>2. PrefaceInv(c)'
    BY <1>1, <1>2, <2>1 DEF PrefaceInv
  <2>3. FramesInv(c)'
    BY <1>1, <1>2, <2>1 DEF FramesInv, ParsedWith
  <2>4. DrainedInv(c)'
    BY <2>1 DEF DrainedInv, Feeding
  <2> QED BY <1>4, <1>5, <2>1, <2>2, <2>3, <2>4 DEF TypeOK
<1>7. CASE FeedPreface(c)
  <2> DEFINE due == ~preface_checked[c] /\ bytes_total[c] >= PrefaceLen
  <2>1. /\ up[c] = "preface"
        /\ up'[c] = IF due /\ s.h2 THEN "cut" ELSE "frames"
        /\ preface_checked'[c] = (preface_checked[c] \/ due)
        /\ preface_seen'[c] = (preface_seen[c] \/ (due /\ s.h2))
        /\ parse_failed'[c] = (parse_failed[c] \/ (due /\ ~s.h2))
        /\ UNCHANGED <<bytes_total, bytes_parsed, frames, stream>>
    BY <1>7 DEF FeedPreface, TypeOK, peerVars
  <2>2. PrefaceInv(c)'
    <3>1. /\ preface_seen[c] = (preface_checked[c] /\ s.h2)
          /\ parse_failed[c] = (preface_checked[c] /\ ~s.h2)
          /\ preface_checked[c] => bytes_total[c] >= PrefaceLen
      BY DEF PrefaceInv
    <3> DEFINE enough == bytes_total[c] >= PrefaceLen
    <3>2. enough \in BOOLEAN
      BY <1>1, <1>2
    <3>3. stream'[c].h2 = s.h2 /\ (bytes_total'[c] >= PrefaceLen) = enough
      BY <2>1
    <3> HIDE DEF enough
    <3>4. preface_checked'[c] = enough
      BY <1>2, <2>1, <3>1, <3>2, Zenon DEF enough
    <3>5. preface_seen'[c] = (preface_checked'[c] /\ s.h2)
      BY <1>1, <1>2, <2>1, <3>1
    <3>6. parse_failed'[c] = (preface_checked'[c] /\ ~s.h2)
      BY <1>1, <1>2, <2>1, <3>1
    <3> QED BY <3>3, <3>4, <3>5, <3>6 DEF PrefaceInv
  <2>3. FramesInv(c)'
    <3>1. CASE due /\ s.h2
      <4>1. ~preface_seen[c] /\ k = 0
        BY <1>2, <3>1 DEF PrefaceInv, FramesInv
      <4>2. bytes_parsed[c] = 0
        BY <2>1, <4>1 DEF FramesInv, ParsedWith
      <4>3. up'[c] = "cut" /\ preface_seen'[c]
        BY <2>1, <3>1
      <4> QED BY <1>1, <1>2, <2>1, <4>1, <4>2, <4>3 DEF FramesInv
    <3>2. CASE ~(due /\ s.h2)
      <4>1. up'[c] = "frames" /\ preface_seen'[c] = preface_seen[c]
        BY <1>2, <2>1, <3>2
      <4> QED BY <1>1, <1>2, <2>1, <4>1 DEF FramesInv, ParsedWith
    <3> QED BY <3>1, <3>2
  <2>4. DrainedInv(c)'
    BY <2>1 DEF DrainedInv, Feeding
  <2> QED BY <1>4, <1>5, <2>1, <2>2, <2>3, <2>4 DEF TypeOK
<1>8. CASE FeedCutPreface(c)
  <2>1. /\ up[c] = "cut" /\ up'[c] = "frames"
        /\ bytes_parsed'[c] = bytes_parsed[c] + PrefaceLen
        /\ UNCHANGED <<bytes_total, preface_checked, preface_seen,
                       parse_failed, frames, stream>>
    BY <1>8 DEF FeedCutPreface, TypeOK, peerVars
  <2>5. bytes_parsed' \in [Conns -> Nat]
    <3>1. bytes_parsed[c] + PrefaceLen \in Nat
      BY <1>1, <1>2
    <3> QED BY <1>8, <3>1 DEF FeedCutPreface, TypeOK
  <2>2. PrefaceInv(c)'
    BY <2>1 DEF PrefaceInv
  <2>3. FramesInv(c)'
    BY <1>1, <1>2, <2>1 DEF FramesInv, ParsedWith
  <2>4. DrainedInv(c)'
    BY <2>1 DEF DrainedInv, Feeding
  <2> QED BY <1>4, <1>5, <2>1, <2>2, <2>3, <2>4, <2>5 DEF TypeOK
<1>9. CASE FeedCutFrame(c)
  <2>1. /\ up[c] = "frames" /\ up'[c] = "enter"
        /\ HasFrame(c)
        /\ bytes_parsed' = [bytes_parsed EXCEPT ![c] = s.frames[k + 1].end]
        /\ UNCHANGED <<bytes_total, preface_checked, preface_seen,
                       parse_failed, frames, stream>>
    BY <1>9 DEF FeedCutFrame, TypeOK, peerVars, NextFrame
  <2>2. /\ k < Len(s.frames) /\ preface_seen[c]
        /\ s.frames[k + 1].end <= bytes_total[c]
        /\ s.frames[k + 1].end \in Nat
    <3>1. k < Len(s.frames)
      BY <2>1 DEF HasFrame
    <3>2. k + 1 \in 1..Len(s.frames)
      BY <1>1, <1>2, <3>1
    <3> QED BY <1>1, <2>1, <3>1, <3>2 DEF HasFrame, NextFrame
  <2>3. /\ bytes_parsed'[c] = s.frames[k + 1].end
        /\ bytes_parsed' \in [Conns -> Nat]
    BY <2>1, <2>2 DEF TypeOK
  <2>4. PrefaceInv(c)'
    BY <2>1 DEF PrefaceInv
  <2>5. FramesInv(c)'
    BY <1>1, <1>2, <2>1, <2>2, <2>3 DEF FramesInv
  <2>6. DrainedInv(c)'
    BY <2>1 DEF DrainedInv, Feeding
  <2> QED BY <1>4, <1>5, <2>1, <2>3, <2>4, <2>5, <2>6 DEF TypeOK
<1>10. CASE FeedEnter(c)
  <2>1. /\ up[c] = "enter" /\ up'[c] \in {"headers", "frames"}
        /\ frames' = [frames EXCEPT ![c] = Append(@, s.frames[k + 1])]
        /\ UNCHANGED <<bytes_total, bytes_parsed, preface_checked,
                       preface_seen, parse_failed, stream>>
    BY <1>10 DEF FeedEnter, TypeOK, peerVars, NextFrame
  <2>2. /\ k < Len(s.frames) /\ preface_seen[c]
        /\ s.frames[k + 1].end <= bytes_total[c]
        /\ bytes_parsed[c] = s.frames[k + 1].end
        /\ s.frames[k + 1] \in Frame
    <3>1. /\ k < Len(s.frames) /\ preface_seen[c]
          /\ s.frames[k + 1].end <= bytes_total[c]
          /\ bytes_parsed[c] = s.frames[k + 1].end
      BY <2>1 DEF FramesInv
    <3>2. k + 1 \in 1..Len(s.frames)
      BY <1>1, <1>2, <3>1
    <3> QED BY <1>1, <3>1, <3>2
  <2>3. /\ frames'[c] = Append(frames[c], s.frames[k + 1])
        /\ frames' \in [Conns -> Seq(Frame)]
    <3>1. Append(frames[c], s.frames[k + 1]) \in Seq(Frame)
      BY <1>2, <2>2, AppendProperties
    <3> HIDE DEF s, k
    <3> QED BY <2>1, <3>1 DEF TypeOK
  <2>4. /\ Len(frames'[c]) = k + 1
        /\ \A j \in 1..k : frames'[c][j] = frames[c][j]
        /\ frames'[c][k + 1] = s.frames[k + 1]
    BY <1>2, <2>2, <2>3, AppendProperties
  <2>5. PrefaceInv(c)'
    BY <2>1 DEF PrefaceInv
  <2>6. FramesInv(c)'
    <3>1. \A j \in 1..k + 1 : frames'[c][j] = s.frames[j]
      <4>1. \A j \in 1..k : frames[c][j] = s.frames[j]
        BY DEF FramesInv
      <4>2. \A j \in 1..k + 1 : j \in 1..k \/ j = k + 1
        BY <1>2
      <4> HIDE DEF s, k
      <4> QED BY <2>4, <4>1, <4>2
    <3> QED BY <1>1, <1>2, <2>1, <2>2, <2>4, <3>1 DEF FramesInv, ParsedWith
  <2>7. DrainedInv(c)'
    BY <2>1 DEF DrainedInv, Feeding
  <2> QED BY <1>4, <1>5, <2>1, <2>3, <2>5, <2>6, <2>7 DEF TypeOK
<1>11. CASE FeedHeaders(c)
  <2>1. /\ up[c] = "headers" /\ up'[c] = "frames"
        /\ UNCHANGED <<bytes_total, bytes_parsed, preface_checked,
                       preface_seen, parse_failed, frames, stream>>
    BY <1>11 DEF FeedHeaders, TypeOK, peerVars
  <2>2. PrefaceInv(c)' /\ FramesInv(c)' /\ DrainedInv(c)'
    BY <2>1 DEF PrefaceInv, FramesInv, DrainedInv, ParsedWith, Feeding
  <2> QED BY <1>4, <1>5, <2>1, <2>2 DEF TypeOK
<1>12. CASE FeedReturns(c)
  <2>1. /\ up[c] = "frames" /\ up'[c] = "send"
        /\ ~HasFrame(c)
        /\ UNCHANGED <<bytes_total, bytes_parsed, preface_checked,
                       preface_seen, parse_failed, frames, stream>>
    BY <1>12 DEF FeedReturns, TypeOK, peerVars, parserVars
  <2>2. PrefaceInv(c)' /\ FramesInv(c)'
    BY <2>1 DEF PrefaceInv, FramesInv, ParsedWith
  <2>3. ASSUME NEW j \in 1..Len(s.frames), s.frames[j].end <= bytes_total[c],
               ~(j <= k)
        PROVE  FALSE
    <3>1. /\ s.h2 /\ s.frames[j].end >= PrefaceLen + HeaderLen
          /\ s.frames[j].end \in Nat
      BY <1>1, FrameEnds
    <3>2. bytes_total[c] >= PrefaceLen
      BY <1>1, <1>2, <2>3, <3>1
    <3>3. preface_seen[c] /\ ~parse_failed[c]
      BY <2>1, <3>1, <3>2 DEF PrefaceInv
    <3>4. k < Len(s.frames) /\ k + 1 \in 1..Len(s.frames) /\ k + 1 <= j
      BY <1>1, <1>2, <2>3
    <3>5. s.frames[k + 1].end <= s.frames[j].end /\ s.frames[k + 1].end \in Nat
      <4>1. CASE k + 1 = j
        BY <1>1, <3>4, <4>1
      <4>2. CASE k + 1 < j
        <5>1. s.frames[j].end >= s.frames[k + 1].end + HeaderLen
          BY <1>1, <3>4, <4>2, FrameEnds
        <5>2. s.frames[k + 1].end \in Nat /\ s.frames[j].end \in Nat
          BY <1>1, <3>4
        <5> QED BY <1>1, <5>1, <5>2
      <4> QED BY <1>2, <3>4, <4>1, <4>2
    <3>6. bytes_parsed[c] + HeaderLen <= s.frames[k + 1].end
      <4>1. bytes_parsed[c] = ParsedWith(c, k)
        BY <2>1 DEF FramesInv
      <4>2. CASE k > 0
        <5>1. bytes_parsed[c] = s.frames[k].end
          BY <4>1, <4>2 DEF ParsedWith
        <5>2. k \in 1..Len(s.frames) /\ k < k + 1
          BY <1>2, <3>4, <4>2
        <5> QED BY <1>1, <3>4, <5>1, <5>2, FrameEnds
      <4>3. CASE ~(k > 0)
        <5>1. bytes_parsed[c] = PrefaceLen
          BY <3>3, <4>1, <4>3 DEF ParsedWith
        <5> QED BY <1>1, <3>4, <5>1, FrameEnds
      <4> QED BY <4>2, <4>3
    <3>7. HasFrame(c)
      <4> DEFINE e == s.frames[k + 1].end
                 f == s.frames[j].end
                 n == bytes_total[c]
                 p == bytes_parsed[c]
      <4>1. e \in Nat /\ f \in Nat /\ e <= f
        BY <3>1, <3>5
      <4>2. n \in Nat /\ f <= n /\ p \in Nat /\ p + HeaderLen <= e
        BY <1>2, <2>3, <3>6
      <4> HIDE DEF e, f, n, p
      <4>3. e <= n /\ n >= p + HeaderLen
        BY <1>1, <4>1, <4>2
      <4> QED BY <3>3, <3>4, <4>3 DEF HasFrame, NextFrame, e, n, p
    <3> QED BY <2>1, <3>7
  <2>4. DrainedInv(c)'
    BY <1>2, <2>1, <2>3 DEF DrainedInv
  <2> QED BY <1>4, <1>5, <2>1, <2>2, <2>4 DEF TypeOK
<1> QED
  BY <1>6, <1>7, <1>8, <1>9, <1>10, <1>11, <1>12 DEF Feed

------------------------------------------------------------------------------
(* The other steps.                                                         *)

LEMMA DumpStep ==
    ASSUME TypeOK, Dump
    PROVE  /\ UNCHANGED <<conn, obs, parserVars, peerVars, pumpVars>>
           /\ reading' \in DumpSteps
           /\ todo' \in Seq(Conns)
           /\ reading' \notin {"no", "counted"} => todo' # <<>>
           /\ counted' \in Nat /\ listed' \in Nat
           /\ report' \in ReportRecord
<1> USE DEF DumpSteps
<1>1. /\ todo \in Seq(Conns)
      /\ reading \notin {"no", "counted"} => todo # <<>>
      /\ obs \in Seq(Conns) /\ Len(obs) \in Nat
      /\ counted \in Nat /\ listed \in Nat
      /\ report \in ReportRecord
  BY LenProperties DEF TypeOK
<1>2. NoReport \in ReportRecord
  BY DEF NoReport, ReportRecord
<1>3. CASE DumpStart
  BY <1>1, <1>2, <1>3 DEF DumpStart
<1>4. CASE DumpBegin
  BY <1>1, <1>4 DEF DumpBegin
<1>5. CASE DumpNext
  <2>1. todo # <<>> /\ Tail(todo) \in Seq(Conns) /\ Len(Tail(todo)) = Len(todo) - 1
    BY <1>1, <1>5, HeadTailProperties DEF DumpNext
  <2>2. Len(todo) # 1 => Tail(todo) # <<>>
    <3>1. Len(todo) \in Nat \ {0}
      BY <1>1, <2>1, EmptySeq
    <3>2. ASSUME Len(todo) # 1, Tail(todo) = <<>>
          PROVE  FALSE
      <4>1. Len(Tail(todo)) = 0
        BY <3>2, EmptySeq
      <4>2. Len(todo) - 1 = 0
        BY <2>1, <4>1
      <4> QED BY <3>1, <3>2, <4>2
    <3> QED BY <3>2
  <2> QED BY <1>1, <1>2, <1>5, <2>1, <2>2 DEF DumpNext
<1>6. CASE \/ ReadPreface \/ ReadFailed \/ ReadTotal \/ ReadParsed
           \/ ReadNumerator \/ ReadDenominator \/ ReadFrames
           \/ ReadHeaders \/ ReadIds \/ ReadEvents
  <2> USE DEF ReadPreface, ReadFailed, ReadTotal, ReadParsed, ReadNumerator,
              ReadDenominator, ReadFrames, ReadHeaders, ReadIds, ReadEvents, Read
  <2>1. This \in Conns
    BY <1>1, <1>6, HeadTailProperties DEF This
  <2>2. /\ parse_failed[This] \in BOOLEAN /\ preface_seen[This] \in BOOLEAN
        /\ bytes_parsed[This] \in Nat /\ bytes_total[This] \in Nat
        /\ frames[This] \in Seq(Frame) /\ Len(frames[This]) \in Nat
        /\ headers_frames[This] \in Seq(Frame)
        /\ Len(headers_frames[This]) \in Nat
    BY <2>1, LenProperties DEF TypeOK
  <2>3. StreamIds(headers_frames[This]) \subseteq Sids
    <3>1. \A k \in DOMAIN headers_frames[This] :
              headers_frames[This][k].stream_id \in Sids
      <4>1. \A f \in Frame : f.stream_id \in Sids
        BY DEF Frame
      <4>2. \A k \in DOMAIN headers_frames[This] : headers_frames[This][k] \in Frame
        BY <2>2, ElementOfSeq, LenProperties
      <4> QED BY <4>1, <4>2
    <3> QED BY <3>1 DEF StreamIds
  <2> HIDE DEF This
  <2>4. /\ UNCHANGED <<conn, obs, parserVars, peerVars, pumpVars, todo,
                       counted, listed>>
        /\ reading \notin {"no", "counted"}
        /\ reading' \in {"failed", "total", "parsed", "numerator",
                         "denominator", "frames", "headers", "ids", "events",
                         "next"}
    BY <1>6
  <2>5. report' \in ReportRecord
    <3> USE DEF ReportRecord
    <3>1. CASE ReadPreface
      BY <1>1, <2>2, <3>1
    <3>2. CASE ReadFailed
      BY <1>1, <2>2, <3>2
    <3>3. CASE ReadTotal
      BY <1>1, <2>2, <3>3
    <3>4. CASE ReadParsed
      BY <1>1, <2>2, <3>4
    <3>5. CASE ReadNumerator
      BY <1>1, <2>2, <3>5
    <3>6. CASE ReadDenominator
      BY <1>1, <2>2, <3>6 DEF Fraction
    <3>7. CASE ReadFrames
      BY <1>1, <2>2, <3>7
    <3>8. CASE ReadHeaders
      BY <1>1, <2>2, <3>8
    <3>9. CASE ReadIds
      BY <1>1, <2>3, <3>9
    <3>10. CASE ReadEvents
      BY <1>1, <2>2, <3>10
    <3> QED
      BY <1>6, <3>1, <3>2, <3>3, <3>4, <3>5, <3>6, <3>7, <3>8, <3>9, <3>10
  <2> QED BY <1>1, <2>4, <2>5
<1> QED BY <1>3, <1>4, <1>5, <1>6 DEF Dump

(* The handlers, the pumps and the peers leave the parsers and the report   *)
(* alone; what they do to the steps of the pumps keeps clear of feed().     *)
Other(c) ==
    \/ \E s \in Streams : Accept(c, s)
    \/ ConnectFails(c) \/ Register(c) \/ Close(c)
    \/ \E peer \in {"client", "server"} : PeerCloses(c, peer)
    \/ \E n \in 1..MaxRecv : UpRecv(c, n)
    \/ UpSend(c) \/ UpBreaks(c) \/ UpFinally(c)
    \/ DownRecv(c) \/ DownSend(c) \/ DownBreaks(c) \/ DownFinally(c)

LEMMA NextSteps ==
    Next => \/ \E c \in Conns : Feed(c) \/ Other(c)
            \/ Dump
  BY DEF Next, Other

LEMMA OtherTyped ==
    ASSUME TypeOK, NEW c \in Conns, Other(c)
    PROVE  TypeOK'
<1> USE DEF parserVars, peerVars, pumpVars, dumpVars
<1>1. \A d \in Conns : stream[d].size \in Nat
  BY StreamShape DEF TypeOK
<1>2. CASE \E s \in Streams : Accept(c, s)
  BY <1>2 DEF Accept, TypeOK
<1>3. CASE Register(c)
  <2>1. Append(obs, c) \in Seq(Conns)
    BY AppendProperties DEF TypeOK
  <2> QED BY <1>3, <2>1 DEF Register, TypeOK, UpSteps, DownSteps
<1>4. CASE ConnectFails(c) \/ Close(c)
  BY <1>4 DEF ConnectFails, Close, TypeOK
<1>5. ASSUME NEW peer \in {"client", "server"}, PeerCloses(c, peer)
      PROVE  TypeOK'
  <2>1. gone' \in [Conns -> SUBSET {"client", "server"}]
    BY <1>5 DEF PeerCloses, TypeOK
  <2> QED BY <1>5, <2>1 DEF PeerCloses, TypeOK
<1>u. /\ up \in [Conns -> UpSteps] /\ down \in [Conns -> DownSteps]
      /\ {"recv", "send", "feed", "shut src", "shut dst", "ended"} \subseteq UpSteps
      /\ {"recv", "send", "shut src", "shut dst", "ended"} \subseteq DownSteps
      /\ shut \in [Conns -> SUBSET {"client", "server"}]
      /\ held \in [Conns -> Nat] /\ sent_on \in [Conns -> Nat]
  BY DEF TypeOK, UpSteps, DownSteps, Feeding
<1>6. ASSUME NEW n \in 1..MaxRecv, UpRecv(c, n)
      PROVE  TypeOK'
  <2>1. n \in Nat
    BY <1>1
  <2>2. held' \in [Conns -> Nat] /\ up' \in [Conns -> UpSteps]
    BY <1>6, <1>u, <2>1 DEF UpRecv
  <2> QED BY <1>6, <2>2 DEF UpRecv, TypeOK
<1>7. CASE UpSend(c)
  <2>0. sent_on[c] \in Nat /\ held[c] \in Nat
    BY <1>u
  <2> DEFINE a == sent_on[c]  b == held[c]
  <2>1. sent_on[c] + held[c] \in Nat
    <3>1. a \in Nat /\ b \in Nat
      BY <2>0
    <3> HIDE DEF a, b
    <3>2. a + b \in Nat
      BY <3>1
    <3> QED BY <3>2 DEF a, b
  <2> HIDE DEF a, b
  <2>2. /\ held' \in [Conns -> Nat] /\ sent_on' \in [Conns -> Nat]
        /\ up' \in [Conns -> UpSteps]
    BY <1>7, <1>u, <2>1 DEF UpSend
  <2> QED BY <1>7, <2>2 DEF UpSend, TypeOK
<1>8. CASE UpBreaks(c) \/ UpFinally(c)
  <2>1. PICK u \in {"shut src", "shut dst", "ended"} : up' = [up EXCEPT ![c] = u]
    BY <1>8 DEF UpBreaks, UpFinally, ShutDown
  <2>2. up' \in [Conns -> UpSteps]
    BY <2>1, <1>u
  <2>3. PICK e \in SUBSET {"client", "server"} : shut' = [shut EXCEPT ![c] = e]
    <3>1. shut' = shut => shut' = [shut EXCEPT ![c] = shut[c]]
      BY <1>u
    <3> QED BY <1>8, <1>u, <3>1 DEF UpBreaks, UpFinally, ShutDown
  <2>4. shut' \in [Conns -> SUBSET {"client", "server"}]
    BY <2>3, <1>u
  <2> QED BY <1>8, <2>2, <2>4 DEF UpBreaks, UpFinally, TypeOK
<1>9. CASE DownRecv(c) \/ DownSend(c) \/ DownBreaks(c) \/ DownFinally(c)
  <2>1. PICK u \in {"recv", "send", "shut src", "shut dst", "ended"} :
           down' = [down EXCEPT ![c] = u]
    BY <1>9 DEF DownRecv, DownSend, DownBreaks, DownFinally, ShutDown
  <2>2. down' \in [Conns -> DownSteps]
    BY <2>1, <1>u
  <2>3. PICK e \in SUBSET {"client", "server"} : shut' = [shut EXCEPT ![c] = e]
    <3>1. shut' = shut => shut' = [shut EXCEPT ![c] = shut[c]]
      BY <1>u
    <3> QED BY <1>9, <1>u, <3>1
          DEF DownRecv, DownSend, DownBreaks, DownFinally, ShutDown
  <2>4. shut' \in [Conns -> SUBSET {"client", "server"}]
    BY <2>3, <1>u
  <2> QED BY <1>9, <2>2, <2>4 DEF DownRecv, DownSend, DownBreaks, DownFinally, TypeOK
<1> QED
  BY <1>2, <1>3, <1>4, <1>5, <1>6, <1>7, <1>8, <1>9 DEF Other

LEMMA FeedTyped ==
    ASSUME TypeOK, ParserInv, NEW c \in Conns, Feed(c)
    PROVE  TypeOK'
<1>1. /\ frames' \in [Conns -> Seq(Frame)]
      /\ headers_frames' \in [Conns -> Seq(Frame)]
      /\ bytes_parsed' \in [Conns -> Nat]
      /\ up' \in [Conns -> UpSteps]
  BY FeedStep DEF ParserInv
<1>2. /\ bytes_total' \in [Conns -> Nat]
      /\ preface_checked' \in [Conns -> BOOLEAN]
      /\ preface_seen' \in [Conns -> BOOLEAN]
      /\ parse_failed' \in [Conns -> BOOLEAN]
  <2>1. CASE FeedCount(c)
    <3>1. bytes_total[c] \in Nat /\ held[c] \in Nat
      BY DEF TypeOK
    <3>2. bytes_total[c] + held[c] \in Nat
      BY <3>1
    <3> QED BY <2>1, <3>2 DEF FeedCount, TypeOK
  <2>2. CASE ~FeedCount(c)
    BY <2>2 DEF Feed, FeedPreface, FeedCutPreface, FeedCutFrame, FeedEnter,
                FeedHeaders, FeedReturns, TypeOK, parserVars
  <2> QED BY <2>1, <2>2
<1>3. UNCHANGED <<conn, obs, peerVars, down, held, sent_on, shut, dumpVars>>
  BY DEF Feed, FeedCount, FeedPreface, FeedCutPreface, FeedCutFrame, FeedEnter,
         FeedHeaders, FeedReturns
<1> QED BY <1>1, <1>2, <1>3 DEF TypeOK, peerVars, dumpVars

LEMMA OtherParser ==
    ASSUME TypeOK, ParserInv, NEW c \in Conns, Other(c)
    PROVE  ParserInv'
<1> USE DEF parserVars, peerVars, pumpVars, dumpVars
<1> SUFFICES ASSUME NEW d \in Conns
             PROVE  PrefaceInv(d)' /\ FramesInv(d)' /\ DrainedInv(d)' /\ FreshInv(d)'
  BY DEF ParserInv
<1>1. PrefaceInv(d) /\ FramesInv(d) /\ DrainedInv(d) /\ FreshInv(d)
  BY DEF ParserInv
<1>2. UNCHANGED parserVars
  BY DEF Other, Accept, ConnectFails, Register, Close, PeerCloses, UpRecv,
         UpSend, UpBreaks, UpFinally, DownRecv, DownSend, DownBreaks,
         DownFinally
<1>3. CASE \E s \in Streams : Accept(c, s)
  <2>1. PICK s \in Streams : Accept(c, s)
    BY <1>3
  <2>2. CASE d = c
    <3>1. /\ conn[d] = "none" /\ conn'[d] = "accepted" /\ up'[d] = up[d]
          /\ stream'[d] = s
      BY <2>1, <2>2 DEF Accept, TypeOK
    <3>2. /\ bytes_total[d] = 0 /\ bytes_parsed[d] = 0
          /\ ~preface_checked[d] /\ frames[d] = <<>> /\ up[d] = "none"
      BY <1>1, <3>1 DEF FreshInv
    <3>3. ~preface_seen[d] /\ ~parse_failed[d]
      BY <1>1, <3>2 DEF PrefaceInv, TypeOK
    <3>4. PrefaceInv(d)'
      <4>1. /\ bytes_total'[d] = 0 /\ ~preface_checked'[d]
            /\ ~preface_seen'[d] /\ ~parse_failed'[d] /\ up'[d] = "none"
        BY <1>2, <3>1, <3>2, <3>3
      <4>2. /\ preface_checked'[d] = FALSE /\ preface_seen'[d] = FALSE
            /\ parse_failed'[d] = FALSE
        BY <1>2, <4>1 DEF TypeOK
      <4>3. (bytes_total'[d] >= PrefaceLen) = FALSE
        BY <4>1, ObserverAssumption
      <4> QED BY <4>2, <4>3 DEF PrefaceInv
    <3>5. Len(s.frames) \in Nat
      BY StreamShape
    <3>6. FramesInv(d)'
      BY <1>2, <3>1, <3>2, <3>3, <3>5 DEF FramesInv, ParsedWith
    <3>7. DrainedInv(d)'
      <4>1. \A j \in 1..Len(s.frames) : ~(s.frames[j].end <= 0)
        <5> TAKE j \in 1..Len(s.frames)
        <5>1. s.frames[j].end >= PrefaceLen + HeaderLen /\ s.frames[j].end \in Nat
          BY FrameEnds, StreamShape
        <5> QED BY <5>1, ObserverAssumption
      <4> QED BY <1>2, <3>1, <3>2, <4>1 DEF DrainedInv
    <3>8. FreshInv(d)'
      BY <3>1, <3>2 DEF FreshInv
    <3> QED BY <3>4, <3>6, <3>7, <3>8
  <2>3. CASE d # c
    <3>1. Fed(d)' = Fed(d) /\ up'[d] = up[d] /\ conn'[d] = conn[d]
      BY <1>2, <2>1, <2>3 DEF Accept, TypeOK, Fed
    <3> QED BY <1>1, <3>1, SameConn
  <2> QED BY <2>2, <2>3
<1>4. CASE ~ \E s \in Streams : Accept(c, s)
  <2>1. stream' = stream
    BY <1>4 DEF Other, ConnectFails, Register, Close, PeerCloses, UpRecv,
                UpSend, UpBreaks, UpFinally, DownRecv, DownSend, DownBreaks,
                DownFinally
  <2>2. Fed(d)' = Fed(d)
    BY <1>2, <2>1 DEF Fed
  <2>3. CASE d # c
    <3>1. up'[d] = up[d] /\ conn'[d] = conn[d]
      BY <1>4, <2>3
         DEF Other, ConnectFails, Register, Close, PeerCloses, UpRecv, UpSend,
             UpBreaks, UpFinally, ShutDown, DownRecv, DownSend, DownBreaks,
             DownFinally, TypeOK
    <3> QED BY <1>1, <2>2, <3>1, SameConn
  <2>4. CASE d = c
    <3>1. CASE ConnectFails(c) \/ Close(c)
      <4>1. up'[d] = up[d] /\ conn'[d] = "closed"
        BY <2>4, <3>1 DEF ConnectFails, Close, TypeOK
      <4>2. PrefaceInv(d)' /\ FramesInv(d)' /\ DrainedInv(d)'
        BY <1>1, <2>2, <4>1 DEF PrefaceInv, FramesInv, DrainedInv, Fed, ParsedWith
      <4> QED BY <4>1, <4>2 DEF FreshInv
    <3>2. CASE \/ \E peer \in {"client", "server"} : PeerCloses(c, peer)
               \/ DownRecv(c) \/ DownSend(c) \/ DownBreaks(c)
               \/ DownFinally(c)
      <4>1. up'[d] = up[d] /\ conn'[d] = conn[d]
        BY <3>2 DEF PeerCloses, DownRecv, DownSend, DownBreaks, DownFinally
      <4> QED BY <1>1, <2>2, <4>1, SameConn
    <3>3. CASE \/ Register(c) \/ UpSend(c) \/ UpBreaks(c) \/ UpFinally(c)
               \/ \E n \in 1..MaxRecv : UpRecv(c, n)
      <4>1. /\ up[d] \notin Feeding
            /\ up'[d] \notin Feeding \/ up'[d] = "feed"
            /\ conn'[d] \notin {"none", "accepted"}
        <5>1. FreshInv(d) /\ conn[d] \in {"none", "accepted", "open", "closed"}
          BY <1>1 DEF TypeOK
        <5>2. /\ up \in [Conns -> UpSteps]
              /\ conn \in [Conns -> {"none", "accepted", "open", "closed"}]
          BY DEF TypeOK
        <5>3. CASE Register(c)
          BY <2>4, <5>1, <5>2, <5>3 DEF Register, FreshInv, Feeding
        <5>4. CASE UpSend(c) \/ UpBreaks(c)
          BY <2>4, <5>1, <5>2, <5>4 DEF UpSend, UpBreaks, FreshInv, Feeding
        <5>5. CASE UpFinally(c)
          BY <2>4, <5>1, <5>2, <5>5 DEF UpFinally, ShutDown, FreshInv, Feeding
        <5>6. CASE \E n \in 1..MaxRecv : UpRecv(c, n)
          BY <2>4, <5>1, <5>2, <5>6 DEF UpRecv, FreshInv, Feeding
        <5> QED BY <3>3, <5>3, <5>4, <5>5, <5>6
      <4> QED BY <1>1, <2>2, <4>1, PumpMoves
    <3> QED BY <1>4, <3>1, <3>2, <3>3 DEF Other
  <2> QED BY <2>3, <2>4
<1> QED BY <1>3, <1>4

LEMMA ParserStep ==
    ASSUME TypeOK, ParserInv, [Next]_vars
    PROVE  TypeOK' /\ ParserInv'
<1>1. ASSUME NEW c \in Conns, Feed(c)
      PROVE  TypeOK' /\ ParserInv'
  <2>1. ASSUME NEW d \in Conns, d # c
        PROVE  Fed(d)' = Fed(d) /\ up'[d] = up[d] /\ conn'[d] = conn[d]
    BY <1>1, <2>1
       DEF Feed, FeedCount, FeedPreface, FeedCutPreface, FeedCutFrame,
           FeedEnter, FeedHeaders, FeedReturns, TypeOK, Fed, peerVars, parserVars
  <2>2. ASSUME NEW d \in Conns
        PROVE  PrefaceInv(d)' /\ FramesInv(d)' /\ DrainedInv(d)' /\ FreshInv(d)'
    <3>1. PrefaceInv(d) /\ FramesInv(d) /\ DrainedInv(d) /\ FreshInv(d)
      BY DEF ParserInv
    <3>2. CASE d = c
      BY <1>1, <3>1, <3>2, FeedStep
    <3>3. CASE d # c
      BY <2>1, <3>1, <3>3, SameConn
    <3> QED BY <3>2, <3>3
  <2> QED BY <1>1, <2>2, FeedTyped DEF ParserInv
<1>2. ASSUME NEW c \in Conns, Other(c)
      PROVE  TypeOK' /\ ParserInv'
  BY <1>2, OtherTyped, OtherParser
<1>3. CASE Dump \/ UNCHANGED vars
  <2>1. UNCHANGED <<conn, obs, parserVars, peerVars, pumpVars>>
    BY <1>3, DumpStep DEF vars
  <2>2. TypeOK'
    <3>1. CASE Dump
      BY <2>1, <3>1, DumpStep DEF TypeOK, parserVars, peerVars, pumpVars
    <3>2. CASE UNCHANGED vars
      BY <3>2 DEF vars, TypeOK, parserVars, peerVars, pumpVars, dumpVars
    <3> QED BY <1>3, <3>1, <3>2
  <2>3. ParserInv'
    <3> SUFFICES ASSUME NEW d \in Conns
                 PROVE  PrefaceInv(d)' /\ FramesInv(d)' /\ DrainedInv(d)' /\ FreshInv(d)'
      BY DEF ParserInv
    <3>1. PrefaceInv(d) /\ FramesInv(d) /\ DrainedInv(d) /\ FreshInv(d)
      BY DEF ParserInv
    <3>2. Fed(d)' = Fed(d) /\ up'[d] = up[d] /\ conn'[d] = conn[d]
      BY <2>1 DEF Fed, parserVars, peerVars, pumpVars
    <3> QED BY <3>1, <3>2, SameConn
  <2> QED BY <2>2, <2>3
<1> QED BY <1>1, <1>2, <1>3, NextSteps

LEMMA ParserAlways == Spec => [](TypeOK /\ ParserInv)
<1>1. Init => TypeOK
  BY ObserverAssumption DEF Init, TypeOK, NoReport, UpSteps, DownSteps, DumpSteps,
                            ReportRecord
<1>2. Init => ParserInv
  <2> SUFFICES ASSUME Init, NEW c \in Conns
               PROVE  PrefaceInv(c) /\ FramesInv(c) /\ DrainedInv(c) /\ FreshInv(c)
    BY DEF ParserInv
  <2>1. /\ bytes_total[c] = 0 /\ bytes_parsed[c] = 0
        /\ preface_checked[c] = FALSE /\ preface_seen[c] = FALSE
        /\ parse_failed[c] = FALSE
        /\ frames[c] = <<>> /\ up[c] = "none" /\ conn[c] = "none"
        /\ stream[c].frames = <<>>
    BY DEF Init, NoStream
  <2>2. (bytes_total[c] >= PrefaceLen) = FALSE
    BY <2>1, ObserverAssumption
  <2>3. PrefaceInv(c)
    BY <2>1, <2>2 DEF PrefaceInv
  <2>4. FramesInv(c) /\ DrainedInv(c) /\ FreshInv(c)
    BY <2>1 DEF FramesInv, DrainedInv, FreshInv, ParsedWith
  <2> QED BY <2>3, <2>4
<1>3. TypeOK /\ ParserInv /\ [Next]_vars => (TypeOK /\ ParserInv)'
  BY ParserStep
<1> QED BY <1>1, <1>2, <1>3, PTL DEF Spec

(* The observer's table, parsers, pumps and report keep their types.        *)
THEOREM TypeCorrect == Spec => []TypeOK
  BY ParserAlways, PTL

(* However a stream is cut, feed() leaves behind exactly the frames that    *)
(* have come in full, and the preface's verdict.                            *)
THEOREM CutsLeaveNoTrace == Spec => []CutsDoNotMatter
<1>1. TypeOK /\ ParserInv => CutsDoNotMatter
  <2> SUFFICES ASSUME TypeOK, ParserInv, NEW c \in Conns, up[c] \notin Feeding
               PROVE  LET s == stream[c]
                          n == bytes_total[c]
                          k == Len(frames[c])
                      IN  /\ preface_seen[c] = (s.h2 /\ n >= PrefaceLen)
                          /\ parse_failed[c] = (~s.h2 /\ n >= PrefaceLen)
                          /\ k <= Len(s.frames)
                          /\ \A j \in 1..k : frames[c][j] = s.frames[j]
                          /\ \A j \in 1..Len(s.frames) :
                                j <= k <=> s.frames[j].end <= n
                          /\ bytes_parsed[c] = IF k > 0 THEN s.frames[k].end
                                               ELSE IF preface_seen[c]
                                                    THEN PrefaceLen ELSE 0
    BY DEF CutsDoNotMatter
  <2> DEFINE s == stream[c]
             n == bytes_total[c]
             k == Len(frames[c])
  <2>1. PrefaceInv(c) /\ FramesInv(c) /\ DrainedInv(c)
    BY DEF ParserInv
  <2>2. /\ s \in Streams \cup {NoStream} /\ n \in Nat /\ k \in Nat
        /\ Len(s.frames) \in Nat
        /\ \A j \in 1..Len(s.frames) : s.frames[j].end \in Nat
    BY StreamShape, LenProperties DEF TypeOK
  <2>3. /\ preface_seen[c] = (s.h2 /\ n >= PrefaceLen)
        /\ parse_failed[c] = (~s.h2 /\ n >= PrefaceLen)
    BY <2>1 DEF PrefaceInv, Feeding
  <2>4. /\ k <= Len(s.frames)
        /\ \A j \in 1..k : frames[c][j] = s.frames[j]
        /\ k > 0 => s.frames[k].end <= n
        /\ bytes_parsed[c] = ParsedWith(c, k)
    BY <2>1 DEF FramesInv, Feeding
  <2>5. ASSUME NEW j \in 1..Len(s.frames)
        PROVE  j <= k <=> s.frames[j].end <= n
    <3>1. s.frames[j].end <= n => j <= k
      BY <2>1 DEF DrainedInv
    <3>2. ASSUME j <= k
          PROVE  s.frames[j].end <= n
      <4>1. k \in 1..Len(s.frames) /\ s.frames[k].end <= n
        BY <2>2, <2>4, <2>5, <3>2
      <4>2. CASE j = k
        BY <4>1, <4>2
      <4>3. CASE j < k
        <5> DEFINE e == s.frames[j].end
                   f == s.frames[k].end
        <5>1. e \in Nat /\ f \in Nat /\ f >= e + HeaderLen /\ f <= n
          BY <2>2, <4>1, <4>3, FrameEnds
        <5> HIDE DEF e, f, n
        <5>2. e <= n
          BY <2>2, <5>1, ObserverAssumption
        <5> QED BY <5>2 DEF e, n
      <4> QED BY <2>2, <3>2, <4>2, <4>3
    <3> QED BY <3>1, <3>2
  <2> QED BY <2>3, <2>4, <2>5 DEF ParsedWith
<1> QED BY <1>1, ParserAlways, PTL

------------------------------------------------------------------------------
(* The pump from the client.                                                *)

(* What it received it holds until it was sent on; the parser is fed first. *)
PumpInv ==
    \A c \in Conns :
        /\ up[c] \in {"none", "recv"} => held[c] = 0
        /\ up[c] = "feed" => bytes_total[c] = sent_on[c]
        /\ up[c] # "feed" => bytes_total[c] = sent_on[c] + held[c]

LEMMA PumpInvStep ==
    ASSUME TypeOK, ParserInv, PumpInv, [Next]_vars
    PROVE  PumpInv'
<1> USE DEF parserVars, peerVars, pumpVars, dumpVars
<1>t. /\ up \in [Conns -> UpSteps] /\ held \in [Conns -> Nat]
      /\ sent_on \in [Conns -> Nat] /\ bytes_total \in [Conns -> Nat]
  BY DEF TypeOK
<1> SUFFICES ASSUME NEW d \in Conns
             PROVE  /\ up'[d] \in {"none", "recv"} => held'[d] = 0
                    /\ up'[d] = "feed" => bytes_total'[d] = sent_on'[d]
                    /\ up'[d] # "feed" => bytes_total'[d] = sent_on'[d] + held'[d]
  BY DEF PumpInv
<1> DEFINE b == bytes_total[d]
           h == held[d]
           s == sent_on[d]
<1>i. /\ b \in Nat /\ h \in Nat /\ s \in Nat
      /\ up[d] \in {"none", "recv"} => h = 0
      /\ up[d] = "feed" => b = s
      /\ up[d] # "feed" => b = s + h
  BY <1>t DEF PumpInv
(* The pump moves on with what it has, or stays where it is.                *)
<1>1. CASE /\ bytes_total'[d] = b /\ held'[d] = h /\ sent_on'[d] = s
           /\ \/ up'[d] = up[d]
              \/ up[d] # "feed" /\ up'[d] \notin {"none", "recv", "feed"}
              \/ up[d] = "none" /\ up'[d] = "recv"
  BY <1>1, <1>i
<1>2. CASE FeedCount(d)
  <2>1. /\ up[d] = "feed" /\ up'[d] = "preface"
        /\ bytes_total'[d] = b + h /\ held'[d] = h /\ sent_on'[d] = s
    BY <1>2, <1>t DEF FeedCount
  <2> QED BY <1>i, <2>1
<1>3. ASSUME NEW n \in 1..MaxRecv, UpRecv(d, n)
      PROVE  /\ up'[d] = "feed"
             /\ bytes_total'[d] = sent_on'[d]
  <2>1. /\ up[d] = "recv" /\ up'[d] = "feed"
        /\ bytes_total'[d] = b /\ sent_on'[d] = s
    BY <1>3, <1>t DEF UpRecv
  <2> QED BY <1>i, <2>1
<1>4. CASE UpSend(d)
  <2>1. /\ up[d] = "send" /\ up'[d] = "recv"
        /\ bytes_total'[d] = b /\ held'[d] = 0 /\ sent_on'[d] = s + h
    BY <1>4, <1>t DEF UpSend
  <2> QED BY <1>i, <2>1
<1>5. CASE Register(d)
  <2>1. /\ up[d] = "none" /\ up'[d] = "recv"
        /\ bytes_total'[d] = b /\ held'[d] = h /\ sent_on'[d] = s
    BY <1>5, <1>t DEF Register, ParserInv, FreshInv
  <2> QED BY <1>1, <2>1
<1>6. CASE \/ FeedPreface(d) \/ FeedCutPreface(d) \/ FeedCutFrame(d)
           \/ FeedEnter(d) \/ FeedHeaders(d) \/ FeedReturns(d)
           \/ UpBreaks(d) \/ UpFinally(d)
  <2>1. bytes_total' = bytes_total /\ held' = held /\ sent_on' = sent_on
    BY <1>6 DEF FeedPreface, FeedCutPreface, FeedCutFrame, FeedEnter,
                FeedHeaders, FeedReturns, UpBreaks, UpFinally
  <2>2. up[d] # "feed" /\ up'[d] \notin {"none", "recv", "feed"}
    BY <1>6, <1>t
       DEF FeedPreface, FeedCutPreface, FeedCutFrame, FeedEnter, FeedHeaders,
           FeedReturns, UpBreaks, UpFinally, ShutDown
  <2> QED BY <1>1, <2>1, <2>2
<1>7. ASSUME NEW c \in Conns, Feed(c) \/ Other(c)
      PROVE  /\ up'[d] \in {"none", "recv"} => held'[d] = 0
             /\ up'[d] = "feed" => bytes_total'[d] = sent_on'[d]
             /\ up'[d] # "feed" => bytes_total'[d] = sent_on'[d] + held'[d]
  <2>1. CASE c = d
    <3>1. CASE \/ \E str \in Streams : Accept(c, str)
               \/ ConnectFails(c) \/ Close(c)
               \/ \E peer \in {"client", "server"} : PeerCloses(c, peer)
               \/ DownRecv(c) \/ DownSend(c) \/ DownBreaks(c) \/ DownFinally(c)
      <4>1. UNCHANGED <<bytes_total, held, sent_on, up>>
        BY <3>1 DEF Accept, ConnectFails, Close, PeerCloses, DownRecv,
                    DownSend, DownBreaks, DownFinally
      <4> QED BY <1>1, <4>1
    <3> QED BY <1>7, <2>1, <1>2, <1>3, <1>4, <1>5, <1>6, <3>1 DEF Feed, Other
  <2>2. CASE c # d
    <3>1. CASE Feed(c)
      <4>1. /\ bytes_total'[d] = b /\ up'[d] = up[d]
            /\ held' = held /\ sent_on' = sent_on
        BY <1>t, <2>2, <3>1
           DEF Feed, FeedCount, FeedPreface, FeedCutPreface, FeedCutFrame,
               FeedEnter, FeedHeaders, FeedReturns
      <4> QED BY <1>1, <4>1
    <3>2. CASE Other(c)
      <4>1. /\ bytes_total' = bytes_total /\ up'[d] = up[d]
            /\ held'[d] = h /\ sent_on'[d] = s
        BY <1>t, <2>2, <3>2
           DEF Other, Accept, ConnectFails, Register, Close, PeerCloses,
               UpRecv, UpSend, UpBreaks, UpFinally, ShutDown, DownRecv,
               DownSend, DownBreaks, DownFinally
      <4> QED BY <1>1, <4>1
    <3> QED BY <1>7, <3>1, <3>2
  <2> QED BY <2>1, <2>2
<1>8. CASE Dump \/ UNCHANGED vars
  <2>1. UNCHANGED <<bytes_total, held, sent_on, up>>
    BY <1>8, DumpStep DEF vars
  <2> QED BY <1>1, <2>1
<1> QED BY <1>7, <1>8, NextSteps

(* The observer has read every byte that was sent on to the server, and     *)
(* what it read more is in the hand of the pump.                            *)
THEOREM ReadBeforeSent == Spec => []SeenBeforeSent
<1>1. Init => PumpInv
  BY DEF Init, PumpInv
<1>2. (TypeOK /\ ParserInv) /\ PumpInv /\ [Next]_vars => PumpInv'
  BY PumpInvStep
<1>3. TypeOK /\ PumpInv => SeenBeforeSent
  <2> SUFFICES ASSUME TypeOK, PumpInv, NEW c \in Conns
               PROVE  /\ up[c] \in {"recv", "send"} =>
                             bytes_total[c] = sent_on[c] + held[c]
                      /\ sent_on[c] <= bytes_total[c]
    BY DEF SeenBeforeSent
  <2> DEFINE b == bytes_total[c]
             h == held[c]
             s == sent_on[c]
  <2>1. /\ b \in Nat /\ h \in Nat /\ s \in Nat
        /\ b = s \/ b = s + h
        /\ up[c] # "feed" => b = s + h
    BY DEF TypeOK, PumpInv
  <2>2. s <= b
    <3> HIDE DEF b, h, s
    <3> QED BY <2>1
  <2> QED BY <2>1, <2>2
<1> QED BY <1>1, <1>2, <1>3, ParserAlways, PTL DEF Spec

------------------------------------------------------------------------------
(* The report, while connections come and the parsers are fed.              *)

(* The count and the walk see one table: the lock keeps others out.         *)
WalkInv ==
    /\ reading = "counted" => counted = Len(obs) /\ listed = 0
    /\ reading \notin {"no", "counted"} => listed + Len(todo) = counted

LEMMA WalkInvStep ==
    ASSUME TypeOK, WalkInv, [Next]_vars
    PROVE  WalkInv'
<1> USE DEF dumpVars
<1>t. /\ Len(obs) \in Nat /\ Len(todo) \in Nat
      /\ counted \in Nat /\ listed \in Nat
      /\ todo \in Seq(Conns)
      /\ reading \notin {"no", "counted"} => todo # <<>>
  BY LenProperties DEF TypeOK
<1>1. CASE UNCHANGED <<obs, dumpVars>>
  BY <1>1 DEF WalkInv
<1>2. CASE UNCHANGED dumpVars /\ reading = "no"
  BY <1>2 DEF WalkInv
<1>3. ASSUME NEW c \in Conns, Feed(c) \/ Other(c)
      PROVE  WalkInv'
  <2>1. UNCHANGED dumpVars /\ (obs' = obs \/ reading = "no")
    BY <1>3
       DEF Feed, FeedCount, FeedPreface, FeedCutPreface, FeedCutFrame,
           FeedEnter, FeedHeaders, FeedReturns, Other, Accept, ConnectFails,
           Register, Close, PeerCloses, UpRecv, UpSend, UpBreaks, UpFinally,
           DownRecv, DownSend, DownBreaks, DownFinally
  <2> QED BY <1>1, <1>2, <2>1
<1>4. CASE DumpStart
  BY <1>4 DEF DumpStart, WalkInv
<1>5. CASE DumpBegin
  <2>1. /\ counted = Len(obs) /\ listed = 0 /\ reading' \in {"no", "preface"}
        /\ todo' = obs /\ counted' = counted /\ listed' = listed
    BY <1>5 DEF DumpBegin, WalkInv
  <2> QED BY <1>t, <2>1 DEF WalkInv
<1>6. CASE \/ ReadPreface \/ ReadFailed \/ ReadTotal \/ ReadParsed
           \/ ReadNumerator \/ ReadDenominator \/ ReadFrames
           \/ ReadHeaders \/ ReadIds \/ ReadEvents
  <2>1. /\ reading \notin {"no", "counted"} /\ reading' # "counted"
        /\ todo' = todo /\ counted' = counted /\ listed' = listed
    BY <1>6 DEF ReadPreface, ReadFailed, ReadTotal, ReadParsed, ReadNumerator,
                ReadDenominator, ReadFrames, ReadHeaders, ReadIds, ReadEvents,
                Read
  <2> QED BY <2>1 DEF WalkInv
<1>7. CASE DumpNext
  <2>1. /\ listed' = listed + 1 /\ counted' = counted
        /\ Len(todo') = Len(todo) - 1 /\ reading' # "counted"
        /\ listed + Len(todo) = counted
    BY <1>7, <1>t, HeadTailProperties DEF DumpNext, WalkInv
  <2>2. listed' + Len(todo') = counted'
    BY <1>t, <2>1
  <2> QED BY <2>1, <2>2 DEF WalkInv
<1>8. CASE UNCHANGED vars
  BY <1>1, <1>8 DEF vars
<1> QED BY <1>3, <1>4, <1>5, <1>6, <1>7, <1>8, NextSteps DEF Dump

(* The entries of a report are as many as it says, while connections come.  *)
THEOREM AllListed == Spec => []ConnectionsListed
<1>1. Init => WalkInv
  BY DEF Init, WalkInv
<1>2. TypeOK /\ WalkInv /\ [Next]_vars => WalkInv'
  BY WalkInvStep
<1>3. WalkInv => ConnectionsListed
  BY DEF WalkInv, ConnectionsListed
<1> QED BY <1>1, <1>2, <1>3, ParserAlways, PTL DEF Spec

(* No more is parsed than came, nothing of what was taken for TLS, and no   *)
(* frame without a preface.                                                 *)
LEMMA ParsedBounds ==
    ASSUME TypeOK, ParserInv, NEW c \in Conns
    PROVE  /\ bytes_parsed[c] <= bytes_total[c]
           /\ preface_seen[c] => ~parse_failed[c]
           /\ preface_seen[c] \/ parse_failed[c] => bytes_total[c] >= PrefaceLen
           /\ Len(frames[c]) > 0 => preface_seen[c]
           /\ parse_failed[c] => bytes_parsed[c] = 0 /\ Len(frames[c]) = 0
<1> DEFINE s == stream[c]
           k == Len(frames[c])
<1>1. /\ bytes_total[c] \in Nat /\ bytes_parsed[c] \in Nat
      /\ k \in Nat /\ PrefaceLen \in Nat
      /\ preface_seen[c] \in BOOLEAN /\ parse_failed[c] \in BOOLEAN
  BY LenProperties, ObserverAssumption DEF TypeOK
<1>2. /\ PrefaceInv(c) /\ FramesInv(c)
  BY DEF ParserInv
<1>3. /\ preface_seen[c] \/ parse_failed[c] => bytes_total[c] >= PrefaceLen
      /\ parse_failed[c] => ~preface_seen[c]
  BY <1>2 DEF PrefaceInv
<1>4. CASE up[c] = "cut"
  BY <1>1, <1>2, <1>3, <1>4 DEF FramesInv
<1>5. CASE up[c] = "enter"
  BY <1>1, <1>2, <1>3, <1>5 DEF FramesInv
<1>6. CASE up[c] \notin {"cut", "enter"}
  <2>1. bytes_parsed[c] = ParsedWith(c, k)
    BY <1>2, <1>6 DEF FramesInv
  <2>2. k > 0 => preface_seen[c] /\ s.frames[k].end <= bytes_total[c]
    BY <1>2 DEF FramesInv
  <2> QED BY <1>1, <1>3, <2>1, <2>2 DEF ParsedWith
<1> QED BY <1>4, <1>5, <1>6

(* The HEADERS listed are no more than the frames, and one fewer while one  *)
(* is on its way from the one list to the other.                            *)
HeadersInv ==
    \A c \in Conns :
        /\ Len(headers_frames[c]) <= Len(frames[c])
        /\ up[c] = "headers" => Len(headers_frames[c]) < Len(frames[c])

LEMMA HeadersStep ==
    ASSUME TypeOK, ParserInv, HeadersInv, TypeOK', [Next]_vars
    PROVE  HeadersInv'
<1> SUFFICES ASSUME NEW d \in Conns
             PROVE  /\ Len(headers_frames'[d]) <= Len(frames'[d])
                    /\ up'[d] = "headers" =>
                           Len(headers_frames'[d]) < Len(frames'[d])
  BY DEF HeadersInv
<1> DEFINE h == headers_frames[d]
           f == frames[d]
<1>t. /\ h \in Seq(Frame) /\ Len(h) \in Nat /\ f \in Seq(Frame) /\ Len(f) \in Nat
      /\ frames \in [Conns -> Seq(Frame)]
      /\ headers_frames \in [Conns -> Seq(Frame)]
      /\ up \in [Conns -> UpSteps]
      /\ Len(h) <= Len(f)
      /\ up[d] = "headers" => Len(h) < Len(f)
  BY LenProperties DEF TypeOK, HeadersInv
<1>1. CASE /\ frames'[d] = f /\ headers_frames'[d] = h
           /\ up'[d] = "headers" => up[d] = "headers"
  BY <1>t, <1>1
<1>2. ASSUME NEW c \in Conns, Other(c)
      PROVE  /\ Len(headers_frames'[d]) <= Len(frames'[d])
             /\ up'[d] = "headers" => Len(headers_frames'[d]) < Len(frames'[d])
  <2>1. /\ UNCHANGED <<frames, headers_frames>>
        /\ up'[d] = "headers" => up[d] = "headers"
    BY <1>2, <1>t
       DEF Other, Accept, ConnectFails, Register, Close, PeerCloses, UpRecv,
           UpSend, UpBreaks, UpFinally, ShutDown, DownRecv, DownSend,
           DownBreaks, DownFinally, parserVars, peerVars, pumpVars
  <2> QED BY <1>1, <2>1
<1>3. ASSUME NEW c \in Conns, Feed(c)
      PROVE  /\ Len(headers_frames'[d]) <= Len(frames'[d])
             /\ up'[d] = "headers" => Len(headers_frames'[d]) < Len(frames'[d])
  <2>1. CASE \/ c # d \/ FeedCount(c) \/ FeedPreface(c) \/ FeedCutPreface(c)
             \/ FeedCutFrame(c) \/ FeedReturns(c)
    <3>1. /\ frames'[d] = f /\ headers_frames'[d] = h
          /\ up'[d] = "headers" => up[d] = "headers"
      BY <1>3, <1>t, <2>1
         DEF Feed, FeedCount, FeedPreface, FeedCutPreface, FeedCutFrame,
             FeedEnter, FeedHeaders, FeedReturns, parserVars
    <3> QED BY <1>1, <3>1
  <2>2. CASE c = d /\ FeedEnter(c)
    <3>1. headers_frames' = headers_frames /\ frames'[d] = Append(f, NextFrame(d))
      BY <1>t, <2>2 DEF FeedEnter
    <3>2. Len(frames'[d]) = Len(f) + 1
      BY <1>t, <3>1
    <3> QED BY <1>t, <3>1, <3>2
  <2>3. CASE c = d /\ FeedHeaders(c)
    <3>1. /\ frames' = frames /\ up[d] = "headers" /\ up'[d] = "frames"
          /\ headers_frames'[d] = Append(h, f[Len(f)])
      BY <1>t, <2>3 DEF FeedHeaders
    <3>2. Len(headers_frames'[d]) = Len(h) + 1
      BY <1>t, <3>1
    <3> QED BY <1>t, <3>1, <3>2
  <2> QED BY <1>3, <2>1, <2>2, <2>3 DEF Feed
<1>4. CASE Dump \/ UNCHANGED vars
  <2>1. UNCHANGED <<frames, headers_frames, up>>
    BY <1>4, DumpStep DEF vars, parserVars, pumpVars
  <2> QED BY <1>1, <2>1
<1> QED BY <1>1, <1>2, <1>3, <1>4, NextSteps

LEMMA HeadersAlways == Spec => [](TypeOK /\ ParserInv /\ HeadersInv)
<1>1. Init => HeadersInv
  BY DEF Init, HeadersInv
<1>2. (TypeOK /\ ParserInv) /\ (TypeOK /\ ParserInv)' /\ HeadersInv /\ [Next]_vars
      => HeadersInv'
  BY HeadersStep
<1> QED BY <1>1, <1>2, ParserAlways, PTL DEF Spec

(* What was read of a parser stays true of it while it is fed.              *)
LEMMA FedGrows ==
    ASSUME TypeOK, ParserInv, NEW c \in Conns, Feed(c) \/ Other(c),
           NEW d \in Conns
    PROVE  /\ UNCHANGED dumpVars
           /\ bytes_total[d] <= bytes_total'[d]
           /\ bytes_parsed[d] > 0 => bytes_parsed'[d] > 0
           /\ preface_seen[d] => preface_seen'[d]
           /\ parse_failed[d] => parse_failed'[d]
           /\ \/ headers_frames'[d] = headers_frames[d]
              \/ \E f : headers_frames'[d] = Append(headers_frames[d], f)
<1> USE DEF parserVars, peerVars, pumpVars, dumpVars
<1>t. /\ bytes_total[d] \in Nat /\ bytes_parsed[d] \in Nat /\ held[d] \in Nat
      /\ PrefaceLen \in Nat \ {0} /\ HeaderLen \in Nat \ {0}
      /\ bytes_total \in [Conns -> Nat] /\ bytes_parsed \in [Conns -> Nat]
      /\ preface_seen \in [Conns -> BOOLEAN]
      /\ parse_failed \in [Conns -> BOOLEAN]
      /\ headers_frames \in [Conns -> Seq(Frame)]
  BY ObserverAssumption DEF TypeOK
<1>1. CASE Other(c) \/ FeedEnter(c) \/ FeedReturns(c)
  <2>1. UNCHANGED <<bytes_total, bytes_parsed, preface_seen, parse_failed,
                    headers_frames, dumpVars>>
    BY <1>1 DEF Other, Accept, ConnectFails, Register, Close, PeerCloses,
                UpRecv, UpSend, UpBreaks, UpFinally, DownRecv, DownSend,
                DownBreaks, DownFinally, FeedEnter, FeedReturns
  <2> QED BY <1>t, <2>1
<1>2. CASE FeedCount(c)
  <2>1. /\ UNCHANGED <<bytes_parsed, preface_seen, parse_failed, headers_frames,
                       dumpVars>>
        /\ bytes_total'[d] = bytes_total[d] + held[d] \/ bytes_total'[d] = bytes_total[d]
    BY <1>2, <1>t DEF FeedCount
  <2>2. bytes_total[d] <= bytes_total'[d]
    <3> DEFINE b == bytes_total[d]
               h == held[d]
    <3>1. b \in Nat /\ h \in Nat /\ (bytes_total'[d] = b + h \/ bytes_total'[d] = b)
      BY <1>t, <2>1
    <3> HIDE DEF b, h
    <3>2. b <= bytes_total'[d]
      BY <3>1
    <3> QED BY <3>2 DEF b
  <2> QED BY <2>1, <2>2
<1>3. CASE FeedPreface(c)
  <2>1. /\ UNCHANGED <<bytes_total, bytes_parsed, headers_frames, dumpVars>>
        /\ preface_seen[d] => preface_seen'[d]
        /\ parse_failed[d] => parse_failed'[d]
    BY <1>3, <1>t DEF FeedPreface
  <2> QED BY <1>t, <2>1
<1>4. CASE FeedHeaders(c)
  <2>1. /\ UNCHANGED <<bytes_total, bytes_parsed, preface_seen, parse_failed,
                       dumpVars>>
        /\ headers_frames' = [headers_frames EXCEPT
                                  ![c] = Append(@, frames[c][Len(frames[c])])]
    BY <1>4 DEF FeedHeaders
  <2>2. \/ headers_frames'[d] = headers_frames[d]
        \/ \E f : headers_frames'[d] = Append(headers_frames[d], f)
    BY <1>t, <2>1
  <2>3. /\ UNCHANGED dumpVars
        /\ bytes_total[d] <= bytes_total'[d]
        /\ bytes_parsed'[d] = bytes_parsed[d]
        /\ preface_seen[d] => preface_seen'[d]
        /\ parse_failed[d] => parse_failed'[d]
    BY <1>t, <2>1
  <2> HIDE DEF dumpVars
  <2> QED BY <2>2, <2>3
<1>5. CASE FeedCutPreface(c) \/ FeedCutFrame(c)
  <2>1. /\ UNCHANGED <<bytes_total, preface_seen, parse_failed, headers_frames,
                       dumpVars>>
        /\ d # c => bytes_parsed'[d] = bytes_parsed[d]
    BY <1>5, <1>t DEF FeedCutPreface, FeedCutFrame
  <2>2. CASE FeedCutPreface(c) /\ d = c
    <3>1. bytes_parsed'[d] = bytes_parsed[d] + PrefaceLen
      BY <1>t, <2>2 DEF FeedCutPreface
    <3>2. bytes_parsed'[d] > 0
      BY <1>t, <3>1
    <3> QED BY <1>t, <2>1, <3>2
  <2>3. CASE FeedCutFrame(c) /\ d = c
    <3>1. /\ bytes_parsed'[d] = NextFrame(d).end
          /\ Len(frames[d]) < Len(stream[d].frames)
      BY <1>t, <2>3 DEF FeedCutFrame, HasFrame
    <3>2. /\ stream[d] \in Streams \cup {NoStream}
          /\ Len(frames[d]) \in Nat
      BY LenProperties DEF TypeOK
    <3>3. /\ Len(stream[d].frames) \in Nat
          /\ \A k \in 1..Len(stream[d].frames) : stream[d].frames[k].end \in Nat
      BY <3>2, StreamShape
    <3>4. Len(frames[d]) + 1 \in 1..Len(stream[d].frames)
      BY <3>1, <3>2, <3>3
    <3>5. NextFrame(d).end \in Nat /\ NextFrame(d).end >= PrefaceLen + HeaderLen
      BY <3>2, <3>3, <3>4, FrameEnds DEF NextFrame
    <3>6. bytes_parsed'[d] > 0
      BY <1>t, <3>1, <3>5
    <3> QED BY <1>t, <2>1, <3>6
  <2> QED BY <1>t, <1>5, <2>1, <2>2, <2>3
<1> QED BY <1>1, <1>2, <1>3, <1>4, <1>5 DEF Feed

LEMMA IdsGrow ==
    ASSUME NEW list \in Seq(Frame), NEW f, Append(list, f) \in Seq(Frame)
    PROVE  /\ Len(Append(list, f)) = Len(list) + 1
           /\ StreamIds(list) \subseteq StreamIds(Append(list, f))
<1>1. /\ Len(list) \in Nat /\ DOMAIN list = 1..Len(list)
      /\ Len(Append(list, f)) = Len(list) + 1
      /\ DOMAIN Append(list, f) = 1..Len(list) + 1
      /\ \A k \in 1..Len(list) : Append(list, f)[k] = list[k]
  OBVIOUS
<1>2. ASSUME NEW k \in DOMAIN list
      PROVE  list[k].stream_id \in StreamIds(Append(list, f))
  <2>1. k \in DOMAIN Append(list, f) /\ Append(list, f)[k] = list[k]
    BY <1>1
  <2> QED BY <2>1 DEF StreamIds
<1> QED BY <1>1, <1>2 DEF StreamIds

(* What the entry of a connection says so far, by what is read next.        *)
After(step) ==
    CASE step = "total" -> {"parsed", "numerator", "denominator", "frames",
                            "headers", "ids", "events", "next"}
      [] step = "fraction" -> {"frames", "headers", "ids", "events", "next"}

EntryInv ==
    /\ reading \in {"no", "counted", "preface"} => report = NoReport
    /\ reading = "failed" => report = [NoReport EXCEPT !.preface = report.preface]
    /\ report.preface => preface_seen[This] /\ ~report.failed
    /\ report.failed => /\ parse_failed[This]
                        /\ report.parsed = 0 /\ report.numerator = 0
                        /\ report.fraction = "zero"
                        /\ report.frames = 0 /\ report.events = <<>>
    /\ reading \in After("total") =>
          (report.preface \/ report.failed => report.total >= PrefaceLen)
    /\ reading = "total" => report.parsed = 0
    /\ reading = "numerator" => (report.parsed > 0 => bytes_parsed[This] > 0)
    /\ reading = "denominator" => /\ report.numerator <= bytes_total[This]
                                  /\ report.parsed > 0 => report.numerator > 0
    /\ reading \in After("fraction") =>
          (report.parsed > 0 => report.fraction # "zero")
    /\ report.fraction # "improper"
    /\ reading \in {"ids", "events"} =>
          report.headers <= Len(headers_frames[This])
    /\ reading = "events" => report.ids \subseteq StreamIds(headers_frames[This])
    /\ reading = "next" => /\ report.ids \subseteq StreamIds(report.events)
                           /\ report.headers <= Len(report.events)

LEMMA EntryStep ==
    ASSUME TypeOK, ParserInv, HeadersInv, EntryInv, TypeOK', [Next]_vars
    PROVE  EntryInv'
<1> USE DEF After
<1>r. /\ NoReport.preface = FALSE /\ NoReport.failed = FALSE
      /\ NoReport.total = 0 /\ NoReport.parsed = 0
      /\ NoReport.numerator = 0 /\ NoReport.fraction = "zero"
      /\ NoReport.frames = 0 /\ NoReport.headers = 0 /\ NoReport.events = <<>>
      /\ NoReport \in ReportRecord
  BY DEF NoReport, ReportRecord
<1>t. /\ report.preface \in BOOLEAN /\ report.failed \in BOOLEAN
      /\ report.total \in Nat /\ report.parsed \in Nat
      /\ report.numerator \in Nat /\ report.headers \in Nat
      /\ report \in ReportRecord
      /\ PrefaceLen \in Nat
  BY ObserverAssumption DEF TypeOK, ReportRecord
<1>h. reading \notin {"no", "counted"} => This \in Conns
  BY HeadTailProperties DEF TypeOK, This
<1>1. ASSUME NEW c \in Conns, Feed(c) \/ Other(c)
      PROVE  EntryInv'
  <2>1. reading' = reading /\ report' = report /\ todo' = todo
    BY <1>1, FedGrows DEF dumpVars
  <2>2. CASE reading \in {"no", "counted"}
    BY <1>r, <2>1, <2>2 DEF EntryInv
  <2>3. CASE reading \notin {"no", "counted"}
    <3>1. This \in Conns /\ This' = This
      BY <1>h, <2>1, <2>3 DEF This
    <3> DEFINE was == headers_frames[This]
               is == headers_frames'[This]
    <3>2. /\ bytes_total[This] <= bytes_total'[This]
          /\ bytes_parsed[This] > 0 => bytes_parsed'[This] > 0
          /\ preface_seen[This] => preface_seen'[This]
          /\ parse_failed[This] => parse_failed'[This]
          /\ is = was \/ \E f : is = Append(was, f)
      BY <1>1, <3>1, FedGrows
    <3>3. /\ was \in Seq(Frame) /\ is \in Seq(Frame) /\ Len(was) \in Nat
          /\ bytes_total[This] \in Nat /\ bytes_total'[This] \in Nat
      BY <3>1, LenProperties DEF TypeOK
    <3>4. Len(was) <= Len(is) /\ StreamIds(was) \subseteq StreamIds(is)
      <4>1. CASE is = was
        BY <3>3, <4>1
      <4>2. CASE \E f : is = Append(was, f)
        BY <3>3, <4>2, IdsGrow
      <4> QED BY <3>2, <4>1, <4>2
    <3>5. reading = "denominator" => report.numerator <= bytes_total'[This]
      BY <1>t, <3>2, <3>3 DEF EntryInv
    <3>6. reading \in {"ids", "events"} => report.headers <= Len(is)
      BY <1>t, <3>3, <3>4, LenProperties DEF EntryInv
    <3>7. reading = "events" => report.ids \subseteq StreamIds(is)
      BY <3>4 DEF EntryInv
    <3> HIDE DEF This
    <3> QED BY <2>1, <3>1, <3>2, <3>5, <3>6, <3>7 DEF EntryInv
  <2> QED BY <2>2, <2>3
<1>2. CASE DumpStart \/ DumpBegin \/ DumpNext
  <2>1. report' = NoReport /\ reading' \in {"no", "counted", "preface"}
    BY <1>2 DEF DumpStart, DumpBegin, DumpNext, EntryInv
  <2> QED BY <1>r, <2>1 DEF EntryInv
<1>3. ASSUME reading \notin {"no", "counted"}, UNCHANGED <<parserVars, todo>>
      PROVE  /\ This \in Conns /\ This' = This
             /\ UNCHANGED <<bytes_total, bytes_parsed, preface_seen,
                            parse_failed, frames, headers_frames>>
             /\ bytes_parsed[This] \in Nat /\ bytes_total[This] \in Nat
             /\ preface_seen[This] \in BOOLEAN /\ parse_failed[This] \in BOOLEAN
             /\ headers_frames[This] \in Seq(Frame)
             /\ Len(headers_frames[This]) \in Nat
             /\ bytes_parsed[This] <= bytes_total[This]
             /\ preface_seen[This] => ~parse_failed[This]
             /\ preface_seen[This] \/ parse_failed[This] =>
                    bytes_total[This] >= PrefaceLen
             /\ parse_failed[This] => /\ bytes_parsed[This] = 0
                                      /\ Len(frames[This]) = 0
                                      /\ headers_frames[This] = <<>>
  <2>1. This \in Conns
    BY <1>3, <1>h
  <2>2. This' = This
    BY <1>3 DEF This
  <2>3. /\ bytes_parsed[This] \in Nat /\ bytes_total[This] \in Nat
        /\ preface_seen[This] \in BOOLEAN /\ parse_failed[This] \in BOOLEAN
        /\ headers_frames[This] \in Seq(Frame)
        /\ Len(headers_frames[This]) \in Nat
        /\ Len(headers_frames[This]) <= Len(frames[This])
    BY <2>1, LenProperties DEF TypeOK, HeadersInv
  <2>4. parse_failed[This] => Len(frames[This]) = 0
    BY <2>1, ParsedBounds
  <2>5. parse_failed[This] => headers_frames[This] = <<>>
    BY <2>3, <2>4, EmptySeq
  <2> QED BY <1>3, <2>1, <2>2, <2>3, <2>5, ParsedBounds DEF parserVars
<1>4. CASE ReadPreface
  <2>1. /\ reading = "preface" /\ reading' = "failed"
        /\ report' = [report EXCEPT !.preface = preface_seen[This]]
        /\ UNCHANGED <<parserVars, todo>>
    BY <1>4 DEF ReadPreface, Read
  <2>2. report = NoReport
    BY <2>1 DEF EntryInv
  <2>3. report'.preface = preface_seen[This]
    BY <1>r, <2>1, <2>2 DEF ReportRecord
  <2>4. report' = [NoReport EXCEPT !.preface = report'.preface]
    BY <2>1, <2>2, <2>3
  <2>5. /\ report'.failed = FALSE /\ report'.fraction = "zero"
    BY <1>r, <2>1, <2>2 DEF ReportRecord
  <2> HIDE DEF This
  <2> QED BY <1>3, <2>1, <2>3, <2>4, <2>5 DEF EntryInv
<1>5. CASE ReadFailed
  <2>1. /\ reading = "failed" /\ reading' = "total"
        /\ report' = [report EXCEPT !.failed = parse_failed[This]]
        /\ UNCHANGED <<parserVars, todo>>
    BY <1>5 DEF ReadFailed, Read
  <2>2. /\ report.parsed = 0 /\ report.numerator = 0
        /\ report.fraction = "zero" /\ report.frames = 0
        /\ report.events = <<>>
    <3>1. report = [NoReport EXCEPT !.preface = report.preface]
      BY <2>1 DEF EntryInv
    <3> QED BY <1>r, <3>1 DEF ReportRecord
  <2>3. /\ report'.failed = parse_failed[This] /\ report'.preface = report.preface
        /\ report'.parsed = 0 /\ report'.numerator = 0
        /\ report'.fraction = "zero" /\ report'.frames = 0
        /\ report'.events = <<>>
    BY <1>t, <2>1, <2>2 DEF ReportRecord
  <2>4. report.preface => preface_seen[This]
    BY DEF EntryInv
  <2> HIDE DEF This
  <2> QED BY <1>3, <2>1, <2>3, <2>4 DEF EntryInv
<1>6. CASE ReadTotal
  <2>1. /\ reading = "total" /\ reading' = "parsed"
        /\ report' = [report EXCEPT !.total = bytes_total[This]]
        /\ UNCHANGED <<parserVars, todo>>
    BY <1>6 DEF ReadTotal, Read
  <2>2. report'.total = bytes_total[This]
    BY <1>t, <2>1 DEF ReportRecord
  <2>3. /\ report'.preface = report.preface /\ report'.failed = report.failed
        /\ report'.parsed = report.parsed /\ report'.numerator = report.numerator
        /\ report'.fraction = report.fraction
        /\ report'.frames = report.frames /\ report'.events = report.events
    BY <1>t, <2>1 DEF ReportRecord
  <2>4. /\ report.preface => preface_seen[This] /\ ~report.failed
        /\ report.failed => /\ parse_failed[This]
                            /\ report.parsed = 0 /\ report.numerator = 0
                            /\ report.fraction = "zero"
                            /\ report.frames = 0 /\ report.events = <<>>
        /\ report.fraction # "improper"
    BY DEF EntryInv
  <2> HIDE DEF This
  <2> QED BY <1>3, <2>1, <2>2, <2>3, <2>4 DEF EntryInv
<1>7. CASE ReadParsed
  <2>1. /\ reading = "parsed" /\ reading' = "numerator"
        /\ report' = [report EXCEPT !.parsed = bytes_parsed[This]]
        /\ UNCHANGED <<parserVars, todo>>
    BY <1>7 DEF ReadParsed, Read
  <2>2. report'.parsed = bytes_parsed[This]
    BY <1>t, <2>1 DEF ReportRecord
  <2>3. /\ report'.preface = report.preface /\ report'.failed = report.failed
        /\ report'.total = report.total /\ report'.numerator = report.numerator
        /\ report'.fraction = report.fraction
        /\ report'.frames = report.frames /\ report'.events = report.events
    BY <1>t, <2>1 DEF ReportRecord
  <2>4. /\ report.preface => preface_seen[This] /\ ~report.failed
        /\ report.failed => /\ parse_failed[This]
                            /\ report.numerator = 0
                            /\ report.fraction = "zero"
                            /\ report.frames = 0 /\ report.events = <<>>
        /\ report.preface \/ report.failed => report.total >= PrefaceLen
        /\ report.fraction # "improper"
    BY <2>1 DEF EntryInv
  <2> HIDE DEF This
  <2> QED BY <1>3, <2>1, <2>2, <2>3, <2>4 DEF EntryInv
<1>8. CASE ReadNumerator
  <2>1. /\ reading = "numerator"
        /\ reading' = IF bytes_total[This] = 0 THEN "frames" ELSE "denominator"
        /\ report' = [report EXCEPT !.numerator = bytes_parsed[This]]
        /\ UNCHANGED <<parserVars, todo>>
    BY <1>8 DEF ReadNumerator, Read
  <2>2. report'.numerator = bytes_parsed[This]
    BY <1>t, <2>1 DEF ReportRecord
  <2>3. /\ report'.preface = report.preface /\ report'.failed = report.failed
        /\ report'.total = report.total /\ report'.parsed = report.parsed
        /\ report'.fraction = report.fraction
        /\ report'.frames = report.frames /\ report'.events = report.events
    BY <1>t, <2>1 DEF ReportRecord
  <2>4. /\ report.preface => preface_seen[This] /\ ~report.failed
        /\ report.failed => /\ parse_failed[This]
                            /\ report.parsed = 0
                            /\ report.fraction = "zero"
                            /\ report.frames = 0 /\ report.events = <<>>
        /\ report.preface \/ report.failed => report.total >= PrefaceLen
        /\ report.parsed > 0 => bytes_parsed[This] > 0
        /\ report.fraction # "improper"
    BY <2>1 DEF EntryInv
  <2>5. bytes_total[This] = 0 => ~(report.parsed > 0)
    BY <1>3, <2>1, <2>4
  <2> HIDE DEF This
  <2>6. CASE bytes_total[This] = 0
    <3>1. reading' = "frames"
      BY <2>1, <2>6
    <3> QED BY <1>3, <2>1, <2>2, <2>3, <2>4, <2>5, <2>6, <3>1 DEF EntryInv
  <2>7. CASE bytes_total[This] # 0
    <3>1. reading' = "denominator"
      BY <2>1, <2>7
    <3> QED BY <1>3, <2>1, <2>2, <2>3, <2>4, <3>1 DEF EntryInv
  <2> QED BY <2>6, <2>7
<1>9. CASE ReadDenominator
  <2>1. /\ reading = "denominator" /\ reading' = "frames"
        /\ report' = [report EXCEPT
                          !.fraction = Fraction(report.numerator, bytes_total[This]),
                          !.numerator = 0]
        /\ UNCHANGED <<parserVars, todo>>
    BY <1>9 DEF ReadDenominator, Read
  <2>2. /\ report'.fraction = Fraction(report.numerator, bytes_total[This])
        /\ report'.numerator = 0
    BY <1>t, <2>1 DEF ReportRecord
  <2>3. /\ report'.preface = report.preface /\ report'.failed = report.failed
        /\ report'.total = report.total /\ report'.parsed = report.parsed
        /\ report'.frames = report.frames /\ report'.events = report.events
    BY <1>t, <2>1 DEF ReportRecord
  <2>4. /\ report.preface => preface_seen[This] /\ ~report.failed
        /\ report.failed => /\ parse_failed[This]
                            /\ report.parsed = 0 /\ report.numerator = 0
                            /\ report.frames = 0 /\ report.events = <<>>
        /\ report.preface \/ report.failed => report.total >= PrefaceLen
        /\ report.numerator <= bytes_total[This]
        /\ report.parsed > 0 => report.numerator > 0
    BY <2>1 DEF EntryInv
  <2>5. /\ report'.fraction # "improper"
        /\ report.numerator = 0 => report'.fraction = "zero"
        /\ report.numerator > 0 => report'.fraction # "zero"
    BY <1>t, <2>2, <2>4 DEF Fraction
  <2> HIDE DEF This
  <2> QED BY <1>3, <2>1, <2>2, <2>3, <2>4, <2>5 DEF EntryInv
<1>10. CASE ReadFrames \/ ReadHeaders \/ ReadIds \/ ReadEvents
  <2>1. /\ reading \in {"frames", "headers", "ids", "events"}
        /\ reading' \in {"headers", "ids", "events", "next"}
        /\ UNCHANGED <<parserVars, todo>>
    BY <1>10 DEF ReadFrames, ReadHeaders, ReadIds, ReadEvents, Read
  <2>2. /\ report'.preface = report.preface /\ report'.failed = report.failed
        /\ report'.total = report.total /\ report'.parsed = report.parsed
        /\ report'.numerator = report.numerator
        /\ report'.fraction = report.fraction
    BY <1>10, <1>t DEF ReadFrames, ReadHeaders, ReadIds, ReadEvents, Read, ReportRecord
  <2>3. /\ report.preface => preface_seen[This] /\ ~report.failed
        /\ report.failed => /\ parse_failed[This]
                            /\ report.parsed = 0 /\ report.numerator = 0
                            /\ report.fraction = "zero"
                            /\ report.frames = 0 /\ report.events = <<>>
        /\ report.preface \/ report.failed => report.total >= PrefaceLen
        /\ report.parsed > 0 => report.fraction # "zero"
        /\ report.fraction # "improper"
    BY <2>1 DEF EntryInv
  <2>4. /\ This' = This
        /\ UNCHANGED <<preface_seen, parse_failed, headers_frames>>
        /\ Len(headers_frames[This]) \in Nat
        /\ parse_failed[This] => Len(frames[This]) = 0 /\ headers_frames[This] = <<>>
    BY <1>3, <2>1
  <2> HIDE DEF This
  <2>5. CASE ReadFrames
    <3>1. /\ reading' = "headers" /\ report'.frames = Len(frames[This])
          /\ report'.events = report.events
      BY <1>t, <2>5 DEF ReadFrames, Read, ReportRecord
    <3> QED BY <2>1, <2>2, <2>3, <2>4, <3>1 DEF EntryInv
  <2>6. CASE ReadHeaders
    <3>1. /\ reading' = "ids" /\ report'.headers = Len(headers_frames[This])
          /\ report'.frames = report.frames /\ report'.events = report.events
      BY <1>t, <2>6 DEF ReadHeaders, Read, ReportRecord
    <3> QED BY <2>1, <2>2, <2>3, <2>4, <3>1 DEF EntryInv
  <2>7. CASE ReadIds
    <3>1. /\ reading' = "events" /\ report'.headers = report.headers
          /\ report'.ids = StreamIds(headers_frames[This])
          /\ report'.frames = report.frames /\ report'.events = report.events
          /\ report.headers <= Len(headers_frames[This])
      BY <1>t, <2>7 DEF ReadIds, Read, EntryInv, ReportRecord
    <3> QED BY <2>1, <2>2, <2>3, <2>4, <3>1 DEF EntryInv
  <2>8. CASE ReadEvents
    <3>1. /\ reading' = "next" /\ report'.headers = report.headers
          /\ report'.ids = report.ids /\ report'.events = headers_frames[This]
          /\ report'.frames = report.frames
          /\ report.headers <= Len(headers_frames[This])
          /\ report.ids \subseteq StreamIds(headers_frames[This])
      BY <1>t, <2>8 DEF ReadEvents, Read, EntryInv, ReportRecord
    <3> QED BY <2>1, <2>2, <2>3, <2>4, <3>1 DEF EntryInv
  <2> QED BY <1>10, <2>5, <2>6, <2>7, <2>8
<1>11. CASE UNCHANGED vars
  BY <1>11 DEF vars, parserVars, dumpVars, EntryInv, This
<1> QED
  BY <1>1, <1>2, <1>4, <1>5, <1>6, <1>7, <1>8, <1>9, <1>10, <1>11, NextSteps
  DEF Dump

LEMMA EntryAlways ==
    Spec => [](TypeOK /\ ParserInv /\ HeadersInv /\ EntryInv)
<1>1. Init => EntryInv
  BY DEF Init, EntryInv, NoReport, After
<1>2. /\ TypeOK /\ ParserInv /\ HeadersInv
      /\ (TypeOK /\ ParserInv /\ HeadersInv)'
      /\ EntryInv /\ [Next]_vars
      => EntryInv'
  BY EntryStep
<1> QED BY <1>1, <1>2, HeadersAlways, PTL DEF Spec

(* A connection's parseable fraction is at most one, however its bytes are  *)
(* counted while dump() reads.                                              *)
THEOREM FractionBounded == Spec => []FractionAtMostOne
<1>1. EntryInv => FractionAtMostOne
  BY DEF EntryInv, FractionAtMostOne
<1> QED BY <1>1, EntryAlways, PTL

(* A report has as many entries as it says; its later fields do not fall    *)
(* short of its earlier ones though the parsers are fed while it is         *)
(* written; and an entry that is still true when it is done agrees with     *)
(* itself.                                                                  *)
THEOREM ReadInOrder == Spec => []ReportReadInOrder
<1>1. ASSUME TypeOK, ParserInv, HeadersInv, EntryInv, ConnectionsListed
      PROVE  ReportReadInOrder
  <2>1. SUFFICES ASSUME reading = "next"
                 PROVE  ReportReadInOrder!2!2
    BY <1>1 DEF ReportReadInOrder
  <2>2. This \in Conns
    BY <1>1, <2>1, HeadTailProperties DEF TypeOK, This
  <2>3. /\ report.preface => ~report.failed
        /\ report.preface \/ report.failed => report.total >= PrefaceLen
        /\ report.failed => /\ report.parsed = 0 /\ report.fraction = "zero"
                            /\ report.frames = 0 /\ report.events = <<>>
        /\ report.parsed > 0 => report.fraction # "zero"
        /\ report.headers <= Len(report.events)
        /\ report.ids \subseteq StreamIds(report.events)
    BY <1>1, <2>1 DEF EntryInv, After
  <2>4. ASSUME report = Picture(This)
        PROVE  /\ report.parsed <= report.total
               /\ report.frames > 0 => report.preface
               /\ report.headers <= report.frames
    <3>1. /\ report.parsed = bytes_parsed[This] /\ report.total = bytes_total[This]
          /\ report.frames = Len(frames[This]) /\ report.preface = preface_seen[This]
          /\ report.headers = Len(headers_frames[This])
      BY <2>4 DEF Picture
    <3> QED BY <1>1, <2>2, <3>1, ParsedBounds DEF HeadersInv
  <2> QED BY <2>3, <2>4
<1> QED BY <1>1, EntryAlways, AllListed, PTL
==============================================================================
