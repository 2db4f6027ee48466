------------------------------ MODULE H2Observer ------------------------------
(****************************************************************************)
(* The observation point of Phase4B_report/h2_observer.py: a TCP relay that *)
(* reads the HTTP/2 frames of the connections it carries.                   *)
(*                                                                          *)
(* A connection has a thread that makes it and two that pump its bytes, one *)
(* each way; the one from the client feeds a parser before it sends on.     *)
(* The main thread accepts connections and writes the report, under a lock  *)
(* that guards the table of parsers and not the parsers: it reads them one  *)
(* field after the other while they are being fed.                          *)
(*                                                                          *)
(* The bytes of a stream are known by their offsets.  What the parser has   *)
(* in its buffer is what lies between bytes_parsed and bytes_total.         *)
(****************************************************************************)
EXTENDS Naturals, FiniteSets, Sequences

CONSTANTS
    Conns,          \* connections (the cid of main())
    Sids,           \* stream ids
    Streams,        \* what clients may send (subset of StreamRecord)
    PrefaceLen,     \* len(PREFACE), 24
    HeaderLen,      \* octets of a frame header, 9
    MaxRecv         \* bytes that recv() returns at most, 65536

(* A frame by the offset at which it ends.  A stream that is not cleartext  *)
(* HTTP/2 has no frames; the end of a stream may lie inside a frame.        *)
Frame == [end: Nat, type: {"HEADERS", "other"}, stream_id: Sids]

StreamRecord == [h2: BOOLEAN, frames: Seq(Frame), size: Nat]

WellFormed(s) ==
    /\ s.frames # <<>> => s.h2 /\ s.frames[1].end >= PrefaceLen + HeaderLen
    /\ \A j, k \in 1..Len(s.frames) :
          j < k => s.frames[k].end >= s.frames[j].end + HeaderLen
    /\ \A k \in 1..Len(s.frames) : s.frames[k].end <= s.size

ASSUME ObserverAssumption ==
    /\ IsFiniteSet(Conns)
    /\ PrefaceLen \in Nat \ {0} /\ HeaderLen \in Nat \ {0}
    /\ MaxRecv \in Nat \ {0}
    /\ Streams \subseteq StreamRecord
    /\ \A s \in Streams : WellFormed(s)

VARIABLES
    conn,           \* where the thread of each connection is: handle()
    stream,         \* what its client sends
    obs,            \* the table of parsers, in order of insertion
    bytes_total, bytes_parsed, preface_checked, preface_seen, parse_failed,
    frames, headers_frames,
    up, down,       \* where the two pumps of a connection are
    held,           \* bytes the pump from the client has in hand
    sent_on,        \* bytes sent on to the server
    gone,           \* ends of a connection that its peers closed
    shut,           \* sockets of a connection that were shut down
    reading,        \* where dump() is
    todo,           \* connections it has still to report, the current one first
    counted,        \* observed_connections
    listed,         \* connections reported
    report          \* the fields read of the current one

parserVars == <<bytes_total, bytes_parsed, preface_checked, preface_seen,
                parse_failed, frames, headers_frames>>
peerVars == <<stream, gone>>
pumpVars == <<up, down, held, sent_on, shut>>
dumpVars == <<reading, todo, counted, listed, report>>
vars == <<conn, obs, parserVars, peerVars, pumpVars, dumpVars>>

NoStream == [h2 |-> FALSE, frames |-> <<>>, size |-> 0]

NoReport ==
    [preface |-> FALSE, failed |-> FALSE, total |-> 0, parsed |-> 0,
     numerator |-> 0, fraction |-> "zero", frames |-> 0, headers |-> 0,
     ids |-> {}, events |-> <<>>]

Init ==
    /\ conn = [c \in Conns |-> "none"]
    /\ stream = [c \in Conns |-> NoStream]
    /\ obs = <<>>
    /\ bytes_total = [c \in Conns |-> 0]
    /\ bytes_parsed = [c \in Conns |-> 0]
    /\ preface_checked = [c \in Conns |-> FALSE]
    /\ preface_seen = [c \in Conns |-> FALSE]
    /\ parse_failed = [c \in Conns |-> FALSE]
    /\ frames = [c \in Conns |-> <<>>]
    /\ headers_frames = [c \in Conns |-> <<>>]
    /\ up = [c \in Conns |-> "none"]
    /\ down = [c \in Conns |-> "none"]
    /\ held = [c \in Conns |-> 0]
    /\ sent_on = [c \in Conns |-> 0]
    /\ gone = [c \in Conns |-> {}]
    /\ shut = [c \in Conns |-> {}]
    /\ reading = "no"
    /\ todo = <<>>
    /\ counted = 0
    /\ listed = 0
    /\ report = NoReport

------------------------------------------------------------------------------
(* main() and handle().                                                     *)

(* The main thread accepts a connection; it does not while it dumps.        *)
Accept(c, s) ==
    /\ reading = "no"
    /\ conn[c] = "none"
    /\ conn' = [conn EXCEPT ![c] = "accepted"]
    /\ stream' = [stream EXCEPT ![c] = s]
    /\ UNCHANGED <<obs, parserVars, gone, pumpVars, dumpVars>>

ConnectFails(c) ==
    /\ conn[c] = "accepted"
    /\ conn' = [conn EXCEPT ![c] = "closed"]
    /\ UNCHANGED <<obs, parserVars, peerVars, pumpVars, dumpVars>>

(* The server was reached: the parser is entered in the table under the     *)
(* lock, which dump() holds while it reads, and the pumps start.            *)
Register(c) ==
    /\ conn[c] = "accepted"
    /\ reading = "no"
    /\ conn' = [conn EXCEPT ![c] = "open"]
    /\ obs' = Append(obs, c)
    /\ up' = [up EXCEPT ![c] = "recv"]
    /\ down' = [down EXCEPT ![c] = "recv"]
    /\ UNCHANGED <<parserVars, peerVars, held, sent_on, shut, dumpVars>>

(* Both pumps were joined: the sockets are closed.                          *)
Close(c) ==
    /\ conn[c] = "open"
    /\ up[c] = "ended" /\ down[c] = "ended"
    /\ conn' = [conn EXCEPT ![c] = "closed"]
    /\ UNCHANGED <<obs, parserVars, peerVars, pumpVars, dumpVars>>

(* A client or a server closes its end.                                     *)
PeerCloses(c, peer) ==
    /\ conn[c] = "open"
    /\ peer \notin gone[c]
    /\ gone' = [gone EXCEPT ![c] = @ \cup {peer}]
    /\ UNCHANGED <<conn, obs, parserVars, stream, pumpVars, dumpVars>>

------------------------------------------------------------------------------
(* feed(), one step for each field that dump() may see change.              *)

(* bytes_total, with the bytes added to the buffer.                         *)
FeedCount(c) ==
    /\ up[c] = "feed"
    /\ bytes_total' = [bytes_total EXCEPT ![c] = @ + held[c]]
    /\ up' = [up EXCEPT ![c] = "preface"]
    /\ UNCHANGED <<conn, obs, bytes_parsed, preface_checked, preface_seen,
                   parse_failed, frames, headers_frames, peerVars, down, held,
                   sent_on, shut, dumpVars>>

(* Enough for the preface, for the first time: seen, or taken for TLS.      *)
FeedPreface(c) ==
    LET due == ~preface_checked[c] /\ bytes_total[c] >= PrefaceLen IN
    /\ up[c] = "preface"
    /\ preface_checked' = [preface_checked EXCEPT ![c] = @ \/ due]
    /\ preface_seen' = [preface_seen EXCEPT ![c] = @ \/ (due /\ stream[c].h2)]
    /\ parse_failed' = [parse_failed EXCEPT ![c] = @ \/ (due /\ ~stream[c].h2)]
    /\ up' = [up EXCEPT ![c] = IF due /\ stream[c].h2 THEN "cut" ELSE "frames"]
    /\ UNCHANGED <<conn, obs, bytes_total, bytes_parsed, frames,
                   headers_frames, peerVars, down, held, sent_on, shut,
                   dumpVars>>

FeedCutPreface(c) ==
    /\ up[c] = "cut"
    /\ bytes_parsed' = [bytes_parsed EXCEPT ![c] = @ + PrefaceLen]
    /\ up' = [up EXCEPT ![c] = "frames"]
    /\ UNCHANGED <<conn, obs, bytes_total, preface_checked, preface_seen,
                   parse_failed, frames, headers_frames, peerVars, down, held,
                   sent_on, shut, dumpVars>>

(* The frame at the start of the buffer, which is cut when all has come.    *)
NextFrame(c) == stream[c].frames[Len(frames[c]) + 1]

(* Mutated form of HasFrame: a frame is cut before all of it has come.      *)
GreedyHasFrame(c) ==
    /\ preface_seen[c] /\ ~parse_failed[c]
    /\ bytes_total[c] >= bytes_parsed[c] + HeaderLen
    /\ Len(frames[c]) < Len(stream[c].frames)

HasFrame(c) ==
    /\ preface_seen[c] /\ ~parse_failed[c]
    /\ bytes_total[c] >= bytes_parsed[c] + HeaderLen
    /\ Len(frames[c]) < Len(stream[c].frames)
    /\ bytes_total[c] >= NextFrame(c).end

FeedCutFrame(c) ==
    /\ up[c] = "frames"
    /\ HasFrame(c)
    /\ bytes_parsed' = [bytes_parsed EXCEPT ![c] = NextFrame(c).end]
    /\ up' = [up EXCEPT ![c] = "enter"]
    /\ UNCHANGED <<conn, obs, bytes_total, preface_checked, preface_seen,
                   parse_failed, frames, headers_frames, peerVars, down, held,
                   sent_on, shut, dumpVars>>

(* It is listed, and, in a step of its own, listed with the HEADERS.        *)
FeedEnter(c) ==
    /\ up[c] = "enter"
    /\ frames' = [frames EXCEPT ![c] = Append(@, NextFrame(c))]
    /\ up' = [up EXCEPT ![c] = IF NextFrame(c).type = "HEADERS" THEN "headers"
                               ELSE "frames"]
    /\ UNCHANGED <<conn, obs, bytes_total, bytes_parsed, preface_checked,
                   preface_seen, parse_failed, headers_frames, peerVars, down,
                   held, sent_on, shut, dumpVars>>

(* Mutated form of FeedHeaders: one frame of each feed is parsed.           *)
SingleFeedHeaders(c) ==
    /\ up[c] = "headers"
    /\ headers_frames' = [headers_frames EXCEPT
                              ![c] = Append(@, frames[c][Len(frames[c])])]
    /\ up' = [up EXCEPT ![c] = "send"]
    /\ UNCHANGED <<conn, obs, bytes_total, bytes_parsed, preface_checked,
                   preface_seen, parse_failed, frames, peerVars, down, held,
                   sent_on, shut, dumpVars>>

FeedHeaders(c) ==
    /\ up[c] = "headers"
    /\ headers_frames' = [headers_frames EXCEPT
                              ![c] = Append(@, frames[c][Len(frames[c])])]
    /\ up' = [up EXCEPT ![c] = "frames"]
    /\ UNCHANGED <<conn, obs, bytes_total, bytes_parsed, preface_checked,
                   preface_seen, parse_failed, frames, peerVars, down, held,
                   sent_on, shut, dumpVars>>

FeedReturns(c) ==
    /\ up[c] = "frames"
    /\ ~HasFrame(c)
    /\ up' = [up EXCEPT ![c] = "send"]
    /\ UNCHANGED <<conn, obs, parserVars, peerVars, down, held, sent_on, shut,
                   dumpVars>>

Feed(c) ==
    \/ FeedCount(c)
    \/ FeedPreface(c)
    \/ FeedCutPreface(c)
    \/ FeedCutFrame(c)
    \/ FeedEnter(c)
    \/ FeedHeaders(c)
    \/ FeedReturns(c)

------------------------------------------------------------------------------
(* pump(), from the client and from the server.                             *)

(* Any number of the bytes that are still to come, up to what one call of   *)
(* recv() returns.                                                          *)
UpRecv(c, n) ==
    /\ up[c] = "recv"
    /\ bytes_total[c] + n <= stream[c].size
    /\ held' = [held EXCEPT ![c] = n]
    /\ up' = [up EXCEPT ![c] = "feed"]
    /\ UNCHANGED <<conn, obs, parserVars, peerVars, down, sent_on, shut,
                   dumpVars>>

(* Mutated form of UpSend: send(), which may send less, for sendall().      *)
ShortUpSend(c) ==
    /\ up[c] = "send"
    /\ "server" \notin shut[c]
    /\ sent_on' = [sent_on EXCEPT ![c] = @ + 1]
    /\ held' = [held EXCEPT ![c] = 0]
    /\ up' = [up EXCEPT ![c] = "recv"]
    /\ UNCHANGED <<conn, obs, parserVars, peerVars, down, shut, dumpVars>>

UpSend(c) ==
    /\ up[c] = "send"
    /\ "server" \notin shut[c]
    /\ sent_on' = [sent_on EXCEPT ![c] = @ + held[c]]
    /\ held' = [held EXCEPT ![c] = 0]
    /\ up' = [up EXCEPT ![c] = "recv"]
    /\ UNCHANGED <<conn, obs, parserVars, peerVars, down, shut, dumpVars>>

(* recv() gives nothing or raises because the client is gone or its socket  *)
(* was shut down; sendall() raises because of the server's.                 *)
UpBreaks(c) ==
    /\ \/ up[c] = "recv" /\ ("client" \in gone[c] \/ "client" \in shut[c])
       \/ up[c] = "send" /\ ("server" \in gone[c] \/ "server" \in shut[c])
    /\ up' = [up EXCEPT ![c] = "shut src"]
    /\ UNCHANGED <<conn, obs, parserVars, peerVars, down, held, sent_on, shut,
                   dumpVars>>

DownRecv(c) ==
    /\ down[c] = "recv"
    /\ down' = [down EXCEPT ![c] = "send"]
    /\ UNCHANGED <<conn, obs, parserVars, peerVars, up, held, sent_on, shut,
                   dumpVars>>

DownSend(c) ==
    /\ down[c] = "send"
    /\ "client" \notin shut[c]
    /\ down' = [down EXCEPT ![c] = "recv"]
    /\ UNCHANGED <<conn, obs, parserVars, peerVars, up, held, sent_on, shut,
                   dumpVars>>

DownBreaks(c) ==
    /\ \/ down[c] = "recv" /\ ("server" \in gone[c] \/ "server" \in shut[c])
       \/ down[c] = "send" /\ ("client" \in gone[c] \/ "client" \in shut[c])
    /\ down' = [down EXCEPT ![c] = "shut src"]
    /\ UNCHANGED <<conn, obs, parserVars, peerVars, up, held, sent_on, shut,
                   dumpVars>>

(* Mutated form of ShutDown: the destination is left open.                  *)
HalfShutDown(c, pump, src, dst) ==
    CASE pump[c] = "shut src" ->
            /\ shut' = [shut EXCEPT ![c] = @ \cup {src}]
            /\ pump' = [pump EXCEPT ![c] = "shut dst"]
      [] pump[c] = "shut dst" ->
            /\ shut' = shut
            /\ pump' = [pump EXCEPT ![c] = "ended"]
      [] OTHER -> FALSE

(* The finally clause: both sockets are shut down, one after the other.     *)
ShutDown(c, pump, src, dst) ==
    CASE pump[c] = "shut src" ->
            /\ shut' = [shut EXCEPT ![c] = @ \cup {src}]
            /\ pump' = [pump EXCEPT ![c] = "shut dst"]
      [] pump[c] = "shut dst" ->
            /\ shut' = [shut EXCEPT ![c] = @ \cup {dst}]
            /\ pump' = [pump EXCEPT ![c] = "ended"]
      [] OTHER -> FALSE

UpFinally(c) ==
    /\ ShutDown(c, up, "client", "server")
    /\ UNCHANGED <<conn, obs, parserVars, peerVars, down, held, sent_on,
                   dumpVars>>

DownFinally(c) ==
    /\ ShutDown(c, down, "server", "client")
    /\ UNCHANGED <<conn, obs, parserVars, peerVars, up, held, sent_on,
                   dumpVars>>

------------------------------------------------------------------------------
(* dump(), in the main thread, which holds the lock throughout.             *)

DumpStart ==
    /\ reading = "no"
    /\ reading' = "counted"
    /\ counted' = Len(obs)
    /\ listed' = 0
    /\ report' = NoReport
    /\ UNCHANGED <<conn, obs, parserVars, peerVars, pumpVars, todo>>

(* Mutated form of DumpBegin: there is always an entry to begin.            *)
EagerDumpBegin ==
    /\ reading = "counted"
    /\ reading' = "preface"
    /\ todo' = obs
    /\ UNCHANGED <<conn, obs, parserVars, peerVars, pumpVars, counted, listed,
                   report>>

DumpBegin ==
    /\ reading = "counted"
    /\ reading' = IF obs = <<>> THEN "no" ELSE "preface"
    /\ todo' = obs
    /\ UNCHANGED <<conn, obs, parserVars, peerVars, pumpVars, counted, listed,
                   report>>

(* One expression of the entry of a connection: the field is read, and the  *)
(* next one is due.                                                         *)
Read(here, next, new) ==
    /\ reading = here
    /\ reading' = next
    /\ report' = new
    /\ UNCHANGED <<conn, obs, parserVars, peerVars, pumpVars, todo, counted,
                   listed>>

This == Head(todo)

ReadPreface ==
    Read("preface", "failed", [report EXCEPT !.preface = preface_seen[This]])

ReadFailed ==
    Read("failed", "total", [report EXCEPT !.failed = parse_failed[This]])

ReadTotal ==
    Read("total", "parsed", [report EXCEPT !.total = bytes_total[This]])

ReadParsed ==
    Read("parsed", "numerator", [report EXCEPT !.parsed = bytes_parsed[This]])

(* The fraction is 0.0 unless bytes_total is positive; it is then one more  *)
(* reading of bytes_parsed over one more of bytes_total.                    *)
ReadNumerator ==
    Read("numerator", IF bytes_total[This] = 0 THEN "frames" ELSE "denominator",
         [report EXCEPT !.numerator = bytes_parsed[This]])

(* A fraction, before it is rounded, by what is told of it.                 *)
Fraction(n, d) == IF n = 0 THEN "zero" ELSE IF n <= d THEN "proper" ELSE "improper"

ReadDenominator ==
    Read("denominator", "frames",
         [report EXCEPT !.fraction = Fraction(report.numerator, bytes_total[This]),
                        !.numerator = 0])

ReadFrames ==
    Read("frames", "headers", [report EXCEPT !.frames = Len(frames[This])])

ReadHeaders ==
    Read("headers", "ids",
         [report EXCEPT !.headers = Len(headers_frames[This])])

StreamIds(list) == {list[k].stream_id : k \in DOMAIN list}

(* Mutated form of ReadIds: the ids of every frame.                         *)
AllReadIds ==
    Read("ids", "events", [report EXCEPT !.ids = StreamIds(frames[This])])

ReadIds ==
    Read("ids", "events",
         [report EXCEPT !.ids = StreamIds(headers_frames[This])])

ReadEvents ==
    Read("events", "next", [report EXCEPT !.events = headers_frames[This]])

DumpNext ==
    /\ reading = "next"
    /\ listed' = listed + 1
    /\ todo' = Tail(todo)
    /\ reading' = IF Len(todo) = 1 THEN "no" ELSE "preface"
    /\ report' = NoReport
    /\ UNCHANGED <<conn, obs, parserVars, peerVars, pumpVars, counted>>

------------------------------------------------------------------------------
Dump ==
    \/ DumpStart
    \/ DumpBegin
    \/ ReadPreface
    \/ ReadFailed
    \/ ReadTotal
    \/ ReadParsed
    \/ ReadNumerator
    \/ ReadDenominator
    \/ ReadFrames
    \/ ReadHeaders
    \/ ReadIds
    \/ ReadEvents
    \/ DumpNext

Next ==
    \/ \E c \in Conns, s \in Streams : Accept(c, s)
    \/ \E c \in Conns : \/ ConnectFails(c)
                        \/ Register(c)
                        \/ Close(c)
    \/ \E c \in Conns, peer \in {"client", "server"} : PeerCloses(c, peer)
    \/ \E c \in Conns : Feed(c)
    \/ \E c \in Conns : \E n \in 1..MaxRecv : UpRecv(c, n)
    \/ \E c \in Conns : UpSend(c) \/ UpBreaks(c) \/ UpFinally(c)
    \/ \E c \in Conns : DownRecv(c) \/ DownSend(c) \/ DownBreaks(c)
                                    \/ DownFinally(c)
    \/ Dump

Spec == Init /\ [][Next]_vars

(* The threads run.  A recv() may wait for ever, and a sendall() to a peer  *)
(* that does not read, unless the socket was shut down.                     *)
FairSpec ==
    /\ Spec
    /\ \A c \in Conns :
          /\ WF_vars(Feed(c) \/ UpBreaks(c) \/ UpFinally(c))
          /\ WF_vars(DownBreaks(c) \/ DownFinally(c))
          /\ WF_vars(Close(c))

------------------------------------------------------------------------------
(* Properties.                                                              *)

Feeding == {"feed", "preface", "cut", "frames", "enter", "headers"}

UpSteps ==
    {"none", "recv", "send", "shut src", "shut dst", "ended"} \cup Feeding

DownSteps == {"none", "recv", "send", "shut src", "shut dst", "ended"}

DumpSteps == {"no", "counted", "preface", "failed", "total", "parsed",
              "numerator", "denominator", "frames", "headers", "ids", "events",
              "next"}

ReportRecord ==
    [preface: BOOLEAN, failed: BOOLEAN, total: Nat, parsed: Nat,
     numerator: Nat, fraction: {"zero", "proper", "improper"}, frames: Nat,
     headers: Nat, ids: SUBSET Sids, events: Seq(Frame)]

TypeOK ==
    /\ conn \in [Conns -> {"none", "accepted", "open", "closed"}]
    /\ stream \in [Conns -> Streams \cup {NoStream}]
    /\ obs \in Seq(Conns)
    /\ bytes_total \in [Conns -> Nat] /\ bytes_parsed \in [Conns -> Nat]
    /\ preface_checked \in [Conns -> BOOLEAN]
    /\ preface_seen \in [Conns -> BOOLEAN]
    /\ parse_failed \in [Conns -> BOOLEAN]
    /\ frames \in [Conns -> Seq(Frame)]
    /\ headers_frames \in [Conns -> Seq(Frame)]
    /\ up \in [Conns -> UpSteps] /\ down \in [Conns -> DownSteps]
    /\ held \in [Conns -> Nat] /\ sent_on \in [Conns -> Nat]
    /\ gone \in [Conns -> SUBSET {"client", "server"}]
    /\ shut \in [Conns -> SUBSET {"client", "server"}]
    /\ reading \in DumpSteps
    /\ todo \in Seq(Conns) /\ (reading \notin {"no", "counted"} => todo # <<>>)
    /\ counted \in Nat /\ listed \in Nat
    /\ report \in ReportRecord

(* Whatever the pieces in which a stream arrives, between two of them the   *)
(* parser has listed exactly the frames that have come in full, and counted *)
(* their bytes, once a preface has come; anything else is called opaque     *)
(* (feed()).                                                                *)
CutsDoNotMatter ==
    \A c \in Conns :
        LET s == stream[c]
            n == bytes_total[c]
            listedFrames == Len(frames[c])
        IN  up[c] \notin Feeding =>
              /\ preface_seen[c] = (s.h2 /\ n >= PrefaceLen)
              /\ parse_failed[c] = (~s.h2 /\ n >= PrefaceLen)
              /\ listedFrames <= Len(s.frames)
              /\ \A k \in 1..listedFrames : frames[c][k] = s.frames[k]
              /\ \A k \in 1..Len(s.frames) :
                    k <= listedFrames <=> s.frames[k].end <= n
              /\ bytes_parsed[c] = IF listedFrames > 0
                                   THEN s.frames[listedFrames].end
                                   ELSE IF preface_seen[c] THEN PrefaceLen
                                   ELSE 0

(* What was sent on to the server is what the parser was fed, but for what  *)
(* the pump has in hand: the observer never reads a byte later than the     *)
(* server, nor one that is not sent on (pump()).                            *)
SeenBeforeSent ==
    \A c \in Conns :
        /\ up[c] \in {"recv", "send"} => bytes_total[c] = sent_on[c] + held[c]
        /\ sent_on[c] <= bytes_total[c]

(* The parseable fraction reported is at most one, though the bytes are     *)
(* counted while it is computed (dump(), which takes a lock feed() does     *)
(* not).                                                                    *)
FractionAtMostOne == report.fraction # "improper"

(* Once the table was counted, the entries that were written and those that *)
(* are still to be make up that count (handle() and dump(), by the lock).   *)
ConnectionsListed ==
    reading \notin {"no", "counted"} => listed + Len(todo) = counted

(* What the entry of connection c says if nothing happens while it is read. *)
Picture(c) ==
    [preface |-> preface_seen[c], failed |-> parse_failed[c],
     total |-> bytes_total[c], parsed |-> bytes_parsed[c],
     numerator |-> 0, fraction |-> Fraction(bytes_parsed[c], bytes_total[c]),
     frames |-> Len(frames[c]), headers |-> Len(headers_frames[c]),
     ids |-> StreamIds(headers_frames[c]), events |-> headers_frames[c]]

(* What a report may be relied on for, though feed() takes no lock and goes *)
(* on while dump() reads (h2_observer.py:130-152).  It has as many entries  *)
(* as it says.  In an entry a field that is read later does not fall short  *)
(* of an earlier one; bytes it calls opaque have no frames.                 *)
(*                                                                          *)
(* It is no more than that.  While its parser is fed, an entry may claim    *)
(* more bytes parsed than bytes in total, frames without a preface, or more *)
(* HEADERS than frames, for of each two it reads first the one that bounds  *)
(* the other.  Only an entry of which no field has changed when it is done  *)
(* agrees with itself in these too.                                         *)
ReportReadInOrder ==
    /\ ConnectionsListed
    /\ reading = "next" =>
          /\ report.preface => ~report.failed
          /\ report.preface \/ report.failed => report.total >= PrefaceLen
          /\ report.failed => /\ report.parsed = 0 /\ report.fraction = "zero"
                              /\ report.frames = 0 /\ report.events = <<>>
          /\ report.parsed > 0 => report.fraction # "zero"
          /\ report.headers <= Len(report.events)
          /\ report.ids \subseteq StreamIds(report.events)
          /\ report = Picture(This) =>
                /\ report.parsed <= report.total
                /\ report.frames > 0 => report.preface
                /\ report.headers <= report.frames

(* When one direction ends, the other one does, and the connection is       *)
(* closed (pump(), its finally clause, and handle()).                       *)
BothEnd ==
    \A c \in Conns :
        (up[c] = "ended" \/ down[c] = "ended") ~> conn[c] = "closed"
==============================================================================
