--------------------------- MODULE MCQuicObserver ----------------------------
(* Finite instances of QuicObserver for TLC.                                *)
EXTENDS QuicObserver, TLC

CONSTANTS ia, ib

Packet(form, dcid, scid) == [form |-> form, dcid |-> dcid, scid |-> scid]

(* Datagrams with nothing in them, with a long header that is cut, and with *)
(* long headers, the first from an endpoint with an id of length zero.      *)
MCPackets ==
    {Packet("empty", NoBytes, Absent), Packet("cut", NoBytes, Absent),
     Packet("long", ia, NoBytes), Packet("long", ib, ia)}

(* Datagrams that leave the dictionaries alone.                             *)
LivePackets ==
    {Packet("empty", NoBytes, Absent), Packet("short", NoBytes, Absent)}

(* Long headers whose ids are new to the dictionaries, and short ones.      *)
FewPackets ==
    {Packet("short", NoBytes, Absent), Packet("long", ia, ib),
     Packet("long", ib, ia)}

Symmetry == Permutations(Clients)
==============================================================================
