---------------------------- MODULE MCH2Observer -----------------------------
(* Finite instances of H2Observer for TLC.                                  *)
EXTENDS H2Observer, TLC

CONSTANTS s1, s2

MCFrame(end, type, sid) == [end |-> end, type |-> type, stream_id |-> sid]

MCStream(h2, frames_, size) == [h2 |-> h2, frames |-> frames_, size |-> size]

(* Octets of TLS; and a preface with two frames, a HEADERS that is no more  *)
(* than its header, and one of another type with a body.                    *)
MCStreams ==
    {MCStream(FALSE, <<>>, 3),
     MCStream(TRUE, <<MCFrame(3, "HEADERS", s1), MCFrame(5, "other", s2)>>, 5)}
==============================================================================
