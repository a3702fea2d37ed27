---------------------------- MODULE MCTransport ----------------------------
(* Finite instances of Transport for TLC.                                  *)
EXTENDS Transport

\* Caller fibers as model values (given in the .cfg).
CONSTANTS c1, c2, c3

MCCallers2 == {c1, c2}
MCCallers3 == {c1, c2, c3}

\* The bulk bench of bench.cxx runs one fiber: c1 may issue bulk().
MCBulkCallers == {c1}

\* seq values: one more than the RPCs the instance issues, so current_seq
\* (starting at 1) never wraps onto a sequence number still in flight.
MCSeqMod == 8
====
