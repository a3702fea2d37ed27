--------------------------- MODULE MCNaiveOffload ---------------------------
(* Finite instances of NaiveOffload for TLC.                               *)
EXTENDS NaiveOffload

\* Two Spill calls on dpu20, whose partition 0 takes the whole chain, and one
\* on dpu21, whose DispatchFn sends partition 0 to the peer.
MCSpills3 == {<<20, 1>>, <<20, 2>>, <<21, 1>>}

\* Two Spill calls on dpu20, both of whose partitions take the RDMA leg to
\* dpu21.
MCSpills20 == {<<20, 1>>, <<20, 2>>}

\* One Spill call on each host.
MCSpills2 == {<<20, 1>>, <<21, 1>>}
====
