-------------------------- MODULE MCComchConnection --------------------------
(* Two endpoints per handle: enough for a consumer id to match one endpoint  *)
(* and not the other, and for stops to overlap.                              *)
(*                                                                           *)
(* The run also checks the TCP and DOCA RDMA handles of PeerConnection.  The *)
(* two pairs of handles share no state, so each one's properties are blind  *)
(* to the other's steps: the peer handles run first, and the Comch handles   *)
(* start once they have halted, which adds their state counts instead of    *)
(* multiplying them.                                                         *)
EXTENDS ComchConnection

MCNEndpoints == 2

VARIABLES backend, datapath, pc, pos, est, listening, acceptq, chan, tries, link, died

TP == INSTANCE PeerConnection

peervars == <<backend, datapath, pc, pos, est, listening, acceptq, chan, tries, link, died>>

MCInit == TP!Init /\ Init

MCNext ==
  \/ TP!Next /\ UNCHANGED vars
  \/ TP!Halted /\ Next /\ UNCHANGED peervars

\* The Comch handles' fairness holds once the peer handles have halted.
ComchFairness ==
  /\ WF_vars(TP!Halted /\ ClientConnected)
  /\ \A s \in Sides :
       /\ WF_vars(TP!Halted /\ CtxStopped(s))
       /\ WF_vars(TP!Halted /\ HandleStep(s))
       /\ WF_vars(TP!Halted /\ EndpointStep(s))
       /\ WF_vars(TP!Halted /\ Connect(s))
       /\ WF_vars(TP!Halted /\ Connected(s))
       /\ WF_vars(TP!Halted /\ Destroyed(s))
  /\ WF_vars(TP!Halted /\ Disconnected)
  /\ WF_vars(TP!Halted /\ DaemonExit)
  /\ WF_vars(TP!Halted /\ Joined)

MCSpec == MCInit /\ [][MCNext]_<<vars, peervars>> /\ TP!Fairness /\ ComchFairness

\* Every variable of both pairs of handles keeps its type.
ConnTypeOK == TypeOK /\ TP!TypeOK

\* TCP sockets and RDMA paths are joined to the peer's path of the same
\* endpoint and kind (PeerConnection!PathsPaired).
PathsPaired == TP!PathsPaired

\* The TCP and RDMA handles finish setup and teardown unless the active
\* side gave up connecting (PeerConnection!PeerCompletes).
PeerCompletes == TP!PeerCompletes

====
