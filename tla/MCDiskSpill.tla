---------------------------- MODULE MCDiskSpill ----------------------------
(* Finite instances of DiskSpill for TLC. *)
EXTENDS DiskSpill

\* The DispatchFn of dpu21_server_main (pid % 2 == 0) on partitions 1..2:
\* with file i holding pid i-1, partition 1 goes to the peer DPU.
MCRemoteParts == {1}

\* Every partition is spilled to the local disk.
MCLocalOnly == {}

====
