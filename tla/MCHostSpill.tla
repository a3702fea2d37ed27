---------------------------- MODULE MCHostSpill ----------------------------
(* Model-checking instance of HostSpill; the constants are set in the     *)
(* MCHostSpill_*.cfg files.                                                *)
EXTENDS HostSpill
=============================================================================
