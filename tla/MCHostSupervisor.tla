------------------------- MODULE MCHostSupervisor -------------------------
(***************************************************************************)
(* Instances of HostSupervisor for TLC: a small storm cap, at most one     *)
(* doubling of the backoff, and a few generations and commands.            *)
(***************************************************************************)
EXTENDS HostSupervisor

=============================================================================
