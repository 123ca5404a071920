--------------------------- MODULE HostLifecycle ---------------------------
(***************************************************************************)
(* The vocabulary of the host lifecycle and its deterministic command      *)
(* reducer (src-tauri/src/host_lifecycle.rs).  The reducer decides, from   *)
(* the public phase alone, whether a command is accepted and which phase   *)
(* and desired state an accepted command leaves behind.  It is pure, so it *)
(* is a constant-level module: the supervisor of HostSupervisor applies it *)
(* under its lock.                                                         *)
(***************************************************************************)

(* HostLifecycleState, HostDesiredState and HostCommand.                   *)
Phase   == {"Stopped", "Starting", "Ready", "Stopping", "Backoff", "Failed"}
Desired == {"Running", "Stopped", "AppExit"}
Command == {"Start", "GracefulStop", "ForceKill", "Restart", "Reload"}

StartLike == {"Start", "Restart"}
StopLike  == {"GracefulStop", "ForceKill"}

(* The phases in which reduce_command accepts each command.                *)
AcceptingPhases(command) ==
    CASE command = "Start"        -> {"Stopped", "Failed", "Backoff"}
      [] command = "GracefulStop" -> {"Starting", "Ready", "Backoff"}
      [] command = "ForceKill"    -> {"Starting", "Ready", "Stopping"}
      [] command = "Restart"      -> {"Stopped", "Failed", "Backoff", "Ready"}
      [] command = "Reload"       -> {"Ready"}

Accepted(phase, command) == phase \in AcceptingPhases(command)

(* Phase and desired state after an accepted command.                      *)
ReducedPhase(phase, command) ==
    CASE command \in StartLike -> "Starting"
      [] command \in StopLike  -> "Stopping"
      [] command = "Reload"    -> phase

ReducedDesired(desired, command) ==
    CASE command \in StartLike -> "Running"
      [] command \in StopLike  -> "Stopped"
      [] command = "Reload"    -> desired
=============================================================================
