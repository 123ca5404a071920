-------------------------- MODULE HostGenerations --------------------------
(***************************************************************************)
(* What the host supervisor promises about the processes it launches,      *)
(* whoever runs, stops or kills them: a process is launched by a           *)
(* supervisor with nothing else alive of its own, is known to it alone     *)
(* until it is adopted, and is adopted at most once; from the adoption or  *)
(* the refusal on it has exactly one owner, and that owner ends it.        *)
(*                                                                         *)
(* One thing weakens the promise.  Once a start was accepted although an   *)
(* exit of the application stops a host, the supervisor may launch a       *)
(* process while the current generation waits for the exit to take it; if  *)
(* it is still there when the new one is adopted, the adoption ends it.    *)
(***************************************************************************)
EXTENDS Integers

CONSTANTS
    Pids,  \* the host processes, in the order in which they are launched
    Last   \* the slot of a process that no generation number is left for

VARIABLES
    life,  \* of each process
    late   \* whether a start was accepted although an exit stops a host

Life ==
    {"unborn",     \* not launched yet
     "private",    \* launched, known to the supervisor alone
     "adopted",    \* the current generation
     "condemned",  \* taken by the thread that is about to kill it
     "dead"}

Init == life = [p \in Pids |-> "unborn"] /\ late = FALSE

Becomes(p, from, to) == life[p] = from /\ life' = [life EXCEPT ![p] = to]

(* What a launch may find of the processes before it.                      *)
Settled == {"condemned", "dead"} \cup (IF late THEN {"adopted"} ELSE {})

(* Once the numbers are exhausted the launched processes are refused one   *)
(* after the other, in the same slot.                                      *)
Launch(p) ==
    /\ \/ Becomes(p, "unborn", "private")
       \/ p = Last /\ Becomes(p, "dead", "private")
    /\ \A q \in Pids : q < p => life[q] \in Settled

(* There is one current generation: an older one ends here.                *)
Adopt(p) ==
    /\ life[p] = "private"
    /\ \A q \in Pids : life[q] = "adopted" => late
    /\ life' = [q \in Pids |-> IF q = p THEN "adopted"
                               ELSE IF life[q] = "adopted" THEN "dead"
                               ELSE life[q]]

Refuse(p) == Becomes(p, "private", "condemned")

(* A stop, a kill, a failed spawn or the exit of the application.          *)
Take(p) == Becomes(p, "adopted", "condemned")

Kill(p) == Becomes(p, "condemned", "dead")

(* The process exited by itself and its exit was collected.                *)
Collect(p) == Becomes(p, "adopted", "dead")

StartLate == late' = TRUE /\ UNCHANGED life

Live(p) == Launch(p) \/ Adopt(p) \/ Refuse(p) \/ Take(p) \/ Kill(p) \/ Collect(p)

Next == StartLate \/ ((\E p \in Pids : Live(p)) /\ UNCHANGED late)

Spec == Init /\ [][Next]_<<life, late>>
=============================================================================
