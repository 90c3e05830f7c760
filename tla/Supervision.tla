----------------------------- MODULE Supervision -----------------------------
(***************************************************************************)
(* What the container's first process promises (badgr/init.c, line 1): it  *)
(* waits for all other processes to exit before exiting, and then its exit *)
(* status is the one the main program ended with.                          *)
(***************************************************************************)
EXTENDS Naturals

CONSTANTS
    Pids,       \* ids of processes
    MainPid,    \* that of the main program
    Statuses,   \* what a process can end with: an exit status or a signal
    None

\* The exit status of init for what waitpid says of the main program.
CodeOf(s) == IF s.signaled THEN 128 + s.n ELSE s.n

VARIABLES
    running,    \* the processes that have not ended
    ended,      \* what the main program ended with, or None
    result      \* the exit status of init, or None

vars == <<running, ended, result>>

Init ==
    /\ running = {MainPid}
    /\ ended = None
    /\ result = None

\* A process that runs starts another.
Fork(p) ==
    /\ result = None
    /\ running # {}
    /\ p \notin running
    /\ running' = running \cup {p}
    /\ UNCHANGED <<ended, result>>

\* The first process to end with the main program's id is the main program.
End(p, s) ==
    /\ result = None
    /\ p \in running
    /\ running' = running \ {p}
    /\ ended' = IF p = MainPid /\ ended = None THEN s ELSE ended
    /\ UNCHANGED result

Finish ==
    /\ result = None
    /\ running = {} /\ ended # None
    /\ result' = CodeOf(ended)
    /\ UNCHANGED <<running, ended>>

Next ==
    \/ \E p \in Pids : Fork(p) \/ \E s \in Statuses : End(p, s)
    \/ Finish

Spec == Init /\ [][Next]_vars
=============================================================================
