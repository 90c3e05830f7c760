---------------------------- MODULE ContainerInit ----------------------------
(***************************************************************************)
(* badgr/init.c: the first process (PID 1) of a container.  It starts the  *)
(* main program, passes the signals it gets on to it, and reaps the        *)
(* processes that end as its children, its own and the orphans it is given *)
(* by the kernel, until it has none left.                                  *)
(*                                                                         *)
(* The rest of the container is the environment: processes start others,   *)
(* end, wait for their children or not, and the id of a process that has   *)
(* been waited for is used again.  SIGCHLD is a standard signal: pending   *)
(* once, however many processes ended.                                     *)
(***************************************************************************)
EXTENDS Naturals

CONSTANTS
    Pids, MainPid, Statuses, None,      \* see Supervision
    Signals,    \* signals that are passed on (blocked_signals)
    Chld,       \* SIGCHLD
    InitPid     \* PID 1

ASSUME StatusAssumption ==
    /\ MainPid \in Pids
    /\ Statuses \subseteq [signaled : {FALSE}, n : 0 .. 255]
                      \cup [signaled : {TRUE}, n : 1 .. 64]
    /\ None \notin Statuses /\ None \notin Nat
ASSUME PidAssumption == InitPid \notin Pids
ASSUME SignalAssumption == Chld \notin Signals

VARIABLES
    state,          \* of each process id: "free", "running" or "zombie"
    parent,         \* the process that is to wait for it
    status,         \* what a zombie ended with
    pending,        \* the signals pending for init
    pc,             \* where init is: in sigwait, in waitpid, or returned
    main_reaped,
    main_exit_code,
    result,         \* what init returned, or None
    ended,          \* history: what the main program ended with, or None
    mainThere,      \* history: MainPid is still the main program's id
    strayed         \* history: a signal went to another process

procs == <<state, parent, status>>
local == <<main_reaped, main_exit_code>>
vars == <<state, parent, status, pending, pc, main_reaped, main_exit_code,
          result, ended, mainThere, strayed>>

TypeOK ==
    /\ state \in [Pids -> {"free", "running", "zombie"}]
    /\ parent \in [Pids -> Pids \cup {InitPid}]
    /\ status \in [Pids -> Statuses \cup {None}]
    /\ pending \subseteq Signals \cup {Chld}
    /\ pc \in {"sigwait", "waitpid", "returned"}
    /\ main_reaped \in BOOLEAN
    /\ main_exit_code \in 0 .. 255
    /\ result \in (0 .. 255) \cup {None}
    /\ ended \in Statuses \cup {None}
    /\ mainThere \in BOOLEAN
    /\ strayed \in BOOLEAN

\* posix_spawnp has started the main program, with no signal blocked.
Init ==
    /\ state = [p \in Pids |-> IF p = MainPid THEN "running" ELSE "free"]
    /\ parent = [p \in Pids |-> InitPid]
    /\ status = [p \in Pids |-> None]
    /\ pending = {}
    /\ pc = "sigwait"
    /\ main_reaped = FALSE
    /\ main_exit_code = 1
    /\ result = None
    /\ ended = None
    /\ mainThere = TRUE
    /\ strayed = FALSE

Running == {p \in Pids : state[p] = "running"}
ChildrenOf(q) == {p \in Pids : state[p] # "free" /\ parent[p] = q}
ZombiesOf(q) == {p \in ChildrenOf(q) : state[p] = "zombie"}

-----------------------------------------------------------------------------
\* The environment.  It ends with init: the kernel kills what is left.

Fork(q, p) ==
    /\ pc # "returned"
    /\ state[q] = "running" /\ state[p] = "free"
    /\ state' = [state EXCEPT ![p] = "running"]
    /\ parent' = [parent EXCEPT ![p] = q]
    /\ UNCHANGED <<status, pending, pc, local, result, ended, mainThere, strayed>>

\* A process that ends leaves its children to init, which is sent SIGCHLD if
\* one of them has ended before, and its parent is sent SIGCHLD.
Exit(p, s) ==
    /\ pc # "returned"
    /\ state[p] = "running"
    /\ state' = [state EXCEPT ![p] = "zombie"]
    /\ status' = [status EXCEPT ![p] = s]
    /\ parent' = [q \in Pids |-> IF q \in ChildrenOf(p) THEN InitPid ELSE parent[q]]
    /\ pending' = IF parent[p] = InitPid \/ ZombiesOf(p) # {}
                  THEN pending \cup {Chld} ELSE pending
    /\ ended' = IF p = MainPid /\ ended = None THEN s ELSE ended
    /\ UNCHANGED <<pc, local, result, mainThere, strayed>>

\* Another process than init waits for a child of its own.
ParentWait(p) ==
    /\ pc # "returned"
    /\ state[p] = "zombie" /\ parent[p] # InitPid
    /\ state' = [state EXCEPT ![p] = "free"]
    /\ status' = [status EXCEPT ![p] = None]
    /\ mainThere' = (mainThere /\ p # MainPid)
    /\ UNCHANGED <<parent, pending, pc, local, result, ended, strayed>>

\* A signal for init, from inside or outside; SIGCHLD also says a child stopped.
Signal(s) ==
    /\ pc # "returned"
    /\ pending' = pending \cup {s}
    /\ UNCHANGED <<procs, pc, local, result, ended, mainThere, strayed>>

-----------------------------------------------------------------------------
\* init.  sigwait takes one of the pending signals.
SigwaitChld ==
    /\ pc = "sigwait" /\ Chld \in pending
    /\ pending' = pending \ {Chld}
    /\ pc' = "waitpid"
    /\ UNCHANGED <<procs, local, result, ended, mainThere, strayed>>

\* Fault: to whatever has the id now.
ForwardAlways == TRUE

Forwards == ~main_reaped

\* kill(main_pid, sig), which fails when there is no process with that id.
SigwaitForward(s) ==
    /\ pc = "sigwait" /\ s \in pending
    /\ Forwards
    /\ pending' = pending \ {s}
    /\ IF state[MainPid] # "free"
       THEN UNCHANGED <<pc, result>>
       ELSE pc' = "returned" /\ result' = 1
    /\ strayed' = (strayed \/ ~mainThere)
    /\ UNCHANGED <<procs, local, ended, mainThere>>

\* The main program has been waited for: the signal is dropped.
SigwaitIgnore(s) ==
    /\ pc = "sigwait" /\ s \in pending
    /\ ~Forwards
    /\ pending' = pending \ {s}
    /\ UNCHANGED <<procs, pc, local, result, ended, mainThere, strayed>>

\* Fault: one process for each SIGCHLD.
AfterReapOnce == "sigwait"

AfterReap == "waitpid"

\* Fault: the status of whoever has the main program's id.
IsMainById(c) == c = MainPid

IsMain(c) == ~main_reaped /\ c = MainPid

\* Fault: what waitpid stores, as it is.
Undecoded(s) == IF s.signaled THEN s.n ELSE 256 * s.n

ExitCode(s) == IF s.signaled THEN 128 + s.n ELSE s.n

\* waitpid(-1, &s, WNOHANG) returns a child that has ended ...
WaitpidReap(c) ==
    /\ pc = "waitpid" /\ c \in ZombiesOf(InitPid)
    /\ state' = [state EXCEPT ![c] = "free"]
    /\ status' = [status EXCEPT ![c] = None]
    /\ IF IsMain(c)
       THEN main_reaped' = TRUE /\ main_exit_code' = ExitCode(status[c])
       ELSE UNCHANGED local
    /\ pc' = AfterReap
    /\ mainThere' = (mainThere /\ c # MainPid)
    /\ UNCHANGED <<parent, pending, result, ended, strayed>>

\* ... or 0, when there are children and none of them has ended ...
WaitpidNone ==
    /\ pc = "waitpid"
    /\ ChildrenOf(InitPid) # {} /\ ZombiesOf(InitPid) = {}
    /\ pc' = "sigwait"
    /\ UNCHANGED <<procs, pending, local, result, ended, mainThere, strayed>>

\* ... or ECHILD, when there are none.
WaitpidEchild ==
    /\ pc = "waitpid"
    /\ ChildrenOf(InitPid) = {}
    /\ pc' = "returned"
    /\ result' = main_exit_code
    /\ UNCHANGED <<procs, pending, local, ended, mainThere, strayed>>

InitStep ==
    \/ SigwaitChld \/ WaitpidNone \/ WaitpidEchild
    \/ \E s \in Signals : SigwaitForward(s) \/ SigwaitIgnore(s)
    \/ \E c \in Pids : WaitpidReap(c)

Next ==
    \/ InitStep
    \/ \E p \in Pids :
          \/ \E q \in Pids : Fork(q, p)
          \/ \E s \in Statuses : Exit(p, s)
          \/ ParentWait(p)
    \/ \E s \in Signals \cup {Chld} : Signal(s)

Spec == Init /\ [][Next]_vars

\* init is never blocked but in sigwait.
FairSpec == Spec /\ WF_vars(InitStep)

-----------------------------------------------------------------------------
\* While init sleeps in sigwait without SIGCHLD pending, there is a child to
\* wait for and none that has ended: no end of a process is overlooked, though
\* SIGCHLD is pending once for any number of them.
NoLostWakeup ==
    pc = "sigwait" /\ Chld \notin pending =>
        ChildrenOf(InitPid) # {} /\ ZombiesOf(InitPid) = {}

\* A signal is only ever passed on to the main program, never to a process
\* that got its id after it.
NeverStrays == ~strayed

\* init exits last, and with the exit status of the main program.
Super == INSTANCE Supervision WITH running <- Running
Supervises == Super!Spec

\* Once every process has ended init exits, if it is not sent signals for ever
\* (sigwait may take those first).
ExitsInTheEnd ==
    <>[][\A s \in Signals \cup {Chld} : ~Signal(s)]_vars =>
        (Running = {} ~> pc = "returned")
=============================================================================
