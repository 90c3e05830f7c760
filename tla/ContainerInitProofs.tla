-------------------------- MODULE ContainerInitProofs --------------------------
(***************************************************************************)
(* That init overlooks no process, passes signals on to the main program   *)
(* only, and exits after all others with the main program's status: for    *)
(* any set of process ids, statuses and signals.                           *)
(***************************************************************************)
EXTENDS ContainerInit, TLAPS

Present == {p \in Pids : state[p] # "free"}

\* A process that has ended has its status, and no child: whoever is to wait
\* for a process is init or runs.
Table ==
    \A p \in Present :
        /\ state[p] = "zombie" => status[p] \in Statuses
        /\ parent[p] # InitPid => parent[p] \in Running

\* What each process but init was started by goes back to init: in every set
\* of processes there is one whose parent is not in the set.
Rooted ==
    \A T \in SUBSET Present : T # {} => \E p \in T : parent[p] \notin T

\* Until init has waited for the main program its id is taken, by a child of
\* init; after that main_exit_code is the main program's.
Main ==
    /\ mainThere = ~main_reaped
    /\ ~main_reaped =>
          /\ MainPid \in ChildrenOf(InitPid)
          /\ state[MainPid] = "running" => ended = None
          /\ state[MainPid] = "zombie" => ended = status[MainPid]
    /\ main_reaped => ended # None /\ main_exit_code = ExitCode(ended)

\* init has returned only with no process left.
Returned ==
    /\ result # None <=> pc = "returned"
    /\ pc = "returned" =>
          /\ Present = {}
          /\ main_reaped
          /\ result = main_exit_code

IInv == TypeOK /\ Table /\ Rooted /\ Main /\ Returned /\ NoLostWakeup /\ NeverStrays

-----------------------------------------------------------------------------
\* The special values are told apart from what they stand beside.
THEOREM Exclusive ==
    /\ InitPid \notin Pids
    /\ MainPid \in Pids
    /\ None \notin Statuses
    /\ None \notin 0 .. 255
    /\ Chld \notin Signals
<1>1. \A n \in 0 .. 255 : n \in Nat
  OBVIOUS
<1> QED
  BY <1>1, StatusAssumption, PidAssumption, SignalAssumption

\* Exit statuses are those a process of POSIX can have.
THEOREM ExitCodeType ==
    ASSUME NEW s \in Statuses
    PROVE  ExitCode(s) \in 0 .. 255
<1>1. \/ s \in [signaled : {FALSE}, n : 0 .. 255]
      \/ s \in [signaled : {TRUE}, n : 1 .. 64]
  BY StatusAssumption
<1>2. CASE s \in [signaled : {FALSE}, n : 0 .. 255]
  BY <1>2 DEF ExitCode
<1>3. CASE s \in [signaled : {TRUE}, n : 1 .. 64]
  BY <1>3 DEF ExitCode
<1> QED
  BY <1>1, <1>2, <1>3

\* Without a child of init there is no process.
THEOREM NoOrphans ==
    ASSUME Table, Rooted, ChildrenOf(InitPid) = {}
    PROVE  Present = {}
<1>1. SUFFICES ASSUME Present # {} PROVE FALSE
  OBVIOUS
<1>2. PICK p \in Present : parent[p] \notin Present
  BY <1>1 DEF Rooted
<1>3. parent[p] # InitPid
  BY <1>2 DEF ChildrenOf, Present
<1>4. parent[p] \in Running
  BY <1>2, <1>3 DEF Table
<1> QED
  BY <1>2, <1>4 DEF Running, Present

-----------------------------------------------------------------------------
\* The invariant holds at the beginning.
LEMMA InitInv == Init => IInv
<1> SUFFICES ASSUME Init PROVE IInv
  OBVIOUS
<1> USE Exclusive DEF Init
<1>1. TypeOK
  <2>1. 1 \in 0 .. 255
    OBVIOUS
  <2>2. state \in [Pids -> {"free", "running", "zombie"}]
    OBVIOUS
  <2>3. parent \in [Pids -> Pids \cup {InitPid}] /\ status \in [Pids -> Statuses \cup {None}]
    OBVIOUS
  <2> HIDE DEF Init
  <2>4. /\ pending \subseteq Signals \cup {Chld}
        /\ pc \in {"sigwait", "waitpid", "returned"}
        /\ main_reaped \in BOOLEAN /\ mainThere \in BOOLEAN /\ strayed \in BOOLEAN
    BY DEF Init
  <2>5. result \in (0 .. 255) \cup {None} /\ ended \in Statuses \cup {None}
    BY DEF Init
  <2>6. main_exit_code \in 0 .. 255
    BY <2>1 DEF Init
  <2> QED
    BY <2>2, <2>3, <2>4, <2>5, <2>6 DEF TypeOK
<1>2. Present = {MainPid} /\ ChildrenOf(InitPid) = {MainPid} /\ ZombiesOf(InitPid) = {}
  BY DEF Present, ChildrenOf, ZombiesOf
<1>3. Table
  BY <1>2 DEF Table
<1>4. Rooted
  <2>1. \A T \in SUBSET Present : T # {} => T = {MainPid}
    BY <1>2
  <2> QED
    BY <2>1 DEF Rooted
<1>5. Main
  BY <1>2 DEF Main
<1>6. Returned
  BY DEF Returned
<1>7. NoLostWakeup
  BY <1>2 DEF NoLostWakeup
<1>8. NeverStrays
  BY DEF NeverStrays
<1> QED
  BY <1>1, <1>3, <1>4, <1>5, <1>6, <1>7, <1>8 DEF IInv

\* A process that starts another keeps the invariant.
LEMMA ForkInv ==
    ASSUME IInv, NEW q \in Pids, NEW p \in Pids, Fork(q, p)
    PROVE  IInv'
<1>t. TypeOK
  BY DEF IInv
<1>a. Table
  BY DEF IInv
<1>r. Rooted
  BY DEF IInv
<1>m. Main
  BY DEF IInv
<1>e. Returned
  BY DEF IInv
<1>w. NoLostWakeup
  BY DEF IInv
<1>s. NeverStrays
  BY DEF IInv
<1> USE Exclusive
<1>0. /\ pc # "returned"
      /\ state[q] = "running" /\ state[p] = "free"
      /\ state' = [state EXCEPT ![p] = "running"]
      /\ parent' = [parent EXCEPT ![p] = q]
      /\ UNCHANGED <<status, pending, pc, main_reaped, main_exit_code,
                     result, ended, mainThere, strayed>>
  BY DEF Fork, local
<1>f. /\ state'[p] = "running" /\ parent'[p] = q /\ q # p
      /\ \A o \in Pids \ {p} : state'[o] = state[o] /\ parent'[o] = parent[o]
  BY <1>0, <1>t DEF TypeOK
<1>1. TypeOK'
  BY <1>0, <1>t DEF TypeOK
<1>2. Present' = Present \cup {p} /\ p \notin Present /\ Running' = Running \cup {p} /\ q \in Running
  BY <1>0, <1>f DEF Present, Running
<1>3. Table'
  <2> SUFFICES ASSUME NEW o \in Present'
               PROVE  /\ state'[o] = "zombie" => status'[o] \in Statuses
                      /\ parent'[o] # InitPid => parent'[o] \in Running'
    BY DEF Table
  <2>1. CASE o = p
    BY <2>1, <1>0, <1>f, <1>2
  <2>2. CASE o # p
    BY <2>2, <1>0, <1>f, <1>2, <1>a DEF Table, Present
  <2> QED
    BY <2>1, <2>2
<1>4. Rooted'
  <2> SUFFICES ASSUME NEW T \in SUBSET Present', T # {}
               PROVE  \E o \in T : parent'[o] \notin T
    BY DEF Rooted
  <2>1. CASE T \ {p} = {}
    <3>1. T = {p}
      BY <2>1
    <3> QED
      BY <3>1, <1>f
  <2>2. CASE T \ {p} # {}
    <3>1. PICK o \in T \ {p} : parent[o] \notin T \ {p}
      BY <2>2, <1>2, <1>r DEF Rooted
    <3>2. o \in Present /\ o \in Pids
      BY <3>1, <1>2 DEF Present
    <3>3. parent[o] # p
      BY <3>2, <1>a, <1>2, <1>0 DEF Table, Running, Present
    <3> QED
      BY <3>1, <3>2, <3>3, <1>f
  <2> QED
    BY <2>1, <2>2
<1>5. ChildrenOf(InitPid)' = ChildrenOf(InitPid) /\ ZombiesOf(InitPid)' = ZombiesOf(InitPid)
  <2>1. ChildrenOf(InitPid)' = ChildrenOf(InitPid)
    BY <1>0, <1>f DEF ChildrenOf
  <2> QED
    BY <2>1, <1>0, <1>f DEF ChildrenOf, ZombiesOf
<1>6. Main'
  <2>1. ~main_reaped => MainPid # p
    BY <1>m, <1>0 DEF Main, ChildrenOf
  <2> QED
    BY <2>1, <1>m, <1>5, <1>0, <1>f DEF Main
<1>7. Returned'
  BY <1>0, <1>e DEF Returned
<1>8. NoLostWakeup'
  BY <1>0, <1>5, <1>w DEF NoLostWakeup
<1>9. NeverStrays'
  BY <1>0, <1>s DEF NeverStrays
<1> QED
  BY <1>1, <1>3, <1>4, <1>6, <1>7, <1>8, <1>9 DEF IInv

\* The end of a process keeps the invariant: init gets its children and, if it
\* was init's, SIGCHLD.
LEMMA ExitInv ==
    ASSUME IInv, NEW p \in Pids, NEW s \in Statuses, Exit(p, s)
    PROVE  IInv'
<1>t. TypeOK
  BY DEF IInv
<1>a. Table
  BY DEF IInv
<1>r. Rooted
  BY DEF IInv
<1>m. Main
  BY DEF IInv
<1>e. Returned
  BY DEF IInv
<1>w. NoLostWakeup
  BY DEF IInv
<1>s. NeverStrays
  BY DEF IInv
<1> USE Exclusive
<1>0. /\ pc # "returned"
      /\ state[p] = "running"
      /\ state' = [state EXCEPT ![p] = "zombie"]
      /\ status' = [status EXCEPT ![p] = s]
      /\ parent' = [q \in Pids |-> IF q \in ChildrenOf(p) THEN InitPid ELSE parent[q]]
      /\ pending' = IF parent[p] = InitPid \/ ZombiesOf(p) # {}
                    THEN pending \cup {Chld} ELSE pending
      /\ ended' = IF p = MainPid /\ ended = None THEN s ELSE ended
      /\ UNCHANGED <<pc, main_reaped, main_exit_code, result, mainThere, strayed>>
  BY DEF Exit, local
<1>f. /\ state'[p] = "zombie" /\ status'[p] = s
      /\ \A o \in Pids \ {p} : state'[o] = state[o] /\ status'[o] = status[o]
      /\ \A o \in Pids : parent'[o] = IF o \in ChildrenOf(p) THEN InitPid ELSE parent[o]
  BY <1>0, <1>t DEF TypeOK
<1>1. TypeOK'
  <2>1. state' \in [Pids -> {"free", "running", "zombie"}]
    BY <1>0, <1>t DEF TypeOK
  <2>2. parent' \in [Pids -> Pids \cup {InitPid}]
    <3>1. \A q \in Pids : parent[q] \in Pids \cup {InitPid}
      BY <1>t DEF TypeOK
    <3> QED
      BY <1>0, <3>1
  <2>3. status' \in [Pids -> Statuses \cup {None}]
    BY <1>0, <1>t DEF TypeOK
  <2> QED
    BY <1>0, <1>t, <2>1, <2>2, <2>3 DEF TypeOK
<1>2. Present' = Present /\ Running' = Running \ {p} /\ p \in Present
  BY <1>0, <1>f DEF Present, Running
<1>3. Table'
  <2> SUFFICES ASSUME NEW o \in Present'
               PROVE  /\ state'[o] = "zombie" => status'[o] \in Statuses
                      /\ parent'[o] # InitPid => parent'[o] \in Running'
    BY DEF Table
  <2>1. o \in Present /\ o \in Pids
    BY <1>2 DEF Present
  <2>2. state'[o] = "zombie" => status'[o] \in Statuses
    <3>1. CASE o = p
      BY <3>1, <1>f
    <3>2. CASE o # p
      BY <3>2, <2>1, <1>f, <1>a DEF Table
    <3> QED
      BY <3>1, <3>2
  <2>3. ASSUME parent'[o] # InitPid PROVE parent'[o] \in Running'
    <3>1. parent'[o] = parent[o] /\ o \notin ChildrenOf(p)
      BY <2>1, <2>3, <1>f
    <3>2. parent[o] # p
      BY <2>1, <3>1 DEF ChildrenOf, Present
    <3>3. parent[o] \in Running
      BY <2>1, <2>3, <3>1, <1>a DEF Table
    <3> QED
      BY <3>1, <3>2, <3>3, <1>2
  <2> QED
    BY <2>2, <2>3
<1>4. Rooted'
  <2> SUFFICES ASSUME NEW T \in SUBSET Present', T # {}
               PROVE  \E o \in T : parent'[o] \notin T
    BY DEF Rooted
  <2>1. PICK o \in T : parent[o] \notin T
    BY <1>2, <1>r DEF Rooted
  <2>2. o \in Pids /\ InitPid \notin T
    BY <1>2 DEF Present
  <2>3. parent'[o] = InitPid \/ parent'[o] = parent[o]
    BY <2>2, <1>f
  <2> QED
    BY <2>1, <2>2, <2>3
<1>5. /\ ChildrenOf(InitPid) \subseteq ChildrenOf(InitPid)'
      /\ Chld \notin pending' => ZombiesOf(InitPid)' = ZombiesOf(InitPid)
  <2>1. ASSUME NEW o \in ChildrenOf(InitPid) PROVE o \in ChildrenOf(InitPid)'
    <3>1. o \in Pids /\ state[o] # "free" /\ parent[o] = InitPid
      BY DEF ChildrenOf
    <3>2. state'[o] # "free"
      BY <3>1, <1>f
    <3>3. parent'[o] = InitPid
      BY <3>1, <1>f
    <3> QED
      BY <3>1, <3>2, <3>3 DEF ChildrenOf
  <2>2. ASSUME Chld \notin pending' PROVE ZombiesOf(InitPid)' = ZombiesOf(InitPid)
    <3>1. parent[p] # InitPid /\ ZombiesOf(p) = {}
      BY <2>2, <1>0
    <3>2. p \notin ZombiesOf(InitPid)'
      <4>1. p \notin ChildrenOf(p)
        <5>1. \E o \in {p} : parent[o] \notin {p}
          BY <1>2, <1>r DEF Rooted
        <5> QED
          BY <5>1 DEF ChildrenOf
      <4> QED
        BY <3>1, <4>1, <1>f DEF ZombiesOf, ChildrenOf
    <3>3. ASSUME NEW o \in Pids, o # p
          PROVE  o \in ZombiesOf(InitPid)' <=> o \in ZombiesOf(InitPid)
      <4>1. state'[o] = state[o] /\ (state[o] = "zombie" => o \notin ChildrenOf(p))
        BY <3>1, <3>3, <1>f DEF ZombiesOf
      <4> QED
        BY <4>1, <3>3, <1>f DEF ZombiesOf, ChildrenOf
    <3>4. p \notin ZombiesOf(InitPid)
      BY <1>0 DEF ZombiesOf
    <3> QED
      BY <3>2, <3>3, <3>4 DEF ZombiesOf, ChildrenOf
  <2> QED
    BY <2>1, <2>2
<1>6. Main'
  <2>1. CASE p = MainPid
    <3>1. ~main_reaped => ended' = s /\ MainPid \in ChildrenOf(InitPid)'
      BY <2>1, <1>m, <1>5, <1>0 DEF Main
    <3>2. main_reaped => ended' = ended
      BY <1>m, <1>0 DEF Main
    <3> QED
      BY <2>1, <3>1, <3>2, <1>m, <1>0, <1>f DEF Main
  <2>2. CASE p # MainPid
    <3>1. ended' = ended /\ state'[MainPid] = state[MainPid] /\ status'[MainPid] = status[MainPid]
      BY <2>2, <1>0, <1>f
    <3> QED
      BY <3>1, <1>m, <1>5, <1>0 DEF Main
  <2> QED
    BY <2>1, <2>2
<1>7. Returned'
  BY <1>0, <1>e DEF Returned
<1>8. NoLostWakeup'
  <2> SUFFICES ASSUME pc' = "sigwait", Chld \notin pending'
               PROVE  ChildrenOf(InitPid)' # {} /\ ZombiesOf(InitPid)' = {}
    BY DEF NoLostWakeup
  <2>1. pc = "sigwait" /\ Chld \notin pending
    BY <1>0
  <2> QED
    BY <2>1, <1>5, <1>w DEF NoLostWakeup
<1>9. NeverStrays'
  BY <1>0, <1>s DEF NeverStrays
<1> QED
  BY <1>1, <1>3, <1>4, <1>6, <1>7, <1>8, <1>9 DEF IInv

\* Waiting for a process, whoever does: it had no child.
LEMMA ReapTable ==
    ASSUME IInv, NEW p \in Pids, state[p] = "zombie",
           state' = [state EXCEPT ![p] = "free"],
           status' = [status EXCEPT ![p] = None],
           parent' = parent
    PROVE  /\ state' \in [Pids -> {"free", "running", "zombie"}]
           /\ status' \in [Pids -> Statuses \cup {None}]
           /\ state'[p] = "free"
           /\ \A o \in Pids \ {p} : state'[o] = state[o] /\ status'[o] = status[o]
           /\ Running' = Running
           /\ ChildrenOf(InitPid)' = ChildrenOf(InitPid) \ {p}
           /\ ZombiesOf(InitPid)' = ZombiesOf(InitPid) \ {p}
           /\ Table'
           /\ Rooted'
<1>t. TypeOK
  BY DEF IInv
<1>a. Table
  BY DEF IInv
<1>r. Rooted
  BY DEF IInv
<1>1. state' \in [Pids -> {"free", "running", "zombie"}]
  BY <1>t DEF TypeOK
<1>2. status' \in [Pids -> Statuses \cup {None}]
  BY <1>t DEF TypeOK
<1>3. state'[p] = "free" /\ \A o \in Pids \ {p} : state'[o] = state[o] /\ status'[o] = status[o]
  BY <1>t DEF TypeOK
<1>4. Running' = Running /\ Present' = Present \ {p}
  BY <1>3 DEF Running, Present
<1>5. ChildrenOf(InitPid)' = ChildrenOf(InitPid) \ {p}
  BY <1>3 DEF ChildrenOf
<1>6. ZombiesOf(InitPid)' = ZombiesOf(InitPid) \ {p}
  BY <1>3, <1>5 DEF ZombiesOf
<1>7. Table'
  BY <1>3, <1>4, <1>a DEF Table, Present
<1>8. Rooted'
  BY <1>4, <1>r DEF Rooted
<1> QED
  BY <1>1, <1>2, <1>3, <1>4, <1>5, <1>6, <1>7, <1>8

\* A process that waits for a child of its own keeps the invariant.
LEMMA ParentWaitInv ==
    ASSUME IInv, NEW p \in Pids, ParentWait(p)
    PROVE  IInv'
<1>t. TypeOK
  BY DEF IInv
<1>a. Table
  BY DEF IInv
<1>r. Rooted
  BY DEF IInv
<1>m. Main
  BY DEF IInv
<1>e. Returned
  BY DEF IInv
<1>w. NoLostWakeup
  BY DEF IInv
<1>s. NeverStrays
  BY DEF IInv
<1> USE Exclusive
<1>0. /\ pc # "returned"
      /\ state[p] = "zombie" /\ parent[p] # InitPid
      /\ state' = [state EXCEPT ![p] = "free"]
      /\ status' = [status EXCEPT ![p] = None]
      /\ mainThere' = (mainThere /\ p # MainPid)
      /\ UNCHANGED <<parent, pending, pc, main_reaped, main_exit_code,
                     result, ended, strayed>>
  BY DEF ParentWait, local
<1>2. /\ state' \in [Pids -> {"free", "running", "zombie"}]
      /\ status' \in [Pids -> Statuses \cup {None}]
      /\ \A o \in Pids \ {p} : state'[o] = state[o] /\ status'[o] = status[o]
      /\ ChildrenOf(InitPid)' = ChildrenOf(InitPid) \ {p}
      /\ ZombiesOf(InitPid)' = ZombiesOf(InitPid) \ {p}
  BY <1>0, ReapTable
<1>5. p \notin ChildrenOf(InitPid) /\ p \notin ZombiesOf(InitPid)
  BY <1>0 DEF ChildrenOf, ZombiesOf
<1>1. TypeOK'
  BY <1>0, <1>2, <1>t DEF TypeOK
<1>3. Table'
  BY <1>0, ReapTable
<1>4. Rooted'
  BY <1>0, ReapTable
<1>6. Main'
  <2>1. ~main_reaped => p # MainPid
    BY <1>m, <1>5 DEF Main
  <2>2. mainThere' = ~main_reaped'
    BY <2>1, <1>0, <1>m DEF Main
  <2> QED
    BY <2>1, <2>2, <1>0, <1>2, <1>5, <1>m DEF Main
<1>7. Returned'
  BY <1>0, <1>e DEF Returned
<1>8. NoLostWakeup'
  BY <1>0, <1>2, <1>5, <1>w DEF NoLostWakeup
<1>9. NeverStrays'
  BY <1>0, <1>s DEF NeverStrays
<1> QED
  BY <1>1, <1>3, <1>4, <1>6, <1>7, <1>8, <1>9 DEF IInv

\* init reaping a child keeps the invariant.
LEMMA WaitpidReapInv ==
    ASSUME IInv, NEW c \in Pids, WaitpidReap(c)
    PROVE  IInv'
<1>t. TypeOK
  BY DEF IInv
<1>a. Table
  BY DEF IInv
<1>r. Rooted
  BY DEF IInv
<1>m. Main
  BY DEF IInv
<1>e. Returned
  BY DEF IInv
<1>w. NoLostWakeup
  BY DEF IInv
<1>s. NeverStrays
  BY DEF IInv
<1> USE Exclusive
<1>0. /\ pc = "waitpid" /\ c \in ZombiesOf(InitPid)
      /\ state' = [state EXCEPT ![c] = "free"]
      /\ status' = [status EXCEPT ![c] = None]
      /\ IF IsMain(c)
         THEN main_reaped' = TRUE /\ main_exit_code' = ExitCode(status[c])
         ELSE main_reaped' = main_reaped /\ main_exit_code' = main_exit_code
      /\ pc' = "waitpid"
      /\ mainThere' = (mainThere /\ c # MainPid)
      /\ UNCHANGED <<parent, pending, result, ended, strayed>>
  BY DEF WaitpidReap, local, AfterReap
<1>z. state[c] = "zombie" /\ status[c] \in Statuses
  BY <1>0, <1>a DEF ZombiesOf, ChildrenOf, Table, Present
<1>2. /\ state' \in [Pids -> {"free", "running", "zombie"}]
      /\ status' \in [Pids -> Statuses \cup {None}]
      /\ \A o \in Pids \ {c} : state'[o] = state[o] /\ status'[o] = status[o]
      /\ ChildrenOf(InitPid)' = ChildrenOf(InitPid) \ {c}
  BY <1>0, <1>z, ReapTable
<1>1. TypeOK'
  <2>1. main_reaped' \in BOOLEAN /\ main_exit_code' \in 0 .. 255
    BY <1>0, <1>z, <1>t, ExitCodeType DEF TypeOK
  <2> QED
    BY <1>0, <1>2, <2>1, <1>t DEF TypeOK
<1>3. Table'
  BY <1>0, <1>z, ReapTable
<1>4. Rooted'
  BY <1>0, <1>z, ReapTable
<1>6. Main'
  <2>1. CASE IsMain(c)
    <3>1. c = MainPid /\ ~main_reaped /\ ended = status[c]
      BY <2>1, <1>z, <1>m DEF IsMain, Main
    <3> QED
      BY <2>1, <3>1, <1>0, <1>z DEF Main
  <2>2. CASE ~IsMain(c)
    <3>1. main_reaped' = main_reaped /\ main_exit_code' = main_exit_code
      BY <2>2, <1>0
    <3>2. ~main_reaped => c # MainPid
      BY <2>2 DEF IsMain
    <3>3. mainThere' = ~main_reaped'
      BY <3>1, <3>2, <1>0, <1>m DEF Main
    <3> QED
      BY <3>1, <3>2, <3>3, <1>0, <1>2, <1>m DEF Main
  <2> QED
    BY <2>1, <2>2
<1>7. Returned'
  BY <1>0, <1>e DEF Returned
<1>8. NoLostWakeup'
  BY <1>0 DEF NoLostWakeup
<1>9. NeverStrays'
  BY <1>0, <1>s DEF NeverStrays
<1> QED
  BY <1>1, <1>3, <1>4, <1>6, <1>7, <1>8, <1>9 DEF IInv

\* A signal is forwarded only while the main program's id is taken by it.
LEMMA ForwardReaches ==
    ASSUME Main, Forwards
    PROVE  mainThere /\ state[MainPid] # "free"
BY DEF Main, Forwards, ChildrenOf

\* The steps that change neither the processes nor what init knows of the main
\* program, and do not let it sleep or return.
LEMMA SignalInv ==
    ASSUME IInv,
           \/ \E s \in Signals \cup {Chld} : Signal(s)
           \/ SigwaitChld
           \/ \E s \in Signals : SigwaitForward(s) \/ SigwaitIgnore(s)
           \/ WaitpidNone
    PROVE  IInv'
<1>t. TypeOK
  BY DEF IInv
<1>a. Table
  BY DEF IInv
<1>r. Rooted
  BY DEF IInv
<1>m. Main
  BY DEF IInv
<1>e. Returned
  BY DEF IInv
<1>w. NoLostWakeup
  BY DEF IInv
<1>s. NeverStrays
  BY DEF IInv
<1> USE Exclusive
<1>0. /\ UNCHANGED <<state, parent, status, main_reaped, main_exit_code,
                     result, ended, mainThere, strayed>>
      /\ pc # "returned"
      /\ \/ pc' = pc /\ (Chld \in pending => Chld \in pending')
         \/ pc' = "waitpid"
         \/ pc' = "sigwait" /\ ChildrenOf(InitPid) # {} /\ ZombiesOf(InitPid) = {}
      /\ pending' \subseteq Signals \cup {Chld}
  <2>1. CASE \E s \in Signals \cup {Chld} : Signal(s)
    BY <2>1, <1>t DEF Signal, procs, local, TypeOK
  <2>2. CASE SigwaitChld
    BY <2>2, <1>t DEF SigwaitChld, procs, local, TypeOK
  <2>3. CASE \E s \in Signals : SigwaitForward(s)
    <3>1. PICK s \in Signals : SigwaitForward(s)
      BY <2>3
    <3>2. mainThere /\ state[MainPid] # "free"
      BY <3>1, <1>m, ForwardReaches DEF SigwaitForward
    <3>3. s # Chld
      OBVIOUS
    <3> QED
      BY <3>1, <3>2, <3>3, <1>t DEF SigwaitForward, procs, local, TypeOK
  <2>4. CASE \E s \in Signals : SigwaitIgnore(s)
    <3>1. PICK s \in Signals : SigwaitIgnore(s)
      BY <2>4
    <3>2. s # Chld
      OBVIOUS
    <3> QED
      BY <3>1, <3>2, <1>t DEF SigwaitIgnore, procs, local, TypeOK
  <2>5. CASE WaitpidNone
    BY <2>5, <1>t DEF WaitpidNone, procs, local, TypeOK
  <2> QED
    BY <2>1, <2>2, <2>3, <2>4, <2>5
<1>1. TypeOK'
  BY <1>0, <1>t DEF TypeOK
<1>2. /\ Present' = Present /\ Running' = Running
      /\ ChildrenOf(InitPid)' = ChildrenOf(InitPid) /\ ZombiesOf(InitPid)' = ZombiesOf(InitPid)
  BY <1>0 DEF Present, Running, ChildrenOf, ZombiesOf
<1>3. Table'
  BY <1>0, <1>2, <1>a DEF Table
<1>4. Rooted'
  BY <1>0, <1>2, <1>r DEF Rooted
<1>6. Main'
  BY <1>0, <1>2, <1>m DEF Main
<1>7. Returned'
  BY <1>0, <1>e, <1>t DEF Returned, TypeOK
<1>8. NoLostWakeup'
  BY <1>0, <1>2, <1>w DEF NoLostWakeup
<1>9. NeverStrays'
  BY <1>0, <1>s DEF NeverStrays
<1> QED
  BY <1>1, <1>3, <1>4, <1>6, <1>7, <1>8, <1>9 DEF IInv

\* init returning with no child left keeps the invariant, and no process is left.
LEMMA WaitpidEchildInv ==
    ASSUME IInv, WaitpidEchild
    PROVE  IInv' /\ Present = {} /\ result' = ExitCode(ended) /\ ended # None
<1>t. TypeOK
  BY DEF IInv
<1>a. Table
  BY DEF IInv
<1>r. Rooted
  BY DEF IInv
<1>m. Main
  BY DEF IInv
<1>e. Returned
  BY DEF IInv
<1>w. NoLostWakeup
  BY DEF IInv
<1>s. NeverStrays
  BY DEF IInv
<1> USE Exclusive
<1>0. /\ pc = "waitpid" /\ ChildrenOf(InitPid) = {}
      /\ pc' = "returned" /\ result' = main_exit_code
      /\ UNCHANGED <<state, parent, status, pending, main_reaped, main_exit_code,
                     ended, mainThere, strayed>>
  BY DEF WaitpidEchild, procs, local
<1>2. Present = {} /\ Present' = Present
  BY <1>0, <1>a, <1>r, NoOrphans DEF Present
<1>c. main_reaped
  BY <1>0, <1>m DEF Main
<1>1. TypeOK'
  BY <1>0, <1>t DEF TypeOK
<1>3. Table'
  BY <1>2 DEF Table
<1>4. Rooted'
  BY <1>2 DEF Rooted
<1>6. Main'
  BY <1>0, <1>c, <1>m DEF Main
<1>7. Returned'
  <2>1. main_exit_code # None
    BY <1>t DEF TypeOK
  <2> QED
    BY <2>1, <1>0, <1>2, <1>c DEF Returned
<1>8. NoLostWakeup'
  BY <1>0 DEF NoLostWakeup
<1>9. NeverStrays'
  BY <1>0, <1>s DEF NeverStrays
<1>10. result' = ExitCode(ended) /\ ended # None
  BY <1>0, <1>c, <1>m DEF Main
<1> QED
  BY <1>1, <1>2, <1>3, <1>4, <1>6, <1>7, <1>8, <1>9, <1>10 DEF IInv

-----------------------------------------------------------------------------
\* Every step keeps the invariant.
LEMMA NextInv == IInv /\ [Next]_vars => IInv'
<1> SUFFICES ASSUME IInv, [Next]_vars PROVE IInv'
  OBVIOUS
<1>1. CASE \E s \in Signals \cup {Chld} : Signal(s)
  BY <1>1, SignalInv
<1>2. CASE \E p, q \in Pids : Fork(q, p)
  BY <1>2, ForkInv
<1>3. CASE \E p \in Pids, s \in Statuses : Exit(p, s)
  BY <1>3, ExitInv
<1>4. CASE \E p \in Pids : ParentWait(p)
  BY <1>4, ParentWaitInv
<1>5. CASE InitStep
  <2>1. CASE SigwaitChld \/ WaitpidNone
    BY <2>1, SignalInv
  <2>2. CASE \E s \in Signals : SigwaitForward(s) \/ SigwaitIgnore(s)
    BY <2>2, SignalInv
  <2>3. CASE WaitpidEchild
    BY <2>3, WaitpidEchildInv
  <2>4. CASE \E c \in Pids : WaitpidReap(c)
    BY <2>4, WaitpidReapInv
  <2> QED
    BY <1>5, <2>1, <2>2, <2>3, <2>4 DEF InitStep
<1>6. CASE UNCHANGED vars
  BY <1>6 DEF vars, IInv, TypeOK, Table, Rooted, Main, Returned, NoLostWakeup, NeverStrays,
              Present, Running, ChildrenOf, ZombiesOf
<1> QED
  BY <1>1, <1>2, <1>3, <1>4, <1>5, <1>6 DEF Next

\* The invariant holds always.
THEOREM Invariance == Spec => []IInv
<1>1. Init => IInv
  BY InitInv
<1>2. IInv /\ [Next]_vars => IInv'
  BY NextInv
<1> QED
  BY <1>1, <1>2, PTL DEF Spec

\* The types of the variables: the exit code stays within eight bits.
THEOREM TypeCorrect == Spec => []TypeOK
<1>1. IInv => TypeOK
  BY DEF IInv
<1> QED
  BY <1>1, Invariance, PTL

\* No end of a process is overlooked, whatever ends while init reaps others.
THEOREM WakesUp == Spec => []NoLostWakeup
<1>1. IInv => NoLostWakeup
  BY DEF IInv
<1> QED
  BY <1>1, Invariance, PTL

\* Signals go to the main program only, whoever gets its id after it.
THEOREM ForwardsToMain == Spec => []NeverStrays
<1>1. IInv => NeverStrays
  BY DEF IInv
<1> QED
  BY <1>1, Invariance, PTL

-----------------------------------------------------------------------------
\* init exits after all other processes, with the main program's exit status:
\* it implements Supervision.
THEOREM Refinement == Spec => Supervises
<1> USE Exclusive
<1>1. Init => Super!Init
  BY DEF Init, Super!Init, Running
<1>2. IInv /\ [Next]_vars => [Super!Next]_(Super!vars)
  <2> SUFFICES ASSUME IInv, [Next]_vars
               PROVE  Super!Next \/ UNCHANGED <<Running, ended, result>>
    BY DEF Super!vars
  <2>e. Returned
    BY DEF IInv
  <2>1. ASSUME NEW q \in Pids, NEW p \in Pids, Fork(q, p) PROVE Super!Fork(p)
    <3>1. Running' = Running \cup {p} /\ p \notin Running /\ q \in Running
      <4>1. TypeOK
        BY DEF IInv
      <4> QED
        BY <2>1, <4>1 DEF Fork, Running, TypeOK
    <3>2. result = None
      BY <2>1, <2>e DEF Fork, Returned
    <3> QED
      BY <2>1, <3>1, <3>2 DEF Fork, Super!Fork
  <2>2. ASSUME NEW p \in Pids, NEW s \in Statuses, Exit(p, s) PROVE Super!End(p, s)
    <3>1. Running' = Running \ {p} /\ p \in Running
      <4>1. TypeOK
        BY DEF IInv
      <4> QED
        BY <2>2, <4>1 DEF Exit, Running, TypeOK
    <3>2. result = None
      BY <2>2, <2>e DEF Exit, Returned
    <3> QED
      BY <2>2, <3>1, <3>2 DEF Exit, Super!End
  <2>3. ASSUME NEW p \in Pids, ParentWait(p) PROVE UNCHANGED <<Running, ended, result>>
    BY <2>3, ReapTable DEF ParentWait
  <2>4. ASSUME NEW c \in Pids, WaitpidReap(c) PROVE UNCHANGED <<Running, ended, result>>
    BY <2>4, ReapTable DEF WaitpidReap, ZombiesOf
  <2>5. CASE WaitpidEchild
    <3>1. Present = {} /\ result' = ExitCode(ended) /\ ended # None
      BY <2>5, WaitpidEchildInv
    <3>2. Running = {} /\ Running' = Running
      BY <2>5, <3>1 DEF WaitpidEchild, procs, Running, Present
    <3>3. result = None
      BY <2>5, <2>e DEF WaitpidEchild, Returned
    <3> QED
      BY <2>5, <3>1, <3>2, <3>3
      DEF WaitpidEchild, Super!Next, Super!Finish, Super!CodeOf, ExitCode
  <2>6. CASE \/ \E s \in Signals \cup {Chld} : Signal(s)
             \/ SigwaitChld \/ WaitpidNone
             \/ \E s \in Signals : SigwaitIgnore(s)
             \/ UNCHANGED vars
    BY <2>6 DEF Signal, SigwaitChld, WaitpidNone, SigwaitIgnore, vars, procs, Running
  <2>7. ASSUME NEW s \in Signals, SigwaitForward(s) PROVE UNCHANGED <<Running, ended, result>>
    <3>1. state[MainPid] # "free"
      BY <2>7, ForwardReaches DEF SigwaitForward, IInv
    <3> QED
      BY <2>7, <3>1 DEF SigwaitForward, procs, Running
  <2> QED
    BY <2>1, <2>2, <2>3, <2>4, <2>5, <2>6, <2>7 DEF Next, InitStep, Super!Next
<1> QED
  BY <1>1, <1>2, Invariance, PTL DEF Spec, Supervises, Super!Spec
=============================================================================
