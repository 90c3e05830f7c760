-------------------------------- MODULE Requests --------------------------------
(***************************************************************************)
(* Requests in progress.  A request is a thread of the server that runs    *)
(* one function of the application; between two statements of it any       *)
(* other may run.  A record says where it is and what it has read.         *)
(***************************************************************************)
CONSTANT Calls      \* bound: requests in progress at a time

VARIABLE call       \* what each is doing

Idle == [at |-> "idle"]

At(c, step) == call[c].at = step
Start(c, record) == call[c] = Idle /\ call' = [call EXCEPT ![c] = record]
Goto(c, step) == call' = [call EXCEPT ![c].at = step]
End(c) == call' = [call EXCEPT ![c] = Idle]

\* Raising an error or going on.
Check(c, condition, step) == IF condition THEN Goto(c, step) ELSE End(c)

AllIdle == [c \in Calls |-> Idle]
================================================================================
