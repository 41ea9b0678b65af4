------------------------------- MODULE RemoteCall ------------------------------
(***************************************************************************)
(* What Call() of labrpc promises to its users, whatever happens to the    *)
(* network and to servers: the handler runs at most once, never before the *)
(* call, and has finished when Call() returns true.  When it returns false *)
(* nothing is known: the handler may not run, may have run, or may still   *)
(* run.                                                                    *)
(***************************************************************************)
CONSTANT Call       \* the calls that are made, each once

VARIABLES
    status,         \* of Call(): none, pending, succeeded, failed
    handled         \* the handler: no, running, done

Init ==
    /\ status = [c \in Call |-> "none"]
    /\ handled = [c \in Call |-> "no"]

Invoke(c) ==
    /\ status[c] = "none"
    /\ status' = [status EXCEPT ![c] = "pending"]
    /\ UNCHANGED handled

StartHandler(c) ==
    /\ status[c] = "pending" /\ handled[c] = "no"
    /\ handled' = [handled EXCEPT ![c] = "running"]
    /\ UNCHANGED status

FinishHandler(c) ==
    /\ handled[c] = "running"
    /\ handled' = [handled EXCEPT ![c] = "done"]
    /\ UNCHANGED status

ReturnTrue(c) ==
    /\ status[c] = "pending" /\ handled[c] = "done"
    /\ status' = [status EXCEPT ![c] = "succeeded"]
    /\ UNCHANGED handled

ReturnFalse(c) ==
    /\ status[c] = "pending"
    /\ status' = [status EXCEPT ![c] = "failed"]
    /\ UNCHANGED handled

Next ==
    \E c \in Call : \/ Invoke(c) \/ StartHandler(c) \/ FinishHandler(c)
                    \/ ReturnTrue(c) \/ ReturnFalse(c)

Spec == Init /\ [][Next]_<<status, handled>>
================================================================================
