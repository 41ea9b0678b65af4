------------------------------- MODULE AtLeastOnce ------------------------------
(***************************************************************************)
(* What a clerk that "keeps trying forever" promises of an operation: when *)
(* it returns, the service has executed it.  The service may execute it    *)
(* more than once, even after it has returned.                             *)
(***************************************************************************)
EXTENDS Naturals

CONSTANT Op         \* the operations, each called once

VARIABLES
    phase,          \* new, called, returned
    times           \* how often the service has executed an operation

Init ==
    /\ phase = [o \in Op |-> "new"]
    /\ times = [o \in Op |-> 0]

Invoke(o) ==
    /\ phase[o] = "new"
    /\ phase' = [phase EXCEPT ![o] = "called"]
    /\ UNCHANGED times

Execute(o) ==
    /\ phase[o] # "new"
    /\ times' = [times EXCEPT ![o] = @ + 1]
    /\ UNCHANGED phase

Return(o) ==
    /\ phase[o] = "called" /\ times[o] > 0
    /\ phase' = [phase EXCEPT ![o] = "returned"]
    /\ UNCHANGED times

Next == \E o \in Op : Invoke(o) \/ Execute(o) \/ Return(o)

Spec == Init /\ [][Next]_<<phase, times>>
=================================================================================
