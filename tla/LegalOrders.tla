------------------------------ MODULE LegalOrders -------------------------------
(***************************************************************************)
(* The entries of a partition as operations with a call and a return, and the *)
(* orders of them that the model accepts and that respect the order in time. *)
(***************************************************************************)
EXTENDS KvModel

\* A finite sequence, whatever its elements.
IsSeq(s) == \E S : s \in Seq(S)

Ids(h) == 0 .. (Len(h) \div 2) - 1

\* The entries of the call and of the return of an operation.
CallOf(h, id)   == CHOOSE k \in DOMAIN h : h[k].id = id /\ h[k].kind = "call"
ReturnOf(h, id) == CHOOSE k \in DOMAIN h : h[k].id = id /\ h[k].kind = "return"

\* Every operation has two entries, a call and a later return, and there are no others.
WellFormed(h) ==
    /\ IsSeq(h)
    /\ Len(h) \in Nat /\ DOMAIN h = 1 .. Len(h) /\ Len(h) = 2 * (Len(h) \div 2)
    /\ \A k \in DOMAIN h : h[k].id \in Ids(h)
    /\ \A id \in Ids(h) : \E c, r \in DOMAIN h :
         /\ c < r /\ h[c].kind = "call" /\ h[r].kind = "return"
         /\ \A k \in DOMAIN h : h[k].id = id <=> k \in {c, r}

\* What an operation does to a state.
Step(h, st, id) == KvStep(st, h[CallOf(h, id)].value, h[ReturnOf(h, id)].value)

\* From the state st, with the operations D done, the n operations q can be done next:
\* the model accepts them, through the states sg, and no operation comes before one that
\* returned before its call.
GoesOn(h, D, st, n, q, sg) ==
    /\ q \in [1 .. n -> Ids(h) \ D]
    /\ \A i, j \in 1 .. n : q[i] = q[j] => i = j
    /\ \A i \in 1 .. n, id \in Ids(h) :
         ReturnOf(h, id) < CallOf(h, q[i]) => id \in D \/ \E j \in 1 .. i - 1 : q[j] = id
    /\ sg[0] = st
    /\ \A i \in 1 .. n : Step(h, sg[i - 1], q[i]).ok /\ sg[i] = Step(h, sg[i - 1], q[i]).state

\* Some order of all the operations of h is legal and respects the order in time;
\* no order of all of them is.
Linearized(h) == \E q, sg : GoesOn(h, {}, KvInit, Len(h) \div 2, q, sg)
Refuted(h) ==
    \A n \in Nat : \A q, sg :
        GoesOn(h, {}, KvInit, n, q, sg) => \E id \in Ids(h) : \A i \in 1 .. n : q[i] # id

=================================================================================
