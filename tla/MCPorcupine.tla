----------------------------- MODULE MCPorcupine -----------------------------
(* Instance of Porcupine for TLC: two keys, one value to put and one to append. *)
EXTENDS Porcupine

MCInput ==
    {[op |-> "get", key |-> k, value |-> <<>>] : k \in {1, 2}} \cup
    {[op |-> "put", key |-> 1, value |-> <<"a">>],
     [op |-> "append", key |-> 1, value |-> <<"b">>]}

MCOutput == {<<"a", "b">>}

=============================================================================
