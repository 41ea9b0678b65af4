------------------------------- MODULE KvModel -------------------------------
(***************************************************************************)
(* The sequential key-value store of models/kv.go: what Porcupine takes    *)
(* as the meaning of get, put and append when it judges a history of the   *)
(* kvraft and shardkv tests.  A string is a sequence of letters; a key is  *)
(* a number, so that keys have the order sort.Strings gives them.          *)
(***************************************************************************)
EXTENDS Integers, Sequences, FiniteSets

\* The value of a key no operation has touched: the empty string.
KvInit == <<>>

\* KvModel.Step: whether the store, holding state for the key, can answer the
\* input with this output, and what it holds afterwards.
KvStep(state, input, output) ==
    CASE input.op = "get"    -> [ok |-> output = state, state |-> state]
      [] input.op = "put"    -> [ok |-> TRUE, state |-> input.value]
      [] input.op = "append" -> [ok |-> TRUE, state |-> state \o input.value]

\* The element of a finite set of integers that has k - 1 smaller ones in it: what a
\* sorted list of the set has at position k.
Nth(S, k) == CHOOSE x \in S : Cardinality({y \in S : y < x}) = k - 1

\* KvModel.Partition: one history for each key, in the order of the keys, with
\* the operations of that key in the order of the whole history.
KvPartition(history) ==
    LET Keys  == {history[i].input.key : i \in DOMAIN history}
        Of(k) == LET is == {i \in DOMAIN history : history[i].input.key = k}
                 IN  [j \in 1 .. Cardinality(is) |-> history[Nth(is, j)]]
    IN  [p \in 1 .. Cardinality(Keys) |-> Of(Nth(Keys, p))]

=============================================================================
