------------------------ MODULE PartialLinearizations ------------------------
(***************************************************************************)
(* What the script of porcupine/visualization.go works out from the        *)
(* partial linearizations of a partition: which one to show for an         *)
(* operation, and which operations to draw as illegal after it.            *)
(***************************************************************************)
EXTENDS Integers, FiniteSetsExt, Functions

PossibleNext_AnyTime(history, lin) == DOMAIN history \ Range(lin)

\* Operations that could come next after a partial linearization: no other one
\* that is not in it has to come earlier.  The page shows them as illegal.
PossibleNext(history, lin) ==
    LET rest   == DOMAIN history \ Range(lin)
        minEnd == Min({history[i].end : i \in rest})
    IN  {i \in rest : history[i].start < minEnd}

\* Data.Largest: the first of the longest linearizations with an operation; they
\* are sorted by length.
Largest(part, i) == Min({l \in DOMAIN part.lins : i \in Range(part.lins[l])})

\* linearizationIndex: the linearization to show for an operation, 0 for none; if
\* no linearization has the operation, the first of the longest that stop at it.
linearizationIndex(part, i) ==
    LET with   == {l \in DOMAIN part.lins : i \in Range(part.lins[l])}
        before == {l \in DOMAIN part.lins : i \in PossibleNext(part.history, part.lins[l])}
    IN  IF with # {} THEN Largest(part, i)
        ELSE IF before # {} THEN Min(before)
        ELSE 0

==============================================================================
