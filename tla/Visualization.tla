---------------------------- MODULE Visualization ----------------------------
(***************************************************************************)
(* The pure part of porcupine/visualization.go: what the page that shows a *)
(* failed history computes from its data before it draws anything.  The    *)
(* data is a sequence of partitions                                        *)
(*   [history: sequence of [start, end, width],                            *)
(*    lins: sequence of partial linearizations, sequences of indexes]      *)
(* where width is that of the box around the text of an operation.         *)
(***************************************************************************)
EXTENDS PartialLinearizations, Sequences, FiniteSets, SequencesExt

BOX_GAP == 20
EPSILON == 20

\* A number the script could not compute; sums and maxima with it are no smaller.
NaN == 1000000

\* All elements of all histories, as pairs <partition, index>.
Elements(data) == UNION {{p} \X DOMAIN data[p].history : p \in DOMAIN data}
El(data, e) == data[e[1]].history[e[2]]

startTimestamps(data) == {El(data, e).start : e \in Elements(data)}
allTimestamps(data) == startTimestamps(data) \cup {El(data, e).end : e \in Elements(data)}

-----------------------------------------------------------------------------
(* Layout: from times to horizontal positions *)

Tweaked_Not(data, end) == end

\* An end that is also a start of something is moved halfway to the next time,
\* so that the two boxes overlap.  Times are even numbers.
Tweaked(data, end) ==
    LET later == {t \in allTimestamps(data) : t > end}
    IN  IF end \in startTimestamps(data) /\ later # {} THEN (end + Min(later)) \div 2 ELSE end

Tweak(data) ==
    [p \in DOMAIN data |->
        [data[p] EXCEPT !.history =
            [i \in DOMAIN @ |-> [@[i] EXCEPT !.end = Tweaked(data, @)]]]]

\* Where the points of a linearization go when the times in DOMAIN x are placed:
\* at the start of their boxes, but some distance from the point before.
linearizationPositions(x, history, lin) ==
    LET At(i) == IF history[i].start \in DOMAIN x THEN x[history[i].start] ELSE NaN
        pos[k \in DOMAIN lin] ==
            IF k = 1 THEN At(lin[1]) ELSE Max({At(lin[k]), pos[k - 1] + EPSILON})
    IN  pos

Needs_TextOnly(x, part, i) ==
    {IF part.history[i].start \in DOMAIN x THEN x[part.history[i].start] + part.history[i].width ELSE NaN}

\* Lower bounds for the end of operation i: its text, its points and the points
\* that show it as illegal must fit.
Needs(x, part, i) ==
    LET start == part.history[i].start
        Points(l) == linearizationPositions(x, part.history, part.lins[l])
        with   == {l \in DOMAIN part.lins : i \in Range(part.lins[l])}
        before == {l \in DOMAIN part.lins : i \in PossibleNext(part.history, part.lins[l])}
    IN  {IF start \in DOMAIN x THEN x[start] + part.history[i].width ELSE NaN}
        \cup {Points(l)[CHOOSE k \in DOMAIN part.lins[l] : part.lins[l][k] = i] : l \in with}
        \cup {Points(l)[Len(part.lins[l])] + EPSILON : l \in before}

\* The times to place, those among them that moving ends has created.
sortedTimestamps(data) == allTimestamps(data)

\* The scan from left to right that places every time as far left as it may be.
Place(data) ==
    LET Stamps == sortedTimestamps(data)
        Sorted == [k \in 1 .. Cardinality(Stamps) |->
                     CHOOSE t \in Stamps : Cardinality({u \in Stamps : u < t}) = k - 1]
        Ending(t) == {e \in Elements(data) : El(data, e).end = t}
        Next(x, t) ==
            IF DOMAIN x = {} THEN 0
            ELSE Max({Max({x[u] : u \in DOMAIN x}) + BOX_GAP}
                     \cup UNION {Needs(x, data[e[1]], e[2]) : e \in Ending(t)})
        Step(x, t) == [u \in DOMAIN x \cup {t} |-> IF u = t THEN Next(x, t) ELSE x[u]]
    IN  FoldLeft(Step, <<>>, Sorted)

-----------------------------------------------------------------------------
(* What the comments in the script ask of a layout *)

\* The positions x of the times of the data let everything be seen.
Fits(x, data) ==
    /\ \A t, u \in DOMAIN x : t < u => x[u] - x[t] >= BOX_GAP
    /\ \A p \in DOMAIN data :
         LET h == data[p].history
             Box(i) == x[h[i].start] .. x[h[i].end]
         IN  /\ \A i \in DOMAIN h : x[h[i].end] - x[h[i].start] >= h[i].width
             /\ \A l \in DOMAIN data[p].lins :
                  LET lin == data[p].lins[l]
                      pos == linearizationPositions(x, h, lin)
                  IN  /\ \A k \in DOMAIN lin : pos[k] \in Box(lin[k])
                      /\ \A i \in PossibleNext(h, lin) :
                           Max({x[h[i].start], pos[Len(lin)] + EPSILON}) \in Box(i)

=============================================================================
