-------------------------------- MODULE Page ---------------------------------
(***************************************************************************)
(* The page that visualization.go writes for a history that is not         *)
(* linearizable, as its reader uses it: the boxes of operations can be     *)
(* pointed at and selected, everything that does not belong to the         *)
(* linearization of the operation in question is hidden, and a link jumps  *)
(* to the first error.  An action is one event handler of the script.      *)
(*                                                                         *)
(* The data is what the checker guarantees of its partial linearizations   *)
(* (Porcupine): each respects the order in time and is the longest one for *)
(* one of its operations.                                                  *)
(***************************************************************************)
EXTENDS Visualization

CONSTANTS
    MaxOps,         \* bound: operations of all partitions
    MaxPartitions,  \* bound: partitions
    Widths          \* the width of the box of the k-th operation

ASSUME WidthAssumption == Widths \in [1 .. MaxOps -> Nat]

VARIABLES
    original,   \* the data, before the script changes it
    data, xPos, \* the data with ends moved, and the layout
    hiddenHistory, hiddenLins,   \* layers with class hidden
    marked,     \* boxes with class selected
    jump,       \* the error the jump link leads to, or Nil if it is inactive
    selected, selectedIndex,     \* of the script
    hover,      \* the box the mouse points at, or Nil
    opacity, tooltip, lastTooltip

page   == <<original, data, xPos>>
view   == <<hiddenHistory, hiddenLins, jump>>
choice == <<selected, selectedIndex, marked>>
tip    == <<opacity, tooltip, lastTooltip>>
vars   == <<page, view, choice, hover, tip>>

Nil == <<>>
Lins == UNION {{p} \X DOMAIN data[p].lins : p \in DOMAIN data}

-----------------------------------------------------------------------------
(* The data of a page *)

\* Times of n operations that are listed as they return.  An operation may return
\* at the very time at which another is called.
Times(n) ==
    LET Even == {2 * k : k \in 1 .. 2 * n}
        Used(t) == UNION {{t[i].start, t[i].end} : i \in 1 .. n}
    IN  {t \in [1 .. n -> [start : Even, end : Even]] :
           /\ \A i \in 1 .. n : t[i].start < t[i].end
           /\ \A i \in 2 .. n : t[i - 1].end < t[i].end
           /\ \A i, j \in 1 .. n : i # j => t[i].start # t[j].start
           /\ Used(t) = {2 * k : k \in 1 .. Cardinality(Used(t))}}

\* Sequences of operations that can be partial linearizations.
Orders(history) ==
    {q \in UNION {SetToSeqs(S) : S \in SUBSET DOMAIN history \ {{}}} :
        \A k \in DOMAIN q : \A i \in DOMAIN history :
            history[i].end < history[q[k]].start => \E j \in 1 .. k - 1 : q[j] = i}

\* partials of computeVisualizationData: one for each operation at most, each the
\* longest for one of its operations, sorted by length.
Partials(history) ==
    {s \in UNION {SetToSeqs(F) : F \in UNION {kSubset(k, Orders(history)) : k \in 0 .. Len(history)}} :
        /\ \A k \in DOMAIN s : k > 1 => Len(s[k]) <= Len(s[k - 1])
        /\ \A k \in DOMAIN s : \E i \in Range(s[k]) :
             \A l \in DOMAIN s : i \in Range(s[l]) => Len(s[l]) <= Len(s[k])
        /\ \A k \in DOMAIN s : Len(s[k]) = Len(history) => Len(s) = 1}

\* The history of partition p, if operation k with times t[k] is in partition a[k].
History(p, t, a) ==
    LET ks == SelectSeq([k \in DOMAIN t |-> k], LAMBDA k : a[k] = p)
    IN  [i \in DOMAIN ks |-> [start |-> t[ks[i]].start, end |-> t[ks[i]].end, width |-> Widths[ks[i]]]]

\* Pages are made for histories that are not linearizable.
Illegal(d) == \E p \in DOMAIN d : \A l \in DOMAIN d[p].lins : Len(d[p].lins[l]) < Len(d[p].history)

\* Operations with any times in any partitions, and what may be found for them.
Data ==
    UNION {UNION {
        LET h    == [p \in 1 .. Max(Range(a)) |-> History(p, t, a)]
            lins == [p \in DOMAIN h |-> Partials(h[p])]
            found == {f \in [DOMAIN h -> UNION Range(lins)] : \A p \in DOMAIN h : f[p] \in lins[p]}
        IN  {[p \in DOMAIN h |-> [history |-> h[p], lins |-> f[p]]] : f \in found}
      : a \in {b \in [DOMAIN t -> 1 .. MaxPartitions] : Range(b) = 1 .. Max(Range(b))}}
      : t \in UNION {Times(n) : n \in 1 .. MaxOps}}

-----------------------------------------------------------------------------
(* What is visible *)

\* errorPoints: <partition, linearization, operation> for every point drawn as
\* illegal, and where it is drawn.
errorPoints ==
    UNION {{<<e[1], e[2], i>> : i \in PossibleNext(data[e[1]].history, data[e[1]].lins[e[2]])} : e \in Lins}

PointX(pt) ==
    LET h   == data[pt[1]].history
        lin == data[pt[1]].lins[pt[2]]
        pos == linearizationPositions(xPos, h, lin)
    IN  Max({xPos[h[pt[3]].start], pos[Len(lin)] + EPSILON})

\* Their order on the page, from left to right; drawn first is first.
Before(a, b) ==
    \/ PointX(a) < PointX(b)
    \/ /\ PointX(a) = PointX(b)
       /\ a[1] < b[1] \/ (a[1] = b[1] /\ (a[2] < b[2] \/ (a[2] = b[2] /\ a[3] < b[3])))

\* updateJump: the link leads to the first error that is not hidden.
updateJump(hidden) ==
    LET visible == {pt \in errorPoints : <<pt[1], pt[2]>> \notin hidden}
    IN  IF visible = {} THEN Nil
        ELSE CHOOSE pt \in visible : \A other \in visible \ {pt} : Before(pt, other)

Show(history, lins) ==
    /\ hiddenHistory' = history
    /\ hiddenLins' = lins
    /\ jump' = updateJump(lins)

\* Only the partition of an operation and its linearization are shown.
highlight(e) ==
    Show(DOMAIN data \ {e[1]}, Lins \ {<<e[1], linearizationIndex(data[e[1]], e[2])>>})

\* All operations and the first, longest linearization of each partition are shown.
AllButFirst(ls) == {l \in ls : l[2] # 1}
resetHighlight == Show({}, AllButFirst(Lins))

\* Select an operation, when the boxes in others are marked.
select(e, others) ==
    /\ selected' = TRUE
    /\ selectedIndex' = e
    /\ highlight(e)
    /\ marked' = others \cup {e}

\* The text of the tooltip for operation e: what happens to it in the linearization
\* shown for the operation that counts, the selected one if there is one.
Text(e, sel, s) ==
    LET of   == IF sel THEN s ELSE e
        part == data[e[1]]
        l    == linearizationIndex(data[of[1]], of[2])
    IN  IF sel /\ s[1] # e[1] THEN <<"other partition">>
        ELSE IF l = 0 THEN IF sel THEN <<"selected in none">> ELSE <<"in none">>
        ELSE IF e[2] \in Range(part.lins[l])
             THEN <<"step", l, CHOOSE k \in DOMAIN part.lins[l] : part.lins[l][k] = e[2]>>
        ELSE IF e[2] \in PossibleNext(part.history, part.lins[l]) THEN <<"illegal", l>>
        ELSE <<"not in it">>

-----------------------------------------------------------------------------
(* The event handlers *)

Key_WithoutChoice(e) == <<e[1], e[2]>>

Key(e) == <<e[1], e[2], selected, selectedIndex[1], selectedIndex[2]>>

handleMouseOver(e) ==
    /\ hover = Nil
    /\ hover' = e
    /\ IF selected THEN UNCHANGED view ELSE highlight(e)
    /\ opacity' = 1
    /\ UNCHANGED <<page, choice, tooltip, lastTooltip>>

\* The text is computed again only if something it depends on has changed.
handleMouseMove ==
    /\ hover # Nil
    /\ lastTooltip' = Key(hover)
    /\ tooltip' = IF lastTooltip = Key(hover) THEN tooltip ELSE Text(hover, selected, selectedIndex)
    /\ UNCHANGED <<page, view, choice, hover, opacity>>

handleMouseOut ==
    /\ hover # Nil
    /\ hover' = Nil
    /\ IF selected THEN UNCHANGED view ELSE resetHighlight
    /\ opacity' = 0
    /\ lastTooltip' = Nil
    /\ UNCHANGED <<page, choice, tooltip>>

deselect ==
    /\ selected
    /\ selected' = FALSE
    /\ resetHighlight
    /\ marked' = marked \ {selectedIndex}
    /\ UNCHANGED selectedIndex

Unmarked_Not(old) == marked

Unmarked(old) == marked \ {old}

\* A click on the selected operation deselects it, one on another selects that.
handleClick ==
    /\ hover # Nil
    /\ IF selected /\ selectedIndex = hover
       THEN deselect
       ELSE select(hover, IF selected THEN Unmarked(selectedIndex) ELSE marked)
    /\ UNCHANGED <<page, hover, tip>>

handleBgClick ==
    /\ hover = Nil
    /\ deselect
    /\ UNCHANGED <<page, hover, tip>>

JumpTo_TheError(pt) == <<pt[1], pt[3]>>

\* The operation that is selected to show an error: the last one before it.
JumpTo(pt) == LET lin == data[pt[1]].lins[pt[2]] IN <<pt[1], lin[Len(lin)]>>

\* A click on the link, which is not on any box.  With a selection it only scrolls.
jumpClick ==
    /\ hover = Nil
    /\ jump # Nil
    /\ ~selected
    /\ select(JumpTo(jump), marked)
    /\ UNCHANGED <<page, hover, tip>>

-----------------------------------------------------------------------------

\* The page once render() has run: it ends with a call of handleMouseOut().
Init ==
    /\ original \in {d \in Data : Illegal(d)}
    /\ data = Tweak(original)
    /\ xPos = Place(data)
    /\ hiddenHistory = {}
    /\ hiddenLins = AllButFirst(Lins)
    /\ jump = updateJump(hiddenLins)
    /\ selected = FALSE /\ selectedIndex = <<-1, -1>> /\ marked = {}
    /\ hover = Nil
    /\ opacity = 0 /\ tooltip = Nil /\ lastTooltip = Nil

Next ==
    \/ \E e \in Elements(data) : handleMouseOver(e)
    \/ handleMouseMove \/ handleMouseOut
    \/ handleClick \/ handleBgClick \/ jumpClick

Spec == Init /\ [][Next]_vars

-----------------------------------------------------------------------------
(* Properties *)

\* render() promises a layout in which times can be told apart, boxes hold their
\* text and all points lie in their boxes, and "optimally": no time could be
\* moved to the left.  In particular all points a box needs are known when its
\* end is placed.
LayoutFits ==
    /\ \A t \in DOMAIN xPos : xPos[t] < NaN
    /\ Fits(xPos, data)
    /\ \A t \in DOMAIN xPos : xPos[t] > 0 => ~Fits([xPos EXCEPT ![t] = @ - 1], data)

\* Moving ends keeps the picture true: an operation that returned before another
\* was called ends to the left of it, and one that returned at that very time,
\* or later, overlaps it.
LayoutKeepsOrder ==
    \A e, f \in Elements(data) :
        El(original, e).end < El(original, f).start
            <=> xPos[El(data, e).end] <= xPos[El(data, f).start]

\* What is visible and what is marked follow from the selection, however it came
\* about by clicks on boxes, the background and the link: with a selection, its
\* partition and its linearization, which is as long as any with the operation;
\* without one, and the mouse on no box, all histories and the longest
\* linearizations.
ViewFollowsSelection ==
    /\ marked = IF selected THEN {selectedIndex} ELSE {}
    /\ selected =>
         /\ hiddenHistory = DOMAIN data \ {selectedIndex[1]}
         /\ Lins \ hiddenLins = {l \in Lins : l[1] = selectedIndex[1]
                /\ l[2] = linearizationIndex(data[l[1]], selectedIndex[2])}
         /\ \A shown \in Lins \ hiddenLins : \A lin \in Range(data[shown[1]].lins) :
              selectedIndex[2] \in Range(lin) => Len(lin) <= Len(data[shown[1]].lins[shown[2]])
    /\ ~selected /\ hover = Nil => hiddenHistory = {} /\ hiddenLins = AllButFirst(Lins)

\* "jump to first error" never leads to an error that is hidden, and is active
\* whenever one is visible; what it selects still shows that error.
JumpShowsError ==
    /\ jump = Nil <=> \A pt \in errorPoints : <<pt[1], pt[2]>> \in hiddenLins
    /\ jump # Nil => <<jump[1], jump[2]>> \notin hiddenLins
    /\ jump # Nil /\ hover = Nil /\ ~selected =>
         linearizationIndex(data[jump[1]], JumpTo(jump)[2]) = jump[2]

\* A move of the mouse that finds the tooltip up to date, and keeps it, is right:
\* the text is the one for the box it points at and for the selection as it is
\* now, which a click may have changed since the text was computed.
TooltipIsCurrent ==
    hover # Nil /\ lastTooltip = Key(hover) => tooltip = Text(hover, selected, selectedIndex)

=============================================================================
