-------------------------------- MODULE Charts --------------------------------
(* The two charts of the viewer page, BarChart (convergence) and             *)
(* StackedChart (vertices per state).  Both keep what they show in hashMap,   *)
(* under the key "i-<iteration>": JavaScript lists the keys of such an object *)
(* in the order of their first insertion, so the map is a sequence of entries *)
(* with distinct x.  The bars of an update are laid out between the first and *)
(* the last entry of that order, whatever their values.                       *)
EXTENDS Integers, SequencesExt

\* hashMap["i-" + x] = e: a known key keeps its place, a new one is the last.
PutEntry(map, e) ==
    IF \E i \in DOMAIN map : map[i].x = e.x
    THEN [i \in DOMAIN map |-> IF map[i].x = e.x THEN e ELSE map[i]]
    ELSE Append(map, e)

\* The entry of a bar: one value for an iteration.
BarPut(map, x, y) == PutEntry(map, [x |-> x, y |-> y])

\* The entry of a stack: every field lies on the sum of the fields before it.
StackPut(map, x, fields) ==
    LET sum[i \in 0 .. Len(fields)] == IF i = 0 THEN 0 ELSE sum[i - 1] + fields[i]
    IN  PutEntry(map, [x   |-> x,
                       y   |-> [i \in DOMAIN fields |->
                                  [val |-> fields[i], accum |-> sum[i - 1]]],
                       sum |-> sum[Len(fields)]])

\* clear(): the map is emptied and the bars are removed.
Cleared == << >>

\* The x axis of an update: its first value and the number of slots, a and a_b.
Axis(map) == LET a == map[1].x
                 b == map[Len(map)].x
             IN  [from |-> a, slots |-> (b - a) + 1]

\* The slot of an entry: x is drawn at (x - a) * 100 / a_b per cent of the width.
Slot(map, e) == e.x - Axis(map).from

\* The tops of the y axes, the largest value and the largest sum.
BarTop(map)   == CHOOSE t \in {map[i].y   : i \in DOMAIN map} :
                    \A i \in DOMAIN map : map[i].y <= t
StackTop(map) == CHOOSE t \in {map[i].sum : i \in DOMAIN map} :
                    \A i \in DOMAIN map : map[i].sum <= t

\* The stacked chart computes its axis likewise.  A field is drawn in the slot of
\* its stack, from the fields below it to its own end.
StackAxis(map) == Axis(map)
Segment(map, e, f) == [slot   |-> e.x - StackAxis(map).from,
                       bottom |-> e.y[f].accum,
                       top    |-> e.y[f].accum + e.y[f].val]

\* What is drawn lies inside the axes: a positive number of slots, every entry in
\* a slot of its own, and no bar above the top.
BarsInSlots(map) ==
    map # << >> =>
      /\ Axis(map).slots > 0
      /\ \A i \in DOMAIN map : /\ Slot(map, map[i]) \in 0 .. Axis(map).slots - 1
                              /\ map[i].y \in 0 .. BarTop(map)
      /\ \A i, j \in DOMAIN map : Slot(map, map[i]) = Slot(map, map[j]) => i = j

\* The fields of a stack are drawn in its slot one on the other from the ground,
\* none above the top of the axis, which the topmost of the largest stack reaches.
StacksFillAxis(map) ==
    map # << >> =>
      /\ \A i, j \in DOMAIN map :
            LET ys == DOMAIN map[i].y
                of(f) == Segment(map, map[i], f)
            IN  \A f, g \in ys :
                  /\ of(f).slot \in 0 .. StackAxis(map).slots - 1
                  /\ of(f).slot = Segment(map, map[j], 1).slot => i = j
                  /\ of(f).bottom = (IF f = 1 THEN 0 ELSE of(f - 1).top)
                  /\ of(f).top <= StackTop(map)
      /\ \E i \in DOMAIN map : Segment(map, map[i], Len(map[i].y)).top = StackTop(map)
=============================================================================
