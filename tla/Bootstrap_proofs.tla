--------------------------- MODULE Bootstrap_proofs ---------------------------
(* Theorems about Bootstrap's widgets, for every value of their constants:    *)
(* where a tip is placed and when it is shown, what the carousel slides to,   *)
(* what a modal dialog leaves of the page, which section the scrollspy        *)
(* lights, which pane a tab shows, and that an accordion opens one panel.     *)
EXTENDS TipPlacement, Carousel, Modal, ScrollSpy, Tab, Tooltip, Collapse,
        SequenceTheorems, FiniteSetTheorems, TLAPS

-----------------------------------------------------------------------------
(* Numbers and sequences.                                                    *)

\* Every set of natural numbers has a least one: no interval 0 .. n is smaller than all
\* that are given.
LEMMA LeastNumber ==
  ASSUME NEW T, T \subseteq Nat, T # {}
  PROVE  \E x \in T : \A y \in T : x <= y
<1> DEFINE Up == {0 .. n : n \in T}
<1>1. \A n \in Nat : 0 .. n \in SUBSET Nat
  OBVIOUS
<1>2. Up \subseteq FiniteSubsetsOf(Nat) /\ Up # {}
  <2>1. \A n \in Nat : 0 .. n \in SUBSET Nat /\ IsFiniteSet(0 .. n)
    BY FS_Interval
  <2>2. \A n \in Nat : 0 .. n \in FiniteSubsetsOf(Nat)
    BY <2>1, Zenon DEF FiniteSubsetsOf
  <2> QED  BY <2>2
<1>3. PICK U \in Up : \A V \in Up : ~ (<<V, U>> \in StrictSubsetOrdering(Nat))
  <2> HIDE DEF Up
  <2> QED  BY <1>2, WFMin, FS_StrictSubsetOrderingWellFounded
<1>4. PICK x \in T : U = 0 .. x
  OBVIOUS
<1>5. ASSUME NEW y \in T, y < x
      PROVE  FALSE
  <2>1. 0 .. y \subseteq 0 .. x /\ x \in 0 .. x /\ x \notin 0 .. y
    BY <1>5
  <2>2. <<0 .. y, 0 .. x>> \in StrictSubsetOrdering(Nat)
    BY <1>1, <2>1 DEF StrictSubsetOrdering
  <2> QED  BY <1>3, <1>4, <2>2
<1> QED BY <1>5

\* What holds of 0 and of the successor of each number it holds of holds of all.
LEMMA Induction ==
  ASSUME NEW S, 0 \in S, \A n \in Nat : n \in S => n + 1 \in S
  PROVE  Nat \subseteq S
<1> DEFINE T == Nat \ S
<1>1. ASSUME T # {}
      PROVE  FALSE
  <2>1. PICK x \in T : \A y \in T : x <= y
    <3> HIDE DEF T
    <3>1. T \subseteq Nat   BY DEF T
    <3> QED  BY <1>1, <3>1, LeastNumber
  <2>2. x # 0 /\ x - 1 \in Nat   OBVIOUS
  <2>3. x - 1 \in S   BY <2>1, <2>2
  <2>4. (x - 1) + 1 = x   BY <2>2
  <2> QED  BY <2>2, <2>3, <2>4
<1> QED  BY <1>1

\* The less of two numbers.
LEMMA LessOfTwo == ASSUME NEW a \in Int, NEW b \in Int PROVE Min({a, b}) = IF a <= b THEN a ELSE b
<1>1. \A x \in {a, b} : x = a \/ x = b   OBVIOUS
<1>2. CASE a <= b
  <2>1. a \in {a, b} /\ \A y \in {a, b} : a <= y   BY <1>2
  <2>2. \A x \in {a, b} : (\A y \in {a, b} : x <= y) => x = a   BY <1>2
  <2> QED  BY <1>2, <2>1, <2>2 DEF Min
<1>3. CASE ~(a <= b)
  <2>1. b \in {a, b} /\ \A y \in {a, b} : b <= y   BY <1>3
  <2>2. \A x \in {a, b} : (\A y \in {a, b} : x <= y) => x = b   BY <1>3
  <2> QED  BY <1>3, <2>1, <2>2 DEF Min
<1> QED  BY <1>2, <1>3

\* The elements of a sequence, by their positions.
LEMMA RangeElements == ASSUME NEW S, NEW s \in Seq(S), NEW x
                 PROVE  x \in Range(s) <=> \E i \in 1 .. Len(s) : s[i] = x
<1>1. Range(s) = {s[i] : i \in 1 .. Len(s)}   BY RangeEquality
<1> QED  BY <1>1

\* An element appended is one more element.
LEMMA AppendedRange == ASSUME NEW S, NEW s \in Seq(S), NEW x \in S
                       PROVE  Range(Append(s, x)) = Range(s) \union {x}
<1>1. <<x>> \in Seq(S) /\ Append(s, x) = s \o <<x>>   BY AppendIsConcat
<1>2. Range(<<x>>) = {x}
  <2>1. Range(<<x>>) = {<<x>>[i] : i \in 1 .. Len(<<x>>)}   BY <1>1, RangeEquality
  <2> QED  BY <2>1
<1>3. Range(s \o <<x>>) = Range(s) \union Range(<<x>>)   BY <1>1, RangeConcatenation
<1> QED  BY <1>1, <1>2, <1>3

\* So a bounded set of them has a largest one.
LEMMA LargestNumber ==
  ASSUME NEW T, T \subseteq Nat, T # {}, NEW b \in Nat, \A t \in T : t <= b
  PROVE  \E x \in T : \A y \in T : y <= x
<1> DEFINE Down == {b - t : t \in T}
<1>1. Down \subseteq Nat /\ Down # {}
  <2>1. \A t \in T : b - t \in Nat
    OBVIOUS
  <2>2. PICK t \in T : TRUE
    OBVIOUS
  <2>3. b - t \in Down
    OBVIOUS
  <2> QED  BY <2>1, <2>3
<1>2. PICK d \in Down : \A e \in Down : d <= e
  <2> HIDE DEF Down
  <2> QED  BY <1>1, LeastNumber
<1>3. PICK x \in T : d = b - x
  OBVIOUS
<1>4. \A y \in T : b - x <= b - y
  BY <1>2, <1>3
<1> QED  BY <1>4

\* A loop over 1 .. len has its intermediate results.
Stages(f, first, next, len) == f[0] = first /\ \A i \in 1 .. len : f[i] = next[i][f[i - 1]]

\* And they exist.
LEMMA StagesExist ==
  ASSUME NEW S, NEW first \in S, NEW next \in [Nat -> [S -> S]], NEW len \in Nat
  PROVE  \E f \in [0 .. len -> S] : Stages(f, first, next, len)
<1> USE DEF Stages
<1> DEFINE T == {n \in Nat : \E f \in [0 .. n -> S] : Stages(f, first, next, n)}
<1>1. 0 \in T
  <2> DEFINE f == [k \in 0 .. 0 |-> first]
  <2>1. f \in [0 .. 0 -> S] /\ f[0] = first   OBVIOUS
  <2>2. \A i \in 1 .. 0 : f[i] = next[i][f[i - 1]]   OBVIOUS
  <2> HIDE DEF f
  <2> QED  BY <2>1, <2>2
<1>2. ASSUME NEW n \in Nat, n \in T   PROVE  n + 1 \in T
  <2>1. PICK f \in [0 .. n -> S] : Stages(f, first, next, n)   BY <1>2
  <2>2. f[n] \in S /\ n + 1 \in Nat   OBVIOUS
  <2> DEFINE x == next[n + 1][f[n]]
             g == [k \in 0 .. n + 1 |-> IF k <= n THEN f[k] ELSE x]
  <2>3. x \in S   BY <2>2
  <2> HIDE DEF x
  <2>4. g \in [0 .. n + 1 -> S]   BY <2>3
  <2>5. g[0] = first   BY <2>1
  <2>6. ASSUME NEW i \in 1 .. n + 1   PROVE  g[i] = next[i][g[i - 1]]
    <3>1. CASE i <= n
      <4>1. i \in 1 .. n /\ i - 1 <= n /\ i - 1 \in 0 .. n + 1 /\ i \in 0 .. n + 1   BY <3>1
      <4>2. g[i] = f[i] /\ g[i - 1] = f[i - 1]   BY <3>1, <4>1
      <4> QED  BY <2>1, <4>1, <4>2
    <3>2. CASE ~(i <= n)
      <4>1. i = n + 1 /\ i - 1 = n /\ n \in 0 .. n + 1 /\ ~(n + 1 <= n)   BY <3>2
      <4>2. g[i] = x /\ g[i - 1] = f[n]   BY <4>1
      <4> QED  BY <4>1, <4>2 DEF x
    <3> QED  BY <3>1, <3>2
  <2> HIDE DEF g
  <2> QED  BY <2>4, <2>5, <2>6
<1> HIDE DEF T
<1>3. Nat \subseteq T   BY <1>1, <1>2, Induction
<1> QED  BY <1>3 DEF T


-----------------------------------------------------------------------------
(* The place of a tip.                                                       *)

Even(n) == n \in Nat /\ n % 2 = 0

\* The geometry stays as it was found, and the tip is where the code's two functions
\* put it for that geometry.
PlaceInv ==
    /\ spot \in Spots
    /\ placement \in [side : Sides, auto : BOOLEAN]
    /\ offset # Unplaced => offset = ApplyPlacement(AutoSide(placement, spot), spot)

\* Everything that is measured is even.
LEMMA SpotsAreEven ==
    ASSUME NEW s \in Spots
    PROVE  /\ Even(s.top) /\ Even(s.left) /\ Even(s.width) /\ Even(s.height)
           /\ Even(s.grown) /\ Even(s.padding) /\ Even(s.scroll)
<1> USE PlacementAssumption DEF Even
<1>1. Even(s.top) /\ Even(s.left)   BY DEF Spots
<1>2. Even(s.width) /\ Even(s.height) /\ Even(s.grown)   BY DEF Spots
<1>3. Even(s.padding) /\ Even(s.scroll)   BY DEF Spots
<1> QED  BY <1>1, <1>2, <1>3

\* An even number has a half, and half of twice a number is that number.
LEMMA HalfOfEven == ASSUME NEW n \in Nat, n % 2 = 0 PROVE n \div 2 \in Nat /\ 2 * (n \div 2) = n
OBVIOUS

\* Half of twice a number.
LEMMA HalfOfTwice == ASSUME NEW k \in Int PROVE (2 * k) \div 2 = k
OBVIOUS

\* An automatic placement is one of the four sides too.
LEMMA AutoSideIsSide ==
    ASSUME NEW s \in Spots, NEW p \in [side : Sides, auto : BOOLEAN]
    PROVE  AutoSide(p, s) \in Sides
BY DEF AutoSide, Sides

\* What the code adds to a position brings a tip that fits, with its padding, into
\* the viewport; here along one direction, the viewport beginning at low.
Shifted(first, last, low, high) ==
    CASE first < low                  -> low - first
      [] first >= low /\ last > high  -> high - last
      [] OTHER                        -> 0

\* Shifted into the view, across.
LEMMA ShiftFits ==
    ASSUME NEW at \in Int, NEW size \in Nat, NEW padding \in Nat, NEW scroll \in Nat,
           NEW delta \in Int,
           delta = Shifted(at - padding - scroll, at + padding - scroll + size, 0, 10),
           size + 2 * padding <= 10
    PROVE  scroll + padding <= at + delta /\ at + delta + size + padding <= scroll + 10
BY DEF Shifted

\* And down.
LEMMA ShiftFitsLevel ==
    ASSUME NEW at \in Int, NEW size \in Nat, NEW padding \in Nat, NEW delta \in Int,
           delta = Shifted(at - padding, at + padding + size, 0, 10),
           size + 2 * padding <= 10
    PROVE  padding <= at + delta /\ at + delta + size + padding <= 10
BY DEF Shifted

\* A tip placed by the code is beside its element, its arrow at the element's middle,
\* and in view if it can be.
LEMMA PlacedBeside ==
    ASSUME NEW s \in Spots, NEW side \in Sides, spot = s, offset = ApplyPlacement(side, s)
    PROVE  BesideAndInView
<1> DEFINE at       == CalculatedOffset(side, s)
           vertical == Along(side) = "vertical"
           top      == IF side = "top" /\ s.grown # s.height THEN at.top + s.height - s.grown
                                                              ELSE at.top
           moved    == IF side = "top" /\ s.grown # s.height
                       THEN [at EXCEPT !.top = @ + s.height - s.grown] ELSE at
           delta    == AdjustedDelta(side, moved, s.width, s.grown, s)
           arrow    == IF vertical THEN (s.grown - (2 * delta - s.height + s.grown)) \div 2
                                   ELSE (s.width - 2 * delta) \div 2
<1>1. /\ Even(s.top) /\ Even(s.left) /\ Even(s.width) /\ Even(s.height)
      /\ Even(s.grown) /\ Even(s.padding) /\ Even(s.scroll)
  BY SpotsAreEven
<1>2. /\ at.top  = CASE side = "bottom" -> s.top + Side
                     [] side = "top"    -> s.top - s.height
                     [] OTHER           -> s.top + Side \div 2 - s.height \div 2
      /\ at.left = CASE side = "left"   -> s.left - s.width
                     [] side = "right"  -> s.left + Side
                     [] OTHER           -> s.left + Side \div 2 - s.width \div 2
  BY DEF CalculatedOffset
<1>3. at.top \in Int /\ at.left \in Int
  BY <1>1, <1>2 DEF Even, Side, Sides
<1>4. moved.top = top /\ moved.left = at.left
  BY DEF CalculatedOffset
<1> HIDE DEF at, moved, top
<1>5. delta = IF vertical
              THEN Shifted(top - s.padding - s.scroll, top + s.padding - s.scroll + s.grown, 0, 10)
              ELSE Shifted(at.left - s.padding, at.left + s.padding + s.width, 0, 10)
  BY <1>4 DEF AdjustedDelta, Shifted, View
<1>6. /\ offset.side = side /\ offset.height = s.grown /\ offset.arrow = arrow
      /\ offset.top  = (IF vertical THEN top + delta ELSE top)
      /\ offset.left = (IF vertical THEN at.left ELSE at.left + delta)
  BY <1>4 DEF ApplyPlacement, Along, at, moved, top
<1> HIDE DEF delta
<1>10. top \in Int
  BY <1>1, <1>3 DEF Even, top
<1>7. delta \in Int
  BY <1>1, <1>3, <1>10, <1>5 DEF Shifted, Even
<1>8. CASE vertical
  <2>1. side \in {"left", "right"}   BY <1>8 DEF Along, Sides
  <2>a. s.height \div 2 \in Nat /\ 2 * (s.height \div 2) = s.height
    BY <1>1, HalfOfEven DEF Even
  <2>2. top = s.top + 1 - s.height \div 2
    BY <1>2, <2>1 DEF Side, top
  <2>b. s.grown - (2 * delta - s.height + s.grown) = 2 * (s.height \div 2 - delta)
    BY <1>1, <1>7, <2>a DEF Even
  <2>3. arrow = s.height \div 2 - delta
    BY <1>7, <1>8, <2>a, <2>b, HalfOfTwice
  <2>4. s.grown + 2 * s.padding <= 10 =>
          s.scroll + s.padding <= top + delta /\ top + delta + s.grown + s.padding <= s.scroll + 10
    BY ShiftFits, <1>1, <1>5, <1>7, <1>8, <1>10 DEF Even
  <2>5. top + delta + arrow = s.top + 1
    BY <1>1, <1>7, <2>2, <2>3, <2>a DEF Even
  <2>6. side = "left" => at.left + s.width = s.left
    BY <1>1, <1>2 DEF Even
  <2>7. side = "right" => at.left = s.left + Side
    BY <1>1, <1>2 DEF Even
  <2> HIDE DEF arrow, top
  <2> QED
    BY <1>1, <1>3, <1>6, <1>7, <1>8, <2>1, <2>2, <2>4, <2>5, <2>6, <2>7
       DEF BesideAndInView, Side, View, Along, Even
<1>9. CASE ~vertical
  <2>1. side \in {"top", "bottom"}   BY <1>9 DEF Along, Sides
  <2>a. s.width \div 2 \in Nat /\ 2 * (s.width \div 2) = s.width
    BY <1>1, HalfOfEven DEF Even
  <2>2. at.left = s.left + 1 - s.width \div 2
    BY <1>2, <2>1 DEF Side
  <2>b. s.width - 2 * delta = 2 * (s.width \div 2 - delta)
    BY <1>1, <1>7, <2>a DEF Even
  <2>3. arrow = s.width \div 2 - delta
    BY <1>7, <1>9, <2>a, <2>b, HalfOfTwice
  <2>4. s.width + 2 * s.padding <= 10 =>
          s.padding <= at.left + delta /\ at.left + delta + s.width + s.padding <= 10
    BY ShiftFitsLevel, <1>1, <1>3, <1>5, <1>7, <1>9 DEF Even
  <2>5. at.left + delta + arrow = s.left + 1
    BY <1>1, <1>7, <2>2, <2>3, <2>a DEF Even
  <2>6. side = "top" => top + s.grown = s.top
    BY <1>1, <1>2 DEF Even, top
  <2>7. side = "bottom" => top = s.top + Side
    BY <1>1, <1>2 DEF Even, top
  <2> HIDE DEF arrow, top
  <2> QED
    BY <1>1, <1>3, <1>6, <1>7, <1>9, <2>1, <2>4, <2>5, <2>6, <2>7
       DEF BesideAndInView, Side, View, Along, Even
<1> QED  BY <1>8, <1>9

\* A tip lies beside its element with its arrow at the element's middle, and inside
\* the viewport along that side whenever it fits there: for all even measures, not
\* only those of the run, also when its text made it higher than when its place was
\* calculated.
THEOREM TipsBeside == PlaceSpec => []BesideAndInView
<1>1. PlaceInit => PlaceInv
  BY DEF PlaceInit, PlaceInv
<1>2. PlaceInv /\ [PlaceNext]_placeVars => PlaceInv'
  BY DEF PlaceInv, PlaceNext, Place, placeVars
<1>3. PlaceInv => BesideAndInView
  <2> SUFFICES ASSUME PlaceInv, offset # Unplaced PROVE BesideAndInView
    BY DEF BesideAndInView
  <2>1. AutoSide(placement, spot) \in Sides   BY AutoSideIsSide DEF PlaceInv
  <2> QED  BY <2>1, PlacedBeside DEF PlaceInv
<1> QED  BY <1>1, <1>2, <1>3, PTL DEF PlaceSpec

-----------------------------------------------------------------------------
(* The carousel.                                                             *)

\* The items, counted from 0, and the carousels of them.
Positions == 0 .. Items - 1
Cars == [active : SUBSET Positions, sliding : BOOLEAN, slides : SUBSET (Positions \X Positions),
         paused : BOOLEAN, interval : 0 .. 9, running : SUBSET (0 .. 9)]

\* One item is active, and one slide under way from it to another, or none; the
\* interval that runs is the one that is known, if the options want any.
CarSound(c) ==
    /\ c \in Cars
    /\ \E i \in Positions : c.active = {i}
    /\ c.sliding <=> c.slides # {}
    /\ \A s, t \in c.slides : s = t /\ s[1] \in c.active /\ s[2] # s[1]
    /\ c.running = IF c.interval = None THEN {} ELSE {c.interval}
    /\ ~Interval => c.interval = None

\* Two carousels that show the same.
AsShown(c, d) == d.active = c.active /\ d.sliding = c.sliding /\ d.slides = c.slides

\* Carousel c is at position pos, or on its way to it.
BoundFor(c, pos) == IF c.sliding THEN \A s \in c.slides : s[2] = pos ELSE c.active = {pos}

\* What was asked for last is the last to wait, or where the carousel is bound for.
CarouselInv ==
    /\ CarSound(car) /\ slid \in Nat /\ waiting \in Seq(Positions)
    /\ wished \in Int
    /\ stopped => car.interval = None
    /\ waiting # << >> => car.sliding \/ slid > 0
    /\ wished >= 0 /\ ~overtaken =>
         IF waiting # << >> THEN wished = waiting[Len(waiting)] ELSE BoundFor(car, wished)

\* clearInterval() as pause() and cycle() call it.
LEMMA ClearedInterval ==
  ASSUME NEW c, CarSound(c)
  PROVE  /\ CarSound(WithoutInterval(c)) /\ AsShown(c, WithoutInterval(c))
         /\ WithoutInterval(c).interval = None /\ WithoutInterval(c).paused = c.paused
<1> DEFINE d == WithoutInterval(c)
<1>0. c \in Cars   BY DEF CarSound
<1>1. /\ d \in Cars /\ AsShown(c, d) /\ d.interval = None /\ d.paused = c.paused
      /\ d.running = c.running \ {c.interval}
  <2>1. 0 \in 0 .. 9 /\ c.running \ {c.interval} \in SUBSET (0 .. 9)   BY <1>0 DEF Cars
  <2>2. d \in Cars   BY <1>0, <2>1 DEF WithoutInterval, Cars, None
  <2>3. d.interval = None /\ d.paused = c.paused /\ d.running = c.running \ {c.interval}
    BY <1>0 DEF WithoutInterval, Cars, None
  <2>4. AsShown(c, d)   BY <1>0 DEF WithoutInterval, Cars, AsShown
  <2> QED  BY <2>2, <2>3, <2>4
<1>2. d.running = {}
  BY <1>1 DEF CarSound, None
<1> HIDE DEF d
<1>3. CarSound(d)   BY <1>1, <1>2 DEF CarSound, AsShown, None
<1> QED  BY <1>1, <1>3 DEF d

\* setInterval() in cycle().
LEMMA StartedInterval ==
  ASSUME NEW c, CarSound(c), c.interval = None, Interval
  PROVE  CarSound(NewInterval(c)) /\ AsShown(c, NewInterval(c))
<1> DEFINE id == CHOOSE n \in 1 .. 9 : n \notin c.running
<1> DEFINE d == [c EXCEPT !.interval = id, !.running = @ \union {id}]
<1>1. c.running = {}   BY DEF CarSound
<1>2. id \in 1 .. 9
  <2>1. 1 \in 1 .. 9 /\ 1 \notin c.running   BY <1>1
  <2> QED  BY <2>1
<1> HIDE DEF id
<1>3. d \in Cars /\ AsShown(c, d) /\ d.interval = id /\ d.running = {id}
  <2>1. c \in Cars   BY DEF CarSound
  <2>2. id \in 0 .. 9 /\ {} \union {id} = {id} /\ {id} \in SUBSET (0 .. 9)   BY <1>2
  <2>3. d \in Cars   BY <1>1, <2>1, <2>2 DEF Cars
  <2>4. d.interval = id /\ d.running = {id}   BY <1>1, <2>1 DEF Cars
  <2>5. AsShown(c, d)   BY <2>1 DEF Cars, AsShown
  <2> QED  BY <2>3, <2>4, <2>5
<1> HIDE DEF d
<1>4. CarSound(d)   BY <1>2, <1>3 DEF CarSound, AsShown, None
<1> QED  BY <1>3, <1>4 DEF d, id, NewInterval

\* pause() and cycle() change the interval and nothing that shows.
LEMMA PausedOrCycled ==
  ASSUME NEW c, CarSound(c), NEW hover \in BOOLEAN
  PROVE  /\ CarSound(Pause(c, hover)) /\ AsShown(c, Pause(c, hover))
         /\ Pause(c, hover).interval = None
         /\ CarSound(Cycle(c, hover)) /\ AsShown(c, Cycle(c, hover))
         /\ hover /\ c.paused => Cycle(c, hover).interval = None
<1>1. ASSUME NEW b \in BOOLEAN, NEW d, d = [c EXCEPT !.paused = b] \/ d = c
      PROVE  CarSound(d) /\ AsShown(c, d)
  <2>1. d \in Cars /\ AsShown(c, d) /\ d.running = c.running /\ d.interval = c.interval
    BY <1>1 DEF CarSound, Cars, AsShown
  <2> QED  BY <2>1 DEF CarSound, AsShown
<1>2. CarSound(Pause(c, hover)) /\ AsShown(c, Pause(c, hover)) /\ Pause(c, hover).interval = None
  <2> DEFINE d == IF hover THEN c ELSE [c EXCEPT !.paused = TRUE]
  <2>1. CarSound(d) /\ AsShown(c, d)   BY <1>1
  <2> HIDE DEF d
  <2>2. CarSound(WithoutInterval(d)) /\ AsShown(d, WithoutInterval(d)) /\ WithoutInterval(d).interval = None
    BY <2>1, ClearedInterval
  <2> QED  BY <2>1, <2>2 DEF Pause, d, AsShown
<1>3. /\ CarSound(Cycle(c, hover)) /\ AsShown(c, Cycle(c, hover))
      /\ hover /\ c.paused => Cycle(c, hover).interval = None
  <2> DEFINE d == IF hover THEN c ELSE [c EXCEPT !.paused = FALSE]
             going == WithoutInterval(d)
  <2>1. CarSound(d) /\ AsShown(c, d) /\ (hover => d.paused = c.paused)   BY <1>1
  <2>2. Cycle(c, hover) = IF Interval /\ ~going.paused THEN NewInterval(going) ELSE going
    BY DEF Cycle
  <2> HIDE DEF d
  <2>3. CarSound(going) /\ AsShown(d, going) /\ going.interval = None /\ going.paused = d.paused
    BY <2>1, ClearedInterval
  <2> HIDE DEF going
  <2>4. Interval => CarSound(NewInterval(going)) /\ AsShown(going, NewInterval(going))
    BY <2>3, StartedInterval
  <2>5. CASE Interval /\ ~going.paused   BY <2>1, <2>2, <2>3, <2>4, <2>5 DEF AsShown
  <2>6. CASE ~(Interval /\ ~going.paused)   BY <2>1, <2>2, <2>3, <2>6 DEF AsShown
  <2> QED  BY <2>5, <2>6
<1> QED  BY <1>2, <1>3

\* There is one active item.
LEMMA ActiveIsOne ==
  ASSUME NEW c, CarSound(c)
  PROVE  Active(c) \in Positions /\ c.active = {Active(c)}
<1>1. PICK i \in Positions : c.active = {i}   BY DEF CarSound
<1>2. Active(c) = i   BY <1>1 DEF Active
<1> QED  BY <1>1, <1>2

\* What slide() does to a carousel at rest.
Slides(c, d, next) ==
    /\ CarSound(d)
    /\ \/ AsShown(c, d) /\ ~d.sliding
       \/ d.sliding /\ d.active = c.active /\ d.slides = {<<Active(c), next>>}

\* slide() keeps a carousel sound.
LEMMA SlideKeeps ==
  ASSUME NEW c, CarSound(c), ~c.sliding, NEW next \in Positions,
         NEW reaction \in {"none", "prevent", "pause"}
  PROVE  /\ Slides(c, SlideTo(c, next, reaction), next)
         /\ reaction = "none" /\ next \notin c.active => SlideTo(c, next, reaction).sliding
<1> DEFINE d == SlideTo(c, next, reaction)
           told  == IF reaction = "pause" THEN Pause(c, FALSE) ELSE c
           slide == [told EXCEPT !.sliding = TRUE, !.slides = @ \union {<<Active(c), next>>}]
<1>1. CASE next \in c.active
  <2>1. d = [c EXCEPT !.sliding = FALSE]   BY <1>1 DEF SlideTo
  <2>2. c \in Cars   BY DEF CarSound
  <2>3. d = c   BY <2>1, <2>2 DEF Cars
  <2> QED  BY <1>1, <2>3 DEF Slides, AsShown
<1>2. CASE next \notin c.active /\ reaction = "prevent"
  <2>1. d = c   BY <1>2 DEF SlideTo
  <2> QED  BY <1>2, <2>1 DEF Slides, AsShown
<1>3. CASE next \notin c.active /\ reaction # "prevent"
  <2>1. d = IF c.interval # None THEN Cycle(Pause(slide, FALSE), FALSE) ELSE slide
    BY <1>3 DEF SlideTo
  <2>2. CarSound(told) /\ AsShown(c, told)   BY PausedOrCycled DEF AsShown
  <2> HIDE DEF told
  <2>3. c.slides = {} /\ Active(c) \in Positions /\ c.active = {Active(c)}
    BY ActiveIsOne DEF CarSound
  <2>4. /\ slide \in Cars /\ slide.sliding /\ slide.active = c.active
        /\ slide.slides = {<<Active(c), next>>}
        /\ slide.interval = told.interval /\ slide.running = told.running
    <3>1. told \in Cars   BY <2>2 DEF CarSound
    <3>2. told.slides = {} /\ told.active = c.active   BY <2>2, <2>3 DEF AsShown
    <3>3. {<<Active(c), next>>} \in SUBSET (Positions \X Positions)   BY <2>3
    <3>4. slide \in Cars   BY <3>1, <3>2, <3>3 DEF Cars
    <3>5. slide.sliding /\ slide.active = c.active /\ slide.slides = {<<Active(c), next>>}
      BY <3>1, <3>2 DEF Cars
    <3>6. slide.interval = told.interval /\ slide.running = told.running   BY <3>1 DEF Cars
    <3> QED  BY <3>4, <3>5, <3>6
  <2> HIDE DEF slide
  <2>5. CarSound(slide)
    <3>1. \A s, t \in slide.slides : s = t /\ s[1] \in slide.active /\ s[2] # s[1]
      BY <1>3, <2>3, <2>4
    <3>2. \E i \in Positions : slide.active = {i}   BY <2>3, <2>4
    <3>3. /\ slide.running = IF slide.interval = None THEN {} ELSE {slide.interval}
          /\ ~Interval => slide.interval = None
      BY <2>2, <2>4 DEF CarSound
    <3> QED  BY <2>4, <3>1, <3>2, <3>3 DEF CarSound
  <2>6. CarSound(Pause(slide, FALSE)) /\ AsShown(slide, Pause(slide, FALSE))
    BY <2>5, PausedOrCycled
  <2>7. /\ CarSound(Cycle(Pause(slide, FALSE), FALSE))
        /\ AsShown(Pause(slide, FALSE), Cycle(Pause(slide, FALSE), FALSE))
    BY <2>6, PausedOrCycled
  <2>8. CarSound(d) /\ AsShown(slide, d)   BY <2>1, <2>5, <2>6, <2>7 DEF AsShown
  <2> HIDE DEF d
  <2>9. Slides(c, d, next) /\ d.sliding   BY <2>4, <2>8 DEF Slides, AsShown
  <2> QED  BY <2>9 DEF d
<1> QED  BY <1>1, <1>2, <1>3

\* next(), prev() and the interval slide by one, unless a slide is under way.
LEMMA TurnKeeps ==
  ASSUME NEW c, CarSound(c), ~c.sliding, NEW type \in {"next", "prev"},
         NEW reaction \in {"none", "prevent", "pause"}
  PROVE  \E next \in Positions : Slides(c, Turn(c, type, reaction), next)
<1>1. ItemForDirection(c, type) \in Positions
  <2> DEFINE a == Active(c)
  <2>1. a \in Positions   BY ActiveIsOne
  <2>2. ItemForDirection(c, type) \in {a, (a + 1) % Items, (a + Items - 1) % Items}
    BY DEF ItemForDirection
  <2> HIDE DEF a
  <2>3. (a + 1) % Items \in Positions /\ (a + Items - 1) % Items \in Positions
    <3>1. Items \in Nat \ {0} /\ a + 1 \in Nat /\ a + Items - 1 \in Nat
      BY <2>1, CarouselAssumption DEF Positions
    <3>2. \A n \in Nat : n % Items \in Positions   BY <3>1 DEF Positions
    <3> QED  BY <3>1, <3>2
  <2> QED  BY <2>1, <2>2, <2>3
<1>2. Turn(c, type, reaction) = SlideTo(c, ItemForDirection(c, type), reaction)   BY DEF Turn
<1> QED  BY <1>1, <1>2, SlideKeeps

\* to() at rest takes the carousel to the position or on its way there.
LEMMA GoKeeps ==
  ASSUME NEW c, CarSound(c), ~c.sliding, NEW pos \in Positions
  PROVE  CarSound(Go(c, pos)) /\ BoundFor(Go(c, pos), pos)
<1>1. CASE pos \in c.active
  <2>1. Go(c, pos) = Cycle(Pause(c, FALSE), FALSE)   BY <1>1 DEF Go
  <2>2. CarSound(Pause(c, FALSE)) /\ AsShown(c, Pause(c, FALSE))   BY PausedOrCycled
  <2>3. CarSound(Go(c, pos)) /\ AsShown(Pause(c, FALSE), Go(c, pos))   BY <2>1, <2>2, PausedOrCycled
  <2>4. c.active = {pos}   BY <1>1, ActiveIsOne
  <2> QED  BY <2>2, <2>3, <2>4 DEF AsShown, BoundFor
<1>2. CASE pos \notin c.active
  <2>1. Go(c, pos) = SlideTo(c, pos, "none")   BY <1>2 DEF Go
  <2>2. Slides(c, Go(c, pos), pos) /\ Go(c, pos).sliding   BY <1>2, <2>1, SlideKeeps
  <2>3. /\ CarSound(Go(c, pos)) /\ Go(c, pos).slides = {<<Active(c), pos>>}
    BY <2>2 DEF Slides, AsShown
  <2> QED  BY <2>2, <2>3 DEF BoundFor
<1> QED  BY <1>1, <1>2

\* The loop over the waiting positions, as a function of how many have been called.
Again(steps, pos) == IF Waits(steps.car) THEN [steps EXCEPT !.waiting = Append(@, pos)]
                   ELSE [steps EXCEPT !.car = Go(@, pos)]
Loop(after, c, positions, n) ==
    after = [k \in 0 .. n |-> IF k = 0 THEN [car |-> c, waiting |-> << >>]
                              ELSE Again(after[k - 1], positions[k])]

\* There is a sequence of stages for every sequence of positions.
LEMMA LoopExists ==
  ASSUME NEW c, NEW positions, NEW len \in Nat
  PROVE  \E after : Loop(after, c, positions, len)
<1> DEFINE S == {n \in Nat : \E after : Loop(after, c, positions, n)}
<1>1. 0 \in S
  <2> DEFINE f == [k \in 0 .. 0 |-> [car |-> c, waiting |-> << >>]]
  <2>1. f = [k \in 0 .. 0 |-> IF k = 0 THEN [car |-> c, waiting |-> << >>]
                              ELSE Again(f[k - 1], positions[k])]
    OBVIOUS
  <2> HIDE DEF f
  <2> QED  BY <2>1 DEF Loop
<1>2. ASSUME NEW n \in Nat, n \in S
      PROVE  n + 1 \in S
  <2>1. PICK f : Loop(f, c, positions, n)   BY <1>2
  <2> DEFINE g == [k \in 0 .. n + 1 |-> IF k <= n THEN f[k] ELSE Again(f[n], positions[n + 1])]
             h == [k \in 0 .. n + 1 |-> IF k = 0 THEN [car |-> c, waiting |-> << >>]
                                        ELSE Again(g[k - 1], positions[k])]
  <2>2. \A k \in 0 .. n : f[k] = IF k = 0 THEN [car |-> c, waiting |-> << >>]
                                  ELSE Again(f[k - 1], positions[k])
    BY <2>1 DEF Loop
  <2>3. \A k \in 0 .. n + 1 : g[k] = h[k]
    <3> TAKE k \in 0 .. n + 1
    <3>1. CASE k = 0   BY <2>2, <3>1
    <3>2. CASE k # 0 /\ k <= n
      <4>1. k - 1 \in 0 .. n + 1 /\ k - 1 <= n /\ k \in 0 .. n   BY <3>2
      <4>2. g[k - 1] = f[k - 1] /\ g[k] = f[k]   BY <3>2, <4>1
      <4> QED  BY <2>2, <3>2, <4>1, <4>2
    <3>3. CASE k = n + 1
      <4>1. k - 1 = n /\ n \in 0 .. n + 1 /\ ~(k <= n) /\ k # 0   BY <3>3
      <4>2. g[k - 1] = f[n] /\ g[k] = Again(f[n], positions[n + 1])   BY <4>1
      <4> QED  BY <3>3, <4>1, <4>2
    <3> QED  BY <3>1, <3>2, <3>3
  <2>4. g = h   BY <2>3
  <2>5. Loop(g, c, positions, n + 1)   BY <2>4 DEF Loop
  <2> HIDE DEF g
  <2> QED  BY <2>5
<1> HIDE DEF S
<1>3. Nat \subseteq S   BY <1>1, <1>2, Induction
<1> QED  BY <1>3 DEF S

\* The stages of GoneOn, one for each position that was waiting.
LEMMA GoneOnInSteps ==
  ASSUME NEW c, NEW positions, NEW len \in Nat, Len(positions) = len
  PROVE  \E after : Loop(after, c, positions, len) /\ GoneOn(c, positions) = after[len]
<1> DEFINE after == CHOOSE f : Loop(f, c, positions, len)
<1>1. GoneOn(c, positions) = after[len]   BY DEF GoneOn, Loop, Again
<1> QED BY <1>1, LoopExists

\* The loop so far: nothing waits again but behind a slide, and the last position called
\* is where the carousel is bound for or the last to wait.
Stage(steps, n, positions) ==
    /\ steps \in [car : Cars, waiting : Seq(Positions)] /\ CarSound(steps.car)
    /\ steps.waiting # << >> => steps.car.sliding
    /\ n > 0 => IF steps.waiting # << >> THEN steps.waiting[Len(steps.waiting)] = positions[n]
                                       ELSE BoundFor(steps.car, positions[n])

\* A stage leads to the next.
LEMMA StageKeeps ==
  ASSUME NEW positions \in Seq(Positions), NEW n \in 0 .. Len(positions), n + 1 <= Len(positions),
         NEW steps, Stage(steps, n, positions)
  PROVE  Stage(Again(steps, positions[n + 1]), n + 1, positions)
<1> DEFINE pos == positions[n + 1]
           next == Again(steps, pos)
<1>1. pos \in Positions   OBVIOUS
<1>2. steps \in [car : Cars, waiting : Seq(Positions)]   BY DEF Stage
<1>3. n + 1 > 0   OBVIOUS
<1>4. CASE steps.car.sliding
  <2>1. next = [steps EXCEPT !.waiting = Append(@, pos)]   BY <1>4 DEF Again, Waits
  <2>2. next.car = steps.car /\ next.waiting = Append(steps.waiting, pos)   BY <1>2, <2>1
  <2>3. /\ Append(steps.waiting, pos) \in Seq(Positions) /\ Append(steps.waiting, pos) # << >>
        /\ Append(steps.waiting, pos)[Len(Append(steps.waiting, pos))] = pos
    BY <1>1, <1>2
  <2>4. next \in [car : Cars, waiting : Seq(Positions)]   BY <1>2, <2>1, <2>3
  <2> HIDE DEF next
  <2>5. /\ next.waiting # << >> /\ next.waiting[Len(next.waiting)] = positions[n + 1]
        /\ CarSound(next.car) /\ next.car.sliding
    BY <1>4, <2>2, <2>3 DEF Stage
  <2>8. Stage(next, n + 1, positions)   BY <2>4, <2>5 DEF Stage
  <2> QED  BY <2>8 DEF next
<1>5. CASE ~steps.car.sliding
  <2>1. next = [steps EXCEPT !.car = Go(@, pos)]   BY <1>5 DEF Again, Waits
  <2>2. next.car = Go(steps.car, pos) /\ next.waiting = steps.waiting   BY <1>2, <2>1
  <2>3. steps.waiting = << >>   BY <1>5 DEF Stage
  <2>4. CarSound(Go(steps.car, pos)) /\ BoundFor(Go(steps.car, pos), pos)
    <3>1. CarSound(steps.car)   BY DEF Stage
    <3> QED  BY <1>1, <1>5, <3>1, GoKeeps
  <2>5. Go(steps.car, pos) \in Cars   BY <2>4 DEF CarSound
  <2>6. next \in [car : Cars, waiting : Seq(Positions)]   BY <1>2, <2>1, <2>5
  <2> HIDE DEF next
  <2>7. next.waiting = << >> /\ CarSound(next.car) /\ BoundFor(next.car, positions[n + 1])
    BY <2>2, <2>3, <2>4
  <2>8. Stage(next, n + 1, positions)   BY <2>6, <2>7 DEF Stage
  <2> QED  BY <2>8 DEF next
<1> QED  BY <1>4, <1>5

\* All of them together, from the end of a slide on.
LEMMA GoneOnKeeps ==
  ASSUME NEW c, CarSound(c), NEW positions \in Seq(Positions)
  PROVE  Stage(GoneOn(c, positions), Len(positions), positions)
<1> DEFINE len == Len(positions)
<1>1. len \in Nat   OBVIOUS
<1>2. PICK after : Loop(after, c, positions, len) /\ GoneOn(c, positions) = after[len]
  BY <1>1, GoneOnInSteps
<1>3. \A k \in 0 .. len : after[k] = IF k = 0 THEN [car |-> c, waiting |-> << >>]
                                     ELSE Again(after[k - 1], positions[k])
  BY <1>2 DEF Loop
<1> DEFINE S == {n \in Nat : n <= len => Stage(after[n], n, positions)}
<1>4. 0 \in S
  <2>1. after[0] = [car |-> c, waiting |-> << >>]   BY <1>1, <1>3
  <2>2. c \in Cars   BY DEF CarSound
  <2>3. Stage([car |-> c, waiting |-> << >>], 0, positions)   BY <2>2 DEF Stage
  <2> QED  BY <2>1, <2>3
<1>5. ASSUME NEW n \in Nat, n \in S
      PROVE  n + 1 \in S
  <2> SUFFICES ASSUME n + 1 <= len
               PROVE  Stage(after[n + 1], n + 1, positions)
    OBVIOUS
  <2>1. n \in 0 .. len /\ n + 1 \in 0 .. len /\ n + 1 # 0 /\ (n + 1) - 1 = n   BY <1>1
  <2>2. Stage(after[n], n, positions)   BY <1>5, <2>1
  <2>3. after[n + 1] = Again(after[n], positions[n + 1])   BY <1>3, <2>1
  <2> QED  BY <2>1, <2>2, <2>3, StageKeeps
<1> HIDE DEF S
<1>6. Nat \subseteq S   BY <1>4, <1>5, Induction
<1>7. len \in S   BY <1>1, <1>6
<1> QED  BY <1>2, <1>7 DEF S

\* Nothing waited.
LEMMA GoneOnNothing ==
  ASSUME NEW c, NEW positions, positions = << >>
  PROVE  GoneOn(c, positions) = [car |-> c, waiting |-> << >>]
<1>1. Len(positions) = 0   OBVIOUS
<1>2. PICK after : Loop(after, c, positions, 0) /\ GoneOn(c, positions) = after[0]
  BY <1>1, GoneOnInSteps
<1> QED  BY <1>2 DEF Loop

\* The carousel as the page has it.
LEMMA CarouselInitInv == CarouselInit => CarouselInv
<1> SUFFICES ASSUME CarouselInit PROVE CarouselInv
  OBVIOUS
<1>1. 0 \in Positions   BY CarouselAssumption DEF Positions
<1>2. /\ car.active = {0} /\ ~car.sliding /\ car.slides = {}
      /\ car.interval \in {0, 1} /\ (~Interval => car.interval = 0)
      /\ car.running = IF car.interval = 0 THEN {} ELSE {car.interval}
  <2>1. car.active = {0} /\ ~car.sliding /\ car.slides = {}   BY DEF CarouselInit
  <2>2. car.interval = (IF Interval THEN 1 ELSE 0) /\ car.running = IF Interval THEN {1} ELSE {}
    BY DEF CarouselInit, None
  <2> QED  BY <2>1, <2>2
<1>3. car \in Cars
  <2>1. CASE Interval   BY <1>1, <2>1 DEF CarouselInit, Cars, None
  <2>2. CASE ~Interval   BY <1>1, <2>2 DEF CarouselInit, Cars, None
  <2> QED  BY <2>1, <2>2
<1>4. CarSound(car)   BY <1>1, <1>2, <1>3 DEF CarSound, None
<1> QED  BY <1>4 DEF CarouselInit, CarouselInv

\* A click, a key or the interval turns the carousel, unless it is sliding.
LEMMA TurnStep ==
  ASSUME CarouselInv, NEW type \in {"next", "prev"}, NEW reaction \in {"none", "prevent", "pause"},
         car' = Turn(car, type, reaction),
         wished' = IF Turn(car, type, reaction).sliding /\ ~car.sliding THEN -1 ELSE wished,
         stopped' => Turn(car, type, reaction).interval = None,
         UNCHANGED <<slid, waiting>>, ~overtaken' => ~overtaken
  PROVE  CarouselInv'
<1> DEFINE c == Turn(car, type, reaction)
<1>1. CASE car.sliding
  <2>1. c = car   BY <1>1 DEF Turn
  <2> QED  BY <1>1, <2>1 DEF CarouselInv
<1>2. CASE ~car.sliding
  <2>1. CarSound(car)   BY DEF CarouselInv
  <2>2. PICK next \in Positions : Slides(car, c, next)   BY <1>2, <2>1, TurnKeeps
  <2>3. c = car' /\ (stopped' => c.interval = None)
        /\ wished' = IF c.sliding /\ ~car.sliding THEN -1 ELSE wished
    OBVIOUS
  <2> HIDE DEF c
  <2>4. CASE c.sliding
    <3>1. wished' = -1   BY <1>2, <2>3, <2>4
    <3>2. CarSound(c)   BY <2>2 DEF Slides
    <3> QED  BY <2>3, <2>4, <3>1, <3>2 DEF CarouselInv
  <2>5. CASE ~c.sliding
    <3>1. CarSound(c) /\ c.active = car.active   BY <2>2, <2>5 DEF Slides, AsShown
    <3>2. wished' = wished   BY <2>3, <2>5
    <3>3. \A pos : BoundFor(car, pos) => BoundFor(c, pos)   BY <1>2, <2>5, <3>1 DEF BoundFor
    <3> QED  BY <1>2, <2>3, <2>5, <3>1, <3>2, <3>3 DEF CarouselInv
  <2> QED  BY <2>4, <2>5
<1> QED  BY <1>1, <1>2

\* Every step keeps the invariant.
LEMMA CarouselStep == CarouselInv /\ [CarouselNext]_carouselVars => CarouselInv'
<1> SUFFICES ASSUME CarouselInv, [CarouselNext]_carouselVars
             PROVE  CarouselInv'
  OBVIOUS
<1>1. CarSound(car)   BY DEF CarouselInv
<1>2. ASSUME NEW type \in {"next", "prev"}, Move(type)
      PROVE  CarouselInv'
  <2>1. PICK reaction \in {"none", "prevent", "pause"} :
          /\ car' = Turn(car, type, reaction)
          /\ overtaken' = (overtaken \/ (waiting # << >> /\ ~car.sliding /\ Turn(car, type, reaction) # car))
          /\ wished' = IF Turn(car, type, reaction).sliding /\ ~car.sliding THEN -1 ELSE wished
          /\ stopped' = IF Turn(car, type, reaction).interval # None THEN FALSE ELSE stopped
    BY <1>2 DEF Move, SlideBegins
  <2>2. UNCHANGED <<slid, waiting>>   BY <1>2 DEF Move
  <2> QED  BY <2>1, <2>2, TurnStep
<1>3. ASSUME NEW pos \in 0 .. Items, To(pos)
      PROVE  CarouselInv'
  <2>1. CASE ~InRange(pos)
    <3>1. UNCHANGED <<car, waiting, stopped, overtaken, wished, slid>>   BY <1>3, <2>1 DEF To
    <3> QED  BY <3>1 DEF CarouselInv
  <2>2. CASE InRange(pos) /\ car.sliding
    <3>1. /\ waiting' = Append(waiting, pos) /\ UNCHANGED <<car, stopped, overtaken, slid>>
          /\ wished' = pos
      BY <1>3, <2>2 DEF To, Waits
    <3>2. pos \in Positions   BY <2>2 DEF InRange, Positions
    <3>3. waiting \in Seq(Positions)   BY DEF CarouselInv
    <3>4. waiting' \in Seq(Positions) /\ waiting' # << >> /\ waiting'[Len(waiting')] = pos
      BY <3>1, <3>2, <3>3
    <3>5. pos \in Int   BY <3>2 DEF Positions
    <3> QED  BY <2>2, <3>1, <3>4, <3>5 DEF CarouselInv
  <2>3. CASE InRange(pos) /\ ~car.sliding
    <3>1. /\ car' = Go(car, pos) /\ overtaken' = (overtaken \/ waiting # << >>)
          /\ ~stopped' /\ UNCHANGED <<waiting, slid>> /\ wished' = pos
      BY <1>3, <2>3 DEF To, Waits
    <3>2. pos \in Positions /\ pos \in Int   BY <2>3 DEF InRange, Positions
    <3>3. CarSound(car') /\ BoundFor(car', pos)   BY <1>1, <2>3, <3>1, <3>2, GoKeeps
    <3>4. ~overtaken' => waiting' = << >>   BY <3>1
    <3>5. waiting' # << >> => slid' > 0   BY <2>3, <3>1 DEF CarouselInv
    <3>6. slid' \in Nat /\ waiting' \in Seq(Positions)   BY <3>1 DEF CarouselInv
    <3> QED  BY <3>1, <3>2, <3>3, <3>4, <3>5, <3>6 DEF CarouselInv
  <2> QED  BY <2>1, <2>2, <2>3
<1>4. ASSUME IntervalTick
      PROVE  CarouselInv'
  <2> DEFINE c == Turn(car, "next", "none")
  <2>1. /\ car' = c /\ wished' = (IF c.sliding /\ ~car.sliding THEN -1 ELSE wished)
        /\ overtaken' = (overtaken \/ (waiting # << >> /\ ~car.sliding /\ c # car))
        /\ UNCHANGED <<slid, waiting, stopped>> /\ car.running # {}
    BY <1>4 DEF IntervalTick, SlideBegins
  <2>2. ~stopped   BY <2>1 DEF CarouselInv, CarSound
  <2>3. ~overtaken' => ~overtaken   BY <2>1
  <2>4. ~stopped'   BY <2>1, <2>2
  <2> QED  BY <2>1, <2>3, <2>4, TurnStep
<1>5. ASSUME NEW hover \in BOOLEAN, PauseOrCycle(hover)
      PROVE  CarouselInv'
  <2>1. UNCHANGED <<slid, waiting, wished, overtaken>>   BY <1>5 DEF PauseOrCycle
  <2>2. CarSound(car') /\ AsShown(car, car') /\ (stopped' => car'.interval = None)
    <3>1. CASE car' = Pause(car, hover)   BY <1>1, <3>1, PausedOrCycled
    <3>2. CASE car' = Cycle(car, hover) /\ stopped' = (hover /\ car.paused)
      BY <1>1, <3>2, PausedOrCycled
    <3> QED  BY <1>5, <3>1, <3>2 DEF PauseOrCycle
  <2>3. \A pos : BoundFor(car, pos) => BoundFor(car', pos)   BY <2>2 DEF AsShown, BoundFor
  <2>4. car'.sliding <=> car.sliding   BY <2>2 DEF AsShown
  <2> QED  BY <2>1, <2>2, <2>3, <2>4 DEF CarouselInv
<1>6. ASSUME SlideEnds
      PROVE  CarouselInv'
  <2>1. PICK s \in car.slides :
          car' = [car EXCEPT !.active = (@ \union {s[2]}) \ {s[1]}, !.sliding = FALSE,
                             !.slides = @ \ {s}]
    BY <1>6 DEF SlideEnds
  <2>2. slid' = slid + 1 /\ UNCHANGED <<waiting, wished, stopped, overtaken>>
    BY <1>6 DEF SlideEnds
  <2>3. PICK i \in Positions : car.active = {i}   BY <1>1 DEF CarSound
  <2>4. car.slides = {s} /\ s[1] = i /\ s[2] # i /\ car.sliding   BY <1>1, <2>3 DEF CarSound
  <2>5. car \in Cars /\ s[2] \in Positions   BY <1>1 DEF CarSound, Cars
  <2>6. (car.active \union {s[2]}) \ {s[1]} = {s[2]} /\ car.slides \ {s} = {}   BY <2>3, <2>4
  <2>7. /\ car'.active = {s[2]} /\ ~car'.sliding /\ car'.slides = {}
        /\ car'.running = car.running /\ car'.interval = car.interval
    BY <2>1, <2>5, <2>6 DEF Cars
  <2>8. car' \in Cars
    <3>1. {s[2]} \in SUBSET Positions /\ {} \in SUBSET (Positions \X Positions)   BY <2>5
    <3> QED  BY <2>1, <2>5, <2>6, <3>1 DEF Cars
  <2>9. CarSound(car')   BY <1>1, <2>5, <2>7, <2>8 DEF CarSound
  <2>10. \A pos : BoundFor(car, pos) => BoundFor(car', pos)   BY <2>4, <2>7 DEF BoundFor
  <2>11. slid' \in Nat /\ slid' > 0   BY <2>2 DEF CarouselInv
  <2> QED  BY <2>2, <2>7, <2>9, <2>10, <2>11 DEF CarouselInv
<1>7. ASSUME Slid
      PROVE  CarouselInv'
  <2> DEFINE end == GoneOn(car, waiting)
  <2>1. /\ slid > 0 /\ slid' = slid - 1 /\ car' = end.car /\ waiting' = end.waiting
        /\ UNCHANGED <<wished, overtaken>>
        /\ stopped' = IF waiting # << >> THEN FALSE ELSE stopped
    BY <1>7 DEF Slid
  <2>2. waiting \in Seq(Positions) /\ slid' \in Nat   BY <2>1 DEF CarouselInv
  <2>3. Stage(end, Len(waiting), waiting)   BY <1>1, <2>2, GoneOnKeeps
  <2> HIDE DEF end
  <2>4. /\ CarSound(car') /\ waiting' \in Seq(Positions) /\ (waiting' # << >> => car'.sliding)
        /\ Len(waiting) > 0 => IF waiting' # << >> THEN waiting'[Len(waiting')] = waiting[Len(waiting)]
                                                   ELSE BoundFor(car', waiting[Len(waiting)])
    BY <2>1, <2>3 DEF Stage
  <2>5. CASE waiting # << >>
    <3>1. Len(waiting) > 0   BY <2>2, <2>5
    <3>2. ~stopped'   BY <2>1, <2>5
    <3> QED  BY <2>1, <2>2, <2>4, <2>5, <3>1, <3>2 DEF CarouselInv
  <2>6. CASE waiting = << >>
    <3>1. end = [car |-> car, waiting |-> << >>]   BY <2>6, GoneOnNothing DEF end
    <3>2. UNCHANGED <<car, waiting, stopped>>   BY <2>1, <2>6, <3>1
    <3> QED  BY <2>1, <2>2, <2>6, <3>2 DEF CarouselInv
  <2> QED  BY <2>5, <2>6
<1>8. CASE UNCHANGED carouselVars   BY <1>8 DEF CarouselInv, carouselVars
<1> QED  BY <1>2, <1>3, <1>4, <1>5, <1>6, <1>7, <1>8 DEF CarouselNext

\* One item is active, one slide at most is under way and leaves that item, the
\* interval that runs is the one the carousel knows, and what was asked of to() last
\* is the last that waits, or where the carousel is bound for (bootstrap.js 322-486).
THEOREM CarouselInvariance == CarouselSpec => []CarouselInv
<1> QED  BY CarouselInitInv, CarouselStep, PTL DEF CarouselSpec

\* A carousel has one active item, one interval at most, and none when it is paused
\* for good, and it comes to rest on the last position asked for.
THEOREM CarouselSlidesAsAsked == CarouselSpec => []SlidesAsAsked
<1>1. ASSUME CarouselInv
      PROVE  SlidesAsAsked
  <2>1. CarSound(car)   BY <1>1 DEF CarouselInv
  <2>2. PICK i \in Positions : car.active = {i}   BY <2>1 DEF CarSound
  <2>3. Cardinality(car.active) = 1   BY <2>2, FS_Singleton
  <2>4. ~car.sliding /\ slid = 0 =>
           /\ waiting = << >>
           /\ wished >= 0 /\ ~overtaken => car.active = {wished}
    BY <1>1 DEF CarouselInv, BoundFor
  <2>5. OneItemShown   BY <2>1, <2>3, <2>4 DEF OneItemShown, CarSound
  <2>6. PauseHolds   BY <1>1, <2>1 DEF PauseHolds, CarouselInv, CarSound
  <2> QED  BY <2>5, <2>6 DEF SlidesAsAsked
<1> QED  BY <1>1, CarouselInvariance, PTL

-----------------------------------------------------------------------------
(* The modal.  What it is, what waits then, and what of both its methods leave. *)

\* What the methods leave waiting.
BackdropFade == [on |-> TheBackdrop(1), does |-> "opened"]
DialogFade   == [on |-> Dialog, does |-> "shown"]
ElementFade  == [on |-> Element, does |-> "hideModal"]
RemovalFade  == [on |-> TheBackdrop(1), does |-> "remove"]

\* All that the object can be.
Modals == [isShown : BOOLEAN, display : BOOLEAN, in : BOOLEAN, pageOpen : BOOLEAN,
           padding : Int, originalPadding : Int, bodyIsOverflowing : BOOLEAN,
           adjusted : {"none", "left", "right"}, backdrop : Int, backdrops : SUBSET Int,
           escape : BOOLEAN, outside : Int, pressed : BOOLEAN, ignoreClick : BOOLEAN,
           focusKept : BOOLEAN]

HasBackdrop == backdropOption # "false"

\* The dialog has room for the scrollbar as the window is; no backdrop, or the one it should
\* have; the page is held, with its padding noted; or it is as it was.
Fits(m)   == m.adjusted = AdjustDialog(m, tall).adjusted
Bare(m)   == m.backdrops = {} /\ m.backdrop = NoBackdrop
Backed(m) == IF HasBackdrop THEN m.backdrops = {1} /\ m.backdrop = 1 ELSE Bare(m)
Held(m)   == /\ m.pageOpen /\ m.originalPadding = 0
             /\ m.padding = IF m.bodyIsOverflowing THEN 1 ELSE 0
Free(m)   == ~m.pageOpen /\ m.padding = 0 /\ m.adjusted = "none"

\* What the dialog is at, and what waits then.
IsOpen(m, f)    == m.isShown /\ m.display /\ Held(m) /\ Backed(m) /\ Fits(m) /\ f \in {<< >>, <<DialogFade>>}
IsOpening(m, f) == m.isShown /\ ~m.display /\ Held(m) /\ Backed(m) /\ HasBackdrop /\ f = <<BackdropFade>>
IsRecalled(m, f) == /\ ~m.isShown /\ ~m.display /\ Held(m) /\ Backed(m) /\ HasBackdrop
                    /\ f = <<BackdropFade, ElementFade>>
IsClosing(m, f) == /\ ~m.isShown /\ m.display /\ Held(m) /\ Backed(m)
                   /\ f \in {<<ElementFade>>, <<DialogFade, ElementFade>>, <<ElementFade, DialogFade>>}
IsUncovered(m, f) == /\ ~m.isShown /\ ~m.display /\ Held(m) /\ Backed(m) /\ HasBackdrop
                     /\ f \in {<<RemovalFade>>, <<DialogFade, RemovalFade>>}
IsShut(m, f)    == ~m.isShown /\ ~m.display /\ Free(m) /\ Bare(m) /\ f \in {<< >>, <<DialogFade>>}

Phase(m, f) ==
    /\ m \in Modals
    /\ \/ IsOpen(m, f)    \/ IsOpening(m, f)   \/ IsRecalled(m, f)
       \/ IsClosing(m, f) \/ IsUncovered(m, f) \/ IsShut(m, f)
    /\ f # << >> => modalFade

PhaseOf(s) == Phase(s.modal, s.fades)

\* The inductive invariant.
ModalInv ==
    /\ backdropOption \in {"true", "static", "false"}
    /\ modalFade \in BOOLEAN /\ tall \in BOOLEAN
    /\ ~reopened => Phase(modal, fades)

\* The four fades are not those of each other's elements, but for the backdrop's.
LEMMA FadesDiffer ==
    /\ BackdropFade.on = TheBackdrop(1) /\ RemovalFade.on = TheBackdrop(1)
    /\ DialogFade.on = Dialog /\ ElementFade.on = Element
    /\ Dialog # Element /\ Dialog # TheBackdrop(1) /\ Element # TheBackdrop(1)
    /\ BackdropFade.does = "opened" /\ RemovalFade.does = "remove"
    /\ DialogFade.does = "shown" /\ ElementFade.does = "hideModal"
BY DEF BackdropFade, RemovalFade, DialogFade, ElementFade, Dialog, Element, TheBackdrop

\* A sequence of none and of one, and one more.
LEMMA AppendOne == ASSUME NEW x PROVE Append(<< >>, x) = <<x>>
OBVIOUS

\* An element appended to one.
LEMMA AppendTwo == ASSUME NEW x, NEW y PROVE Append(<<x>>, y) = <<x, y>>
<1> DEFINE X == {x, y}
<1>1. /\ <<x>> \in Seq(X) /\ y \in X /\ <<x, y>> \in Seq(X)
      /\ Len(<<x, y>>) = 2 /\ <<x, y>>[1] = x /\ <<x, y>>[2] = y
  OBVIOUS
<1>2. /\ Append(<<x>>, y) \in Seq(X) /\ Len(Append(<<x>>, y)) = 2
      /\ Append(<<x>>, y)[1] = x /\ Append(<<x>>, y)[2] = y
  BY <1>1, AppendProperties
<1>3. \A i \in 1 .. Len(Append(<<x>>, y)) : i = 1 \/ i = 2   BY <1>2
<1>4. \A i \in 1 .. Len(Append(<<x>>, y)) : Append(<<x>>, y)[i] = <<x, y>>[i]
  BY <1>1, <1>2, <1>3
<1> HIDE DEF X
<1> QED  BY <1>1, <1>2, <1>4, SeqEqual

\* What is left of none, of one and of two that wait, when those of an element are called.
LEMMA ElsewhereNone == ASSUME NEW on PROVE Elsewhere(<< >>, on) = << >>
<1> DEFINE kept[i \in 0 .. Len(<< >>)] ==
             IF i = 0 THEN << >>
             ELSE IF << >>[i].on = on THEN kept[i - 1] ELSE Append(kept[i - 1], << >>[i])
           known == [i \in 0 .. 0 |-> << >>]
<1>1. Len(<< >>) = 0   OBVIOUS
<1>2. known = [i \in 0 .. Len(<< >>) |->
                 IF i = 0 THEN << >>
                 ELSE IF << >>[i].on = on THEN known[i - 1] ELSE Append(known[i - 1], << >>[i])]
  BY <1>1
<1>3. kept = [i \in 0 .. Len(<< >>) |->
                 IF i = 0 THEN << >>
                 ELSE IF << >>[i].on = on THEN kept[i - 1] ELSE Append(kept[i - 1], << >>[i])]
  <2> HIDE DEF known
  <2> QED  BY <1>2
<1>4. Elsewhere(<< >>, on) = kept[Len(<< >>)]   BY DEF Elsewhere
<1> HIDE DEF kept
<1>5. kept[0] = << >>   BY <1>1, <1>3
<1> QED  BY <1>1, <1>4, <1>5

\* The same for one fade.
LEMMA ElsewhereOne ==
    ASSUME NEW a, NEW on
    PROVE  Elsewhere(<<a>>, on) = IF a.on = on THEN << >> ELSE <<a>>
<1> DEFINE w == <<a>>
           one == IF a.on = on THEN << >> ELSE <<a>>
           kept[i \in 0 .. Len(w)] ==
             IF i = 0 THEN << >>
             ELSE IF w[i].on = on THEN kept[i - 1] ELSE Append(kept[i - 1], w[i])
           known == [i \in 0 .. 1 |-> IF i = 0 THEN << >> ELSE one]
<1>1. Len(w) = 1 /\ w[1] = a /\ Append(<< >>, a) = <<a>>   OBVIOUS
<1>2. known = [i \in 0 .. Len(w) |->
                 IF i = 0 THEN << >>
                 ELSE IF w[i].on = on THEN known[i - 1] ELSE Append(known[i - 1], w[i])]
  <2> HIDE DEF w
  <2> QED  BY <1>1
<1>3. kept = [i \in 0 .. Len(w) |->
                 IF i = 0 THEN << >>
                 ELSE IF w[i].on = on THEN kept[i - 1] ELSE Append(kept[i - 1], w[i])]
  <2> HIDE DEF known
  <2> QED  BY <1>2
<1>4. Elsewhere(w, on) = kept[Len(w)]   BY DEF Elsewhere
<1> HIDE DEF kept, w
<1>5. kept[0] = << >>   BY <1>1, <1>3
<1>6. kept[1] = IF w[1].on = on THEN kept[1 - 1] ELSE Append(kept[1 - 1], w[1])
  <2>1. 1 \in 0 .. Len(w)   BY <1>1
  <2> HIDE DEF known, one
  <2> QED  BY <1>3, <2>1
<1>7. kept[1] = one
  <2>1. 1 - 1 = 0   OBVIOUS
  <2> QED  BY <1>1, <1>5, <1>6, <2>1
<1> QED  BY <1>1, <1>4, <1>7 DEF w

\* The same for two.
LEMMA ElsewhereTwo ==
    ASSUME NEW a, NEW b, NEW on
    PROVE  Elsewhere(<<a, b>>, on) =
             IF a.on = on THEN (IF b.on = on THEN << >> ELSE <<b>>)
                          ELSE (IF b.on = on THEN <<a>> ELSE <<a, b>>)
<1> DEFINE w == <<a, b>>
           one == IF a.on = on THEN << >> ELSE <<a>>
           two == IF b.on = on THEN one ELSE Append(one, b)
           kept[i \in 0 .. Len(w)] ==
             IF i = 0 THEN << >>
             ELSE IF w[i].on = on THEN kept[i - 1] ELSE Append(kept[i - 1], w[i])
           known == [i \in 0 .. 2 |-> IF i = 0 THEN << >> ELSE IF i = 1 THEN one ELSE two]
<1>1. Len(w) = 2 /\ w[1] = a /\ w[2] = b /\ Append(<< >>, a) = <<a>>   OBVIOUS
<1>2. known = [i \in 0 .. Len(w) |->
                 IF i = 0 THEN << >>
                 ELSE IF w[i].on = on THEN known[i - 1] ELSE Append(known[i - 1], w[i])]
  <2> HIDE DEF w
  <2> QED  BY <1>1
<1>3. kept = [i \in 0 .. Len(w) |->
                 IF i = 0 THEN << >>
                 ELSE IF w[i].on = on THEN kept[i - 1] ELSE Append(kept[i - 1], w[i])]
  <2> HIDE DEF known
  <2> QED  BY <1>2
<1>4. Elsewhere(w, on) = kept[Len(w)]   BY DEF Elsewhere
<1> HIDE DEF kept, w
<1>5. kept[0] = << >>   BY <1>1, <1>3
<1>6. kept[1] = one   BY <1>1, <1>3, <1>5
<1>7. kept[2] = two   BY <1>1, <1>3, <1>6
<1>8. Append(<< >>, b) = <<b>>   OBVIOUS
<1>9. Append(<<a>>, b) = <<a, b>>   BY AppendTwo
<1> QED  BY <1>1, <1>4, <1>7, <1>8, <1>9 DEF w

\* The loop over the callbacks, for one and for two that wait.
LEMMA CallOne ==
    ASSUME NEW m, NEW a, NEW on
    PROVE  LET s == [modal |-> m, fades |-> Elsewhere(<<a>>, on)]
           IN  CallAll(m, <<a>>, on) = IF a.on = on THEN CallBack(s, a.does) ELSE s
<1> DEFINE w == <<a>>
           s == [modal |-> m, fades |-> Elsewhere(w, on)]
           one == IF a.on = on THEN CallBack(s, a.does) ELSE s
           after[i \in 0 .. Len(w)] ==
             IF i = 0 THEN [modal |-> m, fades |-> Elsewhere(w, on)]
             ELSE IF w[i].on = on THEN CallBack(after[i - 1], w[i].does) ELSE after[i - 1]
           known == [i \in 0 .. 1 |-> IF i = 0 THEN s ELSE one]
<1>1. Len(w) = 1 /\ w[1] = a   OBVIOUS
<1>2. known = [i \in 0 .. Len(w) |->
             IF i = 0 THEN [modal |-> m, fades |-> Elsewhere(w, on)]
             ELSE IF w[i].on = on THEN CallBack(known[i - 1], w[i].does) ELSE known[i - 1]]
  <2> HIDE DEF w
  <2> QED  BY <1>1
<1>3. after = [i \in 0 .. Len(w) |->
             IF i = 0 THEN [modal |-> m, fades |-> Elsewhere(w, on)]
             ELSE IF w[i].on = on THEN CallBack(after[i - 1], w[i].does) ELSE after[i - 1]]
  <2> HIDE DEF known
  <2> QED  BY <1>2
<1>4. CallAll(m, w, on) = after[Len(w)]   BY DEF CallAll
<1> HIDE DEF after, w
<1>5. after[0] = s   BY <1>1, <1>3
<1>6. after[1] = one   BY <1>1, <1>3, <1>5
<1> QED  BY <1>1, <1>4, <1>6 DEF w

\* The same for two.
LEMMA CallTwo ==
    ASSUME NEW m, NEW a, NEW b, NEW on, (a.on = on) # (b.on = on)
    PROVE  LET s == [modal |-> m, fades |-> Elsewhere(<<a, b>>, on)]
           IN  /\ a.on = on => CallAll(m, <<a, b>>, on) = CallBack(s, a.does)
               /\ a.on # on => CallAll(m, <<a, b>>, on) = CallBack(s, b.does)
<1> DEFINE w == <<a, b>>
           s == [modal |-> m, fades |-> Elsewhere(w, on)]
           one == IF a.on = on THEN CallBack(s, a.does) ELSE s
           two == IF b.on = on THEN CallBack(one, b.does) ELSE one
           after[i \in 0 .. Len(w)] ==
             IF i = 0 THEN [modal |-> m, fades |-> Elsewhere(w, on)]
             ELSE IF w[i].on = on THEN CallBack(after[i - 1], w[i].does) ELSE after[i - 1]
           known == [i \in 0 .. 2 |-> IF i = 0 THEN s ELSE IF i = 1 THEN one ELSE two]
<1>1. Len(w) = 2 /\ w[1] = a /\ w[2] = b   OBVIOUS
<1>2. known = [i \in 0 .. Len(w) |->
             IF i = 0 THEN [modal |-> m, fades |-> Elsewhere(w, on)]
             ELSE IF w[i].on = on THEN CallBack(known[i - 1], w[i].does) ELSE known[i - 1]]
  <2> HIDE DEF w
  <2> QED  BY <1>1
<1>3. after = [i \in 0 .. Len(w) |->
             IF i = 0 THEN [modal |-> m, fades |-> Elsewhere(w, on)]
             ELSE IF w[i].on = on THEN CallBack(after[i - 1], w[i].does) ELSE after[i - 1]]
  <2> HIDE DEF known
  <2> QED  BY <1>2
<1>4. CallAll(m, w, on) = after[Len(w)]   BY DEF CallAll
<1> HIDE DEF after, w
<1>5. after[0] = s   BY <1>1, <1>3
<1>6. after[1] = one   BY <1>1, <1>3, <1>5
<1>7. after[2] = two   BY <1>1, <1>3, <1>6
<1> QED  BY <1>1, <1>4, <1>7 DEF w

\* What the methods leave of the page, and of the backdrop.
SamePage(m, d)     == /\ d.pageOpen = m.pageOpen /\ d.padding = m.padding
                      /\ d.originalPadding = m.originalPadding
                      /\ d.bodyIsOverflowing = m.bodyIsOverflowing
SameBackdrop(m, d) == d.backdrop = m.backdrop /\ d.backdrops = m.backdrops

\* What adjustDialog() touches, and that it fits the dialog to the window.
LEMMA AdjustIs ==
    ASSUME NEW m \in Modals, NEW high \in BOOLEAN
    PROVE  LET d == AdjustDialog(m, high)
           IN  /\ d \in Modals /\ d.isShown = m.isShown /\ d.display = m.display
               /\ SamePage(m, d) /\ SameBackdrop(m, d)
               /\ high = tall => Fits(d)
<1> DEFINE side == CASE ~m.bodyIsOverflowing /\ high -> "left"
                     [] m.bodyIsOverflowing /\ ~high -> "right"
                     [] OTHER                         -> "none"
           d == AdjustDialog(m, high)
<1>1. side \in {"none", "left", "right"}   BY DEF Modals
<1>2. d = [m EXCEPT !.adjusted = side]   BY DEF AdjustDialog
<1> HIDE DEF side
<1>3. d \in Modals /\ d.isShown = m.isShown /\ d.display = m.display /\ d.adjusted = side
      /\ SamePage(m, d) /\ SameBackdrop(m, d)
  BY <1>1, <1>2 DEF Modals, SamePage, SameBackdrop
<1>4. ASSUME high = tall PROVE Fits(d)
  <2>1. m.bodyIsOverflowing = d.bodyIsOverflowing   BY <1>3 DEF SamePage
  <2>2. AdjustDialog(d, tall) = [d EXCEPT !.adjusted = side]
    BY <1>4, <2>1 DEF AdjustDialog, side
  <2>3. AdjustDialog(d, tall).adjusted = side   BY <1>3, <2>2 DEF Modals
  <2> QED  BY <1>3, <2>3 DEF Fits
<1> QED  BY <1>3, <1>4

\* The dialog is shown, and waits for its own fade.
OpensTo(m, f, s) ==
    /\ s.modal \in Modals /\ s.modal.isShown = m.isShown /\ s.modal.display
    /\ SamePage(m, s.modal) /\ SameBackdrop(m, s.modal) /\ Fits(s.modal)
    /\ s.fades = IF modalFade THEN Append(f, DialogFade) ELSE f

\* So do the callback of backdrop() in show() and the lines after it.
LEMMA OpenedIs ==
    ASSUME NEW m \in Modals, NEW f, tall \in BOOLEAN
    PROVE  OpensTo(m, f, Opened([modal |-> m, fades |-> f]))
<1> DEFINE shown == [m EXCEPT !.display = TRUE, !.in = TRUE, !.focusKept = TRUE]
           d == AdjustDialog(shown, tall)
<1>1. shown \in Modals /\ shown.isShown = m.isShown /\ shown.display
      /\ SamePage(m, shown) /\ SameBackdrop(m, shown)
  BY DEF Modals, SamePage, SameBackdrop
<1>2. /\ Opened([modal |-> m, fades |-> f]).modal = d
      /\ Opened([modal |-> m, fades |-> f]).fades = IF modalFade THEN Append(f, DialogFade) ELSE f
  BY DEF Opened, Await, DialogFade
<1> HIDE DEF shown
<1>3. /\ d \in Modals /\ d.isShown = shown.isShown /\ d.display = shown.display
      /\ SamePage(shown, d) /\ SameBackdrop(shown, d) /\ Fits(d)
  BY <1>1, AdjustIs
<1> HIDE DEF d
<1>4. SamePage(m, d) /\ SameBackdrop(m, d)
  BY <1>1, <1>3 DEF SamePage, SameBackdrop
<1> QED  BY <1>1, <1>2, <1>3, <1>4 DEF OpensTo

\* The page is as it was, and nothing new waits.
ClosesTo(m, f, s) ==
    /\ s.modal \in Modals /\ s.modal.isShown = m.isShown /\ s.modal.display = m.display
    /\ SameBackdrop(m, s.modal)
    /\ ~s.modal.pageOpen /\ s.modal.adjusted = "none"
    /\ s.modal.padding = m.originalPadding
    /\ s.fades = f

\* resetAdjustments() and resetScrollbar().
LEMMA ClosedIs ==
    ASSUME NEW m \in Modals, NEW f
    PROVE  ClosesTo(m, f, Closed([modal |-> m, fades |-> f]))
<1> DEFINE d == [m EXCEPT !.pageOpen = FALSE, !.adjusted = "none", !.padding = m.originalPadding]
<1>1. Closed([modal |-> m, fades |-> f]) = [modal |-> d, fades |-> f]
  BY DEF Closed, ResetScrollbar, Modals
<1>2. /\ d \in Modals /\ d.isShown = m.isShown /\ d.display = m.display
      /\ SameBackdrop(m, d) /\ ~d.pageOpen /\ d.adjusted = "none" /\ d.padding = m.originalPadding
  BY DEF Modals, SameBackdrop
<1> HIDE DEF d
<1> QED  BY <1>1, <1>2 DEF ClosesTo

\* The backdrop is gone, and what waits for the end of its fade.
UncoversTo(m, f, s) ==
    /\ s.modal \in Modals /\ s.modal.isShown = m.isShown /\ s.modal.display = m.display
    /\ SamePage(m, s.modal) /\ Bare(s.modal)
    /\ s.fades = Elsewhere(f, TheBackdrop(1))
    /\ s = [modal |-> s.modal, fades |-> s.fades]

\* removeBackdrop().
LEMMA UncoveredIs ==
    ASSUME NEW m \in Modals, NEW f, m.backdrop = 1, m.backdrops = {1}
    PROVE  UncoversTo(m, f, RemoveBackdrop([modal |-> m, fades |-> f]))
<1> DEFINE d == [m EXCEPT !.backdrops = @ \ {1}, !.backdrop = NoBackdrop]
           rest == Elsewhere(f, TheBackdrop(1))
<1>1. RemoveBackdrop([modal |-> m, fades |-> f]) = [modal |-> d, fades |-> rest]
  BY DEF RemoveBackdrop
<1>2. {1} \ {1} = {} /\ NoBackdrop \in Int   BY DEF NoBackdrop
<1>3. d = [m EXCEPT !.backdrops = {}, !.backdrop = NoBackdrop]   BY <1>2
<1> HIDE DEF d
<1>4. /\ d \in Modals /\ d.isShown = m.isShown /\ d.display = m.display
      /\ SamePage(m, d) /\ d.backdrops = {} /\ d.backdrop = NoBackdrop
  BY <1>2, <1>3 DEF Modals, SamePage
<1> HIDE DEF rest
<1>5. [modal |-> d, fades |-> rest].modal = d /\ [modal |-> d, fades |-> rest].fades = rest
  OBVIOUS
<1>6. UncoversTo(m, f, [modal |-> d, fades |-> rest])
  BY <1>4, <1>5 DEF UncoversTo, Bare, rest
<1> QED  BY <1>1, <1>6

\* backdrop() of a dialog that opens.
CoversTo(m, f, s) ==
    /\ s.modal \in Modals /\ s.modal.isShown
    /\ SamePage(m, s.modal) /\ Backed(s.modal)
    /\ IF HasBackdrop /\ modalFade
       THEN s.modal.display = m.display /\ s.fades = Append(f, BackdropFade)
       ELSE /\ s.modal.display /\ Fits(s.modal)
            /\ s.fades = IF modalFade THEN Append(f, DialogFade) ELSE f

\* It adds the one backdrop, if there is to be one, and the dialog is shown with or after it.
LEMMA CoveredIs ==
    ASSUME NEW m \in Modals, NEW f, tall \in BOOLEAN, m.isShown, Bare(m)
    PROVE  CoversTo(m, f, Backdrop([modal |-> m, fades |-> f], "opened"))
<1> DEFINE s == [modal |-> m, fades |-> f]
           id == Cardinality(s.modal.backdrops) + 1
           covered == [m EXCEPT !.backdrop = 1, !.backdrops = {1}, !.outside = @ + 1]
           t == [modal |-> covered, fades |-> f]
           raised == [s.modal EXCEPT !.backdrop = id, !.backdrops = @ \union {id}, !.outside = @ + 1]
           added == [s EXCEPT !.modal = raised]
<1>0. s.modal = m   OBVIOUS
<1>1. id = 1   BY <1>0, FS_EmptySet DEF Bare
<1>2. /\ covered \in Modals /\ covered.isShown /\ covered.display = m.display
      /\ SamePage(m, covered) /\ covered.backdrop = 1 /\ covered.backdrops = {1}
  <2> HIDE DEF added, raised, id, t
  <2>1. 1 \in Int /\ {1} \in SUBSET Int   OBVIOUS
  <2>2. m.outside + 1 \in Int   BY DEF Modals
  <2>3. covered \in Modals   BY <2>1, <2>2 DEF Modals
  <2>4. covered.isShown = m.isShown /\ covered.display = m.display
        /\ covered.backdrop = 1 /\ covered.backdrops = {1}
    BY DEF Modals
  <2>5. SamePage(m, covered)   BY DEF Modals, SamePage
  <2> QED  BY <2>3, <2>4, <2>5
<1>3. added = t
  <2>1. m.backdrops \union {1} = {1}   BY DEF Bare
  <2>2. added = [modal |-> raised, fades |-> f]   OBVIOUS
  <2>3. raised = covered
    <3> HIDE DEF id
    <3> QED  BY <1>1, <2>1 DEF Modals
  <2> QED  BY <2>2, <2>3
<1>4. CASE HasBackdrop
  <2>1. Backdrop(s, "opened") = Await(t, TheBackdrop(1), "opened", Opened(t))
    <3>1. Backdrop(s, "opened") = Await(added, TheBackdrop(id), "opened", Opened(added))
      <4>1. s.modal.isShown /\ backdropOption # "false"   BY <1>4 DEF HasBackdrop
      <4> HIDE DEF s
      <4> QED  BY <4>1 DEF Backdrop, BackdropDone
    <3> HIDE DEF added, id, t, s
    <3> QED  BY <3>1, <1>1, <1>3
  <2> HIDE DEF covered
  <2>2. Backed(covered)   BY <1>2, <1>4 DEF Backed
  <2>3. CASE modalFade
    <3>1. Backdrop(s, "opened") = [modal |-> covered, fades |-> Append(f, BackdropFade)]
      BY <2>1, <2>3 DEF Await, BackdropFade
    <3> QED  BY <1>2, <1>4, <2>2, <2>3, <3>1 DEF CoversTo
  <2>4. CASE ~modalFade
    <3>1. Backdrop(s, "opened") = Opened(t)   BY <2>1, <2>4 DEF Await
    <3>2. OpensTo(covered, f, Opened(t))   BY <1>2, OpenedIs
    <3> DEFINE u == Opened(t)
    <3> HIDE DEF u
    <3>3. OpensTo(covered, f, u)   BY <3>2 DEF u
    <3>4. CoversTo(m, f, u)
      BY <1>2, <2>2, <2>4, <3>3 DEF OpensTo, CoversTo, SamePage, SameBackdrop, Backed, Bare
    <3> QED  BY <3>1, <3>4 DEF u
  <2> QED  BY <2>3, <2>4
<1>5. CASE ~HasBackdrop
  <2>1. Backdrop(s, "opened") = Opened(s)
    BY <1>5 DEF Backdrop, BackdropDone, HasBackdrop
  <2>2. OpensTo(m, f, Opened(s))   BY OpenedIs
  <2> DEFINE u == Opened(s)
  <2> HIDE DEF u
  <2>3. OpensTo(m, f, u)   BY <2>2 DEF u
  <2>4. CoversTo(m, f, u)
    BY <1>5, <2>3 DEF OpensTo, CoversTo, SamePage, SameBackdrop, Backed, Bare
  <2> QED  BY <2>1, <2>4 DEF u
<1> QED  BY <1>4, <1>5

\* show() of a dialog whose closing is finished.
LEMMA ShowKeeps ==
    ASSUME NEW m \in Modals, tall \in BOOLEAN, IsShut(m, << >>), NEW overflowing \in BOOLEAN
    PROVE  PhaseOf(ShowModal([modal |-> m, fades |-> << >>], overflowing))
<1> DEFINE s == [modal |-> m, fades |-> << >>]
           asked == [m EXCEPT !.isShown = TRUE, !.pageOpen = TRUE, !.escape = TRUE]
           set == SetScrollbar(asked, overflowing)
           u == Backdrop([modal |-> set, fades |-> << >>], "opened")
<1>1. ~m.isShown /\ ~m.display /\ m.padding = 0 /\ Bare(m)   BY DEF IsShut, Free
<1>2. /\ asked \in Modals /\ asked.isShown /\ asked.pageOpen /\ asked.padding = 0
      /\ asked.display = m.display /\ SameBackdrop(m, asked)
  BY <1>1 DEF Modals, SameBackdrop
<1>3. ShowModal(s, overflowing) = u   BY <1>1 DEF ShowModal
<1> HIDE DEF asked
<1>4. /\ set \in Modals /\ set.isShown /\ set.display = m.display /\ SameBackdrop(m, set)
      /\ Held(set)
  <2> DEFINE room == IF overflowing THEN 1 ELSE 0
  <2>1. set = [asked EXCEPT !.bodyIsOverflowing = overflowing, !.originalPadding = 0, !.padding = room]
    BY <1>2 DEF SetScrollbar, Modals
  <2>2. room \in Int   OBVIOUS
  <2> HIDE DEF set, room
  <2>3. set \in Modals   BY <1>2, <2>1, <2>2 DEF Modals
  <2>4. /\ set.isShown = asked.isShown /\ set.display = asked.display
        /\ set.pageOpen = asked.pageOpen /\ set.bodyIsOverflowing = overflowing
        /\ set.originalPadding = 0 /\ set.padding = room
        /\ set.backdrop = asked.backdrop /\ set.backdrops = asked.backdrops
    BY <1>2, <2>1 DEF Modals
  <2> QED  BY <1>2, <2>3, <2>4 DEF SameBackdrop, Held, room
<1> HIDE DEF set
<1>5. Bare(set)   BY <1>1, <1>4 DEF SameBackdrop, Bare
<1>6. CoversTo(set, << >>, u)   BY <1>4, <1>5, CoveredIs
<1> HIDE DEF u
<1>7. Held(u.modal)   BY <1>4, <1>6 DEF CoversTo, SamePage, Held
<1>8. Append(<< >>, BackdropFade) = <<BackdropFade>> /\ Append(<< >>, DialogFade) = <<DialogFade>>
  BY AppendOne
<1>9. CASE HasBackdrop /\ modalFade
  <2>1. IsOpening(u.modal, u.fades)
    BY <1>1, <1>4, <1>6, <1>7, <1>8, <1>9 DEF CoversTo, IsOpening
  <2> QED  BY <1>3, <1>6, <1>9, <2>1 DEF PhaseOf, Phase, CoversTo
<1>10. CASE ~(HasBackdrop /\ modalFade)
  <2>1. /\ u.modal \in Modals /\ u.modal.isShown /\ u.modal.display /\ Backed(u.modal)
        /\ Fits(u.modal)
        /\ u.fades = IF modalFade THEN <<DialogFade>> ELSE << >>
    BY <1>6, <1>8, <1>10 DEF CoversTo
  <2>2. IsOpen(u.modal, u.fades)   BY <1>7, <2>1 DEF IsOpen
  <2>3. u.fades # << >> => modalFade   BY <2>1
  <2> QED  BY <1>3, <2>1, <2>2, <2>3 DEF PhaseOf, Phase
<1> QED  BY <1>9, <1>10

\* A dialog that has gone, with its backdrop, leaves the page as it was.
LEMMA ClosedIsShut ==
    ASSUME NEW m \in Modals, NEW f \in {<< >>, <<DialogFade>>}, f # << >> => modalFade,
           ~m.isShown, ~m.display, m.originalPadding = 0, Bare(m)
    PROVE  PhaseOf(Closed([modal |-> m, fades |-> f]))
<1> DEFINE u == Closed([modal |-> m, fades |-> f])
<1>1. ClosesTo(m, f, u)   BY ClosedIs
<1> HIDE DEF u
<1>2. IsShut(u.modal, u.fades)   BY <1>1 DEF ClosesTo, IsShut, Free, Bare, SameBackdrop
<1> QED  BY <1>1, <1>2 DEF PhaseOf, Phase, ClosesTo, u

\* Nor is there one whose backdrop has faded.
LEMMA UncoveredIsShut ==
    ASSUME NEW m \in Modals, NEW f \in {<< >>, <<DialogFade>>}, f # << >> => modalFade,
           ~m.isShown, ~m.display, Held(m), Backed(m), HasBackdrop
    PROVE  PhaseOf(Closed(RemoveBackdrop([modal |-> m, fades |-> f])))
<1> DEFINE u == RemoveBackdrop([modal |-> m, fades |-> f])
<1>1. UncoversTo(m, f, u)   BY UncoveredIs DEF Backed
<1>2. Elsewhere(f, TheBackdrop(1)) = f   BY ElsewhereNone, ElsewhereOne, FadesDiffer
<1> HIDE DEF u
<1>3. /\ u.modal \in Modals /\ ~u.modal.isShown /\ ~u.modal.display /\ u.modal.originalPadding = 0
      /\ Bare(u.modal) /\ u.fades = f /\ u = [modal |-> u.modal, fades |-> f]
  BY <1>1, <1>2 DEF UncoversTo, SamePage, Held
<1>4. PhaseOf(Closed([modal |-> u.modal, fades |-> f]))   BY <1>3, ClosedIsShut
<1> QED  BY <1>3, <1>4 DEF u

\* hideModal(), with the dialog's own fade over or not.
LEMMA HideModalKeeps ==
    ASSUME NEW m \in Modals, NEW f \in {<< >>, <<DialogFade>>}, f # << >> => modalFade,
           ~m.isShown, Held(m), Backed(m)
    PROVE  PhaseOf(HideModal([modal |-> m, fades |-> f]))
<1> DEFINE gone == [m EXCEPT !.display = FALSE]
           s == [modal |-> gone, fades |-> f]
<1>1. /\ gone \in Modals /\ gone.isShown = m.isShown /\ ~gone.display
      /\ SamePage(m, gone) /\ SameBackdrop(m, gone)
  BY DEF Modals, SamePage, SameBackdrop
<1>2. HideModal([modal |-> m, fades |-> f]) = Backdrop(s, "closed")
  <2> DEFINE q == [modal |-> m, fades |-> f]
             g == [q.modal EXCEPT !.display = FALSE]
  <2>1. g = gone   OBVIOUS
  <2>2. [q EXCEPT !.modal = g] = s
    <3> HIDE DEF g, gone
    <3> QED  BY <2>1
  <2> HIDE DEF q, s
  <2>3. HideModal(q) = Backdrop(s, "closed")   BY <2>2 DEF HideModal
  <2> QED  BY <2>3 DEF q
<1> HIDE DEF gone
<1>3. Held(gone) /\ Backed(gone)
  BY <1>1 DEF SamePage, SameBackdrop, Held, Backed, Bare
<1>4. CASE HasBackdrop
  <2>1. gone.backdrop = 1 /\ NoBackdrop # 1   BY <1>3, <1>4 DEF Backed, NoBackdrop
  <2>2. Backdrop(s, "closed") =
          Await(s, TheBackdrop(1), "remove", Closed(RemoveBackdrop(s)))
    BY <1>1, <2>1 DEF Backdrop, BackdropDone
  <2>3. CASE modalFade
    <3>1. Backdrop(s, "closed") = [modal |-> gone, fades |-> Append(f, RemovalFade)]
      BY <2>2, <2>3 DEF Await, RemovalFade
    <3>2. Append(f, RemovalFade) \in {<<RemovalFade>>, <<DialogFade, RemovalFade>>}
      BY AppendOne, AppendTwo
    <3>3. IsUncovered(gone, Append(f, RemovalFade))
      BY <1>1, <1>3, <1>4, <3>2 DEF IsUncovered
    <3> DEFINE u == [modal |-> gone, fades |-> Append(f, RemovalFade)]
    <3>4. u.modal = gone /\ u.fades = Append(f, RemovalFade)   OBVIOUS
    <3>5. PhaseOf(u)
      <4> HIDE DEF u
      <4> QED  BY <1>1, <2>3, <3>3, <3>4 DEF PhaseOf, Phase
    <3> QED  BY <1>2, <3>1, <3>5
  <2>4. CASE ~modalFade
    <3>1. Backdrop(s, "closed") = Closed(RemoveBackdrop(s))   BY <2>2, <2>4 DEF Await
    <3>2. PhaseOf(Closed(RemoveBackdrop(s)))   BY <1>1, <1>3, <1>4, UncoveredIsShut
    <3> QED  BY <1>2, <3>1, <3>2
  <2> QED  BY <2>3, <2>4
<1>5. CASE ~HasBackdrop
  <2>1. Bare(gone) /\ gone.backdrop = NoBackdrop /\ gone.originalPadding = 0
    BY <1>3, <1>5 DEF Backed, Bare, Held
  <2>2. Backdrop(s, "closed") = Closed(s)
    BY <1>1, <1>5, <2>1 DEF Backdrop, BackdropDone, HasBackdrop
  <2>3. PhaseOf(Closed(s))   BY <1>1, <2>1, ClosedIsShut
  <2> QED  BY <1>2, <2>2, <2>3
<1> QED  BY <1>4, <1>5

\* hide(), in whatever phase the dialog is.
LEMMA HideKeeps ==
    ASSUME NEW m, NEW f, Phase(m, f)
    PROVE  PhaseOf(Hide([modal |-> m, fades |-> f]))
<1> DEFINE s == [modal |-> m, fades |-> f]
           out == [m EXCEPT !.isShown = FALSE, !.escape = FALSE, !.focusKept = FALSE,
                            !.in = FALSE, !.outside = 0, !.pressed = FALSE]
           t == [modal |-> out, fades |-> f]
<1>1. m \in Modals   BY DEF Phase
<1>2. CASE ~m.isShown
  <2>1. Hide(s) = s   BY <1>2 DEF Hide
  <2> QED  BY <2>1 DEF PhaseOf
<1>3. CASE m.isShown
  <2>1. Hide(s) = Await(t, Element, "hideModal", HideModal(t))
    <3>1. [s EXCEPT !.modal = out] = t   OBVIOUS
    <3>2. s.modal.isShown   BY <1>3
    <3> QED  BY <3>1, <3>2 DEF Hide
  <2>2. /\ out \in Modals /\ ~out.isShown /\ out.display = m.display
        /\ SamePage(m, out) /\ SameBackdrop(m, out)
    <3> DEFINE still == [m EXCEPT !.isShown = FALSE, !.escape = FALSE, !.focusKept = FALSE]
    <3>1. /\ still \in Modals /\ ~still.isShown /\ still.display = m.display
          /\ SamePage(m, still) /\ SameBackdrop(m, still)
      BY <1>1 DEF Modals, SamePage, SameBackdrop
    <3> DEFINE faded == [still EXCEPT !.in = FALSE, !.pressed = FALSE]
    <3>2. /\ faded \in Modals /\ faded.isShown = still.isShown /\ faded.display = still.display
          /\ SamePage(still, faded) /\ SameBackdrop(still, faded)
      <4> HIDE DEF still
      <4> QED  BY <3>1 DEF Modals, SamePage, SameBackdrop
    <3>3. out = [faded EXCEPT !.outside = 0]   OBVIOUS
    <3> HIDE DEF faded, out
    <3>4. out \in Modals   BY <3>2, <3>3 DEF Modals
    <3>5. out.isShown = faded.isShown /\ out.display = faded.display
      BY <3>2, <3>3 DEF Modals
    <3>6. SamePage(faded, out) /\ SameBackdrop(faded, out)
      BY <3>2, <3>3 DEF Modals, SamePage, SameBackdrop
    <3> QED  BY <3>1, <3>2, <3>4, <3>5, <3>6 DEF SamePage, SameBackdrop
  <2> HIDE DEF out
  <2>3. IsOpen(m, f) \/ IsOpening(m, f)
    BY <1>3 DEF Phase, IsRecalled, IsClosing, IsUncovered, IsShut
  <2>4. Held(m) /\ Backed(m) /\ f \in {<< >>, <<DialogFade>>, <<BackdropFade>>}
    BY <2>3 DEF IsOpen, IsOpening
  <2>5. Held(out) /\ Backed(out)
    BY <2>2, <2>4 DEF SamePage, SameBackdrop, Held, Backed, Bare
  <2>6. CASE modalFade
    <3> DEFINE g == Append(f, ElementFade)
               u == [modal |-> out, fades |-> g]
    <3>1. Hide(s) = u   BY <2>1, <2>6 DEF Await, ElementFade
    <3>2. u.modal = out /\ u.fades = g   OBVIOUS
    <3>3. IsRecalled(out, g) \/ IsClosing(out, g)
      <4>1. CASE IsOpen(m, f)
        <5>1. g \in {<<ElementFade>>, <<DialogFade, ElementFade>>}
          BY <4>1, AppendOne, AppendTwo DEF IsOpen
        <5> HIDE DEF g
        <5>2. IsClosing(out, g)   BY <2>2, <2>5, <4>1, <5>1 DEF IsOpen, IsClosing
        <5> QED  BY <5>2
      <4>2. CASE IsOpening(m, f)
        <5>1. g = <<BackdropFade, ElementFade>>   BY <4>2, AppendTwo DEF IsOpening
        <5> HIDE DEF g
        <5>2. IsRecalled(out, g)   BY <2>2, <2>5, <4>2, <5>1 DEF IsOpening, IsRecalled
        <5> QED  BY <5>2
      <4> QED  BY <2>3, <4>1, <4>2
    <3> HIDE DEF g, u
    <3> QED  BY <2>2, <2>6, <3>1, <3>2, <3>3 DEF PhaseOf, Phase
  <2>7. CASE ~modalFade
    <3>1. Hide(s) = HideModal(t)   BY <2>1, <2>7 DEF Await
    <3>2. f = << >>   BY <2>7 DEF Phase
    <3>3. PhaseOf(HideModal(t))   BY <2>2, <2>5, <3>2, HideModalKeeps
    <3> QED  BY <3>1, <3>3
  <2> QED  BY <2>6, <2>7
<1> QED  BY <1>2, <1>3

\* A phase is of the pair of the object and what waits.
LEMMA PhaseOfPair == ASSUME NEW m, NEW f, Phase(m, f)
                     PROVE  PhaseOf([modal |-> m, fades |-> f])
BY DEF PhaseOf

\* The one that waits for the end of a fade is called, and the other one left.
LEMMA OneEnds ==
    ASSUME NEW m, NEW a, NEW on, a.on = on
    PROVE  CallAll(m, <<a>>, on) = CallBack([modal |-> m, fades |-> << >>], a.does)
<1>1. Elsewhere(<<a>>, on) = << >>   BY ElsewhereOne
<1> QED  BY <1>1, CallOne

\* Of two, the first ...
LEMMA FirstEnds ==
    ASSUME NEW m, NEW a, NEW b, NEW on, a.on = on, b.on # on
    PROVE  CallAll(m, <<a, b>>, on) = CallBack([modal |-> m, fades |-> <<b>>], a.does)
<1>1. Elsewhere(<<a, b>>, on) = <<b>>   BY ElsewhereTwo
<1>2. CallAll(m, <<a, b>>, on) =
        CallBack([modal |-> m, fades |-> Elsewhere(<<a, b>>, on)], a.does)
  BY CallTwo
<1> QED  BY <1>1, <1>2

\* ... or the second.
LEMMA SecondEnds ==
    ASSUME NEW m, NEW a, NEW b, NEW on, a.on # on, b.on = on
    PROVE  CallAll(m, <<a, b>>, on) = CallBack([modal |-> m, fades |-> <<a>>], b.does)
<1>1. Elsewhere(<<a, b>>, on) = <<a>>   BY ElsewhereTwo
<1>2. CallAll(m, <<a, b>>, on) =
        CallBack([modal |-> m, fades |-> Elsewhere(<<a, b>>, on)], b.does)
  BY CallTwo
<1> QED  BY <1>1, <1>2

\* The backdrop is there: the dialog is shown, its closing asked for already or not.
LEMMA OpenedKeeps ==
    ASSUME NEW m \in Modals, NEW f \in {<< >>, <<ElementFade>>}, tall \in BOOLEAN, modalFade,
           Held(m), Backed(m),
           f = << >> => m.isShown, f # << >> => ~m.isShown
    PROVE  PhaseOf(Opened([modal |-> m, fades |-> f]))
<1> DEFINE u == Opened([modal |-> m, fades |-> f])
<1>1. OpensTo(m, f, u)   BY OpenedIs
<1> HIDE DEF u
<1>2. /\ u.modal \in Modals /\ u.modal.isShown = m.isShown /\ u.modal.display /\ Fits(u.modal)
      /\ u.fades = Append(f, DialogFade)
  BY <1>1 DEF OpensTo
<1>3. Held(u.modal) /\ Backed(u.modal)
  BY <1>1 DEF OpensTo, SamePage, SameBackdrop, Held, Backed, Bare
<1>4. CASE f = << >>
  <2>1. u.fades = <<DialogFade>>   BY <1>2, <1>4, AppendOne
  <2>2. IsOpen(u.modal, u.fades)   BY <1>2, <1>3, <1>4, <2>1 DEF IsOpen
  <2> QED  BY <1>2, <2>2 DEF PhaseOf, Phase, u
<1>5. CASE f = <<ElementFade>>
  <2>1. u.fades = <<ElementFade, DialogFade>>   BY <1>2, <1>5, AppendTwo
  <2>2. ~m.isShown   BY <1>5
  <2>3. IsClosing(u.modal, u.fades)   BY <1>2, <1>3, <2>1, <2>2 DEF IsClosing
  <2> QED  BY <1>2, <2>3 DEF PhaseOf, Phase, u
<1> QED  BY <1>4, <1>5

\* The end of the backdrop's fade: the dialog is shown, or all of it is gone.
LEMMA BackdropEnds ==
    ASSUME NEW m, NEW f, Phase(m, f), tall \in BOOLEAN, NEW i \in DOMAIN f, f[i].on = TheBackdrop(1)
    PROVE  PhaseOf(CallAll(m, f, TheBackdrop(1)))
<1>1. m \in Modals /\ modalFade   BY DEF Phase
<1>2. CASE IsOpening(m, f)
  <2>1. /\ f = <<BackdropFade>> /\ m.isShown /\ Held(m) /\ Backed(m)   BY <1>2 DEF IsOpening
  <2>3. CallAll(m, f, TheBackdrop(1)) = CallBack([modal |-> m, fades |-> << >>], "opened")
    BY <2>1, OneEnds, FadesDiffer
  <2>4. CallBack([modal |-> m, fades |-> << >>], "opened") = Opened([modal |-> m, fades |-> << >>])
    BY DEF CallBack, BackdropDone
  <2>5. PhaseOf(Opened([modal |-> m, fades |-> << >>]))   BY <1>1, <2>1, OpenedKeeps
  <2> QED  BY <2>3, <2>4, <2>5
<1>3. CASE IsRecalled(m, f)
  <2>1. /\ f = <<BackdropFade, ElementFade>> /\ ~m.isShown /\ Held(m) /\ Backed(m)
    BY <1>3 DEF IsRecalled
  <2>3. CallAll(m, f, TheBackdrop(1)) = CallBack([modal |-> m, fades |-> <<ElementFade>>], "opened")
    <3>1. BackdropFade.on = TheBackdrop(1) /\ ElementFade.on # TheBackdrop(1)   BY FadesDiffer
    <3>2. CallAll(m, <<BackdropFade, ElementFade>>, TheBackdrop(1)) =
            CallBack([modal |-> m, fades |-> <<ElementFade>>], BackdropFade.does)
      BY <3>1, FirstEnds
    <3> QED  BY <2>1, <3>2, FadesDiffer
  <2>4. CallBack([modal |-> m, fades |-> <<ElementFade>>], "opened")
          = Opened([modal |-> m, fades |-> <<ElementFade>>])
    BY DEF CallBack, BackdropDone
  <2>5. <<ElementFade>> # << >>   OBVIOUS
  <2>6. PhaseOf(Opened([modal |-> m, fades |-> <<ElementFade>>]))   BY <1>1, <2>1, <2>5, OpenedKeeps
  <2> QED  BY <2>3, <2>4, <2>6
<1>4. CASE IsUncovered(m, f)
  <2>1. /\ ~m.isShown /\ ~m.display /\ Held(m) /\ Backed(m) /\ HasBackdrop
        /\ f = <<RemovalFade>> \/ f = <<DialogFade, RemovalFade>>
    BY <1>4 DEF IsUncovered
  <2>2. PICK g \in {<< >>, <<DialogFade>>} :
          CallAll(m, f, TheBackdrop(1)) = CallBack([modal |-> m, fades |-> g], "remove")
    <3>1. CASE f = <<RemovalFade>>
      <4>2. CallAll(m, f, TheBackdrop(1)) = CallBack([modal |-> m, fades |-> << >>], "remove")
        BY <3>1, OneEnds, FadesDiffer
      <4> QED  BY <4>2
    <3>2. CASE f = <<DialogFade, RemovalFade>>
      <4>1. DialogFade.on # TheBackdrop(1) /\ RemovalFade.on = TheBackdrop(1)   BY FadesDiffer
      <4>2. CallAll(m, <<DialogFade, RemovalFade>>, TheBackdrop(1)) =
              CallBack([modal |-> m, fades |-> <<DialogFade>>], RemovalFade.does)
        BY <4>1, SecondEnds
      <4>3. CallAll(m, f, TheBackdrop(1)) = CallBack([modal |-> m, fades |-> <<DialogFade>>], "remove")
        BY <3>2, <4>2, FadesDiffer
      <4> QED  BY <4>3
    <3> QED  BY <2>1, <3>1, <3>2
  <2>3. CallBack([modal |-> m, fades |-> g], "remove") = Closed(RemoveBackdrop([modal |-> m, fades |-> g]))
    BY DEF CallBack
  <2>4. PhaseOf(Closed(RemoveBackdrop([modal |-> m, fades |-> g])))
    BY <1>1, <2>1, UncoveredIsShut
  <2> QED  BY <2>2, <2>3, <2>4
<1>5. ~IsOpen(m, f) /\ ~IsClosing(m, f) /\ ~IsShut(m, f)
  <2>1. ASSUME f \in {<< >>, <<DialogFade>>, <<ElementFade>>, <<DialogFade, ElementFade>>,
                      <<ElementFade, DialogFade>>}
        PROVE  FALSE
    <3>1. f[i] = DialogFade \/ f[i] = ElementFade   BY <2>1
    <3> QED  BY <3>1, FadesDiffer
  <2> QED  BY <2>1 DEF IsOpen, IsClosing, IsShut
<1> QED  BY <1>2, <1>3, <1>4, <1>5 DEF Phase

\* Nothing is done at the end of the dialog's.
LEMMA DialogEnds ==
    ASSUME NEW m, NEW f, Phase(m, f), NEW i \in DOMAIN f, f[i].on = Dialog
    PROVE  PhaseOf(CallAll(m, f, Dialog))
<1>1. m \in Modals /\ modalFade   BY DEF Phase
<1>2. \A s : CallBack(s, DialogFade.does) = s   BY FadesDiffer DEF CallBack
<1>3. CASE f = <<DialogFade>>
  <2>2. CallAll(m, f, Dialog) = [modal |-> m, fades |-> << >>]
    BY <1>2, <1>3, OneEnds, FadesDiffer
  <2>3. IsOpen(m, f) \/ IsShut(m, f)
    BY <1>3, FadesDiffer DEF Phase, IsOpening, IsRecalled, IsClosing, IsUncovered
  <2>4. IsOpen(m, << >>) \/ IsShut(m, << >>)   BY <2>3 DEF IsOpen, IsShut
  <2>5. Phase(m, << >>)   BY <1>1, <2>4 DEF Phase
  <2> QED  BY <2>2, <2>5, PhaseOfPair
<1>4. ASSUME f \in {<<DialogFade, ElementFade>>, <<ElementFade, DialogFade>>}
      PROVE  PhaseOf(CallAll(m, f, Dialog))
  <2>1. DialogFade.on = Dialog /\ ElementFade.on # Dialog   BY FadesDiffer
  <2>2. CallAll(m, f, Dialog) = [modal |-> m, fades |-> <<ElementFade>>]
    <3>1. CallAll(m, <<DialogFade, ElementFade>>, Dialog) =
            CallBack([modal |-> m, fades |-> <<ElementFade>>], DialogFade.does)
      BY <2>1, FirstEnds
    <3>2. CallAll(m, <<ElementFade, DialogFade>>, Dialog) =
            CallBack([modal |-> m, fades |-> <<ElementFade>>], DialogFade.does)
      BY <2>1, SecondEnds
    <3> QED  BY <1>2, <1>4, <3>1, <3>2
  <2>3. IsClosing(m, f)
    BY <1>4, FadesDiffer DEF Phase, IsOpen, IsShut, IsOpening, IsRecalled, IsUncovered
  <2>4. IsClosing(m, <<ElementFade>>)   BY <2>3 DEF IsClosing
  <2>5. Phase(m, <<ElementFade>>)   BY <1>1, <2>4 DEF Phase
  <2> QED  BY <2>2, <2>5, PhaseOfPair
<1>5. CASE f = <<DialogFade, RemovalFade>>
  <2>1. DialogFade.on = Dialog /\ RemovalFade.on # Dialog   BY FadesDiffer
  <2>2. CallAll(m, f, Dialog) = [modal |-> m, fades |-> <<RemovalFade>>]
    <3>1. CallAll(m, <<DialogFade, RemovalFade>>, Dialog) =
            CallBack([modal |-> m, fades |-> <<RemovalFade>>], DialogFade.does)
      BY <2>1, FirstEnds
    <3> QED  BY <1>2, <1>5, <3>1
  <2>3. IsUncovered(m, f)
    BY <1>5, FadesDiffer DEF Phase, IsOpen, IsShut, IsOpening, IsRecalled, IsClosing
  <2>4. IsUncovered(m, <<RemovalFade>>)   BY <2>3 DEF IsUncovered
  <2>5. Phase(m, <<RemovalFade>>)   BY <1>1, <2>4 DEF Phase
  <2> QED  BY <2>2, <2>5, PhaseOfPair
<1>6. ASSUME f \in {<< >>, <<BackdropFade>>, <<BackdropFade, ElementFade>>, <<ElementFade>>, <<RemovalFade>>}
      PROVE  FALSE
  <2>1. f[i] = BackdropFade \/ f[i] = ElementFade \/ f[i] = RemovalFade   BY <1>6
  <2> QED  BY <2>1, FadesDiffer
<1> QED
  BY <1>3, <1>4, <1>5, <1>6
  DEF Phase, IsOpen, IsOpening, IsRecalled, IsClosing, IsUncovered, IsShut

\* The end of the element's is hideModal(); no backdrop fades in then, of which it would
\* know nothing.
LEMMA ElementEnds ==
    ASSUME NEW m, NEW f, Phase(m, f), NEW i \in DOMAIN f, f[i].on = Element,
           \A j \in DOMAIN f : f[j].does # "opened"
    PROVE  PhaseOf(CallAll(m, f, Element))
<1>1. m \in Modals /\ modalFade   BY DEF Phase
<1>2. CASE IsClosing(m, f)
  <2>1. ~m.isShown /\ Held(m) /\ Backed(m)   BY <1>2 DEF IsClosing
  <2>2. PICK g \in {<< >>, <<DialogFade>>} :
          CallAll(m, f, Element) = CallBack([modal |-> m, fades |-> g], "hideModal")
    <3>1. CASE f = <<ElementFade>>
      <4>2. CallAll(m, f, Element) = CallBack([modal |-> m, fades |-> << >>], "hideModal")
        BY <3>1, OneEnds, FadesDiffer
      <4> QED  BY <4>2
    <3>2. CASE f \in {<<DialogFade, ElementFade>>, <<ElementFade, DialogFade>>}
      <4>1. DialogFade.on # Element /\ ElementFade.on = Element /\ ElementFade.does = "hideModal"
        BY FadesDiffer
      <4>2. CallAll(m, <<DialogFade, ElementFade>>, Element) =
              CallBack([modal |-> m, fades |-> <<DialogFade>>], ElementFade.does)
        BY <4>1, SecondEnds
      <4>3. CallAll(m, <<ElementFade, DialogFade>>, Element) =
              CallBack([modal |-> m, fades |-> <<DialogFade>>], ElementFade.does)
        BY <4>1, FirstEnds
      <4>4. CallAll(m, f, Element) = CallBack([modal |-> m, fades |-> <<DialogFade>>], "hideModal")
        BY <3>2, <4>1, <4>2, <4>3
      <4> QED  BY <4>4
    <3> QED  BY <1>2, <3>1, <3>2 DEF IsClosing
  <2>3. CallBack([modal |-> m, fades |-> g], "hideModal") = HideModal([modal |-> m, fades |-> g])
    BY DEF CallBack
  <2>4. PhaseOf(HideModal([modal |-> m, fades |-> g]))
    BY <1>1, <2>1, HideModalKeeps
  <2> QED  BY <2>2, <2>3, <2>4
<1>3. ~IsRecalled(m, f)
  <2>1. ASSUME f = <<BackdropFade, ElementFade>> PROVE FALSE
    <3>1. 1 \in DOMAIN f /\ f[1] = BackdropFade   BY <2>1
    <3> QED  BY <3>1, FadesDiffer
  <2> QED  BY <2>1 DEF IsRecalled
<1>4. ASSUME f \in {<< >>, <<DialogFade>>, <<BackdropFade>>, <<RemovalFade>>, <<DialogFade, RemovalFade>>}
      PROVE  FALSE
  <2>1. f[i] = BackdropFade \/ f[i] = DialogFade \/ f[i] = RemovalFade   BY <1>4
  <2> QED  BY <2>1, FadesDiffer
<1> QED
  BY <1>2, <1>3, <1>4 DEF Phase, IsOpen, IsOpening, IsUncovered, IsShut

\* It begins shut.
LEMMA ModalInit1 == ModalInit => ModalInv
<1> SUFFICES ASSUME ModalInit PROVE ModalInv   OBVIOUS
<1>1. modal \in Modals   BY DEF ModalInit, Modals, NoBackdrop
<1>2. IsShut(modal, fades)
  <2>1. /\ ~modal.isShown /\ ~modal.display /\ ~modal.pageOpen /\ modal.padding = 0
        /\ modal.adjusted = "none" /\ modal.backdrops = {} /\ modal.backdrop = NoBackdrop
        /\ fades = << >>
    BY DEF ModalInit
  <2> QED  BY <2>1 DEF IsShut, Free, Bare
<1>3. fades = << >>   BY DEF ModalInit
<1> QED  BY <1>1, <1>2, <1>3 DEF ModalInit, ModalInv, Phase

\* A phase is of the fields that say what is shown, and no others.
LEMMA PhaseOfShown ==
    ASSUME NEW m, NEW f, Phase(m, f), NEW d \in Modals,
           d.isShown = m.isShown, d.display = m.display, SamePage(m, d), SameBackdrop(m, d),
           d.adjusted = m.adjusted
    PROVE  Phase(d, f)
<1>1. m \in Modals   BY DEF Phase
<1>2. Held(m) => Held(d)   BY DEF SamePage, Held
<1>3. Backed(m) => Backed(d)   BY DEF SameBackdrop, Backed, Bare
<1>4. Bare(m) => Bare(d)   BY DEF SameBackdrop, Bare
<1>5. Free(m) => Free(d)   BY DEF SamePage, Free
<1>6. Fits(m) => Fits(d)
  <2> DEFINE side == CASE ~m.bodyIsOverflowing /\ tall -> "left"
                       [] m.bodyIsOverflowing /\ ~tall -> "right"
                       [] OTHER                         -> "none"
  <2>1. d.bodyIsOverflowing = m.bodyIsOverflowing   BY DEF SamePage
  <2>2. AdjustDialog(m, tall) = [m EXCEPT !.adjusted = side]   BY DEF AdjustDialog
  <2>3. AdjustDialog(d, tall) = [d EXCEPT !.adjusted = side]   BY <2>1 DEF AdjustDialog
  <2> HIDE DEF side
  <2>4. AdjustDialog(m, tall).adjusted = side /\ AdjustDialog(d, tall).adjusted = side
    BY <1>1, <2>2, <2>3 DEF Modals
  <2> QED  BY <2>4 DEF Fits
<1>7. IsOpen(m, f) => IsOpen(d, f)   BY <1>2, <1>3, <1>6 DEF IsOpen
<1>8. IsOpening(m, f) => IsOpening(d, f)   BY <1>2, <1>3 DEF IsOpening
<1>9. IsRecalled(m, f) => IsRecalled(d, f)   BY <1>2, <1>3 DEF IsRecalled
<1>10. IsClosing(m, f) => IsClosing(d, f)   BY <1>2, <1>3 DEF IsClosing
<1>11. IsUncovered(m, f) => IsUncovered(d, f)   BY <1>2, <1>3 DEF IsUncovered
<1>12. IsShut(m, f) => IsShut(d, f)   BY <1>4, <1>5 DEF IsShut
<1> QED  BY <1>7, <1>8, <1>9, <1>10, <1>11, <1>12 DEF Phase

\* A step that begins and ends in a phase, of the same options.
LEMMA SameOptions ==
    ASSUME ModalInv, UNCHANGED <<modalFade, backdropOption, tall>>,
           ~reopened' => Phase(modal', fades')
    PROVE  ModalInv'
<1>1. \A m, f : Phase(m, f) => Phase(m, f)'
  BY DEF Phase, IsOpen, IsOpening, IsRecalled, IsClosing, IsUncovered, IsShut, Held, Backed, Free,
         Bare, Fits, HasBackdrop, AdjustDialog, Modals
<1> QED  BY <1>1 DEF ModalInv

\* What the object becomes is in a phase when the methods leave it in one.
LEMMA BecomesPhase ==
    ASSUME NEW s, ModalBecomes(s), PhaseOf(s)
    PROVE  Phase(modal', fades')
BY DEF ModalBecomes, PhaseOf

\* A call of show(), when no closing is to be finished, and of hide().
LEMMA ShowIsHandled == ASSUME ModalInv, Show, UNCHANGED <<modalFade, backdropOption, tall>>
                       PROVE  ModalInv'
<1> SUFFICES ASSUME ~reopened' PROVE Phase(modal', fades')   BY SameOptions
<1>1. ~reopened /\ ~Closing   BY DEF Show
<1>2. Phase(modal, fades) /\ tall \in BOOLEAN   BY <1>1 DEF ModalInv
<1>3. PICK overflowing \in BOOLEAN : ModalBecomes(ShowModal(Now, overflowing))   BY DEF Show
<1>4. CASE modal.isShown
  <2>1. ShowModal(Now, overflowing) = Now   BY <1>4 DEF ShowModal, Now
  <2> QED  BY <1>2, <1>3, <2>1, BecomesPhase, PhaseOfPair DEF Now
<1>5. CASE ~modal.isShown
  <2>1. fades = << >> /\ ~modal.pageOpen   BY <1>1, <1>5 DEF Closing
  <2>2. IsShut(modal, << >>) /\ modal \in Modals
    BY <1>2, <1>5, <2>1 DEF Phase, IsOpen, IsOpening, IsRecalled, IsClosing, IsUncovered, Held
  <2>3. PhaseOf(ShowModal([modal |-> modal, fades |-> << >>], overflowing))
    BY <1>2, <2>2, ShowKeeps
  <2>4. PhaseOf(ShowModal(Now, overflowing))   BY <2>1, <2>3 DEF Now
  <2> QED  BY <1>3, <2>4, BecomesPhase
<1> QED  BY <1>4, <1>5

\* The method hide().
LEMMA HideIsHandled == ASSUME ModalInv, ModalBecomes(Hide(Now)), UNCHANGED reopened,
                              UNCHANGED <<modalFade, backdropOption, tall>>
                       PROVE  ModalInv'
<1> SUFFICES ASSUME ~reopened PROVE Phase(modal', fades')   BY SameOptions
<1>1. PhaseOf(Hide([modal |-> modal, fades |-> fades]))   BY HideKeeps DEF ModalInv
<1>2. PhaseOf(Hide(Now))   BY <1>1 DEF Now
<1> QED  BY <1>2, BecomesPhase

\* The mouse goes down and up.
LEMMA PressIsHandled == ASSUME ModalInv, PressInDialog, UNCHANGED <<modalFade, backdropOption, tall>>
                        PROVE  ModalInv'
<1> SUFFICES ASSUME ~reopened PROVE Phase(modal', fades')
  BY SameOptions DEF PressInDialog
<1>1. Phase(modal, fades)   BY DEF ModalInv
<1>2. modal \in Modals   BY <1>1 DEF Phase
<1>3. modal' = [modal EXCEPT !.pressed = TRUE] /\ fades' = fades   BY DEF PressInDialog
<1>4. /\ modal' \in Modals /\ modal'.isShown = modal.isShown /\ modal'.display = modal.display
      /\ SamePage(modal, modal') /\ SameBackdrop(modal, modal') /\ modal'.adjusted = modal.adjusted
  BY <1>2, <1>3 DEF Modals, SamePage, SameBackdrop
<1> QED  BY <1>1, <1>3, <1>4, PhaseOfShown

\* The button is released outside.
LEMMA ReleaseIsHandled == ASSUME ModalInv, ReleaseOutside, UNCHANGED <<modalFade, backdropOption, tall>>
                          PROVE  ModalInv'
<1> SUFFICES ASSUME ~reopened PROVE Phase(modal', fades')
  BY SameOptions DEF ReleaseOutside
<1>1. Phase(modal, fades)   BY DEF ModalInv
<1>2. modal \in Modals   BY <1>1 DEF Phase
<1> DEFINE clicked == modal.ignoreClick \/ modal.pressed
           up   == [modal EXCEPT !.pressed = FALSE, !.ignoreClick = @ \/ modal.pressed]
           left == IF up.ignoreClick THEN up.outside - 1 ELSE up.outside
           passed == IF up.outside > 0 THEN [up EXCEPT !.ignoreClick = FALSE] ELSE up
           then == IF left > 0 /\ backdropOption = "true"
                   THEN Hide([modal |-> passed, fades |-> fades])
                   ELSE [modal |-> passed, fades |-> fades]
<1>3. ModalBecomes(then)   BY DEF ReleaseOutside
<1>4. /\ up \in Modals /\ up.isShown = modal.isShown /\ up.display = modal.display
      /\ SamePage(modal, up) /\ SameBackdrop(modal, up) /\ up.adjusted = modal.adjusted
  <2>1. clicked \in BOOLEAN   BY <1>2 DEF Modals
  <2>2. up = [modal EXCEPT !.pressed = FALSE, !.ignoreClick = clicked]   OBVIOUS
  <2> HIDE DEF clicked, up, left, passed, then
  <2> QED  BY <1>2, <2>1, <2>2 DEF Modals, SamePage, SameBackdrop
<1>5. /\ passed \in Modals /\ passed.isShown = modal.isShown /\ passed.display = modal.display
      /\ SamePage(modal, passed) /\ SameBackdrop(modal, passed) /\ passed.adjusted = modal.adjusted
  <2> DEFINE freed == [up EXCEPT !.ignoreClick = FALSE]
  <2>1. /\ freed \in Modals /\ freed.isShown = up.isShown /\ freed.display = up.display
        /\ SamePage(up, freed) /\ SameBackdrop(up, freed) /\ freed.adjusted = up.adjusted
    <3> HIDE DEF up, left, passed, then
    <3> QED  BY <1>4 DEF Modals, SamePage, SameBackdrop
  <2>2. passed = freed \/ passed = up   OBVIOUS
  <2> HIDE DEF up, freed, passed, left, then
  <2> QED  BY <1>4, <2>1, <2>2 DEF SamePage, SameBackdrop
<1> HIDE DEF up, passed
<1>6. Phase(passed, fades)   BY <1>1, <1>5, PhaseOfShown
<1>7. PhaseOf(Hide([modal |-> passed, fades |-> fades]))   BY <1>6, HideKeeps
<1>8. PhaseOf([modal |-> passed, fades |-> fades])   BY <1>6, PhaseOfPair
<1>9. PhaseOf(then)
  <2> DEFINE hidden == Hide([modal |-> passed, fades |-> fades])
             kept   == [modal |-> passed, fades |-> fades]
  <2>1. then = hidden \/ then = kept   OBVIOUS
  <2> HIDE DEF then, hidden, kept
  <2>2. PhaseOf(hidden) /\ PhaseOf(kept)   BY <1>7, <1>8 DEF hidden, kept
  <2> QED  BY <2>1, <2>2
<1> HIDE DEF then
<1> QED  BY <1>3, <1>9, BecomesPhase

\* A shown dialog is fitted to the window as it is now, and another one is not touched.
LEMMA ResizeIsHandled == ASSUME ModalInv, WindowResized, UNCHANGED <<modalFade, backdropOption>>
                         PROVE  ModalInv'
<1> SUFFICES ASSUME ~reopened PROVE Phase(modal, fades)'
  BY DEF ModalInv, WindowResized
<1>1. Phase(modal, fades) /\ tall' \in BOOLEAN   BY DEF ModalInv, WindowResized
<1>2. modal \in Modals /\ fades' = fades   BY <1>1 DEF Phase, WindowResized
<1>3. (\A m : (Held(m) <=> Held(m)') /\ (Free(m) <=> Free(m)') /\ (Bare(m) <=> Bare(m)') /\ (Backed(m) <=> Backed(m)'))
      /\ (HasBackdrop <=> HasBackdrop')
  BY DEF Held, Free, Bare, Backed, HasBackdrop
<1>4. CASE modal.isShown
  <2> DEFINE high == tall' /\ modal.display
             d == AdjustDialog(modal, high)
  <2>1. modal' = d   BY <1>4 DEF WindowResized
  <2>2. high \in BOOLEAN   BY <1>1, <1>2 DEF Modals
  <2>3. /\ d \in Modals /\ d.isShown = modal.isShown /\ d.display = modal.display
        /\ SamePage(modal, d) /\ SameBackdrop(modal, d)
    <3> HIDE DEF high
    <3> QED  BY <1>2, <2>2, AdjustIs
  <2> HIDE DEF d, high
  <2>4. Held(modal') /\ Backed(modal') /\ modal'.isShown /\ modal'.display = modal.display
    <3>1. IsOpen(modal, fades) \/ IsOpening(modal, fades)
      BY <1>1, <1>4 DEF Phase, IsRecalled, IsClosing, IsUncovered, IsShut
    <3>2. Held(modal) /\ Backed(modal)   BY <3>1 DEF IsOpen, IsOpening
    <3> QED  BY <1>4, <2>1, <2>3, <3>2 DEF SamePage, SameBackdrop, Held, Backed, Bare
  <2>5. Held(modal)' /\ Backed(modal)'   BY <2>4 DEF Held, Backed, Bare, HasBackdrop, WindowResized
  <2>6. CASE IsOpen(modal, fades)
    <3>1. modal.display /\ high = tall'   BY <1>1, <2>6 DEF IsOpen, high
    <3>2. Fits(modal)'
      <4> DEFINE side == CASE ~modal.bodyIsOverflowing /\ tall' -> "left"
                           [] modal.bodyIsOverflowing /\ ~tall' -> "right"
                           [] OTHER                         -> "none"
      <4>1. modal' = [modal EXCEPT !.adjusted = side]   BY <2>1, <3>1 DEF d, AdjustDialog
      <4>2. modal'.bodyIsOverflowing = modal.bodyIsOverflowing   BY <2>1, <2>3 DEF SamePage
      <4>3. AdjustDialog(modal, tall)' = [modal' EXCEPT !.adjusted = side]
        BY <4>2 DEF AdjustDialog
      <4> HIDE DEF side
      <4>4. modal'.adjusted = side /\ AdjustDialog(modal, tall)'.adjusted = side
        BY <1>2, <2>1, <2>3, <4>1, <4>3 DEF Modals
      <4> QED  BY <4>4 DEF Fits
    <3>3. IsOpen(modal, fades)'
      BY <1>2, <2>4, <2>5, <2>6, <3>1, <3>2 DEF IsOpen, DialogFade, Dialog
    <3> QED  BY <1>1, <1>2, <2>1, <2>3, <3>3 DEF Phase, Modals
  <2>7. CASE IsOpening(modal, fades)
    <3>1. ~modal.display /\ HasBackdrop' /\ fades' = <<BackdropFade>>
      BY <1>2, <1>3, <2>7 DEF IsOpening
    <3>2. IsOpening(modal, fades)'
      BY <2>4, <2>5, <3>1 DEF IsOpening, BackdropFade, TheBackdrop
    <3> QED  BY <1>1, <1>2, <2>1, <2>3, <3>2 DEF Phase, Modals
  <2> QED  BY <1>1, <1>4, <2>6, <2>7 DEF Phase, IsRecalled, IsClosing, IsUncovered, IsShut
<1>5. CASE ~modal.isShown
  <2>1. modal' = modal   BY <1>5 DEF WindowResized
  <2>2. IsRecalled(modal, fades) \/ IsClosing(modal, fades) \/ IsUncovered(modal, fades) \/ IsShut(modal, fades)
    BY <1>1, <1>5 DEF Phase, IsOpen, IsOpening
  <2>3. IsRecalled(modal, fades)' \/ IsClosing(modal, fades)' \/ IsUncovered(modal, fades)' \/ IsShut(modal, fades)'
    BY <1>2, <2>1, <2>2
    DEF IsRecalled, IsClosing, IsUncovered, IsShut, Held, Free, Bare, Backed, HasBackdrop, WindowResized
  <2> QED  BY <1>1, <1>2, <2>1, <2>3 DEF Phase
<1> QED  BY <1>4, <1>5

\* A fade ends, of whatever it is.
LEMMA FadeIsHandled ==
    ASSUME ModalInv, NEW i \in DOMAIN fades, FadeEnds(fades[i].on),
           UNCHANGED <<modalFade, backdropOption, tall>>
    PROVE  ModalInv'
<1> SUFFICES ASSUME ~reopened PROVE Phase(modal', fades')
  BY SameOptions DEF FadeEnds
<1>1. Phase(modal, fades) /\ tall \in BOOLEAN   BY DEF ModalInv
<1>2. ModalBecomes(CallAll(modal, fades, fades[i].on))   BY DEF FadeEnds
<1>3. fades[i] \in {BackdropFade, DialogFade, ElementFade, RemovalFade}
  BY <1>1 DEF Phase, IsOpen, IsOpening, IsRecalled, IsClosing, IsUncovered, IsShut
<1>4. CASE fades[i].on = TheBackdrop(1)
  <2>1. PhaseOf(CallAll(modal, fades, TheBackdrop(1)))   BY <1>1, <1>4, BackdropEnds
  <2> QED  BY <1>2, <1>4, <2>1, BecomesPhase
<1>5. CASE fades[i].on = Dialog
  <2>1. PhaseOf(CallAll(modal, fades, Dialog))   BY <1>1, <1>5, DialogEnds
  <2> QED  BY <1>2, <1>5, <2>1, BecomesPhase
<1>6. CASE fades[i].on = Element
  <2>1. \A j \in DOMAIN fades : fades[j].does # "opened"   BY <1>6 DEF FadeEnds
  <2>2. PhaseOf(CallAll(modal, fades, Element))   BY <1>1, <1>6, <2>1, ElementEnds
  <2> QED  BY <1>2, <1>6, <2>2, BecomesPhase
<1> QED  BY <1>3, <1>4, <1>5, <1>6, FadesDiffer

\* Until a show() comes before a closing is finished, the dialog is open, opening, recalled while
\* it opens, closing, uncovered or shut, with exactly the callbacks that belong to it, however
\* calls, clicks and the ends of fades come (show(), hide(), backdrop(), bootstrap.js).
THEOREM ModalInvariance == ModalSpec => []ModalInv
<1>1. ModalInit => ModalInv   BY ModalInit1
<1>2. ModalInv /\ [ModalNext]_modalVars => ModalInv'
  <2> SUFFICES ASSUME ModalInv, [ModalNext]_modalVars PROVE ModalInv'   OBVIOUS
  <2>1. ASSUME HideCalled, UNCHANGED <<modalFade, backdropOption, tall>> PROVE ModalInv'
    BY <2>1, HideIsHandled DEF HideCalled
  <2>2. ASSUME Show, UNCHANGED <<modalFade, backdropOption, tall>> PROVE ModalInv'
    BY <2>2, ShowIsHandled
  <2>3. ASSUME ToggleClicked, UNCHANGED <<modalFade, backdropOption, tall>> PROVE ModalInv'
    BY <2>1, <2>2, <2>3 DEF ToggleClicked
  <2>4. ASSUME EscapeKey, UNCHANGED <<modalFade, backdropOption, tall>> PROVE ModalInv'
    BY <2>4, HideIsHandled DEF EscapeKey
  <2>5. ASSUME PressInDialog, UNCHANGED <<modalFade, backdropOption, tall>> PROVE ModalInv'
    BY <2>5, PressIsHandled
  <2>6. ASSUME ReleaseOutside, UNCHANGED <<modalFade, backdropOption, tall>> PROVE ModalInv'
    BY <2>6, ReleaseIsHandled
  <2>7. ASSUME NEW i \in DOMAIN fades, FadeEnds(fades[i].on),
               UNCHANGED <<modalFade, backdropOption, tall>>
        PROVE  ModalInv'
    BY <2>7, FadeIsHandled
  <2>8. ASSUME WindowResized, UNCHANGED <<modalFade, backdropOption>> PROVE ModalInv'
    BY <2>8, ResizeIsHandled
  <2>9. CASE UNCHANGED modalVars
    <3>1. UNCHANGED <<modalFade, backdropOption, tall>> /\ UNCHANGED <<modal, fades, reopened>>
      BY <2>9 DEF modalVars
    <3> QED  BY <3>1, SameOptions DEF ModalInv
  <2> QED  BY <2>1, <2>2, <2>3, <2>4, <2>5, <2>6, <2>7, <2>8, <2>9 DEF ModalNext
<1> QED  BY <1>1, <1>2, PTL DEF ModalSpec

\* When every fade is over, the page is what isShown says, for any number of calls.
THEOREM ModalFits == ModalSpec => []PageFitsModal
<1>1. ModalInv => PageFitsModal
  <2> SUFFICES ASSUME ModalInv, fades = << >>, ~reopened
               PROVE  /\ modal.display = modal.isShown /\ modal.pageOpen = modal.isShown
                      /\ Cardinality(modal.backdrops) =
                           (IF modal.isShown /\ backdropOption # "false" THEN 1 ELSE 0)
                      /\ IF modal.isShown THEN modal = AdjustDialog(modal, tall)
                                          ELSE modal.padding = 0 /\ modal.adjusted = "none"
    BY DEF PageFitsModal
  <2>1. Phase(modal, fades) /\ modal \in Modals   BY DEF ModalInv, Phase
  <2>2. Cardinality({1}) = 1 /\ Cardinality({}) = 0   BY FS_Singleton, FS_EmptySet
  <2>3. IsOpen(modal, fades) \/ IsShut(modal, fades)
    BY <2>1 DEF Phase, IsOpening, IsRecalled, IsClosing, IsUncovered
  <2>4. CASE IsOpen(modal, fades)
    <3>1. modal.isShown /\ modal.display /\ Held(modal) /\ Backed(modal) /\ Fits(modal)
      BY <2>4 DEF IsOpen
    <3>2. modal = AdjustDialog(modal, tall)
      <4> DEFINE side == CASE ~modal.bodyIsOverflowing /\ tall -> "left"
                           [] modal.bodyIsOverflowing /\ ~tall -> "right"
                           [] OTHER                         -> "none"
      <4>1. AdjustDialog(modal, tall) = [modal EXCEPT !.adjusted = side]   BY DEF AdjustDialog
      <4> HIDE DEF side
      <4>2. AdjustDialog(modal, tall).adjusted = side   BY <2>1, <4>1 DEF Modals
      <4>3. modal.adjusted = side   BY <3>1, <4>2 DEF Fits
      <4> QED  BY <2>1, <4>1, <4>3 DEF Modals
    <3>3. modal.pageOpen = TRUE /\ modal.isShown = TRUE /\ modal.display = TRUE
      BY <2>1, <3>1 DEF Held, Modals
    <3>4. Cardinality(modal.backdrops) = IF backdropOption # "false" THEN 1 ELSE 0
      BY <2>2, <3>1 DEF Backed, Bare, HasBackdrop
    <3> QED  BY <3>1, <3>2, <3>3, <3>4
  <2>5. CASE IsShut(modal, fades)
    <3>1. ~modal.isShown /\ ~modal.display /\ Free(modal) /\ Bare(modal)   BY <2>5 DEF IsShut
    <3>2. modal.pageOpen = FALSE /\ modal.isShown = FALSE /\ modal.display = FALSE
      BY <2>1, <3>1 DEF Free, Modals
    <3> QED  BY <2>2, <3>1, <3>2 DEF Free, Bare
  <2> QED  BY <2>3, <2>4, <2>5
<1> QED  BY <1>1, ModalInvariance, PTL
-----------------------------------------------------------------------------
(* The scrollspy.                                                            *)

\* What the scrollspy's object holds.
Spies == [offsets : Seq(Nat), targets : Seq(Sections), activeTarget : Sections \union {NoTarget},
          scrollHeight : Nat]

\* What the object holds is what a measuring of this content could find.
Knows(s, c) ==
  /\ s.targets \in SetToSeqs(c.visible) /\ s.scrollHeight = c.height
  /\ s.offsets = [i \in DOMAIN s.targets |-> c.top[s.targets[i]]]
  /\ \A i, j \in DOMAIN s.targets : i <= j => s.offsets[i] <= s.offsets[j]

\* Two scroll events after a change of height, or a refresh and one, make it so.
SpyInv ==
  /\ content \in Contents /\ scrollTop \in Within(content)
  /\ scrolled \in BOOLEAN /\ unnoticed \in BOOLEAN /\ seen \in 0 .. 2
  /\ spy \in Spies /\ lit = Lit(spy)
  /\ unnoticed => spy.scrollHeight = content.height
  /\ ~unnoticed /\ seen = 0 => spy.scrollHeight # content.height
  /\ ~unnoticed /\ seen > 0 => Knows(spy, content)
  /\ LitWhereOneIs

\* Each at most the next: so each at most those behind it.
LEMMA InOrder ==
  ASSUME NEW n \in Nat, NEW f, \A i \in 1 .. n : f[i] \in Nat,
         \A i \in 1 .. n - 1 : f[i] <= f[i + 1]
  PROVE  \A i, j \in 1 .. n : i <= j => f[i] <= f[j]
<1> DEFINE Apart == {d \in Nat : \A i \in 1 .. n : i + d <= n => f[i] <= f[i + d]}
<1>1. 0 \in Apart
  <2>1. ASSUME NEW i \in 1 .. n   PROVE  f[i] <= f[i + 0]
    <3>1. i + 0 = i /\ f[i] \in Nat   OBVIOUS
    <3> QED  BY <3>1
  <2> QED  BY <2>1
<1>2. ASSUME NEW d \in Nat, d \in Apart   PROVE  d + 1 \in Apart
  <2>1. ASSUME NEW i \in 1 .. n, i + (d + 1) <= n   PROVE  f[i] <= f[i + (d + 1)]
    <3>1. PICK j : j = i + d /\ j \in 1 .. n - 1 /\ j + 1 = i + (d + 1) /\ j + 1 \in 1 .. n   BY <2>1
    <3>2. f[i] <= f[j]   BY <1>2, <3>1
    <3>3. f[j] <= f[j + 1]   BY <3>1
    <3>4. f[i] \in Nat /\ f[j] \in Nat /\ f[j + 1] \in Nat   BY <3>1
    <3>5. f[i] <= f[j + 1]   BY <3>2, <3>3, <3>4
    <3> QED  BY <3>1, <3>5
  <2> QED  BY <2>1
<1>3. Nat \subseteq Apart
  <2> HIDE DEF Apart
  <2> QED  BY <1>1, <1>2, Induction
<1>4. ASSUME NEW i \in 1 .. n, NEW j \in 1 .. n, i <= j   PROVE  f[i] <= f[j]
  <2>1. PICK d \in Nat : j = i + d   BY <1>4
  <2>2. d \in Apart   BY <1>3, <2>1
  <2> QED  BY <2>1, <2>2
<1> QED  BY <1>4

\* The sections as they are found: as many, each once.
LEMMA OrderIs ==
  ASSUME NEW S, IsFiniteSet(S), NEW o \in SetToSeqs(S)
  PROVE  /\ Cardinality(S) \in Nat /\ o \in Seq(S) /\ Len(o) = Cardinality(S)
         /\ DOMAIN o = 1 .. Len(o) /\ \A t \in S : \E i \in DOMAIN o : o[i] = t
         /\ S # {} => Len(o) > 0
<1> DEFINE n == Cardinality(S)
<1>1. n \in Nat   BY FS_CardinalityType
<1>2. o \in [1 .. n -> S] /\ \A i, j \in 1 .. n : i # j => o[i] # o[j]   BY Zenon DEF SetToSeqs
<1>3. o \in Seq(S) /\ Len(o) = n /\ DOMAIN o = 1 .. n   BY <1>1, <1>2
<1>4. IsFiniteSet(1 .. n) /\ Cardinality(1 .. n) = n   BY <1>1, FS_Interval
<1>5. o \in Injection(1 .. n, S)   BY <1>2 DEF Injection, IsInjective
<1>6. o \in Surjection(1 .. n, S)   BY <1>4, <1>5, FS_Injection
<1>7. \A t \in S : \E i \in 1 .. n : o[i] = t   BY <1>6 DEF Surjection
<1>8. S # {} => n > 0   BY <1>1, FS_EmptySet
<1> QED  BY <1>1, <1>3, <1>7, <1>8

\* Measuring an object.
LEMMA MeasuredKnows ==
  ASSUME NEW c \in Contents, NEW s, NEW a \in Sections \union {NoTarget},
         \E h, o, t : s = [offsets |-> o, targets |-> t, activeTarget |-> a, scrollHeight |-> h],
         NEW m \in Measured(s, c)
  PROVE  m \in Spies /\ Knows(m, c) /\ m.activeTarget = a
<1>1. PICK o \in SetToSeqs(c.visible) :
        /\ \A i \in 1 .. Len(o) - 1 : c.top[o[i]] <= c.top[o[i + 1]]
        /\ m = [s EXCEPT !.targets = o, !.offsets = [i \in DOMAIN o |-> c.top[o[i]]],
                         !.scrollHeight = c.height]
  BY Zenon DEF Measured
<1>2. c.visible \subseteq Sections /\ IsFiniteSet(c.visible) /\ c.height \in Nat
      /\ \A t \in Sections : c.top[t] \in Nat
  <2>1. c.visible \subseteq Sections /\ c.height \in Nat /\ \A t \in Sections : c.top[t] \in Nat
    BY SpyAssumption DEF Contents
  <2> QED  BY <2>1, FS_Subset, SpyAssumption
<1> DEFINE f == [i \in DOMAIN o |-> c.top[o[i]]]
<1>3. o \in Seq(c.visible) /\ Len(o) \in Nat /\ DOMAIN o = 1 .. Len(o)   BY <1>1, <1>2, OrderIs
<1>4. o \in Seq(Sections) /\ f \in Seq(Nat)
  <2>1. \A i \in 1 .. Len(o) : o[i] \in c.visible   BY <1>3
  <2>2. \A i \in 1 .. Len(o) : o[i] \in Sections /\ c.top[o[i]] \in Nat   BY <1>2, <2>1
  <2>3. o \in [1 .. Len(o) -> Sections]   BY <1>3, <2>2
  <2>4. f \in [1 .. Len(o) -> Nat]   BY <1>3, <2>2
  <2> HIDE DEF f
  <2>5. PICK k \in Nat : k = Len(o)   BY <1>3
  <2>6. o \in [1 .. k -> Sections] /\ f \in [1 .. k -> Nat]   BY <2>3, <2>4, <2>5
  <2> QED  BY <2>6, SeqDef, Zenon
<1> HIDE DEF f
<1>5. m = [offsets |-> f, targets |-> o, activeTarget |-> a, scrollHeight |-> c.height]
  <2>1. m = [s EXCEPT !.targets = o, !.offsets = f, !.scrollHeight = c.height]   BY <1>1 DEF f
  <2>2. PICK h, p, q : s = [offsets |-> p, targets |-> q, activeTarget |-> a, scrollHeight |-> h]
    OBVIOUS
  <2> QED  BY <2>1, <2>2
<1>6. \A i, j \in 1 .. Len(o) : i <= j => f[i] <= f[j]
  <2>1. \A i \in 1 .. Len(o) : f[i] \in Nat   BY <1>2, <1>3 DEF f
  <2>2. \A i \in 1 .. Len(o) - 1 : f[i] <= f[i + 1]   BY <1>1, <1>3 DEF f
  <2> QED  BY <1>3, <2>1, <2>2, InOrder
<1>7. m \in Spies
  <2>1. o \in Seq(Sections) /\ f \in Seq(Nat) /\ c.height \in Nat   BY <1>2, <1>4
  <2> QED  BY <1>5, <2>1, Zenon DEF Spies
<1>8. f = [i \in DOMAIN o |-> c.top[o[i]]]   BY DEF f
<1>9. m.offsets = f /\ m.targets = o /\ m.activeTarget = a /\ m.scrollHeight = c.height   BY <1>5
<1>10. Knows(m, c)   BY <1>3, <1>6, <1>8, <1>9 DEF Knows
<1> QED  BY <1>7, <1>9, <1>10

\* What an object that knows the content makes of where one is.
LEMMA TargetIsAt ==
  ASSUME content \in Contents, scrollTop \in Within(content), content.visible # {},
         NEW s \in Spies, Knows(s, content)
  PROVE  IF AtSections = {} THEN Target(s, content, scrollTop) = NoTarget
         ELSE Target(s, content, scrollTop) \in AtSections
<1> DEFINE here == scrollTop + Offset
           n == Len(s.targets)
           top(i) == s.offsets[i]
           end == here >= Offset + content.height - ViewHeight
           reached == {i \in 1 .. n : here >= top(i) /\ (i = n \/ here < top(i + 1))}
           begun == {t \in content.visible : content.top[t] <= here}
<1>1. /\ content.visible \subseteq Sections /\ IsFiniteSet(content.visible) /\ content.height \in Nat
      /\ scrollTop \in Nat /\ Offset \in Nat /\ ViewHeight \in Nat
      /\ \A t \in Sections : content.top[t] \in Nat
  <2>1. /\ content.visible \subseteq Sections /\ content.height \in Nat
        /\ \A t \in Sections : content.top[t] \in Nat
        /\ scrollTop \in Nat /\ Offset \in Nat /\ ViewHeight \in Nat
    BY SpyAssumption DEF Contents, Within
  <2> QED  BY <2>1, FS_Subset, SpyAssumption
<1>2. s.targets \in SetToSeqs(content.visible)   BY DEF Knows
<1>3. /\ s.targets \in Seq(content.visible) /\ n \in Nat /\ n > 0 /\ DOMAIN s.targets = 1 .. n
      /\ \A t \in content.visible : \E i \in 1 .. n : s.targets[i] = t
  BY <1>1, <1>2, OrderIs
<1>4. \A i \in 1 .. n : /\ s.targets[i] \in content.visible
                        /\ top(i) = content.top[s.targets[i]] /\ top(i) \in Nat
  <2>1. s.offsets = [i \in DOMAIN s.targets |-> content.top[s.targets[i]]]   BY DEF Knows
  <2>2. \A i \in 1 .. n : s.targets[i] \in content.visible   BY <1>3
  <2>3. \A i \in 1 .. n : top(i) = content.top[s.targets[i]]   BY <1>3, <2>1
  <2> QED  BY <1>1, <2>2, <2>3
<1>5. \A i, j \in 1 .. n : i <= j => top(i) <= top(j)   BY <1>3 DEF Knows
<1>6. here \in Nat /\ (end <=> scrollTop + ViewHeight >= content.height)   BY <1>1
<1>7. AtSections = LET among == IF end THEN content.visible ELSE begun
                   IN  {t \in among : \A u \in among : content.top[u] <= content.top[t]}
  BY <1>6 DEF AtSections
<1>8. Target(s, content, scrollTop) =
        CASE end -> IF n = 0 THEN NoTarget ELSE s.targets[n]
          [] ~end /\ n > 0 /\ here < top(1) -> NoTarget
          [] OTHER -> IF reached = {} THEN s.activeTarget
                      ELSE s.targets[CHOOSE i \in reached : TRUE]
  <2>1. end <=> ~(here < Offset + content.height - ViewHeight)   BY <1>1, <1>6
  <2> QED  BY <2>1 DEF Target
<1> HIDE DEF here, top, end, n, reached
<1>12. n \in Nat /\ n > 0   BY <1>3
<1>13. 1 \in 1 .. n /\ n \in 1 .. n /\ n # 0   BY <1>12
<1>14. \A i \in 1 .. n : top(i) \in Nat   BY <1>4
<1>9. CASE end
  <2>1. Target(s, content, scrollTop) = s.targets[n] /\ n \in 1 .. n
    <3>1. Target(s, content, scrollTop) = IF n = 0 THEN NoTarget ELSE s.targets[n]   BY <1>8, <1>9
    <3> QED  BY <1>13, <3>1
  <2>2. \A u \in content.visible : content.top[u] <= content.top[s.targets[n]]
    <3>1. ASSUME NEW u \in content.visible   PROVE  content.top[u] <= content.top[s.targets[n]]
      <4>1. PICK j \in 1 .. n : s.targets[j] = u   BY <1>3
      <4>2. top(j) <= top(n)   BY <1>3, <1>5, <2>1
      <4> QED  BY <1>4, <2>1, <4>1, <4>2
    <3> QED  BY <3>1
  <2>3. s.targets[n] \in AtSections   BY <1>4, <1>7, <1>9, <2>1, <2>2
  <2> QED  BY <2>1, <2>3
<1>10. CASE ~end /\ here < top(1)
  <2>1. Target(s, content, scrollTop) = NoTarget   BY <1>8, <1>10, <1>12
  <2>2. begun = {}
    <3>1. ASSUME NEW u \in content.visible, content.top[u] <= here   PROVE  FALSE
      <4>1. PICK j \in 1 .. n : s.targets[j] = u   BY <1>3
      <4>2. 1 \in 1 .. n /\ 1 <= j   BY <1>13
      <4>3. top(1) <= top(j)   BY <1>5, <4>2
      <4>4. top(j) = content.top[u] /\ top(j) \in Nat /\ top(1) \in Nat   BY <1>4, <4>1, <4>2
      <4> QED  BY <1>6, <1>10, <3>1, <4>3, <4>4
    <3> QED  BY <3>1
  <2>3. AtSections = {}   BY <1>7, <1>10, <2>2
  <2> QED  BY <2>1, <2>3
<1>11. CASE ~end /\ ~(here < top(1))
  <2> DEFINE passed == {i \in 1 .. n : here >= top(i)}
  <2>1. 1 \in passed /\ passed \subseteq Nat /\ \A i \in passed : i <= n
    <3>1. 1 \in 1 .. n /\ top(1) \in Nat   BY <1>13, <1>14
    <3>2. here >= top(1)   BY <1>6, <1>11, <3>1
    <3> QED  BY <1>12, <3>1, <3>2
  <2>2. PICK x \in passed : \A y \in passed : y <= x
    <3> HIDE DEF passed
    <3>1. passed # {}   BY <2>1
    <3> QED  BY <1>12, <2>1, <3>1, LargestNumber
  <2>3. x \in reached
    <3>1. x \in 1 .. n /\ here >= top(x)   OBVIOUS
    <3>2. ASSUME x # n   PROVE  here < top(x + 1)
      <4>1. x + 1 \in 1 .. n /\ ~(x + 1 <= x)   BY <1>3, <3>1, <3>2
      <4>2. x + 1 \notin passed   BY <2>2, <4>1
      <4>3. top(x + 1) \in Nat   BY <1>4, <4>1
      <4> QED  BY <1>6, <4>1, <4>2, <4>3
    <3> QED  BY <3>1, <3>2 DEF reached
  <2> DEFINE i == CHOOSE k \in reached : TRUE
  <2>4. i \in reached   BY <2>3
  <2>5. Target(s, content, scrollTop) = s.targets[i]   BY <1>8, <1>11, <2>3
  <2> HIDE DEF i
  <2>6. i \in 1 .. n /\ here >= top(i) /\ (i = n \/ here < top(i + 1))   BY <2>4 DEF reached
  <2>7. s.targets[i] \in begun   BY <1>4, <1>6, <2>6
  <2>8. ASSUME NEW u \in begun   PROVE  content.top[u] <= content.top[s.targets[i]]
    <3>1. PICK j \in 1 .. n : s.targets[j] = u   BY <1>3
    <3>2. top(j) = content.top[u] /\ top(j) \in Nat /\ top(i) \in Nat /\ top(j) <= here
      BY <1>4, <2>6, <2>8, <3>1
    <3>3. CASE j <= i   BY <1>4, <1>5, <2>6, <3>1, <3>2, <3>3
    <3>4. CASE ~(j <= i)
      <4>1. i + 1 \in 1 .. n /\ i + 1 <= j /\ i # n   BY <1>3, <2>6, <3>1, <3>4
      <4>2. top(i + 1) <= top(j) /\ here < top(i + 1) /\ top(i + 1) \in Nat   BY <1>4, <1>5, <2>6, <4>1
      <4> QED  BY <1>6, <3>2, <4>2
    <3> QED  BY <3>3, <3>4
  <2>9. s.targets[i] \in AtSections   BY <1>7, <1>11, <2>7, <2>8
  <2> QED  BY <2>5, <2>9
<1> QED  BY <1>9, <1>10, <1>11


\* Where the object knows the content, the link of its target is the right one.
LEMMA ProcessedIsRight ==
  ASSUME content \in Contents, scrollTop \in Within(content),
         NEW m \in Spies, content.visible # {} => Knows(m, content)
  PROVE  LET t == Target(m, content, scrollTop)
         IN  content.visible # {} =>
               IF AtSections = {} THEN {t} \ {NoTarget} = {} ELSE \E u \in AtSections : {t} \ {NoTarget} = {u}
<1> SUFFICES ASSUME content.visible # {}
             PROVE  IF AtSections = {} THEN {Target(m, content, scrollTop)} \ {NoTarget} = {}
                    ELSE \E u \in AtSections : {Target(m, content, scrollTop)} \ {NoTarget} = {u}
  OBVIOUS
<1> DEFINE t == Target(m, content, scrollTop)
<1>1. content \in Contents /\ scrollTop \in Within(content)   OBVIOUS
<1>2. IF AtSections = {} THEN t = NoTarget ELSE t \in AtSections   BY <1>1, TargetIsAt
<1>3. NoTarget \notin AtSections   BY <1>1, SpyAssumption, Zenon DEF AtSections, Contents
<1> HIDE DEF t
<1>4. t \in AtSections => {t} \ {NoTarget} = {t}   BY <1>3
<1>5. t = NoTarget => {t} \ {NoTarget} = {}   OBVIOUS
<1> QED  BY <1>2, <1>4, <1>5 DEF t

\* An object keeps the type of its fields.
LEMMA SpyFields ==
  ASSUME NEW s \in Spies
  PROVE  /\ s = [offsets |-> s.offsets, targets |-> s.targets, activeTarget |-> s.activeTarget,
                  scrollHeight |-> s.scrollHeight]
         /\ s.activeTarget \in Sections \union {NoTarget} /\ s.scrollHeight \in Nat
  BY DEF Spies

\* What a scroll finds is a section, or none.
LEMMA TargetIsSection ==
  ASSUME NEW c, NEW y, NEW s \in Spies
  PROVE  Target(s, c, y) \in Sections \union {NoTarget}
<1> DEFINE n == Len(s.targets)
           reached == {i \in 1 .. n : y + Offset >= s.offsets[i] /\ (i = n \/ y + Offset < s.offsets[i + 1])}
<1>1. s.targets \in Seq(Sections) /\ s.activeTarget \in Sections \union {NoTarget} /\ n \in Nat   BY DEF Spies
<1>2. \A i \in 1 .. n : s.targets[i] \in Sections   BY <1>1
<1>3. n # 0 => n \in 1 .. n   BY <1>1
<1> DEFINE i == CHOOSE k \in reached : TRUE
<1>4. reached # {} => i \in 1 .. n   OBVIOUS
<1>5. s.targets[n] \in Sections \/ n = 0   BY <1>2, <1>3
<1>6. reached # {} => s.targets[i] \in Sections   BY <1>2, <1>4
<1>7. \/ Target(s, c, y) \in {NoTarget, s.activeTarget}
      \/ n # 0 /\ Target(s, c, y) = s.targets[n]
      \/ reached # {} /\ Target(s, c, y) = s.targets[i]
  <2>1. CASE y + Offset >= Offset + c.height - ViewHeight   BY <2>1 DEF Target
  <2>2. CASE ~(y + Offset >= Offset + c.height - ViewHeight)
    BY <2>2 DEF Target
  <2> QED  BY <2>1, <2>2
<1> QED  BY <1>1, <1>5, <1>6, <1>7

\* What process() measures again it knows, and what it does not it keeps.
LEMMA MeasuredAgainIs ==
  ASSUME NEW s \in Spies, NEW c \in Contents, NEW m \in MeasuredAgain(s, c)
  PROVE  /\ m \in Spies /\ m.activeTarget = s.activeTarget
         /\ s.scrollHeight = c.height => m = s
         /\ s.scrollHeight # c.height => Knows(m, c)
<1>1. CASE s.scrollHeight = c.height   BY <1>1 DEF MeasuredAgain
<1>2. CASE s.scrollHeight # c.height
  <2>1. m \in Measured(s, c)   BY <1>2 DEF MeasuredAgain
  <2>2. s = [offsets |-> s.offsets, targets |-> s.targets, activeTarget |-> s.activeTarget,
             scrollHeight |-> s.scrollHeight] /\ s.activeTarget \in Sections \union {NoTarget}
    BY SpyFields
  <2>3. m \in Spies /\ Knows(m, c) /\ m.activeTarget = s.activeTarget   BY <2>1, <2>2, MeasuredKnows
  <2> QED  BY <1>2, <2>3
<1> QED  BY <1>1, <1>2

\* The links that are active are those of the section that was found.
LEMMA ActivatedIs ==
  ASSUME NEW m \in Spies, NEW t \in Sections \union {NoTarget}
  PROVE  /\ ActivateTarget(m, t) \in Spies /\ ActivateTarget(m, t).activeTarget = t
         /\ ActivateTarget(m, t).scrollHeight = m.scrollHeight
         /\ \A c : Knows(m, c) => Knows(ActivateTarget(m, t), c)
<1> DEFINE a == ActivateTarget(m, t)
<1>1. a = [m EXCEPT !.activeTarget = t]   BY DEF ActivateTarget
<1>2. m \in Spies   OBVIOUS
<1> HIDE DEF a
<1>3. a \in Spies   BY <1>1 DEF Spies
<1>4. a.activeTarget = t /\ a.scrollHeight = m.scrollHeight /\ a.targets = m.targets /\ a.offsets = m.offsets
  BY <1>1, <1>2 DEF Spies
<1>5. \A c : Knows(m, c) => Knows(a, c)   BY <1>4, Zenon DEF Knows
<1> QED  BY <1>3, <1>4, <1>5 DEF a

\* What the object knows, of the next state.
LEMMA PrimedSpy ==
  /\ Within(content)' = Within(content') /\ Lit(spy)' = Lit(spy')
  /\ Knows(spy, content)' <=> Knows(spy', content')
  BY DEF Within, Lit, Knows

\* What process() makes of the object: it knows the content, but judged by what it knew.
LEMMA ProcessKeeps ==
  ASSUME NEW s \in Spies, NEW c \in Contents, NEW y, NEW p \in Process(s, c, y)
  PROVE  /\ p \in Spies /\ Lit(p) = {Target(s, c, y)} \ {NoTarget}
         /\ s.scrollHeight = c.height => p.scrollHeight = s.scrollHeight
         /\ s.scrollHeight # c.height \/ Knows(s, c) => Knows(p, c)
<1>1. PICK m \in MeasuredAgain(s, c) : p = ActivateTarget(m, Target(s, c, y))   BY Zenon DEF Process
<1>2. /\ m \in Spies
      /\ s.scrollHeight = c.height => m = s
      /\ s.scrollHeight # c.height => Knows(m, c)   BY <1>1, MeasuredAgainIs
<1>3. Target(s, c, y) \in Sections \union {NoTarget}   BY TargetIsSection
<1>4. /\ p \in Spies /\ p.activeTarget = Target(s, c, y) /\ p.scrollHeight = m.scrollHeight
      /\ Knows(m, c) => Knows(p, c)   BY <1>1, <1>2, <1>3, ActivatedIs
<1>5. Lit(p) = {Target(s, c, y)} \ {NoTarget}   BY <1>4 DEF Lit
<1>6. Knows(s, c) => Knows(m, c)   BY <1>2
<1> QED  BY <1>2, <1>4, <1>5, <1>6

\* After a scroll event.
LEMMA ScrollEventKeeps == ASSUME SpyInv, ScrollEvent PROVE SpyInv'
<1>1. /\ content' = content /\ scrollTop' = scrollTop /\ scrolled' = FALSE /\ lit' = Lit(spy')
      /\ seen' = Min({2, seen + 1}) /\ spy' \in Process(spy, content, scrollTop)
      /\ unnoticed' = (unnoticed /\ spy.scrollHeight = content.height)
  BY DEF ScrollEvent
<1>2. content \in Contents /\ scrollTop \in Within(content) /\ spy \in Spies /\ seen \in 0 .. 2
      /\ unnoticed \in BOOLEAN
  BY DEF SpyInv
<1>3. /\ spy' \in Spies /\ Lit(spy') = {Target(spy, content, scrollTop)} \ {NoTarget}
      /\ spy.scrollHeight = content.height => spy'.scrollHeight = spy.scrollHeight
      /\ spy.scrollHeight # content.height \/ Knows(spy, content) => Knows(spy', content)
  BY <1>1, <1>2, ProcessKeeps
<1>4. seen' \in 1 .. 2 /\ (seen' = 2 => seen > 0)
  <2>1. 2 \in Int /\ seen + 1 \in Int   BY <1>2
  <2>2. Min({2, seen + 1}) = IF 2 <= seen + 1 THEN 2 ELSE seen + 1   BY <2>1, LessOfTwo
  <2>3. seen' = Min({2, seen + 1})   BY <1>1
  <2> QED  BY <1>2, <2>2, <2>3
<1>5. unnoticed' => unnoticed /\ spy.scrollHeight = content.height   BY <1>1
<1>6. unnoticed' => spy'.scrollHeight = content.height   BY <1>3, <1>5
<1>7. ~unnoticed' /\ spy.scrollHeight = content.height => ~unnoticed /\ seen > 0 /\ Knows(spy, content)
  <2> SUFFICES ASSUME ~unnoticed', spy.scrollHeight = content.height
               PROVE  ~unnoticed /\ seen > 0 /\ Knows(spy, content)
    OBVIOUS
  <2>1. ~unnoticed   BY <1>1, <1>2
  <2>2. seen > 0   BY <1>2, <2>1 DEF SpyInv
  <2> QED  BY <2>1, <2>2 DEF SpyInv
<1>8. AtSections' = AtSections   BY <1>1, Zenon DEF AtSections
<1>9. LitWhereOneIs'
  <2> SUFFICES ASSUME ~unnoticed', seen' = 2, content'.visible # {}
               PROVE  IF AtSections' = {} THEN lit' = {} ELSE \E t \in AtSections' : lit' = {t}
    BY DEF LitWhereOneIs
  <2>1. Knows(spy, content)
    <3>1. CASE spy.scrollHeight = content.height   BY <1>7, <3>1
    <3>2. CASE spy.scrollHeight # content.height
      <4>1. seen > 0 /\ ~unnoticed   BY <1>4, <3>2 DEF SpyInv
      <4> QED  BY <4>1 DEF SpyInv
    <3> QED  BY <3>1, <3>2
  <2>2. content.visible # {}   BY <1>1
  <2>3. IF AtSections = {} THEN {Target(spy, content, scrollTop)} \ {NoTarget} = {}
        ELSE \E u \in AtSections : {Target(spy, content, scrollTop)} \ {NoTarget} = {u}
    BY <1>2, <2>1, <2>2, ProcessedIsRight
  <2> QED  BY <1>1, <1>3, <1>8, <2>3
<1>10. unnoticed' \in BOOLEAN   BY <1>1, <1>2
<1>11. Within(content') = Within(content)   BY <1>1
<1>12. ~unnoticed' => Knows(spy', content')   BY <1>1, <1>3, <1>7
<1>13. /\ seen' \in 0 .. 2 /\ ~(seen' = 0)
       /\ ~unnoticed' => Knows(spy, content)'
  BY <1>4, <1>12, PrimedSpy
<1>14. scrollTop' \in Within(content)' /\ lit' = Lit(spy)' /\ scrolled' \in BOOLEAN
  BY <1>1, <1>2, <1>11, PrimedSpy
<1>15. unnoticed' => spy'.scrollHeight = content'.height   BY <1>1, <1>6
<1> QED  BY <1>1, <1>2, <1>3, <1>9, <1>10, <1>13, <1>14, <1>15, Zenon DEF SpyInv

\* The steps: the user scrolls, the page changes, refresh() is called, or nothing happens.
LEMMA ScrollKeeps == ASSUME SpyInv, Scroll PROVE SpyInv'
<1>1. /\ content' = content /\ scrollTop' \in Within(content) /\ scrolled' = TRUE
      /\ spy' = spy /\ lit' = lit /\ seen' = seen /\ unnoticed' = unnoticed
  BY DEF Scroll
<1>2. Lit(spy)' = Lit(spy) /\ Within(content)' = Within(content)   BY <1>1
<1>3. Knows(spy, content)' <=> Knows(spy, content)   BY <1>1, Zenon
<1>4. LitWhereOneIs'   BY <1>1 DEF LitWhereOneIs
<1> QED  BY <1>1, <1>2, <1>3, <1>4 DEF SpyInv

\* The page changes: what was measured may no longer be so.
LEMMA ContentChangesKeeps == ASSUME SpyInv, ContentChanges PROVE SpyInv'
<1>1. /\ content' \in Contents /\ scrollTop' = Max({y \in Within(content') : y <= scrollTop})
      /\ scrolled' = (scrolled \/ scrollTop' # scrollTop) /\ seen' = 0
      /\ unnoticed' = (content'.height = spy.scrollHeight) /\ spy' = spy /\ lit' = lit
  BY DEF ContentChanges
<1>2. scrollTop' \in Within(content')
  <2> DEFINE T == {y \in Within(content') : y <= scrollTop}
  <2>1. T \subseteq Nat /\ scrollTop \in Nat /\ 0 \in T /\ \A y \in T : y <= scrollTop
    <3>1. scrollTop \in Steps   BY DEF SpyInv, Within
    <3>2. 0 \in Within(content')   BY SpyAssumption DEF Within
    <3>3. Within(content') \subseteq Steps   BY DEF Within
    <3>4. T \subseteq Steps /\ \A y \in T : y <= scrollTop   BY <3>3
    <3>5. 0 <= scrollTop   BY <3>1, SpyAssumption
    <3> QED  BY <3>1, <3>2, <3>4, <3>5, SpyAssumption
  <2> HIDE DEF T
  <2>2. \E x \in T : \A y \in T : x >= y
    <3>1. PICK x \in T : \A y \in T : y <= x   BY <2>1, LargestNumber
    <3>2. \A y \in T : x >= y   BY <2>1, <3>1
    <3> QED  BY <3>2
  <2>3. Max(T) \in T   BY <2>2, Zenon DEF Max
  <2> QED  BY <1>1, <2>3 DEF T
<1>3. spy' \in Spies /\ lit' = Lit(spy')   BY <1>1 DEF SpyInv
<1>4. LitWhereOneIs'   BY <1>1 DEF LitWhereOneIs
<1>5. scrolled' \in BOOLEAN /\ unnoticed' \in BOOLEAN   BY <1>1
<1>6. unnoticed' => spy'.scrollHeight = content'.height   BY <1>1
<1>7. ~unnoticed' => spy'.scrollHeight # content'.height   BY <1>1
<1> QED  BY <1>1, <1>2, <1>3, <1>4, <1>5, <1>6, <1>7 DEF SpyInv

\* refresh() measures, and shows what it found.
LEMMA RefreshKeeps == ASSUME SpyInv, RefreshCalled PROVE SpyInv'
<1>1. /\ content' = content /\ scrollTop' = scrollTop /\ scrolled' = scrolled /\ lit' = lit
      /\ spy' \in Measured(spy, content) /\ seen' = 1 /\ unnoticed' = FALSE
  BY DEF RefreshCalled
<1>2. content \in Contents /\ scrollTop \in Within(content) /\ spy \in Spies /\ scrolled \in BOOLEAN
  BY DEF SpyInv
<1>3. spy = [offsets |-> spy.offsets, targets |-> spy.targets, activeTarget |-> spy.activeTarget,
             scrollHeight |-> spy.scrollHeight] /\ spy.activeTarget \in Sections \union {NoTarget}
  BY <1>2, SpyFields
<1>4. spy' \in Spies /\ Knows(spy', content) /\ spy'.activeTarget = spy.activeTarget
  BY <1>1, <1>2, <1>3, MeasuredKnows
<1>5. lit' = Lit(spy')   BY <1>1, <1>4 DEF SpyInv, Lit
<1>6. LitWhereOneIs'   BY <1>1 DEF LitWhereOneIs
<1>7. Within(content') = Within(content)   BY <1>1
<1>8. /\ unnoticed' => spy'.scrollHeight = content'.height
      /\ ~unnoticed' /\ seen' = 0 => spy'.scrollHeight # content'.height
      /\ seen' \in 0 .. 2
  BY <1>1
<1>9. Knows(spy, content)'   BY <1>1, <1>4, PrimedSpy
<1>10. scrollTop' \in Within(content)' /\ lit' = Lit(spy)'   BY <1>1, <1>2, <1>5, <1>7, PrimedSpy
<1>11. scrolled' \in BOOLEAN /\ unnoticed' \in BOOLEAN   BY <1>1, <1>2, Zenon
<1> QED  BY <1>1, <1>2, <1>4, <1>6, <1>8, <1>9, <1>10, <1>11, Zenon DEF SpyInv

\* The first refresh() knows the page.
LEMMA SpyInitInv == SpyInit => SpyInv
<1> SUFFICES ASSUME SpyInit PROVE SpyInv   OBVIOUS
<1> DEFINE new == [offsets |-> << >>, targets |-> << >>, activeTarget |-> NoTarget, scrollHeight |-> 0]
<1>1. /\ content \in Contents /\ scrollTop \in Within(content) /\ scrolled = FALSE /\ lit = Lit(spy)
      /\ seen = 2 /\ unnoticed = FALSE
  BY DEF SpyInit
<1>2. PICK n \in Measured(new, content) : spy \in Process(n, content, scrollTop)   BY Zenon DEF SpyInit
<1>3. n \in Spies /\ Knows(n, content)
  <2>1. \E h, o, t : new = [offsets |-> o, targets |-> t, activeTarget |-> NoTarget, scrollHeight |-> h]
    OBVIOUS
  <2>2. NoTarget \in Sections \union {NoTarget}   OBVIOUS
  <2> HIDE DEF new
  <2> QED  BY <1>1, <1>2, <2>1, <2>2, MeasuredKnows
<1>5. spy \in Spies /\ Lit(spy) = {Target(n, content, scrollTop)} \ {NoTarget} /\ Knows(spy, content)
  BY <1>1, <1>2, <1>3, ProcessKeeps
<1>6. LitWhereOneIs
  <2> SUFFICES ASSUME content.visible # {}
               PROVE  IF AtSections = {} THEN lit = {} ELSE \E t \in AtSections : lit = {t}
    BY DEF LitWhereOneIs
  <2>1. IF AtSections = {} THEN {Target(n, content, scrollTop)} \ {NoTarget} = {}
        ELSE \E u \in AtSections : {Target(n, content, scrollTop)} \ {NoTarget} = {u}
    BY <1>1, <1>3, ProcessedIsRight
  <2> QED  BY <1>1, <1>5, <2>1
<1>7. /\ unnoticed => spy.scrollHeight = content.height
      /\ ~unnoticed /\ seen = 0 => spy.scrollHeight # content.height
      /\ ~unnoticed /\ seen > 0 => Knows(spy, content)
  BY <1>1, <1>5
<1>8. seen \in 0 .. 2   BY <1>1
<1>9. scrolled \in BOOLEAN /\ unnoticed \in BOOLEAN   BY <1>1, Zenon
<1> QED  BY <1>1, <1>5, <1>6, <1>7, <1>8, <1>9, Zenon DEF SpyInv

\* Nothing changes.
LEMMA SpyStutterKeeps == ASSUME SpyInv, UNCHANGED spyVars PROVE SpyInv'
<1>1. /\ content' = content /\ scrollTop' = scrollTop /\ scrolled' = scrolled /\ lit' = lit
      /\ spy' = spy /\ seen' = seen /\ unnoticed' = unnoticed
  BY DEF spyVars
<1>2. Within(content)' = Within(content) /\ Lit(spy)' = Lit(spy) /\ AtSections' = AtSections
  BY <1>1, Zenon DEF AtSections
<1>3. LitWhereOneIs'   BY <1>1, <1>2 DEF SpyInv, LitWhereOneIs
<1> QED  BY <1>1, <1>2, <1>3 DEF SpyInv

\* The inductive invariant of the scrollspy: what the object knows of the content.
THEOREM SpyInvariance == SpySpec => []SpyInv
<1>1. SpyInv /\ [SpyNext]_spyVars => SpyInv'
  BY ScrollEventKeeps, ScrollKeeps, ContentChangesKeeps, RefreshKeeps, SpyStutterKeeps DEF SpyNext
<1> QED  BY <1>1, SpyInitInv, PTL DEF SpySpec

\* Once the page is known - two scroll events since it changed, and not a change that kept
\* the height - and no scroll event is to come, the link that is lit is of the section the
\* view is in, and none is above the first (ScrollSpy.prototype.process and refresh).
THEOREM SpyLightsWhereOneIs == SpySpec => []LitWhereOneIs
<1>1. SpyInv => LitWhereOneIs   BY DEF SpyInv
<1> QED  BY <1>1, SpyInvariance, PTL
-----------------------------------------------------------------------------
(* Tabs.                                                                     *)

\* The classes of the panes.
PaneStates == [active : SUBSET Panes, in : SUBSET Panes, fading : SUBSET Panes]

\* The functions that wait for pane a.
WaitsFor(a) == [to : Panes, found : {{a}}, on : {{a}}, timer : {TRUE}]

\* While panes fade all wait for the one that was active.
TabInv ==
  /\ tabFade \in BOOLEAN /\ tab \in Panes /\ hasty \in BOOLEAN /\ crowded \in BOOLEAN
  /\ ~crowded =>
       /\ pane \in PaneStates /\ (~tabFade => pane.in = {})
       /\ waits = << >> =>
            /\ tab \in pane.active /\ (tabFade => tab \in pane.in)
            /\ ~hasty => pane.active = {tab} /\ pane.in \subseteq {tab}
       /\ waits # << >> =>
            /\ tabFade /\ waits[Len(waits)].to = tab
            /\ \E a \in Panes : pane.active = {a} /\ waits \in Seq(WaitsFor(a))
            /\ ~hasty => Len(waits) = 1 /\ pane.in = {}

\* What a next() function does to the panes.
LEMMA ShowNextIs ==
  ASSUME NEW p \in PaneStates, NEW w, w.to \in Panes
  PROVE  /\ ShowNext(p, w) \in PaneStates
         /\ ShowNext(p, w).active = (p.active \ w.found) \union {w.to}
         /\ ShowNext(p, w).in = IF tabFade THEN p.in \union {w.to} ELSE p.in
  BY DEF ShowNext, PaneStates

\* A stage of RunEnds.
Ended(b, w, e) ==
    LET left == IF e \in w.found THEN [w EXCEPT !.on = @ \ {e}, !.timer = FALSE] ELSE w
    IN  [pane  |-> IF e \in w.on THEN ShowNext(b.pane, w) ELSE b.pane,
         waits |-> IF left.on = {} THEN b.waits ELSE Append(b.waits, left)]
\* The stages of an end: each function that waits is handled after those before it.
Run(r, s, e) ==
    r = [i \in 0 .. Len(s.waits) |->
           IF i = 0 THEN [pane |-> s.pane, waits |-> << >>] ELSE Ended(r[i - 1], s.waits[i], e)]

\* The recursive function of the code's trigger is such a run.
LEMMA RunEndsIs ==
  ASSUME NEW s, NEW e, NEW known, Run(known, s, e)
  PROVE  \E r : Run(r, s, e) /\ RunEnds(s, e) = r[Len(s.waits)]
<1> DEFINE r == CHOOSE f : Run(f, s, e)
<1>1. RunEnds(s, e) = r[Len(s.waits)]   BY DEF RunEnds, Run, Ended
<1> QED  BY <1>1

\* The end of a fade nobody waits for.
LEMMA NobodyWaits ==
  ASSUME NEW p, NEW a \in Panes, NEW w \in Seq(WaitsFor(a)), NEW e, e # a
  PROVE  RunEnds([pane |-> p, waits |-> w], e) = [pane |-> p, waits |-> w]
<1> DEFINE s == [pane |-> p, waits |-> w]
           n == Len(w)
           known == [i \in 0 .. n |-> [pane |-> p, waits |-> SubSeq(w, 1, i)]]
<1>1. n \in Nat /\ \A i \in 1 .. n : w[i] \in WaitsFor(a)   OBVIOUS
<1>2. \A b, i : i \in 1 .. n => Ended(b, w[i], e) = [pane |-> b.pane, waits |-> Append(b.waits, w[i])]
  <2> SUFFICES ASSUME NEW b, NEW i \in 1 .. n
               PROVE  Ended(b, w[i], e) = [pane |-> b.pane, waits |-> Append(b.waits, w[i])]
    OBVIOUS
  <2>1. w[i].found = {a} /\ w[i].on = {a}   BY <1>1 DEF WaitsFor
  <2> QED  BY <2>1 DEF Ended
<1>3. \A i \in 1 .. n : Append(SubSeq(w, 1, i - 1), w[i]) = SubSeq(w, 1, i)
  OBVIOUS
<1>4. SubSeq(w, 1, 0) = << >> /\ SubSeq(w, 1, n) = w   OBVIOUS
<1>5. Run(known, s, e)
  <2> DEFINE h == [i \in 0 .. n |-> IF i = 0 THEN [pane |-> p, waits |-> << >>]
                                    ELSE Ended(known[i - 1], w[i], e)]
  <2>1. ASSUME NEW i \in 0 .. n   PROVE  known[i] = h[i]
    <3>1. CASE i = 0   BY <1>4, <3>1
    <3>2. CASE i # 0
      <4>1. i \in 1 .. n /\ i - 1 \in 0 .. n   BY <3>2
      <4>2. known[i - 1] = [pane |-> p, waits |-> SubSeq(w, 1, i - 1)]   BY <4>1
      <4>3. h[i] = Ended(known[i - 1], w[i], e)   BY <3>2
      <4> HIDE DEF h
      <4> QED  BY <1>2, <1>3, <4>1, <4>2, <4>3
    <3> QED  BY <3>1, <3>2
  <2>2. known = h   BY <2>1
  <2> HIDE DEF known
  <2> QED  BY <2>2 DEF Run
<1> HIDE DEF known
<1>6. PICK r : Run(r, s, e) /\ RunEnds(s, e) = r[n]   BY <1>5, RunEndsIs
<1> DEFINE T == {i \in Nat : i <= n => r[i] = [pane |-> p, waits |-> SubSeq(w, 1, i)]}
<1>7. \A i \in 0 .. n : r[i] = IF i = 0 THEN [pane |-> p, waits |-> << >>] ELSE Ended(r[i - 1], w[i], e)
  BY <1>6 DEF Run
<1>8. 0 \in T   BY <1>1, <1>4, <1>7
<1>9. ASSUME NEW i \in Nat, i \in T   PROVE  i + 1 \in T
  <2> SUFFICES ASSUME i + 1 <= n   PROVE r[i + 1] = [pane |-> p, waits |-> SubSeq(w, 1, i + 1)]
    OBVIOUS
  <2>1. i + 1 \in 1 .. n /\ i + 1 \in 0 .. n /\ (i + 1) - 1 = i /\ i <= n /\ i + 1 # 0   BY <1>1
  <2>2. r[i + 1] = Ended(r[i], w[i + 1], e)   BY <1>7, <2>1
  <2>3. r[i] = [pane |-> p, waits |-> SubSeq(w, 1, i)]   BY <1>9, <2>1
  <2>4. Append(SubSeq(w, 1, i), w[i + 1]) = SubSeq(w, 1, i + 1)   BY <1>3, <2>1
  <2> QED  BY <1>2, <2>1, <2>2, <2>3, <2>4
<1> HIDE DEF T
<1>10. n \in T   BY <1>1, <1>8, <1>9, Induction
<1> QED  BY <1>1, <1>4, <1>6, <1>10 DEF T


\* A pane is shown, and it is the tab's.
Follows(q, p, w) ==
  /\ w[Len(w)].to \in q.active /\ w[Len(w)].to \in q.in
  /\ Len(w) = 1 => q.active = {w[1].to} /\ q.in = p.in \union {w[1].to}

\* The end of the fade they wait for: the panes follow one after the other.
LEMMA TheyFollow ==
  ASSUME tabFade = TRUE, NEW p \in PaneStates, NEW a \in Panes, p.active = {a},
         NEW w \in Seq(WaitsFor(a)), w # << >>
  PROVE  \E q \in PaneStates :
            RunEnds([pane |-> p, waits |-> w], a) = [pane |-> q, waits |-> << >>] /\ Follows(q, p, w)
<1> DEFINE s == [pane |-> p, waits |-> w]
           n == Len(w)
           next == [i \in Nat |-> [q \in PaneStates |-> IF i \in 1 .. n THEN ShowNext(q, w[i]) ELSE q]]
<1>1. n \in Nat /\ n > 0 /\ \A i \in 1 .. n : w[i] \in WaitsFor(a) /\ w[i].to \in Panes
  <2>1. n \in Nat /\ n > 0 /\ \A i \in 1 .. n : w[i] \in WaitsFor(a)   OBVIOUS
  <2>2. \A v \in WaitsFor(a) : v.to \in Panes   BY DEF WaitsFor
  <2> HIDE DEF n
  <2> QED  BY <2>1, <2>2
<1>2. next \in [Nat -> [PaneStates -> PaneStates]]
  <2>1. \A i \in 1 .. n, q \in PaneStates : ShowNext(q, w[i]) \in PaneStates   BY <1>1, ShowNextIs
  <2> QED  BY <2>1
<1>3. PICK f \in [0 .. n -> PaneStates] : Stages(f, p, next, n)
  <2> HIDE DEF next, n
  <2> QED  BY <1>1, <1>2, StagesExist
<1>4. \A i \in 1 .. n : f[i - 1] \in PaneStates /\ f[i] = ShowNext(f[i - 1], w[i])
  <2> TAKE i \in 1 .. n
  <2>1. i \in Nat /\ i - 1 \in 0 .. n   BY <1>1
  <2>2. f[i - 1] \in PaneStates   BY <2>1
  <2> QED  BY <1>3, <2>1, <2>2 DEF Stages
<1>16. f[0] = p   BY <1>3 DEF Stages
<1> HIDE DEF next
<1> DEFINE known == [i \in 0 .. n |-> [pane |-> f[i], waits |-> << >>]]
<1>5. \A b, i : i \in 1 .. n => Ended(b, w[i], a) = [pane |-> ShowNext(b.pane, w[i]), waits |-> b.waits]
  <2> SUFFICES ASSUME NEW b, NEW i \in 1 .. n
               PROVE  Ended(b, w[i], a) = [pane |-> ShowNext(b.pane, w[i]), waits |-> b.waits]
    OBVIOUS
  <2> DEFINE v == w[i]
             left == [v EXCEPT !.on = @ \ {a}, !.timer = FALSE]
  <2>1. v.found = {a} /\ v.on = {a} /\ v \in WaitsFor(a)   BY <1>1 DEF WaitsFor
  <2>2. left.on = {}   BY <2>1 DEF WaitsFor
  <2>3. a \in v.found /\ a \in v.on   BY <2>1
  <2> HIDE DEF v
  <2>4. Ended(b, v, a) = [pane |-> ShowNext(b.pane, v), waits |-> b.waits]   BY <2>2, <2>3 DEF Ended
  <2> QED  BY <2>4 DEF v
<1>6. Run(known, s, a)
  <2> DEFINE h == [i \in 0 .. n |-> IF i = 0 THEN [pane |-> p, waits |-> << >>]
                                    ELSE Ended(known[i - 1], w[i], a)]
  <2>1. ASSUME NEW i \in 0 .. n   PROVE  known[i] = h[i]
    <3>1. CASE i = 0   BY <1>16, <3>1
    <3>2. CASE i # 0
      <4>1. i \in 1 .. n /\ i - 1 \in 0 .. n   BY <3>2
      <4>2. known[i - 1] = [pane |-> f[i - 1], waits |-> << >>] /\ known[i] = [pane |-> f[i], waits |-> << >>]
        BY <4>1
      <4>3. h[i] = Ended(known[i - 1], w[i], a)   BY <3>2
      <4> HIDE DEF h, known
      <4> QED  BY <1>4, <1>5, <4>1, <4>2, <4>3
    <3> QED  BY <3>1, <3>2
  <2>2. known = h   BY <2>1
  <2> HIDE DEF known
  <2> QED  BY <2>2 DEF Run
<1> HIDE DEF known
<1>7. PICK r : Run(r, s, a) /\ RunEnds(s, a) = r[n]   BY <1>6, RunEndsIs
<1> DEFINE T == {i \in Nat : i <= n => r[i] = [pane |-> f[i], waits |-> << >>]}
<1>8. \A i \in 0 .. n : r[i] = IF i = 0 THEN [pane |-> p, waits |-> << >>] ELSE Ended(r[i - 1], w[i], a)
  BY <1>7 DEF Run
<1>9. 0 \in T   BY <1>1, <1>16, <1>8
<1>10. ASSUME NEW i \in Nat, i \in T   PROVE  i + 1 \in T
  <2> SUFFICES ASSUME i + 1 <= n   PROVE r[i + 1] = [pane |-> f[i + 1], waits |-> << >>]
    OBVIOUS
  <2>1. i + 1 \in 1 .. n /\ i + 1 \in 0 .. n /\ (i + 1) - 1 = i /\ i <= n /\ i + 1 # 0   BY <1>1
  <2>2. r[i + 1] = Ended(r[i], w[i + 1], a)   BY <1>8, <2>1
  <2>3. r[i] = [pane |-> f[i], waits |-> << >>]   BY <1>10, <2>1
  <2>4. f[i + 1] = ShowNext(f[i], w[i + 1])   BY <1>4, <2>1
  <2> QED  BY <1>5, <2>1, <2>2, <2>3, <2>4
<1> HIDE DEF T
<1>11. n \in T   BY <1>1, <1>9, <1>10, Induction
<1>12. RunEnds(s, a) = [pane |-> f[n], waits |-> << >>]   BY <1>1, <1>7, <1>11 DEF T
<1>13. n \in 1 .. n /\ 1 \in 1 .. n   BY <1>1
<1>14. /\ f[n] \in PaneStates /\ f[n].active = (f[n - 1].active \ w[n].found) \union {w[n].to}
       /\ f[n].in = f[n - 1].in \union {w[n].to}
  BY <1>1, <1>4, <1>13, ShowNextIs
<1>15. n = 1 => f[n].active = {w[1].to} /\ f[n].in = p.in \union {w[1].to}
  <2> SUFFICES ASSUME n = 1 PROVE f[n].active = {w[1].to} /\ f[n].in = p.in \union {w[1].to}
    OBVIOUS
  <2>1. f[n - 1] = p /\ w[n].found = {a}   BY <1>1, <1>16, <1>13 DEF WaitsFor
  <2> QED  BY <1>14, <2>1
<1> QED  BY <1>12, <1>14, <1>15 DEF Follows

\* What is found active was one pane.
LEMMA EndOfOne ==
  ASSUME NEW s, NEW a \in Panes
  PROVE  EndAll(s, {a}) = RunEnds(s, a)
<1> DEFINE Ends(r) == r = [e \in 0 .. a |-> IF e = 0 THEN s ELSE IF e \in {a} THEN RunEnds(r[e - 1], e)
                                             ELSE r[e - 1]]
           known == [e \in 0 .. a |-> IF e < a THEN s ELSE RunEnds(s, a)]
           r0 == CHOOSE r : Ends(r)
<1>1. a \in Nat /\ a > 0   BY TabAssumption
<1>2. Max({a}) = a
  <2>1. a \in {a} /\ \A y \in {a} : a >= y   BY <1>1
  <2>2. \A x \in {a} : x = a   OBVIOUS
  <2> QED  BY <2>1, <2>2, Zenon DEF Max
<1>3. EndAll(s, {a}) = r0[a]   BY <1>2 DEF EndAll
<1>4. Ends(known)
  <2> DEFINE h == [e \in 0 .. a |-> IF e = 0 THEN s ELSE IF e \in {a} THEN RunEnds(known[e - 1], e)
                                    ELSE known[e - 1]]
  <2>1. ASSUME NEW e \in 0 .. a   PROVE known[e] = h[e]
    <3>1. CASE e = 0   BY <1>1, <3>1
    <3>2. CASE e # 0
      <4>1. e - 1 \in 0 .. a /\ e - 1 < a   BY <1>1, <3>2
      <4>2. known[e - 1] = s   BY <4>1
      <4>3. h[e] = IF e \in {a} THEN RunEnds(known[e - 1], e) ELSE known[e - 1]   BY <3>2
      <4>4. known[e] = IF e < a THEN s ELSE RunEnds(s, a)   OBVIOUS
      <4> HIDE DEF h, known
      <4> QED  BY <1>1, <4>2, <4>3, <4>4
    <3> QED  BY <3>1, <3>2
  <2>2. known = h   BY <2>1
  <2> HIDE DEF known
  <2> QED  BY <2>2
<1> HIDE DEF known
<1>5. r0 = [e \in 0 .. a |-> IF e = 0 THEN s ELSE IF e \in {a} THEN RunEnds(r0[e - 1], e) ELSE r0[e - 1]]
  BY <1>4
<1> HIDE DEF r0
<1> DEFINE T == {e \in Nat : e < a => r0[e] = s}
<1>6. 0 \in T   BY <1>1, <1>5
<1>7. ASSUME NEW e \in Nat, e \in T   PROVE e + 1 \in T
  <2> SUFFICES ASSUME e + 1 < a PROVE r0[e + 1] = s   OBVIOUS
  <2>1. e + 1 \in 0 .. a /\ (e + 1) - 1 = e /\ e + 1 # 0 /\ e + 1 \notin {a} /\ e < a   BY <1>1
  <2>2. r0[e + 1] = r0[e]   BY <1>5, <2>1
  <2> QED  BY <1>7, <2>1, <2>2
<1> HIDE DEF T
<1>8. a - 1 \in T   BY <1>1, <1>6, <1>7, Induction
<1>9. r0[a - 1] = s   BY <1>1, <1>8 DEF T
<1>10. a \in 0 .. a /\ a # 0   BY <1>1
<1>11. r0[a] = RunEnds(r0[a - 1], a)   BY <1>5, <1>10
<1> QED  BY <1>3, <1>9, <1>11

\* The end of a fade, whoever tells of it.
LEMMA EndKeeps ==
  ASSUME TabInv, NEW p, NEW e, pane \in PaneStates => p \in PaneStates,
         p.active = pane.active, p.in = pane.in,
         UNCHANGED <<tabFade, tab, tabOps, hasty, crowded>>,
         LET after == RunEnds([pane |-> p, waits |-> waits], e)
         IN  pane' = after.pane /\ waits' = after.waits
  PROVE  TabInv'
<1> SUFFICES ASSUME ~crowded
             PROVE  /\ pane' \in PaneStates /\ (~tabFade => pane'.in = {})
                    /\ waits' = << >> =>
                         /\ tab \in pane'.active /\ (tabFade => tab \in pane'.in)
                         /\ ~hasty => pane'.active = {tab} /\ pane'.in \subseteq {tab}
                    /\ waits' # << >> =>
                         /\ tabFade /\ waits'[Len(waits')].to = tab
                         /\ \E a \in Panes : pane'.active = {a} /\ waits' \in Seq(WaitsFor(a))
                         /\ ~hasty => Len(waits') = 1 /\ pane'.in = {}
  BY DEF TabInv, WaitsFor
<1>1. pane \in PaneStates /\ p \in PaneStates   BY DEF TabInv
<1>2. CASE waits = << >>
  <2>1. PICK a \in Panes : a # e \/ a = e   BY DEF TabInv
  <2>2. RunEnds([pane |-> p, waits |-> << >>], e) = [pane |-> p, waits |-> << >>]
    <3> DEFINE known == [i \in 0 .. 0 |-> [pane |-> p, waits |-> << >>]]
               s == [pane |-> p, waits |-> << >>]
    <3>1. Run(known, s, e)
      <4>1. Len(s.waits) = 0   OBVIOUS
      <4>2. known = [i \in 0 .. 0 |-> IF i = 0 THEN [pane |-> p, waits |-> << >>]
                                      ELSE Ended(known[i - 1], s.waits[i], e)]
        OBVIOUS
      <4> HIDE DEF known, s
      <4>3. s.pane = p   BY DEF s
      <4> QED  BY <4>1, <4>2, <4>3 DEF Run
    <3> HIDE DEF known
    <3>2. PICK r : Run(r, s, e) /\ RunEnds(s, e) = r[Len(s.waits)]   BY <3>1, RunEndsIs
    <3>3. 0 \in 0 .. 0 /\ Len(s.waits) = 0   OBVIOUS
    <3>4. r[0] = [pane |-> s.pane, waits |-> << >>]   BY <3>2, <3>3 DEF Run
    <3> QED  BY <3>2, <3>3, <3>4
  <2>3. pane' = p /\ waits' = << >>   BY <1>2, <2>2
  <2> QED  BY <1>1, <1>2, <2>3 DEF TabInv
<1>3. CASE waits # << >>
  <2>1. PICK a \in Panes : pane.active = {a} /\ waits \in Seq(WaitsFor(a))   BY <1>3 DEF TabInv
  <2>2. /\ tabFade = TRUE /\ waits[Len(waits)].to = tab
        /\ ~hasty => Len(waits) = 1 /\ pane.in = {}
    BY <1>3 DEF TabInv
  <2>3. CASE e = a
    <3>1. PICK q \in PaneStates :
            RunEnds([pane |-> p, waits |-> waits], a) = [pane |-> q, waits |-> << >>]
            /\ Follows(q, p, waits)
      <4>1. p.active = {a}   BY <2>1
      <4> QED  BY <1>1, <1>3, <2>1, <2>2, <4>1, TheyFollow
    <3>2. pane' = q /\ waits' = << >>   BY <2>3, <3>1
    <3>3. ~hasty => q.active = {tab} /\ q.in \subseteq {tab}   BY <2>2, <3>1 DEF Follows
    <3> QED  BY <2>2, <3>1, <3>2, <3>3 DEF Follows
  <2>4. CASE e # a
    <3>1. RunEnds([pane |-> p, waits |-> waits], e) = [pane |-> p, waits |-> waits]
      BY <2>1, <2>4, NobodyWaits
    <3>2. pane' = p /\ waits' = waits   BY <3>1
    <3> QED  BY <1>1, <1>3, <2>1, <2>2, <3>2
  <2> QED  BY <2>3, <2>4
<1> QED  BY <1>2, <1>3

\* A fade ends in the browser.
LEMMA FadeOverKeeps == ASSUME TabInv, NEW e \in Panes, FadeOver(e) PROVE TabInv'
<1> DEFINE p == [pane EXCEPT !.fading = @ \ {e}]
<1>1. pane \in PaneStates => p \in PaneStates   BY DEF PaneStates
<1>2. CASE crowded   BY <1>2 DEF FadeOver, TabInv
<1>3. CASE ~crowded
  <2>1. p.active = pane.active /\ p.in = pane.in   BY <1>3 DEF TabInv, PaneStates
  <2>2. /\ UNCHANGED <<tabFade, tab, tabOps, hasty, crowded>>
        /\ LET after == RunEnds([pane |-> p, waits |-> waits], e)
           IN  pane' = after.pane /\ waits' = after.waits
    BY DEF FadeOver
  <2> HIDE DEF p
  <2> QED  BY <1>1, <2>1, <2>2, EndKeeps
<1> QED  BY <1>2, <1>3 DEF TabInv

\* The emulation of an end comes true.
LEMMA FadeTimeoutKeeps == ASSUME TabInv, NEW i \in DOMAIN waits, FadeTimeout(i) PROVE TabInv'
<1>1. CASE crowded   BY <1>1 DEF FadeTimeout, TabInv
<1>2. CASE ~crowded
  <2>1. waits # << >>   BY DEF FadeTimeout
  <2>2. PICK a \in Panes : pane.active = {a} /\ waits \in Seq(WaitsFor(a))   BY <1>2, <2>1 DEF TabInv
  <2>3. waits[i].found = {a}
    <3>1. waits[i] \in WaitsFor(a)   BY <2>2
    <3> QED  BY <3>1 DEF WaitsFor
  <2>4. /\ UNCHANGED <<tabFade, tab, tabOps, hasty, crowded>>
        /\ LET after == RunEnds([pane |-> pane, waits |-> waits], a)
           IN  pane' = after.pane /\ waits' = after.waits
    BY <2>2, <2>3, EndOfOne DEF FadeTimeout
  <2> QED  BY <2>4, EndKeeps
<1> QED  BY <1>1, <1>2 DEF TabInv

\* A click on a tab.
LEMMA ShowTabKeeps == ASSUME TabInv, NEW p \in Panes, ShowTab(p) PROVE TabInv'
<1> SUFFICES ASSUME ~crowded'
             PROVE  /\ pane' \in PaneStates /\ (~tabFade => pane'.in = {})
                    /\ waits' = << >> =>
                         /\ p \in pane'.active /\ (tabFade => p \in pane'.in)
                         /\ ~hasty' => pane'.active = {p} /\ pane'.in \subseteq {p}
                    /\ waits' # << >> =>
                         /\ tabFade /\ waits'[Len(waits')].to = p
                         /\ \E a \in Panes : pane'.active = {a} /\ waits' \in Seq(WaitsFor(a))
                         /\ ~hasty' => Len(waits') = 1 /\ pane'.in = {}
  <2>1. tab' = p /\ tabFade' = tabFade /\ hasty' \in BOOLEAN /\ crowded' \in BOOLEAN   BY DEF ShowTab, TabInv
  <2> QED  BY <2>1 DEF TabInv, WaitsFor
<1> DEFINE w == [to |-> p, found |-> pane.active, on |-> pane.active, timer |-> TRUE]
<1>1. ~crowded /\ ~(Cardinality(pane.active) > 1) /\ pane \in PaneStates   BY DEF ShowTab, TabInv
<1>2. pane.active # {}   BY <1>1 DEF TabInv
<1>3. PICK a \in Panes : pane.active = {a}
  <2>1. IsFiniteSet(pane.active)   BY <1>1, TabAssumption, FS_Subset DEF PaneStates
  <2>2. Cardinality(pane.active) \in Nat /\ Cardinality(pane.active) # 0   BY <1>2, <2>1, FS_CardinalityType, FS_EmptySet
  <2>3. Cardinality(pane.active) = 1   BY <1>1, <2>2
  <2>4. PICK a : pane.active = {a}   BY <2>1, <2>3, FS_Singleton
  <2> QED  BY <1>1, <2>4 DEF PaneStates
<1>4. CASE tabFade
  <2>1. /\ waits' = Append(waits, w)
        /\ pane' = [pane EXCEPT !.in = @ \ pane.active,
                                !.fading = @ \union (pane.active \intersect pane.in)]
        /\ hasty' = (hasty \/ waits # << >>)
    BY <1>2, <1>4 DEF ShowTab
  <2>2. w \in WaitsFor(a)   BY <1>3 DEF WaitsFor
  <2>3. waits \in Seq(WaitsFor(a))
    <3>1. CASE waits = << >>   BY <3>1
    <3>2. CASE waits # << >>
      <4>1. PICK b \in Panes : pane.active = {b} /\ waits \in Seq(WaitsFor(b))   BY <1>1, <3>2 DEF TabInv
      <4>2. b = a   BY <1>3, <4>1
      <4> QED  BY <4>1, <4>2
    <3> QED  BY <3>1, <3>2
  <2> HIDE DEF w
  <2>4. /\ waits' \in Seq(WaitsFor(a)) /\ waits' # << >> /\ Len(waits') = Len(waits) + 1
        /\ waits'[Len(waits')] = w
    BY <2>1, <2>2, <2>3
  <2>5. pane' \in PaneStates /\ pane'.active = {a} /\ pane'.in = pane.in \ {a}   BY <1>1, <1>3, <2>1 DEF PaneStates
  <2>6. ~hasty' => Len(waits') = 1 /\ pane'.in = {}
    <3> SUFFICES ASSUME ~hasty' PROVE Len(waits') = 1 /\ pane'.in = {}   OBVIOUS
    <3>1. ~hasty /\ waits = << >>   BY <2>1 DEF TabInv
    <3>2. pane.active = {tab} /\ pane.in \subseteq {tab}   BY <1>1, <3>1 DEF TabInv
    <3> QED  BY <1>3, <2>4, <2>5, <3>1, <3>2
  <2>7. w.to = p   BY DEF w
  <2> QED  BY <1>4, <2>4, <2>5, <2>6, <2>7
<1>5. CASE ~tabFade
  <2>1. pane' = ShowNext(pane, w) /\ waits' = waits /\ waits = << >>   BY <1>1, <1>5 DEF ShowTab, TabInv
  <2>2. pane' \in PaneStates /\ pane'.active = (pane.active \ w.found) \union {w.to} /\ pane'.in = pane.in
    BY <1>1, <1>5, <2>1, ShowNextIs
  <2>3. pane'.active = {p} /\ pane'.in = {}   BY <1>1, <1>5, <2>2 DEF TabInv
  <2> QED  BY <1>5, <2>1, <2>2, <2>3
<1> QED  BY <1>4, <1>5

\* At first one pane is shown.
LEMMA TabInitInv == TabInit => TabInv
<1> SUFFICES ASSUME TabInit PROVE TabInv   OBVIOUS
<1>1. /\ tabFade \in BOOLEAN /\ tab \in Panes /\ hasty = FALSE /\ crowded = FALSE /\ waits = << >>
      /\ pane = [active |-> {tab}, in |-> IF tabFade THEN {tab} ELSE {}, fading |-> {}]
  BY DEF TabInit
<1>2. pane \in PaneStates   BY <1>1 DEF PaneStates
<1>3. pane.active = {tab} /\ pane.in = IF tabFade THEN {tab} ELSE {}   BY <1>1
<1> QED  BY <1>1, <1>2, <1>3 DEF TabInv

\* The inductive invariant of the tabs: what waits waits for the one pane that is active.
THEOREM TabInvariance == TabSpec => []TabInv
<1>1. TabInv /\ UNCHANGED tabVars => TabInv'
  BY DEF TabInv, tabVars
<1>2. TabInv /\ [TabNext]_tabVars => TabInv'
  BY <1>1, FadeOverKeeps, FadeTimeoutKeeps, ShowTabKeeps DEF TabNext
<1> QED  BY <1>2, TabInitInv, PTL DEF TabSpec

\* However the clicks, the ends of fades and the timers cross, once nothing is awaited the
\* pane of the active tab is shown; it alone, unless a tab was chosen before the pane of
\* the last had come (Tab.prototype.show and activate).
THEOREM TabShowsPane == TabSpec => []TabShowsItsPane
<1>1. TabInv => TabShowsItsPane   BY DEF TabInv, TabShowsItsPane
<1> QED  BY <1>1, TabInvariance, PTL
-----------------------------------------------------------------------------
(* Tooltips and popovers.                                                    *)

\* What the end of a fade can mean to a tip.
EndKinds == {"shown", "hidden", "destroyed"}
\* The Tooltip object with the element of its tip.
Tips == [alive : BOOLEAN, enabled : BOOLEAN, inState : SUBSET Sources,
         hoverState : {"none", "in", "out"}, timeout : {"none", "show", "hide"}, in : BOOLEAN,
         fade : BOOLEAN, attached : BOOLEAN, ends : Seq(EndKinds)]
\* Its options.
TipOptions == [popover : BOOLEAN, manual : BOOLEAN, animation : BOOLEAN, showDelay : BOOLEAN,
               hideDelay : BOOLEAN]

\* Left, or to be left when the delay is over.
Gone(t) == /\ t.in = FALSE /\ t.hoverState \in {"none", "out"}
           /\ t.hoverState = "none" => t.timeout = "none"
           /\ t.hoverState = "out" => t.timeout = "hide" /\ tipOptions.hideDelay = TRUE /\ t.inState = {}

\* The tip is up; about to come; on its way out, or out; to be destroyed; destroyed.
Up(t, w) ==
  /\ t.alive = TRUE /\ t.in = TRUE /\ t.attached = TRUE /\ t.fade = tipOptions.animation
  /\ t.ends # << >> => /\ t.ends[Len(t.ends)] = "shown"
                       /\ \A i \in 1 .. Len(t.ends) - 1 : t.ends[i] = "hidden"
  /\ Len(t.ends) > 1 => t.hoverState = "in"
  /\ t.timeout \in {"none", "hide"} /\ (w = TRUE <=> t.hoverState # "out")
  /\ t.hoverState = "out" => t.timeout = "hide" /\ tipOptions.hideDelay = TRUE /\ t.inState = {}
\* It will come when the delay is over.
Coming(t, w) ==
  /\ t.alive = TRUE /\ t.in = FALSE /\ t.hoverState = "in" /\ t.timeout = "show" /\ w = TRUE
  /\ \A i \in 1 .. Len(t.ends) : t.ends[i] = "hidden"
\* It is out, or fading out.
Down(t, w) ==
  /\ t.alive = TRUE /\ Gone(t) /\ w = FALSE
  /\ \A i \in 1 .. Len(t.ends) : t.ends[i] # "destroyed"
  /\ t.ends # << >> => t.ends[Len(t.ends)] = "hidden"
  /\ t.ends = << >> /\ t.timeout = "none" => t.attached = FALSE
\* destroy() waits for its fade.
Going(t) == t.alive = TRUE /\ Gone(t) /\ \E i \in 1 .. Len(t.ends) : t.ends[i] = "destroyed"
\* It is destroyed.
Dead(t)  == t.alive = FALSE /\ Gone(t) /\ t.attached = FALSE /\ t.fade = FALSE /\ t.ends = << >>

\* A tip with content whose events were not crossed is in one of these phases.
TipPhase(t, w) ==
  /\ t \in Tips /\ t.enabled = TRUE
  /\ tipOptions.animation = FALSE => t.fade = FALSE
  /\ t.fade = FALSE => t.ends = << >>
  /\ IF tipOptions.manual = TRUE THEN t.inState = {} ELSE w = TRUE <=> t.inState # {}
  /\ Up(t, w) \/ Coming(t, w) \/ Down(t, w) \/ Going(t) \/ Dead(t)

\* Without content it never shows.
BareTip(t) ==
  /\ t \in Tips /\ t.in = FALSE /\ t.attached = FALSE /\ t.fade = FALSE /\ t.ends = << >>
  /\ t.alive = FALSE => t.timeout = "none"

\* The phases, while nothing crossed what had yet to end.
TipInv ==
  /\ tipOptions \in TipOptions /\ wanted \in BOOLEAN /\ crossed \in BOOLEAN
  /\ ~crossed => IF HasContent(text) THEN TipPhase(tip, wanted) ELSE BareTip(tip)

-----------------------------------------------------------------------------
(* What the methods do, field by field.                                      *)

\* One more end to wait for.
LEMMA EndsAppended ==
  ASSUME NEW e \in Seq(EndKinds), NEW x \in EndKinds
  PROVE  /\ Append(e, x) \in Seq(EndKinds) /\ Len(e) \in Nat /\ Len(Append(e, x)) = Len(e) + 1
         /\ Append(e, x) # << >> /\ Append(e, x)[Len(e) + 1] = x
         /\ \A i \in 1 .. Len(e) : Append(e, x)[i] = e[i]
  OBVIOUS

\* What hide() makes of a tip.
HidOf(t, does, u) ==
  /\ u \in Tips /\ u.in = FALSE /\ u.hoverState = "none" /\ u.timeout = t.timeout
  /\ u.inState = t.inState /\ u.enabled = t.enabled
  /\ t.fade = TRUE => /\ u.ends = Append(t.ends, does) /\ u.attached = t.attached
                      /\ u.alive = t.alive /\ u.fade = TRUE
  /\ t.fade = FALSE =>
       /\ u.ends = t.ends /\ u.fade = FALSE
       /\ does = "hidden" => u.alive = t.alive /\ (t.hoverState # "in" => u.attached = FALSE)
                             /\ (t.attached = FALSE => u.attached = FALSE)
       /\ does = "destroyed" => u.alive = FALSE /\ u.attached = FALSE

\* The code's hide() does so.
LEMMA HideTipIs ==
  ASSUME NEW t \in Tips, NEW does \in {"hidden", "destroyed"}
  PROVE  HidOf(t, does, HideTip(t, does))
<1> DEFINE u == HideTip(t, does)
<1>1. CASE t.fade = TRUE
  <2> DEFINE e == Append(t.ends, does)
  <2>1. u = [t EXCEPT !.in = FALSE, !.ends = e, !.hoverState = "none"]
    BY <1>1 DEF HideTip, Tips
  <2>2. e \in Seq(EndKinds)   BY DEF Tips, EndKinds
  <2> HIDE DEF u, e
  <2>3. u \in Tips   BY <2>1, <2>2 DEF Tips
  <2>4. /\ u.in = FALSE /\ u.hoverState = "none" /\ u.timeout = t.timeout
        /\ u.inState = t.inState /\ u.enabled = t.enabled
        /\ u.ends = e /\ u.attached = t.attached /\ u.alive = t.alive /\ u.fade = TRUE
    BY <1>1, <2>1 DEF Tips
  <2>5. ~(t.fade = FALSE)   BY <1>1
  <2>6. HidOf(t, does, u)   BY <2>3, <2>4, <2>5, Zenon DEF HidOf, e
  <2> QED  BY <2>6 DEF u
<1>2. CASE t.fade = FALSE /\ does = "hidden"
  <2> DEFINE a == IF t.hoverState # "in" THEN FALSE ELSE t.attached
  <2>1. u = [t EXCEPT !.in = FALSE, !.attached = a, !.hoverState = "none"]
    BY <1>2 DEF HideTip, TipHidden, Tips
  <2>2. a \in BOOLEAN   BY DEF Tips
  <2> HIDE DEF u, a
  <2>3. u \in Tips   BY <2>1, <2>2 DEF Tips
  <2>4. /\ u.in = FALSE /\ u.hoverState = "none" /\ u.timeout = t.timeout
        /\ u.inState = t.inState /\ u.enabled = t.enabled
        /\ u.ends = t.ends /\ u.attached = a /\ u.alive = t.alive /\ u.fade = FALSE
    BY <1>2, <2>1 DEF Tips
  <2>5. /\ ~(t.fade = TRUE) /\ does # "destroyed"
        /\ t.hoverState # "in" => a = FALSE
        /\ t.attached = FALSE => a = FALSE
    BY <1>2 DEF a
  <2>6. HidOf(t, does, u)   BY <2>3, <2>4, <2>5, Zenon DEF HidOf
  <2> QED  BY <2>6 DEF u
<1>3. CASE t.fade = FALSE /\ does = "destroyed"
  <2>1. u = [t EXCEPT !.in = FALSE, !.attached = FALSE, !.alive = FALSE, !.fade = FALSE, !.hoverState = "none"]
    BY <1>3 DEF HideTip, TipHidden, Tips
  <2> HIDE DEF u
  <2>3. u \in Tips   BY <2>1 DEF Tips
  <2>4. /\ u.in = FALSE /\ u.hoverState = "none" /\ u.timeout = t.timeout
        /\ u.inState = t.inState /\ u.enabled = t.enabled
        /\ u.ends = t.ends /\ u.attached = FALSE /\ u.alive = FALSE /\ u.fade = FALSE
    BY <2>1 DEF Tips
  <2>5. ~(t.fade = TRUE) /\ does # "hidden"   BY <1>3
  <2>6. HidOf(t, does, u)   BY <2>3, <2>4, <2>5, Zenon DEF HidOf
  <2> QED  BY <2>6 DEF u
<1> QED  BY <1>1, <1>2, <1>3 DEF Tips

\* What leave() makes of a tip.
LEMMA LeaveTipIs ==
  ASSUME tipOptions \in TipOptions, NEW t \in Tips
  PROVE  LET u == LeaveTip(t)
         IN  /\ t.inState # {} => u = t
             /\ t.inState = {} /\ tipOptions.hideDelay = TRUE =>
                  u \in Tips /\ u = [t EXCEPT !.timeout = "hide", !.hoverState = "out"]
             /\ t.inState = {} /\ tipOptions.hideDelay = FALSE =>
                  HidOf([t EXCEPT !.timeout = "none", !.hoverState = "out"], "hidden", u)
<1> DEFINE o == [t EXCEPT !.timeout = "none", !.hoverState = "out"]
<1>1. o \in Tips /\ tipOptions.hideDelay \in BOOLEAN   BY DEF Tips, TipOptions
<1>2. CASE t.inState # {}   BY <1>2 DEF LeaveTip
<1>3. CASE t.inState = {} /\ tipOptions.hideDelay = TRUE
  <2>1. LeaveTip(t) = [o EXCEPT !.timeout = "hide"]   BY <1>3 DEF LeaveTip
  <2>2. [o EXCEPT !.timeout = "hide"] = [t EXCEPT !.timeout = "hide", !.hoverState = "out"]   BY DEF Tips
  <2>3. [t EXCEPT !.timeout = "hide", !.hoverState = "out"] \in Tips   BY DEF Tips
  <2> QED  BY <1>3, <2>1, <2>2, <2>3
<1>4. CASE t.inState = {} /\ tipOptions.hideDelay = FALSE
  <2>1. LeaveTip(t) = HideTip(o, "hidden")   BY <1>4 DEF LeaveTip
  <2> HIDE DEF o
  <2>2. HidOf(o, "hidden", HideTip(o, "hidden"))   BY <1>1, HideTipIs
  <2> QED  BY <1>4, <2>1, <2>2 DEF o
<1> QED  BY <1>1, <1>2, <1>3, <1>4

\* What show() makes of a tip with content.
ShownOf(t, u) ==
  /\ u \in Tips /\ u.alive = t.alive /\ u.enabled = t.enabled /\ u.inState = t.inState
  /\ u.timeout = t.timeout /\ u.in = TRUE /\ u.attached = TRUE /\ u.fade = tipOptions.animation
  /\ tipOptions.animation = TRUE => u.ends = Append(t.ends, "shown") /\ u.hoverState = t.hoverState
  /\ tipOptions.animation = FALSE => u.ends = t.ends /\ u.hoverState = "none"

\* The code's show() does so.
LEMMA ShowTipIs ==
  ASSUME tipOptions \in TipOptions, HasContent(text), NEW t \in Tips, t.enabled = TRUE, t.hoverState # "out"
  PROVE  ShownOf(t, ShowTip(t))
<1> DEFINE u == ShowTip(t)
           s == [t EXCEPT !.attached = TRUE, !.in = TRUE, !.fade = tipOptions.animation]
<1>1. tipOptions.animation \in BOOLEAN   BY DEF TipOptions
<1>2. s \in Tips /\ s.hoverState = t.hoverState /\ s.ends = t.ends   BY <1>1 DEF Tips
<1>3. CASE tipOptions.animation = TRUE
  <2> DEFINE e == Append(t.ends, "shown")
  <2>1. u = [t EXCEPT !.attached = TRUE, !.in = TRUE, !.fade = TRUE, !.ends = e]   BY <1>3 DEF ShowTip, Tips
  <2>2. e \in Seq(EndKinds)   BY DEF Tips, EndKinds
  <2> HIDE DEF u, e
  <2>3. u \in Tips   BY <2>1, <2>2 DEF Tips
  <2>4. /\ u.alive = t.alive /\ u.enabled = t.enabled /\ u.inState = t.inState
        /\ u.timeout = t.timeout /\ u.in = TRUE /\ u.attached = TRUE /\ u.fade = TRUE
        /\ u.ends = e /\ u.hoverState = t.hoverState
    BY <2>1 DEF Tips
  <2>5. ~(tipOptions.animation = FALSE) /\ u.fade = tipOptions.animation   BY <1>3, <2>4
  <2>6. ShownOf(t, u)   BY <2>3, <2>4, <2>5, Zenon DEF ShownOf, e
  <2> QED  BY <2>6 DEF u
<1>4. CASE tipOptions.animation = FALSE
  <2>1. u = TipShown(s)   BY <1>4 DEF ShowTip
  <2>2. u = [s EXCEPT !.hoverState = "none"]   BY <1>2, <2>1 DEF TipShown
  <2>3. u = [t EXCEPT !.attached = TRUE, !.in = TRUE, !.fade = FALSE, !.hoverState = "none"]
    BY <1>4, <2>2 DEF Tips
  <2> HIDE DEF u, s
  <2>4. u \in Tips   BY <2>3 DEF Tips
  <2>5. /\ u.alive = t.alive /\ u.enabled = t.enabled /\ u.inState = t.inState
        /\ u.timeout = t.timeout /\ u.in = TRUE /\ u.attached = TRUE /\ u.fade = FALSE
        /\ u.ends = t.ends /\ u.hoverState = "none"
    BY <2>3 DEF Tips
  <2>6. ~(tipOptions.animation = TRUE) /\ u.fade = tipOptions.animation   BY <1>4, <2>5
  <2>7. ShownOf(t, u)   BY <2>4, <2>5, <2>6, Zenon DEF ShownOf
  <2> QED  BY <2>7 DEF u
<1> QED  BY <1>1, <1>3, <1>4

\* What enter() makes of a tip with content.
LEMMA EnterTipIs ==
  ASSUME tipOptions \in TipOptions, HasContent(text), NEW t \in Tips, t.enabled = TRUE
  PROVE  LET u == EnterTip(t)
         IN  IF t.in = TRUE \/ t.hoverState = "in" THEN u = [t EXCEPT !.hoverState = "in"]
             ELSE IF tipOptions.showDelay = TRUE THEN u = [t EXCEPT !.hoverState = "in", !.timeout = "show"]
             ELSE ShownOf([t EXCEPT !.hoverState = "in", !.timeout = "none"], u)
<1> DEFINE i == [t EXCEPT !.hoverState = "in", !.timeout = "none"]
<1>1. i \in Tips /\ i.enabled = TRUE /\ i.hoverState # "out"   BY DEF Tips
<1>2. t.in \in BOOLEAN /\ tipOptions.showDelay \in BOOLEAN   BY DEF Tips, TipOptions
<1>3. CASE t.in = TRUE \/ t.hoverState = "in"   BY <1>3 DEF EnterTip
<1>4. CASE ~(t.in = TRUE \/ t.hoverState = "in") /\ tipOptions.showDelay = TRUE   BY <1>2, <1>4 DEF EnterTip
<1>5. CASE ~(t.in = TRUE \/ t.hoverState = "in") /\ tipOptions.showDelay = FALSE
  <2>1. EnterTip(t) = ShowTip(i)   BY <1>2, <1>5 DEF EnterTip
  <2> HIDE DEF i
  <2>2. ShownOf(i, ShowTip(i))   BY <1>1, ShowTipIs
  <2> QED  BY <1>2, <1>5, <2>1, <2>2 DEF i
<1> QED  BY <1>2, <1>3, <1>4, <1>5

\* A tip shown while only fades out are still to end is up.
LEMMA ShownIsUp ==
  ASSUME tipOptions \in TipOptions, NEW t, NEW u, ShownOf(t, u), t.alive = TRUE, t.enabled = TRUE,
         t.ends \in Seq(EndKinds), \A i \in 1 .. Len(t.ends) : t.ends[i] = "hidden",
         t.hoverState = "in" \/ (t.hoverState = "none" /\ t.ends = << >>),
         t.timeout = "none", IF tipOptions.manual = TRUE THEN t.inState = {} ELSE t.inState # {},
         tipOptions.animation = FALSE => t.ends = << >>
  PROVE  TipPhase(u, TRUE)
<1>1. /\ u \in Tips /\ u.alive = TRUE /\ u.enabled = TRUE /\ u.inState = t.inState
      /\ u.timeout = "none" /\ u.in = TRUE /\ u.attached = TRUE /\ u.fade = tipOptions.animation
  BY DEF ShownOf
<1>2. tipOptions.animation \in BOOLEAN   BY DEF TipOptions
<1>3. CASE tipOptions.animation = TRUE
  <2>1. u.ends = Append(t.ends, "shown") /\ u.hoverState = t.hoverState   BY <1>3 DEF ShownOf
  <2>2. "shown" \in EndKinds   BY DEF EndKinds
  <2>3. /\ Len(t.ends) \in Nat /\ Len(u.ends) = Len(t.ends) + 1 /\ u.ends # << >>
        /\ u.ends[Len(t.ends) + 1] = "shown"
        /\ \A i \in 1 .. Len(t.ends) : u.ends[i] = t.ends[i]
    BY <2>1, <2>2, EndsAppended
  <2>4. /\ u.ends[Len(u.ends)] = "shown"
        /\ \A i \in 1 .. Len(u.ends) - 1 : u.ends[i] = "hidden"
    BY <2>3
  <2>5. Len(u.ends) > 1 => u.hoverState = "in"
    <3>1. t.ends = << >> => Len(t.ends) = 0   OBVIOUS
    <3> QED  BY <2>1, <2>3, <3>1
  <2>6. u.hoverState # "out"   BY <2>1
  <2>7. Up(u, TRUE)   BY <1>1, <2>4, <2>5, <2>6 DEF Up
  <2> QED  BY <1>1, <1>3, <2>7 DEF TipPhase
<1>4. CASE tipOptions.animation = FALSE
  <2>1. u.ends = << >> /\ u.hoverState = "none"   BY <1>4 DEF ShownOf
  <2>2. Len(u.ends) = 0   BY <2>1
  <2>3. Up(u, TRUE)   BY <1>1, <2>1, <2>2 DEF Up
  <2> QED  BY <1>1, <2>1, <2>3 DEF TipPhase
<1> QED  BY <1>2, <1>3, <1>4

-----------------------------------------------------------------------------
(* A tip enters.                                                             *)

\* A tip that the pointer or the focus can enter.
ToEnter(t, S, s) ==
  /\ s = [t EXCEPT !.inState = S] /\ S \in SUBSET Sources
  /\ IF tipOptions.manual = TRUE THEN S = {} ELSE S # {}
  /\ t.in = FALSE => \A i \in 1 .. Len(t.ends) : t.ends[i] = "hidden"

\* Entering brings the tip up, or has it come.
LEMMA EnterKeeps ==
  ASSUME tipOptions \in TipOptions, HasContent(text), NEW t, NEW w \in BOOLEAN, TipPhase(t, w),
         t.alive = TRUE, NEW S, NEW s, ToEnter(t, S, s)
  PROVE  TipPhase(EnterTip(s), TRUE)
<1> DEFINE u == EnterTip(s)
<1>1. /\ s \in Tips /\ s.enabled = TRUE /\ s.alive = TRUE /\ s.in = t.in /\ s.hoverState = t.hoverState
      /\ s.timeout = t.timeout /\ s.fade = t.fade /\ s.attached = t.attached /\ s.ends = t.ends
      /\ s.inState = S
  BY DEF TipPhase, ToEnter, Tips
<1>2. /\ tipOptions.manual \in BOOLEAN /\ tipOptions.animation \in BOOLEAN
      /\ tipOptions.showDelay \in BOOLEAN
  BY DEF TipOptions
<1>3. /\ t.ends \in Seq(EndKinds)
      /\ (tipOptions.animation = FALSE => t.fade = FALSE)
      /\ (t.fade = FALSE => t.ends = << >>)
      /\ t.in = FALSE => \A i \in 1 .. Len(t.ends) : t.ends[i] = "hidden"
  BY DEF TipPhase, Tips, ToEnter
<1>4. CASE t.in = TRUE \/ t.hoverState = "in"
  <2>1. u = [s EXCEPT !.hoverState = "in"]   BY <1>1, <1>4, EnterTipIs
  <2> HIDE DEF u
  <2>2. u \in Tips   BY <1>1, <2>1 DEF Tips
  <2>3. /\ u.enabled = TRUE /\ u.alive = TRUE /\ u.in = t.in /\ u.hoverState = "in"
        /\ u.timeout = t.timeout /\ u.fade = t.fade /\ u.attached = t.attached /\ u.ends = t.ends
        /\ u.inState = S
    BY <1>1, <2>1 DEF Tips
  <2>4. Up(t, w) \/ Coming(t, w)   BY <1>4, <1>3 DEF TipPhase, Down, Going, Dead, Gone
  <2>5. Up(t, w) => Up(u, TRUE)   BY <2>3 DEF Up
  <2>6. Coming(t, w) => Coming(u, TRUE)   BY <2>3 DEF Coming
  <2>7. TipPhase(u, TRUE)   BY <1>3, <2>2, <2>3, <2>4, <2>5, <2>6 DEF TipPhase, ToEnter
  <2> QED  BY <2>7 DEF u
<1>5. CASE t.in = FALSE /\ t.hoverState # "in" /\ tipOptions.showDelay = TRUE
  <2>1. u = [s EXCEPT !.hoverState = "in", !.timeout = "show"]   BY <1>1, <1>5, EnterTipIs
  <2> HIDE DEF u
  <2>2. u \in Tips   BY <1>1, <2>1 DEF Tips
  <2>3. /\ u.enabled = TRUE /\ u.alive = TRUE /\ u.in = FALSE /\ u.hoverState = "in"
        /\ u.timeout = "show" /\ u.fade = t.fade /\ u.ends = t.ends /\ u.inState = S
    BY <1>1, <1>5, <2>1 DEF Tips
  <2>4. Coming(u, TRUE)   BY <1>5, <1>3, <2>3 DEF Coming
  <2>5. TipPhase(u, TRUE)   BY <1>3, <2>2, <2>3, <2>4 DEF TipPhase, ToEnter
  <2> QED  BY <2>5 DEF u
<1>6. CASE t.in = FALSE /\ t.hoverState # "in" /\ tipOptions.showDelay = FALSE
  <2> DEFINE i == [s EXCEPT !.hoverState = "in", !.timeout = "none"]
  <2>1. ShownOf(i, u)
    <3>1. ~(s.in = TRUE \/ s.hoverState = "in") /\ ~(tipOptions.showDelay = TRUE)   BY <1>1, <1>6
    <3>2. s \in Tips /\ s.enabled = TRUE   BY <1>1
    <3> QED  BY <3>1, <3>2, EnterTipIs
  <2>2. /\ i.enabled = TRUE /\ i.alive = TRUE /\ i.hoverState = "in" /\ i.timeout = "none"
        /\ i.ends = t.ends /\ i.inState = S
    BY <1>1 DEF Tips
  <2> HIDE DEF u, i
  <2>3. IF tipOptions.manual = TRUE THEN i.inState = {} ELSE i.inState # {}   BY <2>2 DEF ToEnter
  <2>4. /\ i.ends \in Seq(EndKinds) /\ \A k \in 1 .. Len(i.ends) : i.ends[k] = "hidden"
        /\ tipOptions.animation = FALSE => i.ends = << >>
    BY <1>3, <1>6, <2>2
  <2>5. TipPhase(u, TRUE)   BY <2>1, <2>2, <2>3, <2>4, ShownIsUp
  <2> QED  BY <2>5 DEF u
<1> QED  BY <1>1, <1>2, <1>4, <1>5, <1>6 DEF Tips

-----------------------------------------------------------------------------
(* A tip leaves, or is hidden.                                               *)

\* A tip that hide() left is down.
LEMMA HiddenIsDown ==
  ASSUME NEW t, NEW u, HidOf(t, "hidden", u), t.alive = TRUE, t.enabled = TRUE, t.inState = {},
         t.timeout = "none", t.hoverState # "in", t.fade \in BOOLEAN, t.ends \in Seq(EndKinds),
         \A i \in 1 .. Len(t.ends) : t.ends[i] # "destroyed",
         t.fade = FALSE => t.ends = << >>, tipOptions.animation = FALSE => t.fade = FALSE
  PROVE  TipPhase(u, FALSE)
<1>1. /\ u \in Tips /\ u.in = FALSE /\ u.hoverState = "none" /\ u.timeout = "none"
      /\ u.inState = {} /\ u.enabled = TRUE
  BY DEF HidOf
<1>2. CASE t.fade = TRUE
  <2>1. u.ends = Append(t.ends, "hidden") /\ u.alive = TRUE /\ u.fade = TRUE   BY <1>2 DEF HidOf
  <2>2. "hidden" \in EndKinds   BY DEF EndKinds
  <2>3. /\ Len(t.ends) \in Nat /\ Len(u.ends) = Len(t.ends) + 1 /\ u.ends # << >>
        /\ u.ends[Len(t.ends) + 1] = "hidden"
        /\ \A i \in 1 .. Len(t.ends) : u.ends[i] = t.ends[i]
    BY <2>1, <2>2, EndsAppended
  <2>4. /\ u.ends[Len(u.ends)] = "hidden"
        /\ \A i \in 1 .. Len(u.ends) : u.ends[i] # "destroyed"
    BY <2>3
  <2>5. Down(u, FALSE)   BY <1>1, <2>1, <2>3, <2>4 DEF Down, Gone
  <2> QED  BY <1>1, <1>2, <2>1, <2>5 DEF TipPhase
<1>3. CASE t.fade = FALSE
  <2>1. u.ends = << >> /\ u.alive = TRUE /\ u.fade = FALSE /\ u.attached = FALSE   BY <1>3 DEF HidOf
  <2>2. Len(u.ends) = 0   BY <2>1
  <2>3. Down(u, FALSE)   BY <1>1, <2>1, <2>2 DEF Down, Gone
  <2> QED  BY <1>1, <2>1, <2>3 DEF TipPhase
<1> QED  BY <1>2, <1>3

\* One that is on its way to be destroyed stays so.
LEMMA HiddenIsGoing ==
  ASSUME NEW t, NEW u, NEW does \in {"hidden", "destroyed"}, HidOf(t, does, u), t.alive = TRUE,
         t.enabled = TRUE, t.timeout = "none", t.fade = TRUE, t.ends \in Seq(EndKinds), NEW w,
         \/ does = "destroyed"
         \/ \E i \in 1 .. Len(t.ends) : t.ends[i] = "destroyed",
         tipOptions.animation = FALSE => t.fade = FALSE,
         IF tipOptions.manual = TRUE THEN t.inState = {} ELSE w = TRUE <=> t.inState # {}
  PROVE  TipPhase(u, w)
<1>1. /\ u \in Tips /\ u.in = FALSE /\ u.hoverState = "none" /\ u.timeout = "none"
      /\ u.inState = t.inState /\ u.enabled = TRUE
      /\ u.ends = Append(t.ends, does) /\ u.alive = TRUE /\ u.fade = TRUE
  BY DEF HidOf
<1>2. does \in EndKinds   BY DEF EndKinds
<1>3. /\ Len(t.ends) \in Nat /\ Len(u.ends) = Len(t.ends) + 1
      /\ u.ends[Len(t.ends) + 1] = does
      /\ \A i \in 1 .. Len(t.ends) : u.ends[i] = t.ends[i]
  BY <1>1, <1>2, EndsAppended
<1>4. \E i \in 1 .. Len(u.ends) : u.ends[i] = "destroyed"
  <2>1. CASE does = "destroyed"
    <3>1. Len(t.ends) + 1 \in 1 .. Len(u.ends)   BY <1>3
    <3> QED  BY <1>3, <2>1, <3>1
  <2>2. CASE \E i \in 1 .. Len(t.ends) : t.ends[i] = "destroyed"
    <3>1. PICK i \in 1 .. Len(t.ends) : t.ends[i] = "destroyed"   BY <2>2
    <3>2. i \in 1 .. Len(u.ends)   BY <1>3
    <3> QED  BY <1>3, <3>1, <3>2
  <2> QED  BY <2>1, <2>2
<1>5. Going(u)   BY <1>1, <1>4 DEF Going, Gone
<1> QED  BY <1>1, <1>5 DEF TipPhase

\* Leaving takes the tip down, or has it go.
LEMMA LeaveKeeps ==
  ASSUME tipOptions \in TipOptions, NEW t, NEW w \in BOOLEAN, TipPhase(t, w), t.alive = TRUE,
         NEW s, s = [t EXCEPT !.inState = {}],
         t.in = TRUE => \A i \in 1 .. Len(t.ends) : t.ends[i] # "hidden"
  PROVE  TipPhase(LeaveTip(s), FALSE)
<1> DEFINE u == LeaveTip(s)
           o == [s EXCEPT !.timeout = "none", !.hoverState = "out"]
<1>1. /\ s \in Tips /\ s.enabled = TRUE /\ s.alive = TRUE /\ s.in = t.in /\ s.fade = t.fade
      /\ s.attached = t.attached /\ s.ends = t.ends /\ s.inState = {}
  BY DEF TipPhase, Tips
<1>2. /\ tipOptions.manual \in BOOLEAN /\ tipOptions.hideDelay \in BOOLEAN
  BY DEF TipOptions
<1>3. /\ t.ends \in Seq(EndKinds) /\ t.fade \in BOOLEAN /\ t.in \in BOOLEAN
      /\ tipOptions.animation = FALSE => t.fade = FALSE
      /\ t.fade = FALSE => t.ends = << >>
  BY DEF TipPhase, Tips
<1>4. Up(t, w) \/ Coming(t, w) \/ Down(t, w) \/ Going(t)   BY DEF TipPhase, Dead
<1>5. /\ o.alive = TRUE /\ o.enabled = TRUE /\ o.inState = {} /\ o.timeout = "none"
      /\ o.hoverState = "out" /\ o.fade = t.fade /\ o.ends = t.ends /\ o \in Tips
  BY <1>1 DEF Tips
<1>6. ASSUME Up(t, w) \/ Coming(t, w)
      PROVE  /\ \A i \in 1 .. Len(t.ends) : t.ends[i] # "destroyed"
             /\ Up(t, w) => Len(t.ends) <= 1
  <2>1. CASE Up(t, w)
    <3>1. /\ t.ends # << >> => t.ends[Len(t.ends)] = "shown"
          /\ t.ends # << >> => \A i \in 1 .. Len(t.ends) - 1 : t.ends[i] = "hidden"
          /\ \A i \in 1 .. Len(t.ends) : t.ends[i] # "hidden"
      BY <2>1 DEF Up
    <3>2. Len(t.ends) \in Nat /\ (t.ends = << >> => Len(t.ends) = 0)   BY <1>3
    <3>3. Len(t.ends) <= 1
      <4>1. Len(t.ends) > 1 => 1 \in 1 .. Len(t.ends) - 1 /\ 1 \in 1 .. Len(t.ends)   BY <3>2
      <4> QED  BY <3>1, <3>2, <4>1
    <3> QED  BY <3>1, <3>2, <3>3
  <2>2. CASE Coming(t, w)   BY <2>2 DEF Coming, Up
  <2> QED  BY <1>6, <2>1, <2>2
<1>7. CASE tipOptions.hideDelay = TRUE
  <2>1. u = [s EXCEPT !.timeout = "hide", !.hoverState = "out"] /\ u \in Tips   BY <1>1, <1>7, LeaveTipIs
  <2> HIDE DEF u
  <2>2. /\ u.enabled = TRUE /\ u.alive = TRUE /\ u.in = t.in /\ u.fade = t.fade
        /\ u.attached = t.attached /\ u.ends = t.ends /\ u.inState = {}
        /\ u.timeout = "hide" /\ u.hoverState = "out"
    BY <1>1, <2>1 DEF Tips
  <2>3. Up(t, w) => Up(u, FALSE)
    <3>1. HAVE Up(t, w)
    <3>2. /\ t.in = TRUE /\ t.attached = TRUE /\ t.fade = tipOptions.animation
          /\ t.ends # << >> => /\ t.ends[Len(t.ends)] = "shown"
                               /\ \A i \in 1 .. Len(t.ends) - 1 : t.ends[i] = "hidden"
      BY <3>1 DEF Up
    <3>3. ~(Len(t.ends) > 1)
      <4>1. Len(t.ends) \in Nat /\ Len(t.ends) <= 1   BY <1>3, <1>6, <3>1
      <4> QED  BY <4>1
    <3>4. FALSE = TRUE <=> u.hoverState # "out"   BY <2>2
    <3> QED  BY <1>7, <2>2, <3>2, <3>3, <3>4 DEF Up
  <2>4. Coming(t, w) => Down(u, FALSE)
    <3>1. HAVE Coming(t, w)
    <3>2. /\ t.in = FALSE /\ \A i \in 1 .. Len(t.ends) : t.ends[i] = "hidden"   BY <3>1 DEF Coming
    <3>3. t.ends # << >> => Len(t.ends) \in 1 .. Len(t.ends)   BY <1>3
    <3> QED  BY <1>7, <2>2, <3>2, <3>3 DEF Down, Gone
  <2>5. Down(t, w) => Down(u, FALSE)   BY <1>7, <2>2 DEF Down, Gone
  <2>6. Going(t) => Going(u)   BY <1>7, <2>2 DEF Going, Gone
  <2>7. TipPhase(u, FALSE)   BY <1>3, <1>4, <2>1, <2>2, <2>3, <2>4, <2>5, <2>6 DEF TipPhase
  <2> QED  BY <2>7 DEF u
<1>8. CASE tipOptions.hideDelay = FALSE
  <2>1. HidOf(o, "hidden", u)   BY <1>1, <1>8, LeaveTipIs
  <2> HIDE DEF u, o
  <2>2. CASE ~Going(t)
    <3>1. \A i \in 1 .. Len(t.ends) : t.ends[i] # "destroyed"   BY <1>4, <1>6, <2>2 DEF Down
    <3>2. TipPhase(u, FALSE)   BY <1>3, <1>5, <2>1, <3>1, HiddenIsDown
    <3> QED  BY <3>2 DEF u
  <2>3. CASE Going(t)
    <3>1. PICK i \in 1 .. Len(t.ends) : t.ends[i] = "destroyed"   BY <2>3 DEF Going
    <3>2. t.ends # << >>   BY <1>3, <3>1
    <3>3. o.fade = TRUE   BY <1>3, <1>5, <3>2
    <3>4. \E k \in 1 .. Len(o.ends) : o.ends[k] = "destroyed"   BY <1>5, <3>1
    <3>5. tipOptions.animation = FALSE => o.fade = FALSE   BY <1>3, <1>5
    <3>6. IF tipOptions.manual = TRUE THEN o.inState = {} ELSE FALSE = TRUE <=> o.inState # {}   BY <1>5
    <3>7. o.ends \in Seq(EndKinds)   BY <1>3, <1>5
    <3>8. TipPhase(u, FALSE)   BY <1>5, <2>1, <3>3, <3>4, <3>5, <3>6, <3>7, HiddenIsGoing
    <3> QED  BY <3>8 DEF u
  <2> QED  BY <2>2, <2>3
<1> QED  BY <1>2, <1>7, <1>8

-----------------------------------------------------------------------------
(* The end of a fade: the loop over all that waits for one.                  *)

\* One end of a fade.
TipEnd(t, e) == IF e = "shown" THEN TipShown(t) ELSE TipHidden(t, e)

\* What it does.
LEMMA TipEndIs ==
  ASSUME tipOptions \in TipOptions, NEW t \in Tips, NEW e \in EndKinds
  PROVE  /\ TipEnd(t, e) \in Tips
         /\ t.hoverState = "in" /\ e = "hidden" => TipEnd(t, e) = t
         /\ t.hoverState # "out" /\ e = "shown" => TipEnd(t, e) = [t EXCEPT !.hoverState = "none"]
         /\ t.hoverState = "out" /\ t.inState = {} /\ tipOptions.hideDelay = TRUE /\ t.timeout = "hide"
            /\ e = "shown" => TipEnd(t, e) = t
         /\ Gone(t) /\ e = "shown" => TipEnd(t, e) = t
         /\ Gone(t) /\ e = "hidden" => TipEnd(t, e) = [t EXCEPT !.attached = FALSE]
         /\ Gone(t) /\ e = "destroyed" =>
              TipEnd(t, e) = [t EXCEPT !.alive = FALSE, !.attached = FALSE, !.fade = FALSE]
<1> DEFINE u == TipEnd(t, e)
<1>1. t.attached \in BOOLEAN /\ tipOptions.hideDelay \in BOOLEAN   BY DEF Tips, TipOptions
<1>2. CASE e = "hidden"
  <2>1. u = IF t.hoverState # "in" THEN [t EXCEPT !.attached = FALSE] ELSE t
    BY <1>2 DEF TipEnd, TipHidden
  <2>2. [t EXCEPT !.attached = FALSE] \in Tips   BY DEF Tips
  <2> HIDE DEF u
  <2>3. e # "shown" /\ e # "destroyed"   BY <1>2
  <2>4. Gone(t) => t.hoverState # "in"   BY DEF Gone
  <2>5. u \in Tips   BY <2>1, <2>2
  <2> QED  BY <2>1, <2>3, <2>4, <2>5 DEF u
<1>3. CASE e = "destroyed"
  <2> DEFINE a == IF t.hoverState # "in" THEN [t EXCEPT !.attached = FALSE] ELSE t
  <2>1. u = [a EXCEPT !.alive = FALSE, !.attached = FALSE, !.in = FALSE, !.fade = FALSE]
    BY <1>3 DEF TipEnd, TipHidden
  <2>2. a \in Tips   BY DEF Tips
  <2>3. Gone(t) => u = [t EXCEPT !.alive = FALSE, !.attached = FALSE, !.fade = FALSE]
    <3>1. HAVE Gone(t)
    <3>2. t.in = FALSE /\ t.hoverState # "in"   BY <3>1 DEF Gone
    <3>3. u = [[t EXCEPT !.attached = FALSE] EXCEPT !.alive = FALSE, !.attached = FALSE, !.in = FALSE, !.fade = FALSE]
      BY <2>1, <3>2
    <3> QED  BY <3>2, <3>3 DEF Tips
  <2> HIDE DEF a
  <2>4. u \in Tips   BY <2>1, <2>2 DEF Tips
  <2> HIDE DEF u
  <2>5. e # "shown" /\ e # "hidden"   BY <1>3
  <2> QED  BY <2>3, <2>4, <2>5 DEF u
<1>4. CASE e = "shown"
  <2> DEFINE r == [t EXCEPT !.hoverState = "none"]
  <2>1. u = IF t.hoverState = "out" THEN LeaveTip(r) ELSE r   BY <1>4 DEF TipEnd, TipShown
  <2>2. r \in Tips /\ r.inState = t.inState   BY DEF Tips
  <2>3. LeaveTip(r) \in Tips
    <3>1. CASE r.inState # {}   BY <2>2, <3>1, LeaveTipIs
    <3>2. CASE r.inState = {} /\ tipOptions.hideDelay = TRUE   BY <2>2, <3>2, LeaveTipIs
    <3>3. CASE r.inState = {} /\ tipOptions.hideDelay = FALSE
      <4>1. HidOf([r EXCEPT !.timeout = "none", !.hoverState = "out"], "hidden", LeaveTip(r))
        BY <2>2, <3>3, LeaveTipIs
      <4> QED  BY <4>1 DEF HidOf
    <3> QED  BY <1>1, <3>1, <3>2, <3>3
  <2>4. ASSUME t.hoverState = "out", t.inState = {}, tipOptions.hideDelay = TRUE, t.timeout = "hide"
        PROVE  u = t
    <3>1. LeaveTip(r) = [r EXCEPT !.timeout = "hide", !.hoverState = "out"]   BY <2>2, <2>4, LeaveTipIs
    <3>2. u = LeaveTip(r)   BY <2>1, <2>4
    <3> HIDE DEF u
    <3>3. [r EXCEPT !.timeout = "hide", !.hoverState = "out"] = t   BY <2>4 DEF Tips
    <3> QED  BY <3>1, <3>2, <3>3
  <2>5. t.hoverState = "none" => r = t   BY DEF Tips
  <2>6. Gone(t) => u = t
    <3>1. HAVE Gone(t)
    <3>2. CASE t.hoverState = "none"   BY <2>1, <2>5, <3>2
    <3>3. CASE t.hoverState = "out"   BY <2>4, <3>1, <3>3 DEF Gone
    <3> QED  BY <3>1, <3>2, <3>3 DEF Gone
  <2>7. t.hoverState # "out" => u = r   BY <2>1
  <2>8. u \in Tips   BY <2>1, <2>2, <2>3
  <2> HIDE DEF u
  <2>9. e # "hidden" /\ e # "destroyed"   BY <1>4
  <2> QED  BY <2>4, <2>6, <2>7, <2>8, <2>9 DEF u
<1> QED  BY <1>2, <1>3, <1>4 DEF EndKinds

\* What has been called after i ends.
EndedSoFar(f) ==
  /\ f[0] = [tip EXCEPT !.ends = << >>]
  /\ \A i \in 1 .. Len(tip.ends) : f[i] = TipEnd(f[i - 1], tip.ends[i])

\* They are what TipFadeEnds does.
LEMMA FadeEndsIs ==
  ASSUME tipOptions \in TipOptions, tip \in Tips, TipFadeEnds
  PROVE  \E f \in [0 .. Len(tip.ends) -> Tips] : EndedSoFar(f) /\ tip' = f[Len(tip.ends)]
<1> DEFINE n == Len(tip.ends)
           first == [tip EXCEPT !.ends = << >>]
           next == [i \in Nat |-> [t \in Tips |-> IF i \in 1 .. n THEN TipEnd(t, tip.ends[i]) ELSE t]]
           Is(f) == f = [i \in 0 .. n |-> IF i = 0 THEN first
                                          ELSE IF tip.ends[i] = "shown" THEN TipShown(f[i - 1])
                                          ELSE TipHidden(f[i - 1], tip.ends[i])]
           r == CHOOSE f : Is(f)
<1>1. n \in Nat /\ \A i \in 1 .. n : tip.ends[i] \in EndKinds   BY DEF Tips
<1>2. first \in Tips
  <2>1. << >> \in Seq(EndKinds)   OBVIOUS
  <2> QED  BY <2>1 DEF Tips
<1>3. tip' = r[n]   BY DEF TipFadeEnds
<1>4. \A i \in 1 .. n, t \in Tips : TipEnd(t, tip.ends[i]) \in Tips   BY <1>1, TipEndIs
<1> HIDE DEF first, n
<1>5. next \in [Nat -> [Tips -> Tips]]   BY <1>4
<1> HIDE DEF next
<1>6. PICK k \in [0 .. n -> Tips] : Stages(k, first, next, n)   BY <1>1, <1>2, <1>5, StagesExist
<1>7. k[0] = first /\ \A i \in 1 .. n : k[i] = TipEnd(k[i - 1], tip.ends[i])
  <2>1. k[0] = first /\ \A i \in 1 .. n : k[i] = next[i][k[i - 1]]   BY <1>6 DEF Stages
  <2>2. \A i \in 1 .. n : i \in Nat /\ k[i - 1] \in Tips   BY <1>1, <1>6
  <2> QED  BY <2>1, <2>2 DEF next
<1>8. Is(k)
  <2> DEFINE h == [i \in 0 .. n |-> IF i = 0 THEN first
                                    ELSE IF tip.ends[i] = "shown" THEN TipShown(k[i - 1])
                                    ELSE TipHidden(k[i - 1], tip.ends[i])]
  <2>1. ASSUME NEW i \in 0 .. n   PROVE  k[i] = h[i]
    <3>1. CASE i = 0   BY <1>1, <1>7, <3>1
    <3>2. CASE i # 0
      <4>1. i \in 1 .. n   BY <1>1, <3>2
      <4> QED  BY <1>7, <3>2, <4>1 DEF TipEnd
    <3> QED  BY <3>1, <3>2
  <2>2. k = h   BY <1>6, <2>1
  <2> QED  BY <2>2
<1>9. Is(r)   BY <1>8
<1> HIDE DEF r
<1>10. r[0] = first /\ \A i \in 1 .. n : r[i] = TipEnd(r[i - 1], tip.ends[i])
  BY <1>1, <1>9 DEF TipEnd
<1> DEFINE T == {i \in Nat : i <= n => r[i] = k[i]}
<1>11. 0 \in T   BY <1>7, <1>10
<1>12. ASSUME NEW i \in Nat, i \in T   PROVE  i + 1 \in T
  <2> SUFFICES ASSUME i + 1 <= n   PROVE r[i + 1] = k[i + 1]
    OBVIOUS
  <2>1. i + 1 \in 1 .. n /\ (i + 1) - 1 = i /\ i <= n   BY <1>1
  <2> QED  BY <1>7, <1>10, <1>12, <2>1
<1> HIDE DEF T
<1>13. n \in T   BY <1>1, <1>11, <1>12, Induction
<1>14. tip' = k[n]   BY <1>1, <1>3, <1>13 DEF T
<1>15. EndedSoFar(k)   BY <1>7 DEF EndedSoFar, first, n
<1> QED  BY <1>6, <1>14, <1>15 DEF n

\* A fade of a tip that is up, or about to come, ends.
LEMMA UpEnds ==
  ASSUME tipOptions \in TipOptions, wanted \in BOOLEAN, TipPhase(tip, wanted),
         Up(tip, wanted) \/ Coming(tip, wanted), TipFadeEnds
  PROVE  TipPhase(tip', wanted)
<1> DEFINE n == Len(tip.ends)
           first == [tip EXCEPT !.ends = << >>]
<1>1. /\ tip \in Tips /\ n \in Nat /\ n > 0 /\ \A i \in 1 .. n : tip.ends[i] \in EndKinds
      /\ tip.ends # << >>
  BY DEF TipPhase, Tips, TipFadeEnds
<1>2. PICK f \in [0 .. n -> Tips] : EndedSoFar(f) /\ tip' = f[n]   BY <1>1, FadeEndsIs
<1>3. f[0] = first /\ \A i \in 1 .. n : f[i] = TipEnd(f[i - 1], tip.ends[i])   BY <1>2 DEF EndedSoFar
<1>4. /\ first \in Tips /\ first.hoverState = tip.hoverState /\ first.timeout = tip.timeout
      /\ first.inState = tip.inState /\ first.ends = << >> /\ first.in = tip.in
      /\ first.attached = tip.attached /\ first.alive = tip.alive /\ first.fade = tip.fade
      /\ first.enabled = tip.enabled
  <2>1. << >> \in Seq(EndKinds)   OBVIOUS
  <2> QED  BY <1>1, <2>1 DEF Tips
<1> HIDE DEF first, n
<1>5. ASSUME NEW m \in 0 .. n, tip.hoverState = "in", \A i \in 1 .. m : tip.ends[i] = "hidden"
      PROVE  f[m] = first
  <2> DEFINE T == {i \in Nat : i <= m => f[i] = first}
  <2>1. 0 \in T   BY <1>3
  <2>2. ASSUME NEW i \in Nat, i \in T   PROVE  i + 1 \in T
    <3> SUFFICES ASSUME i + 1 <= m   PROVE f[i + 1] = first
      OBVIOUS
    <3>1. i + 1 \in 1 .. n /\ i + 1 \in 1 .. m /\ (i + 1) - 1 = i /\ i <= m   BY <1>1
    <3>2. f[i] = first /\ tip.ends[i + 1] = "hidden"   BY <1>5, <2>2, <3>1
    <3>3. f[i + 1] = TipEnd(first, "hidden")   BY <1>3, <3>1, <3>2
    <3>4. "hidden" \in EndKinds   BY DEF EndKinds
    <3> QED  BY <1>4, <1>5, <3>3, <3>4, TipEndIs
  <2> HIDE DEF T
  <2>3. m \in T   BY <1>1, <2>1, <2>2, Induction
  <2> QED  BY <1>1, <2>3 DEF T
<1>6. /\ tipOptions.animation = FALSE => tip.fade = FALSE
      /\ IF tipOptions.manual = TRUE THEN tip.inState = {} ELSE wanted = TRUE <=> tip.inState # {}
      /\ tip.enabled = TRUE
  BY DEF TipPhase
<1>7. CASE Coming(tip, wanted)
  <2>1. tip.hoverState = "in" /\ \A i \in 1 .. n : tip.ends[i] = "hidden"   BY <1>7 DEF Coming, n
  <2>2. f[n] = first   BY <1>1, <1>5, <2>1
  <2>3. tip' = first /\ Len(first.ends) = 0   BY <1>2, <1>4, <2>2
  <2>4. Coming(tip', wanted)   BY <1>4, <1>7, <2>3 DEF Coming
  <2> QED  BY <1>4, <1>6, <2>3, <2>4 DEF TipPhase
<1>8. CASE Up(tip, wanted)
  <2>1. /\ tip.ends[n] = "shown" /\ \A i \in 1 .. n - 1 : tip.ends[i] = "hidden"
        /\ n > 1 => tip.hoverState = "in"
    BY <1>1, <1>8 DEF Up, n
  <2>2. f[n - 1] = first
    <3>1. CASE n = 1   BY <1>3, <3>1
    <3>2. CASE n # 1
      <4>1. n - 1 \in 0 .. n /\ n > 1   BY <1>1, <3>2
      <4> QED  BY <1>5, <2>1, <4>1
    <3> QED  BY <3>1, <3>2
  <2>3. tip' = TipEnd(first, "shown")
    <3>1. n \in 1 .. n   BY <1>1
    <3> QED  BY <1>2, <1>3, <2>1, <2>2, <3>1
  <2>4. "shown" \in EndKinds /\ Len(first.ends) = 0   BY <1>4 DEF EndKinds
  <2>5. CASE tip.hoverState # "out"
    <3>1. tip' = [first EXCEPT !.hoverState = "none"]   BY <1>4, <2>3, <2>4, <2>5, TipEndIs
    <3>2. /\ tip' \in Tips /\ tip'.hoverState = "none" /\ tip'.timeout = tip.timeout
          /\ tip'.inState = tip.inState /\ tip'.ends = << >> /\ tip'.in = tip.in
          /\ tip'.attached = tip.attached /\ tip'.alive = tip.alive /\ tip'.fade = tip.fade
          /\ tip'.enabled = tip.enabled
      BY <1>4, <3>1 DEF Tips
    <3>3. Len(tip'.ends) = 0   BY <3>2
    <3>4. Up(tip', wanted)   BY <1>8, <2>5, <3>2, <3>3 DEF Up
    <3> QED  BY <1>6, <3>2, <3>4 DEF TipPhase
  <2>6. CASE tip.hoverState = "out"
    <3>1. tip.timeout = "hide" /\ tipOptions.hideDelay = TRUE /\ tip.inState = {}   BY <1>8, <2>6 DEF Up
    <3>2. tip' = first
      <4>1. first \in Tips /\ first.hoverState = "out" /\ first.inState = {} /\ first.timeout = "hide"
        BY <1>4, <2>6, <3>1
      <4>2. TipEnd(first, "shown") = first   BY <2>4, <3>1, <4>1, TipEndIs
      <4> QED  BY <2>3, <4>2
    <3>3. Up(first, wanted)   BY <1>4, <1>8, <2>4 DEF Up
    <3> QED  BY <1>4, <1>6, <3>2, <3>3 DEF TipPhase
  <2> QED  BY <2>5, <2>6
<1> QED  BY <1>7, <1>8

\* A fade of a tip that has left, or is to be destroyed, ends.
GoneSoFar(u, i) ==
  /\ u \in Tips /\ Gone(u) /\ u.enabled = tip.enabled /\ u.inState = tip.inState /\ u.ends = << >>
  /\ IF \E k \in 1 .. i : tip.ends[k] = "destroyed"
     THEN u.alive = FALSE /\ u.attached = FALSE /\ u.fade = FALSE
     ELSE u.alive = tip.alive /\ u.fade = tip.fade
  /\ i > 0 /\ tip.ends[i] = "hidden" => u.attached = FALSE

\* In each stage the tip is gone, and destroyed when that end was among them.
LEMMA GoneEnds ==
  ASSUME tipOptions \in TipOptions, wanted \in BOOLEAN, TipPhase(tip, wanted),
         Down(tip, wanted) \/ Going(tip), TipFadeEnds
  PROVE  TipPhase(tip', wanted)
<1> DEFINE n == Len(tip.ends)
           first == [tip EXCEPT !.ends = << >>]
<1>1. /\ tip \in Tips /\ n \in Nat /\ n > 0 /\ \A i \in 1 .. n : tip.ends[i] \in EndKinds
      /\ tip.ends # << >>
  BY DEF TipPhase, Tips, TipFadeEnds
<1>2. PICK f \in [0 .. n -> Tips] : EndedSoFar(f) /\ tip' = f[n]   BY <1>1, FadeEndsIs
<1>3. f[0] = first /\ \A i \in 1 .. n : f[i] = TipEnd(f[i - 1], tip.ends[i])   BY <1>2 DEF EndedSoFar
<1>4. GoneSoFar(first, 0)
  <2>1. << >> \in Seq(EndKinds)   OBVIOUS
  <2>2. Gone(tip)   BY DEF Down, Going
  <2>3. Gone(first)   BY <1>1, <2>2 DEF Gone, Tips
  <2>4. /\ first \in Tips /\ first.enabled = tip.enabled /\ first.inState = tip.inState
        /\ first.ends = << >> /\ first.alive = tip.alive /\ first.fade = tip.fade
    BY <1>1, <2>1 DEF Tips
  <2> HIDE DEF first
  <2> QED  BY <2>3, <2>4 DEF GoneSoFar
<1> HIDE DEF first, n
<1>5. ASSUME NEW i \in 1 .. n, NEW u, GoneSoFar(u, i - 1)
      PROVE  GoneSoFar(TipEnd(u, tip.ends[i]), i)
  <2> DEFINE v == TipEnd(u, tip.ends[i])
  <2>1. u \in Tips /\ Gone(u) /\ u.enabled = tip.enabled /\ u.inState = tip.inState /\ u.ends = << >>
    BY <1>5 DEF GoneSoFar
  <2>2. /\ i \in Nat /\ i > 0
        /\ (\E k \in 1 .. i : tip.ends[k] = "destroyed")
             <=> (tip.ends[i] = "destroyed" \/ \E k \in 1 .. i - 1 : tip.ends[k] = "destroyed")
    <3>1. i \in Nat /\ i > 0 /\ i \in 1 .. i /\ \A k \in 1 .. i : k = i \/ k \in 1 .. i - 1   BY <1>1
    <3>2. \A k \in 1 .. i - 1 : k \in 1 .. i   BY <3>1
    <3> QED  BY <3>1, <3>2
  <2>3. tip.ends[i] \in EndKinds   BY <1>1
  <2>4. CASE tip.ends[i] = "shown"
    <3>1. v = u   BY <2>1, <2>3, <2>4, TipEndIs
    <3> HIDE DEF v
    <3>2. GoneSoFar(u, i)   BY <1>5, <2>1, <2>2, <2>4 DEF GoneSoFar
    <3> QED  BY <3>1, <3>2 DEF v
  <2>5. CASE tip.ends[i] = "hidden"
    <3>1. v = [u EXCEPT !.attached = FALSE]   BY <2>1, <2>3, <2>5, TipEndIs
    <3> HIDE DEF v
    <3>2. Gone(v)   BY <2>1, <3>1 DEF Gone, Tips
    <3>3. /\ v \in Tips /\ v.enabled = u.enabled /\ v.inState = u.inState /\ v.ends = u.ends
          /\ v.alive = u.alive /\ v.fade = u.fade /\ v.attached = FALSE
      BY <2>1, <3>1 DEF Tips
    <3>4. GoneSoFar(v, i)   BY <1>5, <2>1, <2>2, <2>5, <3>2, <3>3 DEF GoneSoFar
    <3> QED  BY <3>4 DEF v
  <2>6. CASE tip.ends[i] = "destroyed"
    <3>1. v = [u EXCEPT !.alive = FALSE, !.attached = FALSE, !.fade = FALSE]   BY <2>1, <2>3, <2>6, TipEndIs
    <3> HIDE DEF v
    <3>2. Gone(v)   BY <2>1, <3>1 DEF Gone, Tips
    <3>3. /\ v \in Tips /\ v.enabled = u.enabled /\ v.inState = u.inState /\ v.ends = u.ends
          /\ v.alive = FALSE /\ v.fade = FALSE /\ v.attached = FALSE
      BY <2>1, <3>1 DEF Tips
    <3>4. GoneSoFar(v, i)   BY <2>1, <2>2, <2>6, <3>2, <3>3 DEF GoneSoFar
    <3> QED  BY <3>4 DEF v
  <2> QED  BY <2>3, <2>4, <2>5, <2>6 DEF EndKinds
<1> DEFINE T == {i \in Nat : i <= n => GoneSoFar(f[i], i)}
<1>6. 0 \in T   BY <1>3, <1>4
<1>7. ASSUME NEW i \in Nat, i \in T   PROVE  i + 1 \in T
  <2> SUFFICES ASSUME i + 1 <= n   PROVE GoneSoFar(f[i + 1], i + 1)
    OBVIOUS
  <2>1. i + 1 \in 1 .. n /\ (i + 1) - 1 = i /\ i <= n   BY <1>1
  <2>2. GoneSoFar(f[i], (i + 1) - 1)   BY <1>7, <2>1
  <2>3. GoneSoFar(TipEnd(f[i], tip.ends[i + 1]), i + 1)   BY <1>5, <2>1, <2>2
  <2>4. f[i + 1] = TipEnd(f[i], tip.ends[i + 1])   BY <1>3, <2>1
  <2> QED  BY <2>3, <2>4
<1> HIDE DEF T
<1>8. n \in T   BY <1>1, <1>6, <1>7, Induction
<1>9. GoneSoFar(tip', n)   BY <1>1, <1>2, <1>8 DEF T
<1>10. /\ tipOptions.animation = FALSE => tip.fade = FALSE
       /\ IF tipOptions.manual = TRUE THEN tip.inState = {} ELSE wanted = TRUE <=> tip.inState # {}
       /\ tip.enabled = TRUE
  BY DEF TipPhase
<1>11. tip' \in Tips /\ Gone(tip') /\ tip'.enabled = TRUE /\ tip'.inState = tip.inState /\ tip'.ends = << >>
  BY <1>9, <1>10 DEF GoneSoFar
<1>12. CASE Going(tip)
  <2>1. \E k \in 1 .. n : tip.ends[k] = "destroyed"   BY <1>12 DEF Going, n
  <2>2. tip'.alive = FALSE /\ tip'.attached = FALSE /\ tip'.fade = FALSE   BY <1>9, <2>1 DEF GoneSoFar
  <2>3. Dead(tip')   BY <1>11, <2>2 DEF Dead
  <2> QED  BY <1>10, <1>11, <2>2, <2>3 DEF TipPhase
<1>13. CASE Down(tip, wanted)
  <2>1. /\ tip.alive = TRUE /\ wanted = FALSE /\ tip.ends[n] = "hidden"
        /\ ~ \E k \in 1 .. n : tip.ends[k] = "destroyed"
    BY <1>1, <1>13 DEF Down, n
  <2>2. tip'.alive = TRUE /\ tip'.attached = FALSE /\ tip'.fade = tip.fade   BY <1>1, <1>9, <2>1 DEF GoneSoFar
  <2>3. Len(tip'.ends) = 0   BY <1>11
  <2>4. Down(tip', wanted)   BY <1>11, <2>1, <2>2, <2>3 DEF Down
  <2> QED  BY <1>10, <1>11, <2>2, <2>4 DEF TipPhase
<1> QED  BY <1>12, <1>13

-----------------------------------------------------------------------------
(* The delay, the calls of show(), hide() and destroy().                     *)

\* A delay is over.
LEMMA DelayKeeps ==
  ASSUME tipOptions \in TipOptions, HasContent(text), wanted \in BOOLEAN, TipPhase(tip, wanted), TipDelayOver
  PROVE  TipPhase(tip', wanted)
<1> DEFINE over == [tip EXCEPT !.timeout = "none"]
<1>1. /\ tip \in Tips /\ tip.timeout # "none" /\ tip.ends \in Seq(EndKinds) /\ tip.fade \in BOOLEAN
      /\ tip.timeout \in {"show", "hide"}
  BY DEF TipPhase, Tips, TipDelayOver
<1>2. /\ over \in Tips /\ over.hoverState = tip.hoverState /\ over.timeout = "none"
      /\ over.inState = tip.inState /\ over.ends = tip.ends /\ over.in = tip.in
      /\ over.attached = tip.attached /\ over.alive = tip.alive /\ over.fade = tip.fade
      /\ over.enabled = tip.enabled
  BY <1>1 DEF Tips
<1>3. tip' = CASE tip.timeout = "show" /\ tip.hoverState = "in"  -> ShowTip(over)
               [] tip.timeout = "hide" /\ tip.hoverState = "out" -> HideTip(over, "hidden")
               [] OTHER                                          -> over
  BY DEF TipDelayOver
<1> HIDE DEF over
<1>4. /\ tip.enabled = TRUE /\ (tipOptions.animation = FALSE => tip.fade = FALSE)
      /\ (tip.fade = FALSE => tip.ends = << >>)
      /\ IF tipOptions.manual = TRUE THEN tip.inState = {} ELSE wanted = TRUE <=> tip.inState # {}
  BY DEF TipPhase
<1>5. CASE Coming(tip, wanted)
  <2>1. /\ tip.hoverState = "in" /\ tip.timeout = "show" /\ wanted = TRUE /\ tip.alive = TRUE
        /\ \A i \in 1 .. Len(tip.ends) : tip.ends[i] = "hidden"
    BY <1>5 DEF Coming
  <2>2. tip' = ShowTip(over)   BY <1>3, <2>1
  <2>3. ShownOf(over, tip')   BY <1>2, <1>4, <2>1, <2>2, ShowTipIs
  <2>4. IF tipOptions.manual = TRUE THEN over.inState = {} ELSE over.inState # {}   BY <1>2, <1>4, <2>1
  <2>5. /\ \A i \in 1 .. Len(over.ends) : over.ends[i] = "hidden"
        /\ over.ends \in Seq(EndKinds)
    BY <1>1, <1>2, <1>4, <2>1
  <2>6. over.alive = TRUE /\ over.enabled = TRUE /\ over.hoverState = "in"   BY <1>2, <1>4, <2>1
  <2>7. TipPhase(tip', TRUE)
    <3>1. tipOptions.animation = FALSE => over.ends = << >>   BY <1>2, <1>4
    <3> QED  BY <1>2, <2>3, <2>4, <2>5, <2>6, <3>1, ShownIsUp
  <2> QED  BY <2>1, <2>7
<1>6. CASE tip.hoverState = "out"
  <2>0. Up(tip, wanted) \/ Down(tip, wanted) \/ Going(tip) \/ Dead(tip)
    BY <1>6 DEF TipPhase, Coming
  <2>1. tip.timeout = "hide" /\ tip.inState = {}   BY <1>6, <2>0 DEF Up, Down, Going, Dead, Gone
  <2>2. tip' = HideTip(over, "hidden")   BY <1>3, <1>6, <2>1
  <2>3. HidOf(over, "hidden", tip')   BY <1>2, <2>2, HideTipIs
  <2>4. CASE Up(tip, wanted) \/ Down(tip, wanted)
    <3>1. wanted = FALSE /\ tip.alive = TRUE   BY <1>6, <2>4 DEF Up, Down
    <3>2. \A i \in 1 .. Len(tip.ends) : tip.ends[i] # "destroyed"
      <4>1. CASE Up(tip, wanted)
        <5>1. /\ tip.ends # << >> => tip.ends[Len(tip.ends)] = "shown"
              /\ ~(Len(tip.ends) > 1)
          BY <1>6, <4>1 DEF Up
        <5>2. Len(tip.ends) \in Nat /\ (tip.ends = << >> => Len(tip.ends) = 0)   BY <1>1
        <5> QED  BY <5>1, <5>2
      <4>2. CASE Down(tip, wanted)   BY <4>2 DEF Down
      <4> QED  BY <2>4, <4>1, <4>2
    <3>3. /\ over.inState = {} /\ over.alive = TRUE /\ over.enabled = TRUE /\ over.hoverState # "in"
          /\ over.fade \in BOOLEAN /\ over.ends \in Seq(EndKinds)
          /\ \A i \in 1 .. Len(over.ends) : over.ends[i] # "destroyed"
      BY <1>1, <1>2, <1>4, <1>6, <2>1, <3>1, <3>2
    <3>4. (over.fade = FALSE => over.ends = << >>) /\ (tipOptions.animation = FALSE => over.fade = FALSE)
      BY <1>2, <1>4
    <3>5. TipPhase(tip', FALSE)   BY <1>2, <2>3, <3>3, <3>4, HiddenIsDown
    <3> QED  BY <3>1, <3>5
  <2>5. CASE Going(tip)
    <3>1. tip.alive = TRUE /\ \E i \in 1 .. Len(tip.ends) : tip.ends[i] = "destroyed"   BY <2>5 DEF Going
    <3>2. tip.ends # << >>   BY <1>1, <3>1
    <3>3. over.fade = TRUE /\ over.alive = TRUE /\ over.enabled = TRUE /\ over.ends \in Seq(EndKinds)
      BY <1>1, <1>2, <1>4, <3>1, <3>2
    <3>4. \E i \in 1 .. Len(over.ends) : over.ends[i] = "destroyed"   BY <1>2, <3>1
    <3>5. tipOptions.animation = FALSE => over.fade = FALSE   BY <1>2, <1>4
    <3>6. IF tipOptions.manual = TRUE THEN over.inState = {} ELSE wanted = TRUE <=> over.inState # {}
      BY <1>2, <1>4
    <3> QED  BY <1>2, <2>3, <3>3, <3>4, <3>5, <3>6, HiddenIsGoing
  <2>6. CASE Dead(tip)
    <3>1. tip.fade = FALSE /\ tip.ends = << >> /\ tip.alive = FALSE /\ tip.attached = FALSE   BY <2>6 DEF Dead
    <3>2. /\ tip' \in Tips /\ tip'.in = FALSE /\ tip'.hoverState = "none" /\ tip'.timeout = "none"
          /\ tip'.inState = tip.inState /\ tip'.enabled = TRUE /\ tip'.fade = FALSE /\ tip'.ends = << >>
          /\ tip'.alive = FALSE /\ tip'.attached = FALSE
      BY <1>2, <1>4, <2>3, <3>1 DEF HidOf
    <3>3. Dead(tip')   BY <3>2 DEF Dead, Gone
    <3> QED  BY <1>4, <3>2, <3>3 DEF TipPhase
  <2> QED  BY <2>0, <2>4, <2>5, <2>6
<1>7. CASE ~Coming(tip, wanted) /\ tip.hoverState # "out"
  <2>1. Up(tip, wanted) \/ Down(tip, wanted) \/ Going(tip) \/ Dead(tip)   BY <1>7 DEF TipPhase
  <2>2. Up(tip, wanted)   BY <1>1, <1>7, <2>1 DEF Down, Going, Dead, Gone
  <2>3. tip.timeout = "hide"   BY <1>1, <2>2 DEF Up
  <2>4. tip' = over   BY <1>3, <1>7, <2>3
  <2>5. Up(over, wanted)   BY <1>2, <1>7, <2>2 DEF Up
  <2> QED  BY <1>2, <1>4, <2>4, <2>5 DEF TipPhase
<1> QED  BY <1>5, <1>6, <1>7

\* destroy() takes a tip down for good.
LEMMA DestroyKeeps ==
  ASSUME tipOptions \in TipOptions, wanted \in BOOLEAN, TipPhase(tip, wanted), tip.alive = TRUE
  PROVE  TipPhase(DestroyTip(tip), wanted)
<1> DEFINE o == [tip EXCEPT !.timeout = "none"]
           u == DestroyTip(tip)
<1>1. tip \in Tips /\ tip.ends \in Seq(EndKinds) /\ tip.fade \in BOOLEAN   BY DEF TipPhase, Tips
<1>2. /\ o \in Tips /\ o.hoverState = tip.hoverState /\ o.timeout = "none"
      /\ o.inState = tip.inState /\ o.ends = tip.ends /\ o.alive = TRUE /\ o.fade = tip.fade
      /\ o.enabled = tip.enabled
  BY <1>1 DEF Tips
<1>3. u = HideTip(o, "destroyed")   BY DEF DestroyTip
<1> HIDE DEF u, o
<1>4. HidOf(o, "destroyed", u)   BY <1>2, <1>3, HideTipIs
<1>5. /\ tip.enabled = TRUE /\ (tipOptions.animation = FALSE => tip.fade = FALSE)
      /\ (tip.fade = FALSE => tip.ends = << >>)
      /\ IF tipOptions.manual = TRUE THEN tip.inState = {} ELSE wanted = TRUE <=> tip.inState # {}
  BY DEF TipPhase
<1>6. CASE tip.fade = TRUE
  <2>1. o.fade = TRUE /\ o.enabled = TRUE /\ o.ends \in Seq(EndKinds)   BY <1>1, <1>2, <1>5, <1>6
  <2>2. tipOptions.animation = FALSE => o.fade = FALSE   BY <1>2, <1>5
  <2>3. IF tipOptions.manual = TRUE THEN o.inState = {} ELSE wanted = TRUE <=> o.inState # {}   BY <1>2, <1>5
  <2>4. TipPhase(u, wanted)   BY <1>2, <1>4, <2>1, <2>2, <2>3, HiddenIsGoing
  <2> QED  BY <2>4 DEF u
<1>7. CASE tip.fade = FALSE
  <2>1. /\ u \in Tips /\ u.in = FALSE /\ u.hoverState = "none" /\ u.timeout = "none"
        /\ u.inState = tip.inState /\ u.enabled = TRUE /\ u.fade = FALSE /\ u.ends = << >>
        /\ u.alive = FALSE /\ u.attached = FALSE
    BY <1>2, <1>4, <1>5, <1>7 DEF HidOf
  <2>2. Dead(u)   BY <2>1 DEF Dead, Gone
  <2>3. TipPhase(u, wanted)   BY <1>5, <2>1, <2>2 DEF TipPhase
  <2> QED  BY <2>3 DEF u
<1> QED  BY <1>1, <1>6, <1>7

\* show() and hide() called on a tip at rest.
LEMMA CallKeeps ==
  ASSUME tipOptions \in TipOptions, HasContent(text), wanted \in BOOLEAN, TipPhase(tip, wanted),
         tip.alive = TRUE, tipOptions.manual = TRUE,
         tip.ends = << >>, tip.timeout = "none", tip.hoverState = "none"
  PROVE  TipPhase(ShowTip(tip), TRUE) /\ TipPhase(HideTip(tip, "hidden"), FALSE)
<1>1. /\ tip \in Tips /\ tip.enabled = TRUE /\ tip.inState = {} /\ tip.fade \in BOOLEAN
      /\ (tipOptions.animation = FALSE => tip.fade = FALSE)
  BY DEF TipPhase, Tips
<1>2. tip.ends \in Seq(EndKinds) /\ Len(tip.ends) = 0   OBVIOUS
<1>3. TipPhase(ShowTip(tip), TRUE)
  <2>1. ShownOf(tip, ShowTip(tip))   BY <1>1, ShowTipIs
  <2>2. \A i \in 1 .. Len(tip.ends) : tip.ends[i] = "hidden"   BY <1>2
  <2> QED  BY <1>1, <1>2, <2>1, <2>2, ShownIsUp
<1>4. TipPhase(HideTip(tip, "hidden"), FALSE)
  <2>1. HidOf(tip, "hidden", HideTip(tip, "hidden"))   BY <1>1, HideTipIs
  <2>2. \A i \in 1 .. Len(tip.ends) : tip.ends[i] # "destroyed"   BY <1>2
  <2> QED  BY <1>1, <1>2, <2>1, <2>2, HiddenIsDown
<1> QED  BY <1>3, <1>4

-----------------------------------------------------------------------------
(* Without content.                                                          *)

\* Without content the methods leave the tip alone.
LEMMA BareMethods ==
  ASSUME tipOptions \in TipOptions, ~HasContent(text), NEW t, BareTip(t), t.alive = TRUE
  PROVE  /\ BareTip(ShowTip(t)) /\ BareTip(EnterTip(t)) /\ BareTip(LeaveTip(t))
         /\ \A does \in {"hidden", "destroyed"} : BareTip(HideTip([t EXCEPT !.timeout = "none"], does))
         /\ BareTip(HideTip(t, "hidden")) /\ BareTip([t EXCEPT !.timeout = "none"])
<1>0. /\ t \in Tips /\ t.in = FALSE /\ t.fade = FALSE /\ t.attached = FALSE /\ t.ends = << >>
      /\ tipOptions.showDelay \in BOOLEAN /\ tipOptions.hideDelay \in BOOLEAN
  BY DEF BareTip, TipOptions
<1>1. \A s : ShowTip(s) = s   BY DEF ShowTip
<1>2. ASSUME NEW to \in {"none", "show", "hide"}, NEW hs \in {"none", "in", "out"}
      PROVE  LET s == [t EXCEPT !.timeout = to, !.hoverState = hs]
             IN  BareTip(s) /\ s.fade = FALSE /\ s.timeout = to
  BY <1>0 DEF BareTip, Tips
<1>3. ASSUME NEW s, BareTip(s), NEW does \in {"hidden", "destroyed"}, does = "destroyed" => s.timeout = "none",
             s.alive = TRUE
      PROVE  BareTip(HideTip(s, does))
  <2> DEFINE u == HideTip(s, does)
  <2>1. s \in Tips /\ s.fade = FALSE /\ s.attached = FALSE /\ s.ends = << >>   BY <1>3 DEF BareTip
  <2>2. HidOf(s, does, u)   BY <2>1, HideTipIs
  <2> HIDE DEF u
  <2>3. /\ u \in Tips /\ u.in = FALSE /\ u.timeout = s.timeout /\ u.ends = << >> /\ u.fade = FALSE
        /\ u.attached = FALSE
    BY <2>1, <2>2 DEF HidOf
  <2>4. u.alive = FALSE => u.timeout = "none"
    <3>1. CASE does = "destroyed"   BY <1>3, <2>3, <3>1
    <3>2. CASE does = "hidden"   BY <1>3, <2>1, <2>2, <3>2 DEF HidOf
    <3> QED  BY <3>1, <3>2
  <2>5. BareTip(u)   BY <2>3, <2>4 DEF BareTip
  <2> QED  BY <2>5 DEF u
<1>4. BareTip(EnterTip(t))
  <2>1. t.hoverState \in {"none", "in", "out"} /\ t.timeout \in {"none", "show", "hide"}   BY <1>0 DEF Tips
  <2>2. [t EXCEPT !.hoverState = "in"] = [t EXCEPT !.timeout = t.timeout, !.hoverState = "in"]
    BY <1>0 DEF Tips
  <2>3. [t EXCEPT !.hoverState = "in", !.timeout = "show"] = [t EXCEPT !.timeout = "show", !.hoverState = "in"]
    BY <1>0 DEF Tips
  <2>4. [t EXCEPT !.hoverState = "in", !.timeout = "none"] = [t EXCEPT !.timeout = "none", !.hoverState = "in"]
    BY <1>0 DEF Tips
  <2>5. /\ BareTip([t EXCEPT !.hoverState = "in"]) /\ BareTip([t EXCEPT !.hoverState = "in", !.timeout = "show"])
        /\ BareTip([t EXCEPT !.hoverState = "in", !.timeout = "none"])
    BY <1>2, <2>1, <2>2, <2>3, <2>4
  <2> QED  BY <1>1, <2>5 DEF EnterTip
<1>5. BareTip(LeaveTip(t))
  <2> DEFINE o == [t EXCEPT !.timeout = "none", !.hoverState = "out"]
  <2>1. BareTip(o) /\ o.alive = TRUE   BY <1>0, <1>2 DEF Tips
  <2>2. CASE t.inState # {}   BY <2>2, <1>0 DEF LeaveTip
  <2>3. CASE t.inState = {} /\ tipOptions.hideDelay = TRUE
    <3>1. LeaveTip(t) = [t EXCEPT !.timeout = "hide", !.hoverState = "out"]   BY <1>0, <2>3, LeaveTipIs
    <3> QED  BY <1>2, <3>1
  <2>4. CASE t.inState = {} /\ tipOptions.hideDelay = FALSE
    <3>1. LeaveTip(t) = HideTip(o, "hidden")   BY <2>4 DEF LeaveTip
    <3> HIDE DEF o
    <3> QED  BY <1>3, <2>1, <3>1
  <2> QED  BY <1>0, <2>2, <2>3, <2>4
<1>6. [t EXCEPT !.timeout = "none"] = [t EXCEPT !.timeout = "none", !.hoverState = t.hoverState]
  BY <1>0 DEF Tips
<1>7. /\ BareTip([t EXCEPT !.timeout = "none"]) /\ [t EXCEPT !.timeout = "none"].timeout = "none"
      /\ [t EXCEPT !.timeout = "none"].alive = TRUE
  <2>1. t.hoverState \in {"none", "in", "out"}   BY <1>0 DEF Tips
  <2>2. BareTip([t EXCEPT !.timeout = "none"])   BY <1>2, <1>6, <2>1
  <2> QED  BY <1>0, <2>2 DEF Tips
<1>8. BareTip(HideTip(t, "hidden"))   BY <1>3
<1> QED  BY <1>1, <1>3, <1>4, <1>5, <1>7, <1>8

-----------------------------------------------------------------------------
(* The invariant is inductive.                                               *)

\* The invariant, of the next state.
LEMMA TipInvNext ==
  ASSUME tipOptions \in TipOptions, tipOptions' = tipOptions, wanted' \in BOOLEAN, crossed' \in BOOLEAN,
         ~crossed' => IF HasContent(text') THEN TipPhase(tip', wanted') ELSE BareTip(tip')
  PROVE  TipInv'
<1>1. HasContent(text)' = HasContent(text')   BY DEF HasContent, GetTitle
<1>2. TipPhase(tip, wanted)' <=> TipPhase(tip', wanted')
  <2>1. /\ Up(tip, wanted)' <=> Up(tip', wanted')
        /\ Coming(tip, wanted)' <=> Coming(tip', wanted')
        /\ Gone(tip)' <=> Gone(tip')
    BY DEF Up, Coming, Gone
  <2>2. /\ Down(tip, wanted)' <=> Down(tip', wanted')
        /\ Going(tip)' <=> Going(tip')
        /\ Dead(tip)' <=> Dead(tip')
    BY <2>1 DEF Down, Going, Dead
  <2>3. (tip \in Tips)' <=> tip' \in Tips   BY DEF Tips
  <2> QED  BY <2>1, <2>2, <2>3, Zenon DEF TipPhase
<1>3. BareTip(tip)' <=> BareTip(tip')   BY DEF BareTip, Tips
<1>4. (tipOptions \in TipOptions)'   BY DEF TipOptions
<1> QED  BY <1>1, <1>2, <1>3, <1>4, Zenon DEF TipInv

\* With content, while nothing crosses.
LEMMA TipEnters ==
  ASSUME tipOptions \in TipOptions, HasContent(text), wanted \in BOOLEAN, TipPhase(tip, wanted),
         tip.alive = TRUE, NEW S \in SUBSET Sources,
         IF tipOptions.manual = TRUE THEN S = {} ELSE S # {},
         NEW s, s = [tip EXCEPT !.inState = S], tip' = EnterTip(s), ~Crosses(tip')
  PROVE  TipPhase(tip', TRUE)
<1>1. tip \in Tips /\ tip.enabled = TRUE /\ tip.in \in BOOLEAN /\ tip.ends \in Seq(EndKinds)
  BY DEF TipPhase, Tips
<1>2. s \in Tips /\ s.enabled = TRUE /\ s.in = tip.in /\ s.hoverState = tip.hoverState   BY <1>1 DEF Tips
<1>3. tip' = EnterTip(s) /\ s = [tip EXCEPT !.inState = S]   OBVIOUS
<1>4. tip'.in = TRUE \/ tip'.hoverState = "in"
  <2>1. CASE s.in = TRUE \/ s.hoverState = "in"
    <3>1. tip' = [s EXCEPT !.hoverState = "in"]   BY <1>2, <1>3, <2>1, EnterTipIs
    <3> QED  BY <1>2, <3>1 DEF Tips
  <2>2. CASE ~(s.in = TRUE \/ s.hoverState = "in") /\ tipOptions.showDelay = TRUE
    <3>1. tip' = [s EXCEPT !.hoverState = "in", !.timeout = "show"]   BY <1>2, <1>3, <2>2, EnterTipIs
    <3> QED  BY <1>2, <3>1 DEF Tips
  <2>3. CASE ~(s.in = TRUE \/ s.hoverState = "in") /\ ~(tipOptions.showDelay = TRUE)
    <3>1. ShownOf([s EXCEPT !.hoverState = "in", !.timeout = "none"], tip')
      BY <1>2, <1>3, <2>3, EnterTipIs
    <3> QED  BY <3>1 DEF ShownOf
  <2> QED  BY <2>1, <2>2, <2>3
<1>5. tip.in = FALSE => \A i \in 1 .. Len(tip.ends) : tip.ends[i] = "hidden"
  <2> SUFFICES ASSUME tip.in = FALSE, NEW i \in 1 .. Len(tip.ends)
               PROVE  tip.ends[i] = "hidden"
    OBVIOUS
  <2>1. {"shown", "destroyed"} \intersect ToSet(tip.ends) = {}   BY <1>4 DEF Crosses
  <2>2. tip.ends[i] \in ToSet(tip.ends) /\ tip.ends[i] \in EndKinds   BY <1>1 DEF ToSet
  <2> QED  BY <2>1, <2>2 DEF EndKinds
<1>6. ToEnter(tip, S, s)   BY <1>3, <1>5 DEF ToEnter
<1> QED  BY <1>3, <1>6, EnterKeeps

\* A tip with or without content is left.
LEMMA TipLeaves ==
  ASSUME tipOptions \in TipOptions, wanted \in BOOLEAN, TipPhase(tip, wanted), tip.alive = TRUE,
         NEW s, s = [tip EXCEPT !.inState = {}], tip' = LeaveTip(s), ~Crosses(tip')
  PROVE  TipPhase(tip', FALSE)
<1> DEFINE o == [s EXCEPT !.timeout = "none", !.hoverState = "out"]
<1>1. tip \in Tips /\ tip.in \in BOOLEAN /\ tip.ends \in Seq(EndKinds) /\ tipOptions.hideDelay \in BOOLEAN
  BY DEF TipPhase, Tips, TipOptions
<1>2. s \in Tips /\ s.inState = {}   BY <1>1 DEF Tips
<1>3. tip' = LeaveTip(s)   OBVIOUS
<1>4. s = [tip EXCEPT !.inState = {}]   OBVIOUS
<1>5. tip'.in = FALSE \/ tip'.hoverState = "out"
  <2>1. CASE tipOptions.hideDelay = TRUE
    <3>1. tip' = [s EXCEPT !.timeout = "hide", !.hoverState = "out"]   BY <1>2, <1>3, <2>1, LeaveTipIs
    <3> QED  BY <1>2, <3>1 DEF Tips
  <2>2. CASE tipOptions.hideDelay = FALSE
    <3>1. HidOf(o, "hidden", tip')   BY <1>2, <1>3, <2>2, LeaveTipIs
    <3> QED  BY <3>1 DEF HidOf
  <2> QED  BY <1>1, <2>1, <2>2
<1>6. tip.in = TRUE => \A i \in 1 .. Len(tip.ends) : tip.ends[i] # "hidden"
  <2> SUFFICES ASSUME tip.in = TRUE, NEW i \in 1 .. Len(tip.ends)
               PROVE  tip.ends[i] # "hidden"
    OBVIOUS
  <2>1. "hidden" \notin ToSet(tip.ends)   BY <1>5 DEF Crosses
  <2>2. tip.ends[i] \in ToSet(tip.ends)   BY <1>1 DEF ToSet
  <2> QED  BY <2>1, <2>2
<1>7. TipPhase(LeaveTip(s), FALSE)   BY <1>4, <1>6, LeaveKeeps
<1> QED  BY <1>3, <1>7

\* Sources come and go without an effect on a bare tip.
LEMMA BareInState ==
  ASSUME NEW t, BareTip(t), NEW S \in SUBSET Sources
  PROVE  LET s == [t EXCEPT !.inState = S] IN BareTip(s) /\ s.alive = t.alive /\ s.inState = S
BY DEF BareTip, Tips

\* The tip of a step is in a phase or bare.
LEMMA TipOpen ==
  ASSUME TipInv, ~crossed
  PROVE  /\ tip \in Tips /\ (tip.alive <=> tip.alive = TRUE) /\ (tip.in <=> tip.in = TRUE)
         /\ (tipOptions.manual <=> tipOptions.manual = TRUE) /\ (~tipOptions.manual <=> tipOptions.manual = FALSE)
         /\ HasContent(text) => TipPhase(tip, wanted)
         /\ ~HasContent(text) => BareTip(tip)
<1>1. tip \in Tips
  <2>1. CASE HasContent(text)   BY <2>1 DEF TipInv, TipPhase
  <2>2. CASE ~HasContent(text)   BY <2>2 DEF TipInv, BareTip
  <2> QED  BY <2>1, <2>2
<1>2. tip.alive \in BOOLEAN /\ tip.in \in BOOLEAN   BY <1>1 DEF Tips
<1>3. tipOptions.manual \in BOOLEAN   BY DEF TipInv, TipOptions
<1>4. /\ HasContent(text) => TipPhase(tip, wanted)
      /\ ~HasContent(text) => BareTip(tip)
  BY DEF TipInv
<1>5. /\ (tip.alive <=> tip.alive = TRUE) /\ (tip.in <=> tip.in = TRUE)   BY <1>2
<1>6. /\ (tipOptions.manual <=> tipOptions.manual = TRUE) /\ (~tipOptions.manual <=> tipOptions.manual = FALSE)
  BY <1>3
<1> QED  BY <1>1, <1>4, <1>5, <1>6

\* What is to be shown of a step that crosses nothing.
LEMMA TipStep ==
  ASSUME TipInv, tipOptions' = tipOptions, wanted' \in BOOLEAN, crossed' \in BOOLEAN,
         ~crossed' => /\ ~crossed /\ (HasContent(text') <=> HasContent(text))
                      /\ HasContent(text) => TipPhase(tip', wanted')
                      /\ ~HasContent(text) => BareTip(tip')
  PROVE  TipInv'
<1>1. tipOptions \in TipOptions   BY DEF TipInv
<1>2. ~crossed' => IF HasContent(text') THEN TipPhase(tip', wanted') ELSE BareTip(tip')   OBVIOUS
<1> QED  BY <1>1, <1>2, TipInvNext

\* The steps: events, calls, delays and ends of fades.
LEMMA EnterEventKeeps ==
  ASSUME TipInv, NEW source \in Sources, EnterEvent(source), UNCHANGED <<text, tipOptions>>
  PROVE  TipInv'
<1> DEFINE S == tip.inState \union {source}
           s == [tip EXCEPT !.inState = S]
<1>1. crossed \in BOOLEAN /\ wanted \in BOOLEAN /\ tipOptions \in TipOptions   BY DEF TipInv
<1>2. /\ tip.alive /\ ~tipOptions.manual /\ tip' = EnterTip(s) /\ s = [tip EXCEPT !.inState = S]
      /\ wanted' = TRUE /\ crossed' = (crossed \/ Crosses(tip'))
  BY DEF EnterEvent, TipTurn
<1>3. ASSUME ~crossed'   PROVE  ~crossed /\ ~Crosses(tip')   BY <1>2, <1>3
<1>4. ASSUME ~crossed', HasContent(text)   PROVE  TipPhase(tip', wanted')
  <2>1. /\ tip \in Tips /\ tip.alive = TRUE /\ tipOptions.manual = FALSE /\ TipPhase(tip, wanted)
    BY <1>2, <1>3, <1>4, TipOpen
  <2>2. S \in SUBSET Sources /\ S # {}   BY <2>1 DEF Tips
  <2> HIDE DEF S, s
  <2>3. TipPhase(tip', TRUE)   BY <1>1, <1>2, <1>3, <1>4, <2>1, <2>2, TipEnters
  <2> QED  BY <1>2, <2>3
<1>5. ASSUME ~crossed', ~HasContent(text)   PROVE  BareTip(tip')
  <2>1. /\ tip \in Tips /\ tip.alive = TRUE /\ BareTip(tip)   BY <1>2, <1>3, <1>5, TipOpen
  <2>2. S \in SUBSET Sources   BY <2>1 DEF Tips
  <2> HIDE DEF S
  <2>3. BareTip(s) /\ s.alive = TRUE   BY <2>1, <2>2, BareInState
  <2> HIDE DEF s
  <2> QED  BY <1>1, <1>2, <1>5, <2>3, BareMethods
<1> QED  BY <1>2, <1>3, <1>4, <1>5, TipStep

\* The pointer or the focus leaves.
LEMMA LeaveEventKeeps ==
  ASSUME TipInv, NEW source \in Sources, LeaveEvent(source), UNCHANGED <<text, tipOptions>>
  PROVE  TipInv'
<1> DEFINE S == tip.inState \ {source}
           left == [tip EXCEPT !.inState = S]
<1>1. crossed \in BOOLEAN /\ wanted \in BOOLEAN /\ tipOptions \in TipOptions   BY DEF TipInv
<1>2. /\ tip.alive /\ ~tipOptions.manual /\ source \in tip.inState
      /\ tip' = IF source = "click" /\ left.inState # {} THEN EnterTip(left) ELSE LeaveTip(left)
      /\ wanted' = (tip'.inState # {}) /\ crossed' = (crossed \/ Crosses(tip'))
  BY DEF LeaveEvent, TipTurn
<1>3. ASSUME ~crossed'   PROVE  ~crossed /\ ~Crosses(tip')   BY <1>2, <1>3
<1>4. ASSUME ~crossed', HasContent(text)   PROVE  TipPhase(tip', wanted')
  <2>1. /\ tip \in Tips /\ tip.alive = TRUE /\ tipOptions.manual = FALSE /\ TipPhase(tip, wanted)
    BY <1>2, <1>3, <1>4, TipOpen
  <2>2. S \in SUBSET Sources /\ left.inState = S /\ left \in Tips   BY <2>1 DEF Tips
  <2>3. wanted = TRUE   BY <1>1, <1>2, <2>1 DEF TipPhase
  <2> HIDE DEF S
  <2>4. CASE S # {} /\ source = "click"
    <3>0. left = [tip EXCEPT !.inState = S]   OBVIOUS
    <3> HIDE DEF left
    <3>1. tip' = EnterTip(left)   BY <1>2, <2>2, <2>4
    <3>2. TipPhase(tip', TRUE)   BY <1>1, <1>3, <1>4, <2>1, <2>2, <2>4, <3>0, <3>1, TipEnters
    <3>3. tip'.inState # {}   BY <2>1, <3>2 DEF TipPhase
    <3> QED  BY <1>2, <3>2, <3>3
  <2>5. CASE S # {} /\ source # "click"
    <3>1. tip' = LeaveTip(left)   BY <1>2, <2>5
    <3>2. LeaveTip(left) = left
      <4> HIDE DEF left
      <4> QED  BY <1>1, <2>2, <2>5, LeaveTipIs
    <3>3. tip' = left /\ wanted' = TRUE   BY <1>2, <2>2, <2>5, <3>1, <3>2
    <3>4. /\ left.alive = TRUE /\ left.in = tip.in /\ left.fade = tip.fade /\ left.enabled = tip.enabled
          /\ left.attached = tip.attached /\ left.ends = tip.ends
          /\ left.timeout = tip.timeout /\ left.hoverState = tip.hoverState
      BY <2>1 DEF Tips
    <3> HIDE DEF left
    <3>5. tip.inState # {}   BY <1>2
    <3>6. Up(tip, wanted) => Up(left, TRUE)   BY <2>3, <3>4, <3>5 DEF Up
    <3>7. Coming(tip, wanted) => Coming(left, TRUE)   BY <3>4 DEF Coming
    <3>8. ~Down(tip, wanted) /\ ~Dead(tip)   BY <2>1, <2>3 DEF Down, Dead
    <3>9. Going(tip) => Going(left)   BY <3>4, <3>5 DEF Going, Gone
    <3>10. /\ tip.enabled = TRUE /\ (tipOptions.animation = FALSE => tip.fade = FALSE)
           /\ (tip.fade = FALSE => tip.ends = << >>) /\ (Up(tip, wanted) \/ Coming(tip, wanted) \/ Going(tip))
      BY <2>1, <3>8 DEF TipPhase
    <3>11. TipPhase(left, TRUE)   BY <2>1, <2>2, <2>5, <3>4, <3>6, <3>7, <3>9, <3>10 DEF TipPhase
    <3> QED  BY <3>3, <3>11
  <2>6. CASE S = {}
    <3>0. left = [tip EXCEPT !.inState = {}] /\ left.inState = {}   BY <2>2, <2>6
    <3> HIDE DEF left
    <3>1. tip' = LeaveTip(left)   BY <1>2, <3>0
    <3>2. TipPhase(tip', FALSE)   BY <1>1, <1>3, <1>4, <2>1, <3>0, <3>1, TipLeaves
    <3>3. tip'.inState = {}   BY <2>1, <3>2 DEF TipPhase
    <3> QED  BY <1>2, <3>2, <3>3
  <2> QED  BY <2>4, <2>5, <2>6
<1>5. ASSUME ~crossed', ~HasContent(text)   PROVE  BareTip(tip')
  <2>1. /\ tip \in Tips /\ tip.alive = TRUE /\ BareTip(tip)   BY <1>2, <1>3, <1>5, TipOpen
  <2>2. S \in SUBSET Sources   BY <2>1 DEF Tips
  <2> HIDE DEF S
  <2>3. BareTip(left) /\ left.alive = TRUE   BY <2>1, <2>2, BareInState
  <2> HIDE DEF left
  <2>4. BareTip(EnterTip(left)) /\ BareTip(LeaveTip(left))   BY <1>1, <1>5, <2>3, BareMethods
  <2> QED  BY <1>2, <2>4
<1>6. wanted' \in BOOLEAN /\ crossed' \in BOOLEAN   BY <1>1, <1>2
<1> HIDE DEF left
<1> QED  BY <1>3, <1>4, <1>5, <1>6, TipStep

\* A click, or a call of toggle().
LEMMA ToggleKeeps ==
  ASSUME TipInv, ToggleCalled, UNCHANGED <<text, tipOptions>>
  PROVE  TipInv'
<1>1. crossed \in BOOLEAN /\ wanted \in BOOLEAN /\ tipOptions \in TipOptions   BY DEF TipInv
<1>2. /\ tip.alive /\ tipOptions.manual
      /\ tip' = IF tip.in THEN LeaveTip(tip) ELSE EnterTip(tip)
      /\ wanted' = ~tip.in /\ crossed' = (crossed \/ Crosses(tip'))
  BY DEF ToggleCalled, TipTurn, ToggleTip
<1>3. ASSUME ~crossed'   PROVE  ~crossed /\ ~Crosses(tip')   BY <1>2, <1>3
<1>4. ASSUME ~crossed', HasContent(text)   PROVE  TipPhase(tip', wanted')
  <2>1. /\ tip \in Tips /\ tip.alive = TRUE /\ tipOptions.manual = TRUE /\ TipPhase(tip, wanted)
        /\ tip.in \in BOOLEAN
    BY <1>2, <1>3, <1>4, TipOpen DEF Tips
  <2>2. tip.inState = {}   BY <2>1 DEF TipPhase
  <2>3. tip = [tip EXCEPT !.inState = {}]   BY <2>1, <2>2 DEF Tips
  <2>4. CASE tip.in = TRUE
    <3>1. tip' = LeaveTip(tip)   BY <1>2, <2>4
    <3>2. TipPhase(tip', FALSE)   BY <1>1, <1>3, <1>4, <2>1, <2>3, <3>1, TipLeaves, Zenon
    <3> QED  BY <1>2, <2>4, <3>2
  <2>5. CASE tip.in = FALSE
    <3>1. tip' = EnterTip(tip) /\ {} \in SUBSET Sources   BY <1>2, <2>5
    <3>2. TipPhase(tip', TRUE)   BY <1>1, <1>3, <1>4, <2>1, <2>3, <3>1, TipEnters, Zenon
    <3> QED  BY <1>2, <2>5, <3>2
  <2> QED  BY <2>1, <2>4, <2>5
<1>5. ASSUME ~crossed', ~HasContent(text)   PROVE  BareTip(tip')
  <2>1. /\ tip \in Tips /\ tip.alive = TRUE /\ BareTip(tip)   BY <1>2, <1>3, <1>5, TipOpen
  <2>2. BareTip(EnterTip(tip)) /\ BareTip(LeaveTip(tip))   BY <1>1, <1>5, <2>1, BareMethods
  <2> QED  BY <1>2, <2>2
<1>6. wanted' \in BOOLEAN /\ crossed' \in BOOLEAN   BY <1>1, <1>2
<1> QED  BY <1>3, <1>4, <1>5, <1>6, TipStep

\* A call of show() or hide().
LEMMA ShowOrHideKeeps ==
  ASSUME TipInv, ShowOrHideCalled, UNCHANGED <<text, tipOptions>>
  PROVE  TipInv'
<1>1. crossed \in BOOLEAN /\ wanted \in BOOLEAN /\ tipOptions \in TipOptions   BY DEF TipInv
<1>2. /\ tip.alive /\ tipOptions.manual
      /\ \/ tip' = ShowTip(tip) /\ wanted' = TRUE
         \/ tip' = HideTip(tip, "hidden") /\ wanted' = FALSE
      /\ crossed' = (crossed \/ tip.ends # << >> \/ tip.timeout # "none" \/ tip.hoverState # "none")
  BY DEF ShowOrHideCalled, TipTurn
<1>3. ASSUME ~crossed'
      PROVE  ~crossed /\ tip.ends = << >> /\ tip.timeout = "none" /\ tip.hoverState = "none"
  BY <1>2, <1>3
<1>4. ASSUME ~crossed', HasContent(text)   PROVE  TipPhase(tip', wanted')
  <2>1. /\ tip \in Tips /\ tip.alive = TRUE /\ tipOptions.manual = TRUE /\ TipPhase(tip, wanted)
    BY <1>2, <1>3, <1>4, TipOpen
  <2>2. TipPhase(ShowTip(tip), TRUE) /\ TipPhase(HideTip(tip, "hidden"), FALSE)
    BY <1>1, <1>3, <1>4, <2>1, CallKeeps
  <2> QED  BY <1>2, <2>2
<1>5. ASSUME ~crossed', ~HasContent(text)   PROVE  BareTip(tip')
  <2>1. /\ tip \in Tips /\ tip.alive = TRUE /\ BareTip(tip)   BY <1>2, <1>3, <1>5, TipOpen
  <2>2. BareTip(ShowTip(tip)) /\ BareTip(HideTip(tip, "hidden"))   BY <1>1, <1>5, <2>1, BareMethods
  <2> QED  BY <1>2, <2>2
<1>6. wanted' \in BOOLEAN /\ crossed' \in BOOLEAN   BY <1>1, <1>2
<1> QED  BY <1>3, <1>4, <1>5, <1>6, TipStep

\* A call of destroy().
LEMMA DestroyCallKeeps ==
  ASSUME TipInv, DestroyCalled, UNCHANGED <<text, tipOptions>>
  PROVE  TipInv'
<1>1. crossed \in BOOLEAN /\ wanted \in BOOLEAN /\ tipOptions \in TipOptions   BY DEF TipInv
<1>2. tip.alive /\ tip' = DestroyTip(tip) /\ wanted' = wanted /\ crossed' = crossed
  BY DEF DestroyCalled, TipTurn
<1>3. ASSUME ~crossed', HasContent(text)   PROVE  TipPhase(tip', wanted')
  <2>1. tip.alive = TRUE /\ TipPhase(tip, wanted)   BY <1>2, <1>3, TipOpen
  <2> QED  BY <1>1, <1>2, <2>1, DestroyKeeps
<1>4. ASSUME ~crossed', ~HasContent(text)   PROVE  BareTip(tip')
  <2>1. tip.alive = TRUE /\ BareTip(tip)   BY <1>2, <1>4, TipOpen
  <2> QED  BY <1>1, <1>2, <1>4, <2>1, BareMethods DEF DestroyTip
<1> QED  BY <1>1, <1>2, <1>3, <1>4, TipStep

\* The timer of a delay runs out.
LEMMA DelayOverKeeps ==
  ASSUME TipInv, TipDelayOver, UNCHANGED <<text, tipOptions>>
  PROVE  TipInv'
<1>1. crossed \in BOOLEAN /\ wanted \in BOOLEAN /\ tipOptions \in TipOptions   BY DEF TipInv
<1>2. wanted' = wanted /\ crossed' = crossed /\ tip.timeout # "none"   BY DEF TipDelayOver
<1>3. ASSUME ~crossed', HasContent(text)   PROVE  TipPhase(tip', wanted')
  <2>1. TipPhase(tip, wanted)   BY <1>2, <1>3, TipOpen
  <2> QED  BY <1>1, <1>2, <1>3, <2>1, DelayKeeps
<1>4. ASSUME ~crossed', ~HasContent(text)   PROVE  BareTip(tip')
  <2> DEFINE over == [tip EXCEPT !.timeout = "none"]
  <2>1. BareTip(tip) /\ tip.alive = TRUE
    <3>1. tip \in Tips /\ BareTip(tip)   BY <1>2, <1>4, TipOpen
    <3> QED  BY <1>2, <3>1 DEF BareTip, Tips
  <2>2. /\ BareTip(over) /\ BareTip(HideTip(over, "hidden")) /\ ShowTip(over) = over
    BY <1>1, <1>4, <2>1, BareMethods DEF ShowTip
  <2>3. tip' = CASE tip.timeout = "show" /\ tip.hoverState = "in"  -> ShowTip(over)
                 [] tip.timeout = "hide" /\ tip.hoverState = "out" -> HideTip(over, "hidden")
                 [] OTHER                                          -> over
    BY DEF TipDelayOver
  <2> HIDE DEF over
  <2> QED  BY <2>2, <2>3
<1> QED  BY <1>1, <1>2, <1>3, <1>4, TipStep

\* A fade ends.
LEMMA FadeEndsKeeps ==
  ASSUME TipInv, TipFadeEnds, UNCHANGED <<text, tipOptions>>
  PROVE  TipInv'
<1>1. crossed \in BOOLEAN /\ wanted \in BOOLEAN /\ tipOptions \in TipOptions   BY DEF TipInv
<1>2. wanted' = wanted /\ crossed' = crossed /\ tip.ends # << >>   BY DEF TipFadeEnds
<1>3. ASSUME ~crossed', HasContent(text)   PROVE  TipPhase(tip', wanted')
  <2>1. TipPhase(tip, wanted)   BY <1>2, <1>3, TipOpen
  <2>2. Up(tip, wanted) \/ Coming(tip, wanted) \/ Down(tip, wanted) \/ Going(tip)
    BY <1>2, <2>1 DEF TipPhase, Dead
  <2>3. TipPhase(tip', wanted)   BY <1>1, <2>1, <2>2, UpEnds, GoneEnds
  <2> QED  BY <1>2, <2>3
<1>4. ASSUME ~crossed', ~HasContent(text)   PROVE  BareTip(tip')
  <2>1. BareTip(tip)   BY <1>2, <1>4, TipOpen
  <2> QED  BY <1>2, <2>1 DEF BareTip
<1> QED  BY <1>1, <1>2, <1>3, <1>4, TipStep

\* Someone changes the text of the element.
LEMMA TextKeeps ==
  ASSUME TipInv, TextChanged, tipOptions' = tipOptions
  PROVE  TipInv'
<1>1. crossed \in BOOLEAN /\ wanted \in BOOLEAN   BY DEF TipInv
<1>2. /\ wanted' = wanted /\ tip' = tip
      /\ crossed' = (crossed \/ HasContent(text) # HasContent(text)')
  BY DEF TextChanged, HasContent, GetTitle
<1>3. HasContent(text)' = HasContent(text')   BY DEF HasContent, GetTitle
<1>4. ASSUME ~crossed'   PROVE  ~crossed /\ (HasContent(text') <=> HasContent(text))   BY <1>2, <1>3, <1>4
<1>5. ASSUME ~crossed', HasContent(text)   PROVE  TipPhase(tip', wanted')
  <2>1. TipPhase(tip, wanted)   BY <1>4, <1>5, TipOpen
  <2> QED  BY <1>2, <2>1
<1>6. ASSUME ~crossed', ~HasContent(text)   PROVE  BareTip(tip')
  <2>1. BareTip(tip)   BY <1>4, <1>6, TipOpen
  <2> QED  BY <1>2, <2>1
<1>7. wanted' \in BOOLEAN /\ crossed' \in BOOLEAN   BY <1>1, <1>2
<1> QED  BY <1>4, <1>5, <1>6, <1>7, TipStep

\* As long as no call and no second showing crossed what had yet to end, a tip with text is
\* up, coming, down, going or destroyed, as its timer, its state and the ends it waits for
\* say together; one without text never appears (Tooltip's enter, leave, show and hide).
THEOREM TipInvariance == TipSpec => []TipInv
<1>1. TipInit => TipInv
  <2> SUFFICES ASSUME TipInit   PROVE TipInv
    OBVIOUS
  <2>1. /\ tip = [alive |-> TRUE, enabled |-> TRUE, inState |-> {}, hoverState |-> "none",
                  timeout |-> "none", in |-> FALSE, fade |-> FALSE, attached |-> FALSE, ends |-> << >>]
        /\ tipOptions \in TipOptions /\ wanted = FALSE /\ crossed = FALSE
    BY DEF TipInit, TipOptions
  <2>2. tip \in Tips
    <3>1. << >> \in Seq(EndKinds)   OBVIOUS
    <3> QED  BY <2>1, <3>1 DEF Tips
  <2>3. Len(tip.ends) = 0   BY <2>1
  <2>4. Down(tip, wanted) /\ BareTip(tip)   BY <2>1, <2>2, <2>3 DEF Down, Gone, BareTip
  <2>5. TipPhase(tip, wanted)   BY <2>1, <2>2, <2>4 DEF TipPhase
  <2> QED  BY <2>1, <2>4, <2>5 DEF TipInv
<1>2. TipInv /\ [TipNext]_tipVars => TipInv'
  <2> SUFFICES ASSUME TipInv, [TipNext]_tipVars   PROVE TipInv'
    OBVIOUS
  <2>1. CASE UNCHANGED tipVars
    <3>1. /\ tip' = tip /\ wanted' = wanted /\ crossed' = crossed /\ text' = text /\ tipOptions' = tipOptions
      BY <2>1 DEF tipVars
    <3>2. wanted' \in BOOLEAN /\ crossed' \in BOOLEAN   BY <3>1 DEF TipInv
    <3>3. ~crossed' => /\ HasContent(text) => TipPhase(tip', wanted')
                       /\ ~HasContent(text) => BareTip(tip')
      BY <3>1, TipOpen
    <3>4. HasContent(text') <=> HasContent(text)   BY <3>1
    <3> QED  BY <3>1, <3>2, <3>3, <3>4, TipStep
  <2>2. CASE TipNext
    <3>1. ASSUME NEW source \in Sources, EnterEvent(source), UNCHANGED <<text, tipOptions>>   PROVE TipInv'
      BY <3>1, EnterEventKeeps
    <3>2. ASSUME NEW source \in Sources, LeaveEvent(source), UNCHANGED <<text, tipOptions>>   PROVE TipInv'
      BY <3>2, LeaveEventKeeps
    <3>3. CASE EnableCalled /\ UNCHANGED <<text, tipOptions>>
      <4>1. crossed' = TRUE /\ wanted' = wanted   BY <3>3 DEF EnableCalled
      <4>2. wanted' \in BOOLEAN   BY <4>1 DEF TipInv
      <4> QED  BY <3>3, <4>1, <4>2, TipStep
    <3> QED  BY <2>2, <3>1, <3>2, <3>3, ToggleKeeps, ShowOrHideKeeps, DestroyCallKeeps, DelayOverKeeps,
                FadeEndsKeeps, TextKeeps DEF TipNext
  <2> QED  BY <2>1, <2>2
<1> QED  BY <1>1, <1>2, PTL DEF TipSpec

\* Unless a call or a second showing crossed what had yet to end, a tip at rest is in the
\* document, and visible, just when it is wanted and has content; a destroyed one stays
\* away (Tooltip.prototype.enter, leave, show, hide and destroy).
THEOREM TipIsAsWanted == TipSpec => []TipAsWanted
<1>1. TipInv => TipAsWanted
  <2> SUFFICES ASSUME TipInv, ~crossed
               PROVE  IF tip.alive THEN TipAtRest => tip.attached = (wanted /\ HasContent(text)) /\ tip.in = tip.attached
                      ELSE ~tip.attached /\ tip.timeout # "show"
    BY DEF TipAsWanted
  <2>1. CASE ~HasContent(text)
    <3>1. tip.in = FALSE /\ tip.attached = FALSE /\ (tip.alive = FALSE => tip.timeout = "none") /\ (tip.alive <=> tip.alive = TRUE)
          /\ tip.alive \in BOOLEAN
      BY <2>1, TipOpen DEF BareTip, Tips
    <3> QED  BY <2>1, <3>1
  <2>2. CASE HasContent(text)
    <3>1. /\ TipPhase(tip, wanted) /\ tip.alive \in BOOLEAN /\ tip.in \in BOOLEAN /\ tip.attached \in BOOLEAN
          /\ wanted \in BOOLEAN
      BY <2>2, TipOpen DEF Tips, TipInv
    <3>2. CASE Up(tip, wanted)
      <4>1. /\ tip.alive = TRUE /\ tip.in = TRUE /\ tip.attached = TRUE
            /\ tip.timeout = "none" => wanted = TRUE
        BY <3>2 DEF Up
      <4> QED  BY <2>2, <4>1 DEF TipAtRest
    <3>3. CASE Coming(tip, wanted)   BY <3>3 DEF Coming, TipAtRest
    <3>4. CASE Down(tip, wanted)
      <4>1. /\ tip.alive = TRUE /\ tip.in = FALSE /\ wanted = FALSE
            /\ TipAtRest => tip.attached = FALSE
        BY <3>4 DEF Down, Gone, TipAtRest
      <4> QED  BY <4>1
    <3>5. CASE Going(tip)
      <4>1. tip.ends # << >> /\ tip.alive = TRUE   BY <3>5 DEF Going
      <4> QED  BY <4>1 DEF TipAtRest
    <3>6. CASE Dead(tip)   BY <3>6 DEF Dead, Gone
    <3> QED  BY <3>1, <3>2, <3>3, <3>4, <3>5, <3>6 DEF TipPhase
  <2> QED  BY <2>1, <2>2
<1> QED  BY <1>1, TipInvariance, PTL
-----------------------------------------------------------------------------
(* Accordions.                                                               *)

\* A finite set of numbers has a largest one.
LEMMA LargestOfFinite ==
  ASSUME NEW T, T \subseteq Nat, T # {}, IsFiniteSet(T)
  PROVE  Max(T) \in T /\ \A y \in T : y <= Max(T)
<1>1. PICK s \in Seq(T) : \A t \in T : \E n \in 1 .. Len(s) : s[n] = t   BY DEF IsFiniteSet
<1>2. Len(s) \in Nat /\ \A n \in 1 .. Len(s) : s[n] \in T   OBVIOUS
<1> DEFINE B == {n \in Nat : n <= Len(s) => \E b \in Nat : \A i \in 1 .. n : s[i] <= b}
<1>3. 0 \in B   OBVIOUS
<1>4. ASSUME NEW n \in Nat, n \in B   PROVE n + 1 \in B
  <2> SUFFICES ASSUME n + 1 <= Len(s)   PROVE \E b \in Nat : \A i \in 1 .. n + 1 : s[i] <= b
    OBVIOUS
  <2>0. n <= Len(s)   BY <1>2
  <2>a. \E b \in Nat : \A i \in 1 .. n : s[i] <= b   BY <1>4, <2>0, Zenon
  <2>1. PICK b \in Nat : \A i \in 1 .. n : s[i] <= b   BY <2>a, Zenon
  <2>b. n + 1 \in 1 .. Len(s)   BY <1>2
  <2>2. s[n + 1] \in Nat   BY <1>2, <2>b
  <2>c. \A i \in 1 .. n + 1 : i \in 1 .. n \/ i = n + 1   OBVIOUS
  <2>3. PICK x \in Nat : x = s[n + 1]   BY <2>2
  <2>6. \A i \in 1 .. n + 1 : s[i] \in Nat
    <3>1. \A i \in 1 .. n + 1 : i \in 1 .. Len(s)   BY <1>2
    <3> QED  BY <1>2, <3>1
  <2>4. \A i \in 1 .. n + 1 : s[i] <= b + x
    <3> SUFFICES ASSUME NEW i \in 1 .. n + 1   PROVE s[i] <= b + x
      OBVIOUS
    <3>1. PICK y \in Nat : y = s[i]   BY <2>6
    <3>2. y <= b \/ y = x   BY <2>1, <2>c, <2>3, <3>1
    <3> QED  BY <3>1, <3>2
  <2>5. b + x \in Nat   OBVIOUS
  <2> QED  BY <2>4, <2>5
<1> HIDE DEF B
<1>5. Len(s) \in B   BY <1>2, <1>3, <1>4, Induction
<1>6. PICK b \in Nat : \A i \in 1 .. Len(s) : s[i] <= b   BY <1>2, <1>5 DEF B
<1>7. \A t \in T : t <= b   BY <1>1, <1>6
<1>8. \E x \in T : \A y \in T : y <= x   BY <1>7, LargestNumber
<1>9. \A x, y \in T : x >= y <=> y <= x   OBVIOUS
<1>10. \E x \in T : \A y \in T : x >= y   BY <1>8, <1>9
<1>11. Max(T) \in T /\ \A y \in T : Max(T) >= y   BY <1>10, Zenon DEF Max
<1> QED  BY <1>9, <1>11

\* The classes of a panel, collapsed into one value.
Classes == {"open", "shut", "opening", "closing"}
\* What waits for the end of a transition: the object is the data's, or was given away.
PanelEnd == [does : {"shown", "hidden"}, owned : BOOLEAN]
\* Which objects have the parent.
Parents == [Panels -> BOOLEAN]
\* The panels and triggers, the objects and what waits.
Accordions == [class : [Panels -> Classes], trigger : [Panels -> {"open", "shut"}],
               object : [Panels -> {"none", "still", "moving"}], parent : Parents,
               ends : [Panels -> Seq(PanelEnd)]]

\* A panel that stands still, opens, or closes; its trigger says where to.
Rests(a, q)   == /\ a.ends[q] = << >> /\ a.class[q] \in {"open", "shut"} /\ a.trigger[q] = a.class[q]
                 /\ a.object[q] \in {"none", "still"}
Opens(a, q)   == /\ a.class[q] = "opening" /\ a.trigger[q] = "open"
                 /\ \/ a.object[q] = "moving" /\ a.ends[q] = <<[does |-> "shown", owned |-> TRUE]>>
                    \/ a.object[q] = "none" /\ a.ends[q] = <<[does |-> "shown", owned |-> FALSE]>>
Closes(a, q)  == /\ a.class[q] = "closing" /\ a.trigger[q] = "shut"
                 /\ \/ a.object[q] = "moving" /\ a.ends[q] = <<[does |-> "hidden", owned |-> TRUE]>>
                    \/ a.object[q] = "none" /\ a.ends[q] = <<[does |-> "hidden", owned |-> FALSE]>>

\* Every panel stands still or moves as its object says.
Accordion(a) == a \in Accordions /\ \A q \in Panels : Rests(a, q) \/ Opens(a, q) \/ Closes(a, q)

\* One panel is open or opens at most.
OneOpen(a) ==
  \A q, r \in Panels : a.class[q] \in {"open", "opening"} /\ a.class[r] \in {"open", "opening"} => q = r

\* So it stays unless a panel was used blindly, and one is open unless another was shown
\* beside it.
CollapseInv ==
  /\ blind \in BOOLEAN /\ beside \in BOOLEAN
  /\ ~blind => Accordion(acc) /\ (~beside => OneOpen(acc))

\* Nothing that moves was given away: what a use that is not blind finds.
Seen(a) == \A q \in Panels : a.ends[q] # << >> => a.object[q] = "moving"

\* The panel q is in b what it is in a.
Same(a, b, q) == /\ b.class[q] = a.class[q] /\ b.trigger[q] = a.trigger[q]
                 /\ b.object[q] = a.object[q] /\ b.ends[q] = a.ends[q]

\* b is a but for the panel p.
But(a, b, p) == b \in Accordions /\ \A q \in Panels \ {p} : Same(a, b, q)

\* The fields of a record of panels.
LEMMA ItsFields ==
  ASSUME NEW a \in Accordions
  PROVE  /\ a = [class |-> a.class, trigger |-> a.trigger, object |-> a.object, parent |-> a.parent,
                 ends |-> a.ends]
         /\ a.class \in [Panels -> Classes] /\ a.trigger \in [Panels -> {"open", "shut"}]
         /\ a.object \in [Panels -> {"none", "still", "moving"}] /\ a.parent \in Parents
         /\ a.ends \in [Panels -> Seq(PanelEnd)]
BY DEF Accordions

\* Whether one object has the parent.
LEMMA ParentsSet ==
  ASSUME NEW pa \in Parents, NEW p \in Panels
  PROVE  [pa EXCEPT ![p] = TRUE] \in Parents /\ [pa EXCEPT ![p] = FALSE] \in Parents
BY DEF Parents

\* A panel that is the same stands still or moves as it did.
LEMMA SamePhase ==
  ASSUME NEW a, NEW b, NEW q \in Panels, Same(a, b, q), Rests(a, q) \/ Opens(a, q) \/ Closes(a, q)
  PROVE  Rests(b, q) \/ Opens(b, q) \/ Closes(b, q)
BY DEF Same, Rests, Opens, Closes

\* A panel that moves has an end to wait for.
LEMMA MovingWaits ==
  ASSUME NEW a, NEW q, Opens(a, q) \/ Closes(a, q)
  PROVE  \E e : a.ends[q] = <<e>> /\ a.ends[q] # << >>
<1>1. \E e : a.ends[q] = <<e>>   BY Zenon DEF Opens, Closes
<1> QED  BY <1>1

\* The accordion is one when all but a panel are the same, and that one stands still or moves.
LEMMA ButKeeps ==
  ASSUME NEW a, Accordion(a), NEW p \in Panels, NEW b, But(a, b, p),
         Rests(b, p) \/ Opens(b, p) \/ Closes(b, p)
  PROVE  Accordion(b)
<1>1. b \in Accordions   BY DEF But
<1>2. ASSUME NEW q \in Panels   PROVE Rests(b, q) \/ Opens(b, q) \/ Closes(b, q)
  <2>1. q # p => Same(a, b, q)   BY DEF But
  <2>2. Rests(a, q) \/ Opens(a, q) \/ Closes(a, q)   BY DEF Accordion
  <2> QED  BY <2>1, <2>2, SamePhase
<1> QED  BY <1>1, <1>2 DEF Accordion

\* What a panel that starts to move leaves.
LEMMA MovesIs ==
  ASSUME NEW a \in Accordions, NEW p \in Panels, NEW c \in Classes, NEW t \in {"open", "shut"},
         NEW does \in {"shown", "hidden"}, a.ends[p] = << >>
  PROVE  LET b == Moves(a, p, c, t, does)
         IN  /\ But(a, b, p) /\ b.class[p] = c /\ b.trigger[p] = t /\ b.object[p] = "moving"
             /\ b.ends[p] = <<[does |-> does, owned |-> TRUE]>> /\ b.parent = a.parent
<1> DEFINE b == Moves(a, p, c, t, does)
           e == [does |-> does, owned |-> TRUE]
           cl == [a.class EXCEPT ![p] = c]
           tr == [a.trigger EXCEPT ![p] = t]
           ob == [a.object EXCEPT ![p] = "moving"]
           en == [a.ends EXCEPT ![p] = Append(@, e)]
<1>1. /\ a = [class |-> a.class, trigger |-> a.trigger, object |-> a.object, parent |-> a.parent,
              ends |-> a.ends]
      /\ a.parent \in Parents
  BY ItsFields
<1>2. b = [class |-> cl, trigger |-> tr, object |-> ob, parent |-> a.parent, ends |-> en]
  <2>1. b = [a EXCEPT !.class = cl, !.trigger = tr, !.object = ob, !.ends = en]   BY DEF Moves
  <2> HIDE DEF cl, tr, ob, en, b
  <2> QED  BY <1>1, <2>1
<1>3. e \in PanelEnd /\ Append(a.ends[p], e) = <<e>> /\ <<e>> \in Seq(PanelEnd)   BY DEF PanelEnd
<1>4. /\ cl \in [Panels -> Classes] /\ cl[p] = c /\ \A q \in Panels \ {p} : cl[q] = a.class[q]
      /\ tr \in [Panels -> {"open", "shut"}] /\ tr[p] = t /\ \A q \in Panels \ {p} : tr[q] = a.trigger[q]
      /\ ob \in [Panels -> {"none", "still", "moving"}] /\ ob[p] = "moving"
      /\ \A q \in Panels \ {p} : ob[q] = a.object[q]
  BY ItsFields
<1> HIDE DEF e, cl, tr, ob
<1>5. /\ en \in [Panels -> Seq(PanelEnd)] /\ en[p] = <<e>> /\ \A q \in Panels \ {p} : en[q] = a.ends[q]
  BY <1>3, ItsFields
<1> HIDE DEF en, b
<1>6. /\ b \in Accordions
      /\ b.class = cl /\ b.trigger = tr /\ b.object = ob /\ b.parent = a.parent /\ b.ends = en
  BY <1>1, <1>2, <1>4, <1>5 DEF Accordions
<1>7. But(a, b, p)   BY <1>4, <1>5, <1>6 DEF But, Same
<1> QED  BY <1>4, <1>5, <1>6, <1>7 DEF b, e

\* A constructor run by a call, of a panel that stands still, sets what is set already.
LEMMA BuildByCallIs ==
  ASSUME NEW a, Accordion(a), NEW p \in Panels, Rests(a, p)
  PROVE  LET b == BuildByCall(a, p)
         IN  /\ Accordion(b) /\ But(a, b, p) /\ b.class = a.class /\ b.trigger = a.trigger /\ b.ends = a.ends
             /\ b.object[p] = "still" /\ Rests(b, p)
<1> DEFINE b == BuildByCall(a, p)
           tr == [a.trigger EXCEPT ![p] = ByClass(a, p)]
           ob == [a.object EXCEPT ![p] = "still"]
           pa == [a.parent EXCEPT ![p] = FALSE]
<1>1. a \in Accordions   BY DEF Accordion
<1>2. /\ a = [class |-> a.class, trigger |-> a.trigger, object |-> a.object, parent |-> a.parent,
              ends |-> a.ends]
      /\ a.class \in [Panels -> Classes] /\ a.trigger \in [Panels -> {"open", "shut"}]
      /\ a.object \in [Panels -> {"none", "still", "moving"}] /\ a.parent \in Parents
      /\ a.ends \in [Panels -> Seq(PanelEnd)]
  BY <1>1, ItsFields
<1>3. tr = a.trigger   BY <1>2 DEF ByClass, Rests
<1>4. b = [class |-> a.class, trigger |-> tr, object |-> ob, parent |-> pa, ends |-> a.ends]
  <2>1. b = [a EXCEPT !.trigger = tr, !.object = ob, !.parent = pa]   BY DEF BuildByCall
  <2> HIDE DEF tr, ob, pa, b
  <2> QED  BY <1>2, <2>1
<1>5. /\ ob \in [Panels -> {"none", "still", "moving"}] /\ ob[p] = "still"
      /\ \A q \in Panels \ {p} : ob[q] = a.object[q]
  BY <1>2
<1>6. pa \in Parents   BY <1>2, ParentsSet
<1> HIDE DEF ob, tr, pa, b
<1>7. b \in Accordions /\ b.class = a.class /\ b.trigger = a.trigger /\ b.object = ob /\ b.ends = a.ends
  BY <1>2, <1>3, <1>4, <1>5, <1>6 DEF Accordions
<1>8. But(a, b, p)   BY <1>5, <1>7 DEF But, Same
<1>9. Rests(b, p)   BY <1>5, <1>7 DEF Rests
<1>10. Accordion(b)   BY <1>8, <1>9, ButKeeps
<1> QED  BY <1>5, <1>7, <1>8, <1>9, <1>10 DEF b

\* So does one run by a click while nothing moves; its object is stored afterwards.
LEMMA BuildByClickIs ==
  ASSUME NEW a, Accordion(a), NEW p \in Panels, \A q \in Panels : a.ends[q] = << >>
  PROVE  LET b == [BuildByClick(a, p) EXCEPT !.object[p] = a.object[p]]
         IN  /\ b \in Accordions
             /\ b.class = a.class /\ b.trigger = a.trigger /\ b.object = a.object /\ b.ends = a.ends
<1> DEFINE c == BuildByClick(a, p)
           b == [c EXCEPT !.object[p] = a.object[p]]
           tr == [q \in Panels |-> ByClass(a, q)]
           ob == [a.object EXCEPT ![p] = "still"]
           pa == [a.parent EXCEPT ![p] = TRUE]
<1>1. a \in Accordions /\ \A q \in Panels : Rests(a, q)   BY DEF Accordion, Opens, Closes
<1>2. /\ a = [class |-> a.class, trigger |-> a.trigger, object |-> a.object, parent |-> a.parent,
              ends |-> a.ends]
      /\ a.class \in [Panels -> Classes] /\ a.trigger \in [Panels -> {"open", "shut"}]
      /\ a.object \in [Panels -> {"none", "still", "moving"}] /\ a.parent \in Parents
      /\ a.ends \in [Panels -> Seq(PanelEnd)]
  BY <1>1, ItsFields
<1>3. tr = a.trigger
  <2>1. \A q \in Panels : tr[q] = a.trigger[q]   BY <1>1 DEF Rests, ByClass
  <2> QED  BY <1>2, <2>1
<1>4. c = [class |-> a.class, trigger |-> tr, object |-> ob, parent |-> pa, ends |-> a.ends]
  <2>1. c = [a EXCEPT !.trigger = tr, !.object = ob, !.parent = pa]   BY DEF BuildByClick
  <2> HIDE DEF tr, ob, pa, c
  <2> QED  BY <1>2, <2>1
<1>5. [ob EXCEPT ![p] = a.object[p]] = a.object   BY <1>2
<1>6. pa \in Parents   BY <1>2, ParentsSet
<1> HIDE DEF ob, tr, pa, c
<1>7. b = [class |-> a.class, trigger |-> a.trigger, object |-> a.object, parent |-> pa, ends |-> a.ends]
  BY <1>3, <1>4, <1>5
<1> HIDE DEF b
<1>8. b \in Accordions /\ b.class = a.class /\ b.trigger = a.trigger /\ b.object = a.object /\ b.ends = a.ends
  BY <1>2, <1>6, <1>7 DEF Accordions
<1> QED  BY <1>8 DEF b, c

\* The classes, triggers, objects and ends make the accordion.
LEMMA SameKeeps ==
  ASSUME NEW a, Accordion(a), NEW b \in Accordions,
         b.class = a.class, b.trigger = a.trigger, b.object = a.object, b.ends = a.ends
  PROVE  Accordion(b) /\ (Seen(a) => Seen(b)) /\ (OneOpen(a) => OneOpen(b))
<1>1. ASSUME NEW q \in Panels   PROVE Rests(b, q) \/ Opens(b, q) \/ Closes(b, q)
  <2>1. Same(a, b, q)   BY DEF Same
  <2> QED  BY <2>1, SamePhase DEF Accordion
<1>2. (Seen(a) => Seen(b)) /\ (OneOpen(a) => OneOpen(b))   BY DEF Seen, OneOpen
<1> QED  BY <1>1, <1>2 DEF Accordion

-----------------------------------------------------------------------------
(* Panels close, and one opens.                                              *)

\* hide() of a panel that is open, and of another.
LEMMA HidePanelIs ==
  ASSUME NEW a, Accordion(a), NEW p \in Panels
  PROVE  LET b == HidePanel(a, p)
         IN  /\ a.class[p] # "open" => b = a
             /\ a.class[p] = "open" => Closes(b, p) /\ b.object[p] = "moving"
             /\ Accordion(b) /\ But(a, b, p)
<1> DEFINE b == HidePanel(a, p)
           m == Moves(a, p, "closing", "shut", "hidden")
<1>0. a \in Accordions   BY DEF Accordion
<1>1. CASE a.class[p] # "open"
  <2>1. b = a   BY <1>1 DEF HidePanel
  <2>2. But(a, a, p)   BY <1>0 DEF But, Same
  <2> HIDE DEF b
  <2> QED  BY <1>1, <2>1, <2>2 DEF b
<1>2. CASE a.class[p] = "open"
  <2>1. a.ends[p] = << >> /\ a.object[p] # "moving"   BY <1>2 DEF Accordion, Rests, Opens, Closes
  <2>2. b = m   BY <1>2, <2>1 DEF HidePanel
  <2>3. "closing" \in Classes   BY DEF Classes
  <2>4. /\ But(a, m, p) /\ m.class[p] = "closing" /\ m.trigger[p] = "shut" /\ m.object[p] = "moving"
        /\ m.ends[p] = <<[does |-> "hidden", owned |-> TRUE]>>
    BY <1>0, <2>1, <2>3, MovesIs
  <2> HIDE DEF m, b
  <2>5. Closes(m, p)   BY <2>4 DEF Closes
  <2>6. Accordion(m)   BY <2>4, <2>5, ButKeeps
  <2> QED  BY <1>2, <2>2, <2>4, <2>5, <2>6 DEF b
<1> QED  BY <1>1, <1>2

\* Which leaves one open at most.
LEMMA HidingKeepsOne ==
  ASSUME NEW a, NEW b, NEW p \in Panels, But(a, b, p), b = a \/ Closes(b, p), OneOpen(a)
  PROVE  OneOpen(b)
<1>1. CASE b = a   BY <1>1
<1>2. CASE Closes(b, p)
  <2>1. ASSUME NEW q \in Panels, b.class[q] \in {"open", "opening"}
        PROVE  a.class[q] \in {"open", "opening"}
    <3>1. q # p   BY <1>2, <2>1 DEF Closes
    <3> QED  BY <2>1, <3>1 DEF But, Same
  <2> QED  BY <2>1 DEF OneOpen
<1> QED  BY <1>1, <1>2

\* A panel that rests begins to open.
LEMMA MovesOpens ==
  ASSUME NEW a, Accordion(a), NEW p \in Panels, a.ends[p] = << >>
  PROVE  LET b == Moves(a, p, "opening", "open", "shown")
         IN  /\ Accordion(b) /\ b \in Accordions /\ Len(b.ends[p]) = 1 /\ b.object[p] = "moving"
             /\ (\A q \in Panels \ {p} : a.class[q] \notin {"open", "opening"}) => OneOpen(b)
<1> DEFINE b == Moves(a, p, "opening", "open", "shown")
<1>1. "opening" \in Classes /\ a \in Accordions   BY DEF Classes, Accordion
<1>2. /\ But(a, b, p) /\ b.class[p] = "opening" /\ b.trigger[p] = "open" /\ b.object[p] = "moving"
      /\ b.ends[p] = <<[does |-> "shown", owned |-> TRUE]>>
  BY <1>1, MovesIs
<1> HIDE DEF b
<1>3. Opens(b, p)   BY <1>2 DEF Opens
<1>4. Accordion(b)   BY <1>2, <1>3, ButKeeps
<1>5. ASSUME \A q \in Panels \ {p} : a.class[q] \notin {"open", "opening"}   PROVE OneOpen(b)
  <2>1. \A q \in Panels : q # p => b.class[q] \notin {"open", "opening"}   BY <1>2, <1>5 DEF But, Same
  <2> QED  BY <2>1 DEF OneOpen
<1>6. Len(b.ends[p]) = 1   BY <1>2
<1>7. b \in Accordions   BY <1>4 DEF Accordion
<1> QED  BY <1>2, <1>4, <1>5, <1>6, <1>7 DEF b

\* A call of 'hide' for one panel, while nothing that moves was given away.
LEMMA HideCallIs ==
  ASSUME NEW a, Accordion(a), Seen(a), NEW p \in Panels
  PROVE  LET b == HideCall(a, p)
         IN  /\ Accordion(b) /\ Seen(b) /\ \A q \in Panels \ {p} : Same(a, b, q)
             /\ b.class[p] = IF a.class[p] = "open" THEN "closing" ELSE a.class[p]
<1> DEFINE c == IF a.object[p] = "none" THEN BuildByCall(a, p) ELSE a
           b == HidePanel(c, p)
<1>0. HideCall(a, p) = b   BY DEF HideCall
<1>1. Accordion(c) /\ Seen(c) /\ c.class = a.class /\ \A q \in Panels \ {p} : Same(a, c, q)
  <2>1. CASE a.object[p] # "none"   BY <2>1 DEF Same
  <2>2. CASE a.object[p] = "none"
    <3> DEFINE d == BuildByCall(a, p)
    <3>1. a.ends[p] = << >>   BY <2>2 DEF Seen
    <3>2. Rests(a, p)   BY <3>1, MovingWaits DEF Accordion
    <3>3. Accordion(d) /\ But(a, d, p) /\ d.class = a.class /\ d.ends = a.ends   BY <3>2, BuildByCallIs
    <3>4. c = d   BY <2>2
    <3> HIDE DEF c, d
    <3>5. \A q \in Panels \ {p} : Same(a, c, q)   BY <3>3, <3>4 DEF But
    <3>6. Seen(c)
      <4> SUFFICES ASSUME NEW q \in Panels, c.ends[q] # << >>   PROVE c.object[q] = "moving"
        BY DEF Seen
      <4>1. q # p /\ a.ends[q] # << >>   BY <3>1, <3>3, <3>4
      <4> QED  BY <3>5, <4>1 DEF Seen, Same
    <3> QED  BY <3>3, <3>4, <3>5, <3>6
  <2> QED  BY <2>1, <2>2
<1> HIDE DEF c
<1>2. /\ c.class[p] # "open" => b = c
      /\ c.class[p] = "open" => Closes(b, p) /\ b.object[p] = "moving"
      /\ Accordion(b) /\ But(c, b, p)
  BY <1>1, HidePanelIs
<1> HIDE DEF b
<1>3. \A q \in Panels \ {p} : Same(c, b, q)   BY <1>2 DEF But
<1>4. \A q \in Panels \ {p} : Same(a, b, q)   BY <1>1, <1>3 DEF Same
<1>5. Seen(b)
  <2> SUFFICES ASSUME NEW q \in Panels, b.ends[q] # << >>   PROVE b.object[q] = "moving"
    BY DEF Seen
  <2>1. CASE q # p
    <3>1. Same(c, b, q)   BY <1>3, <2>1
    <3> QED  BY <1>1, <3>1 DEF Seen, Same
  <2>2. CASE q = p   BY <1>1, <1>2, <2>2 DEF Seen
  <2> QED  BY <2>1, <2>2
<1>6. b.class[p] = IF a.class[p] = "open" THEN "closing" ELSE a.class[p]   BY <1>1, <1>2 DEF Closes
<1> QED  BY <1>0, <1>2, <1>4, <1>5, <1>6

\* What is left of the panels a when those of S up to n were hidden.
Hidden(a, b, S, n) ==
  /\ Accordion(b) /\ Seen(b)
  /\ \A q \in Panels \ S : Same(a, b, q)
  /\ \A q \in S : b.class[q] = IF q <= n /\ a.class[q] = "open" THEN "closing" ELSE a.class[q]

\* One more is hidden.
LEMMA HideNext ==
  ASSUME NEW a, NEW b, NEW S \in SUBSET Panels, NEW n \in Nat, CollapseAssumption, Hidden(a, b, S, n)
  PROVE  Hidden(a, IF n + 1 \in S THEN HideCall(b, n + 1) ELSE b, S, n + 1)
<1>0. S \subseteq Nat   BY DEF CollapseAssumption
<1>1. CASE n + 1 \notin S
  <2>1. \A q \in S : q <= n <=> q <= n + 1   BY <1>0, <1>1
  <2> QED  BY <1>1, <2>1 DEF Hidden
<1>2. CASE n + 1 \in S
  <2> DEFINE p == n + 1
             c == HideCall(b, p)
  <2>1. /\ Accordion(c) /\ Seen(c) /\ \A q \in Panels \ {p} : Same(b, c, q)
        /\ c.class[p] = IF b.class[p] = "open" THEN "closing" ELSE b.class[p]
    BY <1>2, HideCallIs DEF Hidden
  <2> HIDE DEF c
  <2>2. \A q \in Panels \ S : Same(a, c, q)   BY <1>2, <2>1 DEF Hidden, Same
  <2>3. ASSUME NEW q \in S
        PROVE  c.class[q] = IF q <= n + 1 /\ a.class[q] = "open" THEN "closing" ELSE a.class[q]
    <3>1. b.class[q] = IF q <= n /\ a.class[q] = "open" THEN "closing" ELSE a.class[q]   BY DEF Hidden
    <3>2. CASE q = p
      <4>1. ~ (q <= n) /\ q <= n + 1   BY <1>0, <3>2
      <4> QED  BY <2>1, <3>1, <3>2, <4>1
    <3>3. CASE q # p
      <4>1. q <= n <=> q <= n + 1   BY <1>0, <3>3
      <4>2. c.class[q] = b.class[q]   BY <2>1, <3>3 DEF Same
      <4> QED  BY <3>1, <4>1, <4>2
    <3> QED  BY <3>2, <3>3
  <2>4. Hidden(a, c, S, n + 1)   BY <2>1, <2>2, <2>3 DEF Hidden
  <2> QED  BY <1>2, <2>4 DEF c
<1> QED  BY <1>1, <1>2

\* The loop over the panels has its intermediate results.
HideLoop(f, a, S, n) ==
  f = [i \in 0 .. n |-> IF i = 0 THEN a ELSE IF i \in S THEN HideCall(f[i - 1], i) ELSE f[i - 1]]

\* And they exist.
LEMMA HideLoopExists == ASSUME NEW a, NEW S, NEW n \in Nat PROVE \E f : HideLoop(f, a, S, n)
<1> DEFINE T == {m \in Nat : \E f : HideLoop(f, a, S, m)}
<1>1. 0 \in T
  <2> DEFINE f == [i \in 0 .. 0 |-> a]
  <2>1. HideLoop(f, a, S, 0)   BY DEF HideLoop
  <2> QED  BY <2>1
<1>2. ASSUME NEW m \in Nat, m \in T   PROVE m + 1 \in T
  <2>1. PICK f : HideLoop(f, a, S, m)   BY <1>2
  <2> DEFINE x == IF m + 1 \in S THEN HideCall(f[m], m + 1) ELSE f[m]
             g == [i \in 0 .. m + 1 |-> IF i = m + 1 THEN x ELSE f[i]]
             h == [i \in 0 .. m + 1 |-> IF i = 0 THEN a
                                        ELSE IF i \in S THEN HideCall(g[i - 1], i) ELSE g[i - 1]]
  <2>2. \A i \in 0 .. m : f[i] = IF i = 0 THEN a ELSE IF i \in S THEN HideCall(f[i - 1], i) ELSE f[i - 1]
    BY <2>1 DEF HideLoop
  <2>3. ASSUME NEW i \in 0 .. m + 1   PROVE g[i] = h[i]
    <3>1. CASE i = m + 1
      <4>1. g[i] = x /\ g[i - 1] = f[m] /\ i # 0   BY <3>1
      <4>2. h[i] = IF i \in S THEN HideCall(g[i - 1], i) ELSE g[i - 1]   BY <4>1
      <4> HIDE DEF g, h
      <4> QED  BY <3>1, <4>1, <4>2
    <3>2. CASE i # m + 1
      <4>1. i \in 0 .. m /\ g[i] = f[i] /\ (i # 0 => g[i - 1] = f[i - 1])   BY <3>2
      <4>2. h[i] = IF i = 0 THEN a ELSE IF i \in S THEN HideCall(g[i - 1], i) ELSE g[i - 1]   OBVIOUS
      <4> HIDE DEF g, h
      <4> QED  BY <2>2, <4>1, <4>2
    <3> QED  BY <3>1, <3>2
  <2>4. g = h   BY <2>3
  <2>5. HideLoop(g, a, S, m + 1)
    <3> HIDE DEF g
    <3> QED  BY <2>4 DEF HideLoop
  <2> HIDE DEF g
  <2> QED  BY <2>5
<1> HIDE DEF T
<1>3. n \in T   BY <1>1, <1>2, Induction
<1> QED  BY <1>3 DEF T

\* The panels hidden before one opens.
LEMMA HideCallsIs ==
  ASSUME CollapseAssumption, NEW a, Accordion(a), Seen(a), NEW S \in SUBSET Panels, S # {}
  PROVE  LET b == HideCalls(a, S)
         IN  /\ Accordion(b) /\ Seen(b) /\ \A q \in Panels \ S : Same(a, b, q)
             /\ \A q \in S : b.class[q] = IF a.class[q] = "open" THEN "closing" ELSE a.class[q]
<1> DEFINE n == Max(S)
           r == CHOOSE f : HideLoop(f, a, S, n)
<1>1. n \in Nat /\ \A y \in S : y <= n
  <2>1. S \subseteq Nat /\ IsFiniteSet(S)   BY FS_Subset DEF CollapseAssumption
  <2> QED  BY <2>1, LargestOfFinite
<1>2. HideCalls(a, S) = r[n]   BY DEF HideCalls, HideLoop
<1> HIDE DEF n
<1>3. HideLoop(r, a, S, n)   BY <1>1, HideLoopExists
<1> HIDE DEF r
<1>4. r = [i \in 0 .. n |-> IF i = 0 THEN a ELSE IF i \in S THEN HideCall(r[i - 1], i) ELSE r[i - 1]]
  BY <1>3 DEF HideLoop
<1> DEFINE T == {m \in Nat : m <= n => Hidden(a, r[m], S, m)}
<1>5. 0 \in T
  <2>1. r[0] = a   BY <1>1, <1>4
  <2>2. \A q \in S : q # 0 /\ q \in Nat   BY DEF CollapseAssumption
  <2>3. \A q \in S : ~ (q <= 0)   BY <2>2
  <2>4. Hidden(a, a, S, 0)   BY <2>3 DEF Hidden, Same
  <2> QED  BY <2>1, <2>4
<1>6. ASSUME NEW m \in Nat, m \in T   PROVE m + 1 \in T
  <2> SUFFICES ASSUME m + 1 <= n   PROVE Hidden(a, r[m + 1], S, m + 1)
    OBVIOUS
  <2>1. m + 1 \in 0 .. n /\ (m + 1) - 1 = m /\ m + 1 # 0 /\ m <= n   BY <1>1
  <2>2. Hidden(a, r[m], S, m)   BY <1>6, <2>1
  <2>3. r[m + 1] = IF m + 1 \in S THEN HideCall(r[m], m + 1) ELSE r[m]   BY <1>4, <2>1
  <2> QED  BY <2>2, <2>3, HideNext
<1> HIDE DEF T
<1>7. n \in T   BY <1>1, <1>5, <1>6, Induction
<1>8. Hidden(a, r[n], S, n)   BY <1>1, <1>7 DEF T
<1> QED  BY <1>1, <1>2, <1>8 DEF Hidden

\* A function on 1 .. 1 is a sequence of one element.
LEMMA OneElement == ASSUME NEW x PROVE [i \in 1 .. 1 |-> x] = <<x>>
OBVIOUS

\* An object given away is in the data no more, and the end it waits for not its own.
GivenEnds(a, S) == [q \in Panels |-> IF q \notin S THEN a.ends[q] ELSE
                      [i \in DOMAIN a.ends[q] |-> [a.ends[q][i] EXCEPT !.owned = FALSE]]]
GivenObjects(a, S) == [q \in Panels |-> IF q \in S THEN "none" ELSE a.object[q]]
GivenParents(a, S) == [q \in Panels |-> q \notin S /\ a.parent[q]]

\* The end of one given away.
LEMMA GivenEnd ==
  ASSUME NEW a, NEW S \in SUBSET Panels, NEW q \in S, NEW does \in {"shown", "hidden"}, a.ends[q] = <<[does |-> does, owned |-> TRUE]>>
  PROVE  GivenEnds(a, S)[q] = <<[does |-> does, owned |-> FALSE]>>
<1> DEFINE e == [does |-> does, owned |-> TRUE]
           f == [does |-> does, owned |-> FALSE]
           en == GivenEnds(a, S)
<1>1. en[q] = [i \in DOMAIN <<e>> |-> [<<e>>[i] EXCEPT !.owned = FALSE]]   BY DEF GivenEnds
<1>2. DOMAIN <<e>> = 1 .. 1 /\ \A i \in 1 .. 1 : <<e>>[i] = e   OBVIOUS
<1>3. [e EXCEPT !.owned = FALSE] = f
  <2>1. e \in PanelEnd /\ e.does = does /\ f \in PanelEnd /\ f.does = does /\ f.owned = FALSE   BY DEF PanelEnd
  <2> HIDE DEF e, f
  <2> QED  BY <2>1 DEF PanelEnd
<1> HIDE DEF e, f, en
<1>4. [i \in DOMAIN <<e>> |-> [<<e>>[i] EXCEPT !.owned = FALSE]] = [i \in 1 .. 1 |-> f]   BY <1>2, <1>3
<1>5. en[q] = <<f>>   BY <1>1, <1>4, OneElement
<1> QED  BY <1>5 DEF f, en

\* The objects of S are given away.
GivenAway(a, g, S) ==
  g = [a EXCEPT !.object = GivenObjects(a, S), !.parent = GivenParents(a, S), !.ends = GivenEnds(a, S)]

\* Panels all of which move are none the worse for it.
LEMMA GivenIs ==
  ASSUME NEW a, Accordion(a), Seen(a), NEW S \in SUBSET Panels, \A q \in S : a.class[q] \notin {"open", "shut"},
         NEW g, GivenAway(a, g, S)
  PROVE  Accordion(g) /\ g.class = a.class /\ \A q \in Panels \ S : Same(a, g, q)
<1> DEFINE ob == GivenObjects(a, S)
           pa == GivenParents(a, S)
           en == GivenEnds(a, S)
<1>0. a \in Accordions   BY DEF Accordion
<1>1. /\ a = [class |-> a.class, trigger |-> a.trigger, object |-> a.object, parent |-> a.parent,
              ends |-> a.ends]
      /\ a.class \in [Panels -> Classes] /\ a.trigger \in [Panels -> {"open", "shut"}]
      /\ a.object \in [Panels -> {"none", "still", "moving"}] /\ a.parent \in Parents
      /\ a.ends \in [Panels -> Seq(PanelEnd)]
  BY <1>0, ItsFields
<1>2. ASSUME NEW q \in S
      PROVE  \/ a.class[q] = "opening" /\ a.trigger[q] = "open" /\ en[q] = <<[does |-> "shown", owned |-> FALSE]>>
             \/ a.class[q] = "closing" /\ a.trigger[q] = "shut" /\ en[q] = <<[does |-> "hidden", owned |-> FALSE]>>
  <2>1. Opens(a, q) \/ Closes(a, q)   BY DEF Accordion, Rests
  <2>2. a.object[q] = "moving"   BY <2>1, MovingWaits DEF Seen
  <2>3. CASE Opens(a, q)
    <3>1. a.class[q] = "opening" /\ a.trigger[q] = "open" /\ a.ends[q] = <<[does |-> "shown", owned |-> TRUE]>>
      BY <2>2, <2>3 DEF Opens
    <3>2. en[q] = <<[does |-> "shown", owned |-> FALSE]>>   BY <3>1, GivenEnd
    <3> QED  BY <3>1, <3>2
  <2>4. CASE Closes(a, q)
    <3>1. a.class[q] = "closing" /\ a.trigger[q] = "shut" /\ a.ends[q] = <<[does |-> "hidden", owned |-> TRUE]>>
      BY <2>2, <2>4 DEF Closes
    <3>2. en[q] = <<[does |-> "hidden", owned |-> FALSE]>>   BY <3>1, GivenEnd
    <3> QED  BY <3>1, <3>2
  <2> QED  BY <2>1, <2>3, <2>4
<1>3. /\ ob \in [Panels -> {"none", "still", "moving"}] /\ \A q \in S : ob[q] = "none"
      /\ \A q \in Panels \ S : ob[q] = a.object[q]
  BY <1>1 DEF GivenObjects
<1>4. pa \in Parents   BY DEF GivenParents, Parents
<1>5. \A q \in Panels \ S : en[q] = a.ends[q]   BY DEF GivenEnds
<1>6. en = [q \in Panels |-> en[q]]   BY DEF GivenEnds
<1> HIDE DEF ob, pa, en
<1>7. en \in [Panels -> Seq(PanelEnd)]
  <2>1. ASSUME NEW q \in Panels   PROVE en[q] \in Seq(PanelEnd)
    <3>1. CASE q \notin S   BY <1>1, <1>5, <3>1
    <3>2. CASE q \in S
      <4> DEFINE s == [does |-> "shown", owned |-> FALSE]
                 h == [does |-> "hidden", owned |-> FALSE]
      <4>1. s \in PanelEnd /\ h \in PanelEnd   BY DEF PanelEnd
      <4>2. en[q] = <<s>> \/ en[q] = <<h>>   BY <1>2, <3>2
      <4> HIDE DEF s, h
      <4>3. <<s>> \in Seq(PanelEnd) /\ <<h>> \in Seq(PanelEnd)   BY <4>1
      <4> QED  BY <4>2, <4>3
    <3> QED  BY <3>1, <3>2
  <2> QED  BY <1>6, <2>1
<1>8. g = [class |-> a.class, trigger |-> a.trigger, object |-> ob, parent |-> pa, ends |-> en]
  <2>1. g = [a EXCEPT !.object = ob, !.parent = pa, !.ends = en]   BY DEF GivenAway, ob, pa, en
  <2> QED  BY <1>1, <2>1
<1>9. g \in Accordions /\ g.class = a.class /\ g.trigger = a.trigger /\ g.object = ob /\ g.ends = en
  BY <1>1, <1>3, <1>4, <1>7, <1>8 DEF Accordions
<1>10. \A q \in Panels \ S : Same(a, g, q)   BY <1>3, <1>5, <1>9 DEF Same
<1>11. ASSUME NEW q \in Panels   PROVE Rests(g, q) \/ Opens(g, q) \/ Closes(g, q)
  <2>1. CASE q \notin S   BY <1>10, <2>1, SamePhase DEF Accordion
  <2>2. CASE q \in S
    <3>1. g.class[q] = a.class[q] /\ g.trigger[q] = a.trigger[q] /\ g.object[q] = "none" /\ g.ends[q] = en[q]
      BY <1>3, <1>9, <2>2
    <3>2. \/ g.class[q] = "opening" /\ g.trigger[q] = "open" /\ g.ends[q] = <<[does |-> "shown", owned |-> FALSE]>>
          \/ g.class[q] = "closing" /\ g.trigger[q] = "shut" /\ g.ends[q] = <<[does |-> "hidden", owned |-> FALSE]>>
      BY <1>2, <2>2, <3>1
    <3> QED  BY <3>1, <3>2 DEF Opens, Closes
  <2> QED  BY <2>1, <2>2
<1> QED  BY <1>9, <1>10, <1>11 DEF Accordion

\* Is the panel p opened while no other is open or opens?  By an object that knows the
\* others it need not be.
Alone(a, p, child) == child \/ \A q \in Panels \ {p} : a.class[q] \notin {"open", "opening"}

\* The code's show().
LEMMA ShowPanelKeeps ==
  ASSUME CollapseAssumption, NEW a, Accordion(a), Seen(a), NEW p \in Panels, NEW mine, NEW child \in BOOLEAN,
         a.ends[p] # << >> => mine = "moving"
  PROVE  LET b == ShowPanel(a, p, mine, child)
         IN  /\ Accordion(b)
             /\ OneOpen(a) /\ (a.class[p] # "opening" /\ b.class[p] = "opening" => Alone(a, p, child)) =>
                  OneOpen(b)
             /\ (\A q \in Panels : a.ends[q] = << >>) /\ mine # "moving" /\ a.class[p] # "open" =>
                  Len(b.ends[p]) = 1 /\ b.object[p] = "moving"
<1> DEFINE actives == {q \in Panels : child /\ a.class[q] # "shut"}
           first   == Min(actives)
           hidden  == HideCalls(a, actives)
           given   == [hidden EXCEPT !.object = GivenObjects(hidden, actives),
                                     !.parent = GivenParents(hidden, actives),
                                     !.ends = GivenEnds(hidden, actives)]
           b == ShowPanel(a, p, mine, child)
           m == Moves(given, p, "opening", "open", "shown")
<1>1. b = CASE mine = "moving" \/ a.class[p] = "open" -> a
            [] mine # "moving" /\ a.class[p] # "open" /\ actives = {} ->
                  Moves(a, p, "opening", "open", "shown")
            [] mine # "moving" /\ a.class[p] # "open" /\ actives # {} /\ a.object[first] = "none" ->
                  [m EXCEPT !.object[p] = IF p \in actives THEN "none" ELSE @]
            [] mine # "moving" /\ a.class[p] # "open" /\ actives # {} /\ a.object[first] = "still" ->
                  Moves(hidden, p, "opening", "open", "shown")
            [] OTHER -> a
  BY DEF ShowPanel, GivenObjects, GivenParents, GivenEnds
<1>0. actives \in SUBSET Panels   OBVIOUS
<1> HIDE DEF b
<1>2. CASE mine = "moving" \/ a.class[p] = "open"
  <2>1. b = a   BY <1>1, <1>2
  <2> QED  BY <1>2, <2>1 DEF b
<1>3. CASE mine # "moving" /\ a.class[p] # "open"
  <2>1. a.ends[p] = << >> /\ a.class[p] = "shut" /\ p \notin actives
    <3>1. a.ends[p] = << >>   BY <1>3
    <3>2. Rests(a, p)   BY <3>1, MovingWaits DEF Accordion
    <3> QED  BY <1>3, <3>1, <3>2 DEF Rests
  <2>2. CASE actives = {}
    <3>1. b = Moves(a, p, "opening", "open", "shown")   BY <1>1, <1>3, <2>2
    <3>2. /\ Accordion(b) /\ Len(b.ends[p]) = 1 /\ b.object[p] = "moving"
          /\ (\A q \in Panels \ {p} : a.class[q] \notin {"open", "opening"}) => OneOpen(b)
      BY <2>1, <3>1, MovesOpens
    <3>3. b.class[p] = "opening"
      <4>1. "opening" \in Classes /\ a \in Accordions   BY DEF Classes, Accordion
      <4> QED  BY <2>1, <3>1, <4>1, MovesIs
    <3>4. Alone(a, p, child) => \A q \in Panels \ {p} : a.class[q] \notin {"open", "opening"}
      <4> SUFFICES ASSUME child   PROVE \A q \in Panels : a.class[q] = "shut"
        BY DEF Alone
      <4> QED  BY <2>2
    <3> QED  BY <2>1, <3>2, <3>3, <3>4 DEF b
  <2>3. CASE actives # {}
    <3>1. first \in actives
      <4>1. actives \subseteq Nat /\ actives # {}   BY <2>3 DEF CollapseAssumption
      <4>2. \E x \in actives : \A y \in actives : x =< y
        <5> HIDE DEF actives
        <5> QED  BY <4>1, LeastNumber
      <4> HIDE DEF actives
      <4> QED  BY <4>2, Zenon DEF Min
    <3>2. first \in Panels /\ a.class[first] # "shut"   BY <3>1
    <3> HIDE DEF first
    <3>3. CASE a.object[first] = "moving"
      <4>1. b = a   BY <1>1, <1>3, <2>3, <3>3
      <4>2. ~(\A q \in Panels : a.ends[q] = << >>)
        <5>1. Opens(a, first) \/ Closes(a, first)   BY <3>2, <3>3 DEF Accordion, Rests
        <5> QED  BY <3>2, <5>1, MovingWaits
      <4> QED  BY <4>1, <4>2 DEF b
    <3>4. CASE a.object[first] \in {"none", "still"}
      <4>1. a.class[first] = "open"
        <5>1. a.ends[first] = << >>   BY <3>2, <3>4 DEF Seen
        <5>2. Rests(a, first)   BY <3>2, <5>1, MovingWaits DEF Accordion
        <5> QED  BY <3>2, <5>2 DEF Rests
      <4>2. /\ Accordion(hidden) /\ Seen(hidden) /\ \A q \in Panels \ actives : Same(a, hidden, q)
            /\ \A q \in actives : hidden.class[q] = IF a.class[q] = "open" THEN "closing" ELSE a.class[q]
        <5> HIDE DEF actives
        <5> QED  BY <1>0, <2>3, HideCallsIs
      <4> HIDE DEF hidden
      <4>3. OneOpen(a) => \A q \in Panels : hidden.class[q] \notin {"open", "opening"}
        <5> SUFFICES ASSUME OneOpen(a), NEW q \in Panels   PROVE hidden.class[q] \notin {"open", "opening"}
          OBVIOUS
        <5>1. q # first => a.class[q] \notin {"open", "opening"}   BY <3>2, <4>1 DEF OneOpen
        <5>2. CASE q \in actives
          <6>1. hidden.class[q] = IF a.class[q] = "open" THEN "closing" ELSE a.class[q]   BY <4>2, <5>2
          <6> QED  BY <4>1, <5>1, <6>1
        <5>3. CASE q \notin actives
          <6>1. hidden.class[q] = a.class[q] /\ q # first   BY <3>1, <4>2, <5>3 DEF Same
          <6> QED  BY <5>1, <6>1
        <5> QED  BY <5>2, <5>3
      <4>4. hidden.ends[p] = << >>   BY <2>1, <4>2 DEF Same
      <4>5. CASE a.object[first] = "still"
        <5>1. b = Moves(hidden, p, "opening", "open", "shown")   BY <1>1, <1>3, <2>3, <4>5
        <5>2. /\ Accordion(b) /\ Len(b.ends[p]) = 1 /\ b.object[p] = "moving"
              /\ (\A q \in Panels \ {p} : hidden.class[q] \notin {"open", "opening"}) => OneOpen(b)
          BY <4>2, <4>4, <5>1, MovesOpens
        <5> QED  BY <4>3, <5>2 DEF b
      <4>6. CASE a.object[first] = "none"
        <5>1. \A q \in actives : hidden.class[q] \notin {"open", "shut"}
          <6> SUFFICES ASSUME NEW q \in actives   PROVE hidden.class[q] \notin {"open", "shut"}
            OBVIOUS
          <6>1. a.class[q] # "shut"   OBVIOUS
          <6>2. hidden.class[q] = IF a.class[q] = "open" THEN "closing" ELSE a.class[q]   BY <4>2
          <6> QED  BY <6>1, <6>2
        <5>2. b = [m EXCEPT !.object[p] = IF p \in actives THEN "none" ELSE @]   BY <1>1, <1>3, <2>3, <4>6
        <5>3. Accordion(given) /\ given.class = hidden.class /\ \A q \in Panels \ actives : Same(hidden, given, q)
          <6> HIDE DEF actives
          <6>1. GivenAway(hidden, given, actives)   BY DEF GivenAway
          <6> HIDE DEF given
          <6> QED  BY <1>0, <4>2, <5>1, <6>1, GivenIs
        <5> HIDE DEF given
        <5>4. given.ends[p] = << >>   BY <2>1, <4>4, <5>3 DEF Same
        <5>5. /\ Accordion(m) /\ m \in Accordions /\ Len(m.ends[p]) = 1 /\ m.object[p] = "moving"
              /\ (\A q \in Panels \ {p} : given.class[q] \notin {"open", "opening"}) => OneOpen(m)
          BY <5>3, <5>4, MovesOpens
        <5> HIDE DEF m
        <5>6. b = m
          <6> HIDE DEF actives
          <6>1. b = [m EXCEPT !.object[p] = @]   BY <2>1, <5>2
          <6> QED  BY <5>5, <6>1 DEF Accordions
        <5> QED  BY <4>3, <5>3, <5>5, <5>6 DEF b
      <4> QED  BY <3>4, <4>5, <4>6
    <3>5. a.object[first] \in {"none", "still", "moving"}   BY <3>2 DEF Accordion, Accordions
    <3> QED  BY <3>3, <3>4, <3>5
  <2> QED  BY <2>2, <2>3
<1> QED  BY <1>2, <1>3

-----------------------------------------------------------------------------
(* The actions.                                                              *)

\* The code's toggle().
LEMMA TogglePanelKeeps ==
  ASSUME CollapseAssumption, NEW a, Accordion(a), Seen(a), NEW p \in Panels, NEW mine, NEW child \in BOOLEAN,
         a.ends[p] # << >> => mine = "moving"
  PROVE  LET b == TogglePanel(a, p, mine, child)
         IN  /\ Accordion(b)
             /\ OneOpen(a) /\ (a.class[p] # "opening" /\ b.class[p] = "opening" => Alone(a, p, child)) =>
                  OneOpen(b)
             /\ (\A q \in Panels : a.ends[q] = << >>) /\ mine # "moving" =>
                  Len(b.ends[p]) = 1 /\ b.object[p] = "moving"
<1> DEFINE b == TogglePanel(a, p, mine, child)
<1>1. CASE a.class[p] = "open"
  <2>1. b = HidePanel(a, p)   BY <1>1 DEF TogglePanel
  <2>2. Accordion(b) /\ Closes(b, p) /\ b.object[p] = "moving" /\ But(a, b, p)   BY <1>1, <2>1, HidePanelIs
  <2> HIDE DEF b
  <2>3. \E e : b.ends[p] = <<e>>   BY <2>2, MovingWaits
  <2>4. Len(b.ends[p]) = 1   BY <2>3
  <2>5. OneOpen(a) => OneOpen(b)   BY <2>2, HidingKeepsOne
  <2> QED  BY <2>2, <2>4, <2>5 DEF b
<1>2. CASE a.class[p] # "open"
  <2>1. b = ShowPanel(a, p, mine, child)   BY <1>2 DEF TogglePanel
  <2>2. /\ Accordion(b)
        /\ OneOpen(a) /\ (a.class[p] # "opening" /\ b.class[p] = "opening" => Alone(a, p, child)) => OneOpen(b)
        /\ (\A q \in Panels : a.ends[q] = << >>) /\ mine # "moving" => Len(b.ends[p]) = 1 /\ b.object[p] = "moving"
    BY <1>2, <2>1, ShowPanelKeeps
  <2> HIDE DEF b
  <2> QED  BY <2>2 DEF b
<1> QED  BY <1>1, <1>2

\* What a use that is not blind finds, and what one leaves that opens no panel beside another.
LEMMA SeenUse ==
  ASSUME CollapseInv, NEW p \in Panels, NEW child, Uses(p, child), ~blind'
  PROVE  /\ Accordion(acc) /\ Seen(acc) /\ blind' \in BOOLEAN
         /\ acc.object[p] = "none" => \A q \in Panels : acc.ends[q] = << >>
         /\ ~beside' => /\ OneOpen(acc)
                        /\ acc.class[p] # "opening" /\ acc'.class[p] = "opening" => Alone(acc, p, child)
<1>1. ~blind /\ \A q \in Panels : acc.ends[q] # << >> => acc.object[p] # "none" /\ acc.object[q] # "none"
  BY DEF Uses, Blind, CollapseInv
<1>2. Accordion(acc) /\ (~beside => OneOpen(acc))   BY <1>1 DEF CollapseInv
<1>3. ASSUME NEW q \in Panels, acc.ends[q] # << >>   PROVE acc.object[q] = "moving"
  <2>1. Opens(acc, q) \/ Closes(acc, q)   BY <1>2, <1>3 DEF Accordion, Rests
  <2>2. acc.object[q] # "none"   BY <1>1, <1>3
  <2> QED  BY <2>1, <2>2 DEF Opens, Closes
<1>4. ~beside' => ~beside /\ ~Beside(p, child)   BY DEF Uses
<1>5. ~Beside(p, child) /\ acc.class[p] # "opening" /\ acc'.class[p] = "opening" => Alone(acc, p, child)
  BY DEF Beside, Alone
<1>6. blind' \in BOOLEAN   BY DEF Uses, CollapseInv
<1> QED  BY <1>1, <1>2, <1>3, <1>4, <1>5, <1>6 DEF Seen

\* A click on a trigger.
LEMMA ClickKeeps ==
  ASSUME CollapseAssumption, CollapseInv, NEW p \in Panels, ClickTrigger(p), ~blind'
  PROVE  Accordion(acc') /\ (~beside' => OneOpen(acc'))
<1> DEFINE child == acc.object[p] = "none" \/ acc.parent[p]
<1>0. Uses(p, child)   BY DEF ClickTrigger
<1>1. /\ Accordion(acc) /\ Seen(acc)
      /\ acc.object[p] = "none" => \A q \in Panels : acc.ends[q] = << >>
      /\ ~beside' => /\ OneOpen(acc)
                     /\ acc.class[p] # "opening" /\ acc'.class[p] = "opening" => Alone(acc, p, child)
  <2> HIDE DEF child
  <2> QED  BY <1>0, SeenUse
<1>2. acc' = IF acc.object[p] = "none" THEN FirstToggle(acc, p)
             ELSE TogglePanel(acc, p, acc.object[p], acc.parent[p])
  BY DEF ClickTrigger
<1>3. CASE acc.object[p] # "none"
  <2>1. PICK mine : mine = acc.object[p]   OBVIOUS
  <2>2. PICK known \in BOOLEAN : known = acc.parent[p]   BY <1>1 DEF Accordion, Accordions, Parents
  <2>3. acc' = TogglePanel(acc, p, mine, known)   BY <1>2, <1>3, <2>1, <2>2
  <2>4. child = known   BY <1>3, <2>2
  <2> HIDE DEF child
  <2>5. acc.ends[p] # << >> => mine = "moving"   BY <1>1, <2>1 DEF Seen
  <2>6. /\ Accordion(acc')
        /\ OneOpen(acc) /\ (acc.class[p] # "opening" /\ acc'.class[p] = "opening" => Alone(acc, p, known)) =>
             OneOpen(acc')
    BY <1>1, <2>3, <2>5, TogglePanelKeeps
  <2> QED  BY <1>1, <2>4, <2>6
<1>4. CASE acc.object[p] = "none"
  <2> DEFINE b == [BuildByClick(acc, p) EXCEPT !.object[p] = acc.object[p]]
             c == TogglePanel(b, p, "still", TRUE)
  <2>1. b \in Accordions /\ b.class = acc.class /\ b.trigger = acc.trigger /\ b.object = acc.object /\ b.ends = acc.ends
    BY <1>1, <1>4, BuildByClickIs
  <2>2. acc' = [c EXCEPT !.object[p] = IF Len(c.ends[p]) = Len(b.ends[p]) THEN "still" ELSE "moving",
                         !.parent[p] = TRUE]
    BY <1>2, <1>4 DEF FirstToggle
  <2> HIDE DEF b
  <2>3. Accordion(b) /\ Seen(b) /\ (OneOpen(acc) => OneOpen(b))   BY <1>1, <2>1, SameKeeps
  <2>4. (\A q \in Panels : b.ends[q] = << >>) /\ (b.ends[p] # << >> => "still" = "moving") /\ "still" # "moving"
    BY <1>1, <1>4, <2>1
  <2>5. Alone(b, p, TRUE)   BY DEF Alone
  <2>6. Accordion(c) /\ Len(c.ends[p]) = 1 /\ c.object[p] = "moving" /\ (OneOpen(b) => OneOpen(c))
    BY <2>3, <2>4, <2>5, TogglePanelKeeps
  <2> HIDE DEF c
  <2>7. Len(b.ends[p]) = 0   BY <2>4
  <2>8. acc' = [c EXCEPT !.object[p] = "moving", !.parent[p] = TRUE]   BY <2>2, <2>6, <2>7
  <2>9. acc' \in Accordions /\ acc'.class = c.class /\ acc'.trigger = c.trigger /\ acc'.object = c.object /\ acc'.ends = c.ends
    <3> DEFINE pa == [c.parent EXCEPT ![p] = TRUE]
    <3>1. c \in Accordions   BY <2>6 DEF Accordion
    <3>2. /\ c = [class |-> c.class, trigger |-> c.trigger, object |-> c.object, parent |-> c.parent, ends |-> c.ends]
          /\ c.class \in [Panels -> Classes] /\ c.trigger \in [Panels -> {"open", "shut"}]
          /\ c.object \in [Panels -> {"none", "still", "moving"}] /\ c.parent \in Parents
          /\ c.ends \in [Panels -> Seq(PanelEnd)]
      BY <3>1, ItsFields
    <3>3. pa \in Parents   BY <3>2, ParentsSet
    <3>4. [c.object EXCEPT ![p] = "moving"] = c.object   BY <2>6, <3>2
    <3>5. acc' = [c EXCEPT !.object = [c.object EXCEPT ![p] = "moving"], !.parent = pa]   BY <2>8
    <3> HIDE DEF pa
    <3>6. acc' = [class |-> c.class, trigger |-> c.trigger, object |-> c.object, parent |-> pa, ends |-> c.ends]
      BY <3>2, <3>4, <3>5
    <3> QED  BY <3>2, <3>3, <3>6 DEF Accordions
  <2>10. Accordion(acc') /\ (OneOpen(c) => OneOpen(acc'))   BY <2>6, <2>9, SameKeeps
  <2> QED  BY <1>1, <2>3, <2>6, <2>10
<1> QED  BY <1>3, <1>4

\* A call of the plugin.
LEMMA CallKeepsPanels ==
  ASSUME CollapseAssumption, CollapseInv, NEW p \in Panels, CallPanel(p), ~blind'
  PROVE  Accordion(acc') /\ (~beside' => OneOpen(acc'))
<1> DEFINE a == IF acc.object[p] = "none" THEN BuildByCall(acc, p) ELSE acc
<1>0. Uses(p, a.parent[p])   BY DEF CallPanel
<1>1. /\ Accordion(acc) /\ Seen(acc)
      /\ acc.object[p] = "none" => \A q \in Panels : acc.ends[q] = << >>
      /\ ~beside' => /\ OneOpen(acc)
                     /\ acc.class[p] # "opening" /\ acc'.class[p] = "opening" => Alone(acc, p, a.parent[p])
  <2> HIDE DEF a
  <2>1. PICK child : child = a.parent[p]   OBVIOUS
  <2> QED  BY <1>0, <2>1, SeenUse
<1>2. acc' = ShowPanel(a, p, a.object[p], a.parent[p]) \/ acc' = HidePanel(a, p)   BY DEF CallPanel
<1>3. Accordion(a) /\ Seen(a) /\ a.class = acc.class
  <2>1. CASE acc.object[p] # "none"   BY <1>1, <2>1
  <2>2. CASE acc.object[p] = "none"
    <3> DEFINE d == BuildByCall(acc, p)
    <3>1. Rests(acc, p)   BY <1>1, <2>2, MovingWaits DEF Accordion
    <3>2. Accordion(d) /\ d.class = acc.class /\ d.ends = acc.ends   BY <1>1, <3>1, BuildByCallIs
    <3>3. a = d   BY <2>2
    <3> HIDE DEF a, d
    <3>4. Seen(a)   BY <1>1, <2>2, <3>2, <3>3 DEF Seen
    <3> QED  BY <3>2, <3>3, <3>4
  <2> QED  BY <2>1, <2>2
<1> HIDE DEF a
<1>4. OneOpen(acc) => OneOpen(a)   BY <1>3 DEF OneOpen
<1>5. PICK mine : mine = a.object[p]   OBVIOUS
<1>6. PICK child \in BOOLEAN : child = a.parent[p]   BY <1>3 DEF Accordion, Accordions, Parents
<1>7. CASE acc' = ShowPanel(a, p, a.object[p], a.parent[p])
  <2>1. acc' = ShowPanel(a, p, mine, child)   BY <1>5, <1>6, <1>7
  <2>2. a.ends[p] # << >> => mine = "moving"   BY <1>3, <1>5 DEF Seen
  <2>3. /\ Accordion(acc')
        /\ OneOpen(a) /\ (a.class[p] # "opening" /\ acc'.class[p] = "opening" => Alone(a, p, child)) =>
             OneOpen(acc')
    BY <1>3, <2>1, <2>2, ShowPanelKeeps
  <2>4. Alone(acc, p, a.parent[p]) => Alone(a, p, child)   BY <1>3, <1>6 DEF Alone
  <2> QED  BY <1>1, <1>3, <1>4, <2>3, <2>4
<1>8. CASE acc' = HidePanel(a, p)
  <2>1. Accordion(acc') /\ But(a, acc', p) /\ (acc' = a \/ Closes(acc', p))   BY <1>3, <1>8, HidePanelIs
  <2>2. OneOpen(a) => OneOpen(acc')   BY <2>1, HidingKeepsOne
  <2> QED  BY <1>1, <1>4, <2>1, <2>2
<1> QED  BY <1>2, <1>7, <1>8

\* The end of a transition, of which at most one waits.
EndOf(a, p, end) ==
  [a EXCEPT !.class[p] = IF end.does = "shown" THEN "open" ELSE IF @ = "open" THEN "open" ELSE "shut",
            !.object[p] = IF end.owned /\ @ # "none" THEN "still" ELSE @]

\* A panel waits for one end, so PanelEnds is one.
LEMMA PanelEndsIs ==
  ASSUME NEW p \in Panels, NEW e, acc.ends[p] = <<e>>, PanelEnds(p)
  PROVE  acc' = EndOf([acc EXCEPT !.ends[p] = << >>], p, e)
<1> DEFINE base == [acc EXCEPT !.ends[p] = << >>]
           Is(f) == f = [i \in 0 .. Len(acc.ends[p]) |->
                           IF i = 0 THEN base ELSE EndOf(f[i - 1], p, acc.ends[p][i])]
           r == CHOOSE f : Is(f)
           k == [i \in 0 .. 1 |-> IF i = 0 THEN base ELSE EndOf(base, p, e)]
<1>1. acc' = r[Len(acc.ends[p])]   BY DEF PanelEnds, EndOf
<1>2. Len(acc.ends[p]) = 1 /\ acc.ends[p][1] = e   OBVIOUS
<1> HIDE DEF base
<1>3. Is(k)
  <2> DEFINE h == [i \in 0 .. 1 |-> IF i = 0 THEN base ELSE EndOf(k[i - 1], p, acc.ends[p][i])]
  <2>1. \A i \in 0 .. 1 : i = 0 \/ i = 1   OBVIOUS
  <2>2. k[0] = base /\ k[1] = EndOf(base, p, e)   OBVIOUS
  <2>3. h[0] = base /\ h[1] = EndOf(k[0], p, acc.ends[p][1])   OBVIOUS
  <2>4. \A i \in 0 .. 1 : k[i] = h[i]
    <3> HIDE DEF k, h
    <3> QED  BY <1>2, <2>1, <2>2, <2>3
  <2>5. k = h   BY <2>4
  <2> HIDE DEF k
  <2> QED  BY <1>2, <2>5
<1>4. Is(r)   BY <1>3
<1> HIDE DEF r
<1>5. r[0] = base /\ r[1] = EndOf(r[0], p, acc.ends[p][1])   BY <1>2, <1>4
<1> QED  BY <1>1, <1>2, <1>5 DEF base

\* A transition ends.
LEMMA EndKeepsPanels ==
  ASSUME NEW p \in Panels, Accordion(acc), PanelEnds(p)
  PROVE  Accordion(acc') /\ (OneOpen(acc) => OneOpen(acc'))
<1>1. acc \in Accordions /\ (Opens(acc, p) \/ Closes(acc, p)) /\ acc.ends[p] # << >>
  BY DEF PanelEnds, Accordion, Rests
<1>2. /\ acc = [class |-> acc.class, trigger |-> acc.trigger, object |-> acc.object, parent |-> acc.parent,
                ends |-> acc.ends]
      /\ acc.class \in [Panels -> Classes] /\ acc.trigger \in [Panels -> {"open", "shut"}]
      /\ acc.object \in [Panels -> {"none", "still", "moving"}] /\ acc.parent \in Parents
      /\ acc.ends \in [Panels -> Seq(PanelEnd)]
  BY <1>1, ItsFields
<1>3. PICK e : /\ acc.ends[p] = <<e>> /\ e \in PanelEnd
               /\ e.does = "shown" <=> acc.class[p] = "opening"
               /\ e.owned = TRUE <=> acc.object[p] = "moving"
  <2> DEFINE hid == [does |-> "hidden", owned |-> acc.object[p] = "moving"]
             sho == [does |-> "shown", owned |-> acc.object[p] = "moving"]
  <2>1. CASE Opens(acc, p)
    <3>1. acc.class[p] = "opening"   BY <2>1 DEF Opens
    <3>2. acc.ends[p] = <<sho>>   BY <2>1 DEF Opens
    <3>3. sho \in PanelEnd /\ sho.does = "shown" /\ (sho.owned = TRUE <=> acc.object[p] = "moving")
      BY DEF PanelEnd
    <3> HIDE DEF sho
    <3> QED  BY <3>1, <3>2, <3>3
  <2>2. CASE Closes(acc, p)
    <3>1. acc.class[p] = "closing"   BY <2>2 DEF Closes
    <3>2. acc.ends[p] = <<hid>>   BY <2>2 DEF Closes
    <3>3. hid \in PanelEnd /\ hid.does = "hidden" /\ (hid.owned = TRUE <=> acc.object[p] = "moving")
      BY DEF PanelEnd
    <3> HIDE DEF hid
    <3> QED  BY <3>1, <3>2, <3>3
  <2> QED  BY <1>1, <2>1, <2>2
<1> DEFINE en == [acc.ends EXCEPT ![p] = << >>]
           c  == IF acc.class[p] = "opening" THEN "open" ELSE "shut"
           o  == IF acc.object[p] = "moving" THEN "still" ELSE "none"
           cl == [acc.class EXCEPT ![p] = c]
           ob == [acc.object EXCEPT ![p] = o]
<1>4. acc' = [class |-> cl, trigger |-> acc.trigger, object |-> ob, parent |-> acc.parent, ends |-> en]
  <2> DEFINE base == [acc EXCEPT !.ends = en]
  <2>1. acc' = EndOf(base, p, e)   BY <1>3, PanelEndsIs
  <2>2. base = [class |-> acc.class, trigger |-> acc.trigger, object |-> acc.object, parent |-> acc.parent, ends |-> en]
    <3>1. acc = [class |-> acc.class, trigger |-> acc.trigger, object |-> acc.object, parent |-> acc.parent,
                 ends |-> acc.ends]
      BY <1>2
    <3> HIDE DEF en
    <3> QED  BY <3>1
  <2>3. (IF e.does = "shown" THEN "open" ELSE IF acc.class[p] = "open" THEN "open" ELSE "shut") = c
    BY <1>1, <1>3 DEF Opens, Closes
  <2>4. (IF e.owned /\ acc.object[p] # "none" THEN "still" ELSE acc.object[p]) = o
    BY <1>1, <1>3 DEF Opens, Closes, PanelEnd
  <2> HIDE DEF base, en, c, o
  <2>5. base.class = acc.class /\ base.object = acc.object   BY <2>2
  <2>6. acc' = [base EXCEPT !.class = cl, !.object = ob]   BY <2>1, <2>3, <2>4, <2>5 DEF EndOf
  <2> HIDE DEF cl, ob
  <2> QED  BY <2>2, <2>6
<1>5. /\ cl \in [Panels -> Classes] /\ cl[p] = c /\ \A q \in Panels \ {p} : cl[q] = acc.class[q]
      /\ ob \in [Panels -> {"none", "still", "moving"}] /\ ob[p] = o
      /\ \A q \in Panels \ {p} : ob[q] = acc.object[q]
  BY <1>2 DEF Classes
<1>6. /\ en \in [Panels -> Seq(PanelEnd)] /\ en[p] = << >> /\ \A q \in Panels \ {p} : en[q] = acc.ends[q]
  <2>1. << >> \in Seq(PanelEnd)   OBVIOUS
  <2> QED  BY <1>2, <2>1
<1> HIDE DEF en, cl, ob
<1>7. /\ acc' \in Accordions
      /\ acc'.class = cl /\ acc'.trigger = acc.trigger /\ acc'.object = ob /\ acc'.ends = en
  BY <1>2, <1>4, <1>5, <1>6 DEF Accordions
<1>8. But(acc, acc', p)   BY <1>5, <1>6, <1>7 DEF But, Same
<1>9. Rests(acc', p)
  <2>1. acc.trigger[p] = c   BY <1>1 DEF Opens, Closes
  <2> QED  BY <1>5, <1>6, <1>7, <2>1 DEF Rests
<1>10. Accordion(acc')   BY <1>8, <1>9, ButKeeps
<1>11. \A q \in Panels : acc'.class[q] \in {"open", "opening"} => acc.class[q] \in {"open", "opening"}
  BY <1>5, <1>7
<1>12. OneOpen(acc) => OneOpen(acc')   BY <1>11 DEF OneOpen
<1> QED  BY <1>10, <1>12

\* A set of which no two elements differ has at most one.
LEMMA AtMostOne ==
  ASSUME NEW S
  PROVE  /\ IsFiniteSet(S) /\ Cardinality(S) <= 1 => \A x, y \in S : x = y
         /\ (\A x, y \in S : x = y) => Cardinality(S) <= 1
<1>1. ASSUME IsFiniteSet(S), Cardinality(S) <= 1, NEW x \in S, NEW y \in S, x # y   PROVE FALSE
  <2>1. IsFiniteSet({x}) /\ Cardinality({x}) = 1   BY FS_Singleton
  <2>2. Cardinality({x, y}) = 2
    <3>1. {x, y} = {x} \union {y} /\ y \notin {x}   BY <1>1
    <3> QED  BY <2>1, <3>1, FS_AddElement
  <2>3. {x, y} \subseteq S   BY <1>1
  <2>4. Cardinality({x, y}) <= Cardinality(S)   BY <1>1, <2>3, FS_Subset
  <2>5. Cardinality(S) \in Nat   BY <1>1, FS_CardinalityType
  <2> QED  BY <1>1, <2>2, <2>4, <2>5
<1>2. ASSUME \A x, y \in S : x = y   PROVE Cardinality(S) <= 1
  <2>1. CASE S = {}   BY <2>1, FS_EmptySet
  <2>2. CASE S # {}
    <3>1. PICK x \in S : TRUE   BY <2>2
    <3>2. S = {x}   BY <1>2, <3>1
    <3> QED  BY <3>2, FS_Singleton
  <2> QED  BY <2>1, <2>2
<1> QED  BY <1>1, <1>2

\* The invariant, of the next state.
LEMMA AccordionNext ==
  ASSUME blind' \in BOOLEAN, beside' \in BOOLEAN, ~blind' => Accordion(acc') /\ (~beside' => OneOpen(acc'))
  PROVE  CollapseInv'
<1>1. Accordion(acc)' <=> Accordion(acc')
  <2>1. \A q \in Panels : (Rests(acc, q)' <=> Rests(acc', q)) /\ (Opens(acc, q)' <=> Opens(acc', q))
                          /\ (Closes(acc, q)' <=> Closes(acc', q))
    BY DEF Rests, Opens, Closes
  <2>2. (acc \in Accordions)' <=> acc' \in Accordions   BY DEF Accordions, PanelEnd, Classes, Parents
  <2> QED  BY <2>1, <2>2 DEF Accordion
<1>2. OneOpen(acc)' <=> OneOpen(acc')   BY DEF OneOpen
<1> QED  BY <1>1, <1>2 DEF CollapseInv

\* Whatever is clicked and called, the classes, the objects and what waits of the panels
\* agree until one is used blindly, and one panel is open or opens at most until one is
\* shown beside it by an object without the parent (Collapse's show, hide and toggle).
THEOREM CollapseInvariance == CollapseSpec => []CollapseInv
<1> USE CollapseAssumption
<1>1. CollapseInit => CollapseInv
  <2> SUFFICES ASSUME CollapseInit   PROVE CollapseInv
    OBVIOUS
  <2>1. PICK open \in SUBSET Panels :
          /\ Cardinality(open) <= 1
          /\ acc = [class   |-> [p \in Panels |-> IF p \in open THEN "open" ELSE "shut"],
                    trigger |-> [p \in Panels |-> IF p \in open THEN "open" ELSE "shut"],
                    object  |-> [p \in Panels |-> "none"],
                    parent  |-> [p \in Panels |-> FALSE],
                    ends    |-> [p \in Panels |-> << >>]]
    BY DEF CollapseInit
  <2>2. << >> \in Seq(PanelEnd) /\ [p \in Panels |-> FALSE] \in Parents   BY DEF Parents
  <2>3. acc \in Accordions   BY <2>1, <2>2 DEF Accordions, Classes
  <2>4. \A q \in Panels : /\ acc.class[q] = IF q \in open THEN "open" ELSE "shut"
                          /\ acc.trigger[q] = acc.class[q] /\ acc.object[q] = "none" /\ acc.ends[q] = << >>
    BY <2>1
  <2>5. \A q \in Panels : Rests(acc, q)   BY <2>4 DEF Rests
  <2>6. IsFiniteSet(open)   BY FS_Subset DEF CollapseAssumption
  <2>7. \A q, r \in open : q = r   BY <2>1, <2>6, AtMostOne
  <2>8. Accordion(acc) /\ OneOpen(acc)   BY <2>3, <2>4, <2>5, <2>7 DEF Accordion, OneOpen
  <2> QED  BY <2>8 DEF CollapseInit, CollapseInv
<1>2. CollapseInv /\ [CollapseNext]_collapseVars => CollapseInv'
  <2> SUFFICES ASSUME CollapseInv, [CollapseNext]_collapseVars   PROVE CollapseInv'
    OBVIOUS
  <2>0. blind \in BOOLEAN /\ beside \in BOOLEAN   BY DEF CollapseInv
  <2>1. CASE UNCHANGED collapseVars
    <3>1. acc' = acc /\ blind' = blind /\ beside' = beside   BY <2>1 DEF collapseVars
    <3>2. ~blind' => Accordion(acc') /\ (~beside' => OneOpen(acc'))   BY <3>1 DEF CollapseInv
    <3> QED  BY <2>0, <3>1, <3>2, AccordionNext
  <2>2. ASSUME NEW p \in Panels, ClickTrigger(p)   PROVE CollapseInv'
    <3>1. blind' \in BOOLEAN /\ beside' \in BOOLEAN   BY <2>0, <2>2 DEF ClickTrigger, Uses
    <3> QED  BY <2>2, <3>1, ClickKeeps, AccordionNext
  <2>3. ASSUME NEW p \in Panels, CallPanel(p)   PROVE CollapseInv'
    <3>1. blind' \in BOOLEAN /\ beside' \in BOOLEAN   BY <2>0, <2>3 DEF CallPanel, Uses
    <3> QED  BY <2>3, <3>1, CallKeepsPanels, AccordionNext
  <2>4. ASSUME NEW p \in Panels, PanelEnds(p)   PROVE CollapseInv'
    <3>1. blind' = blind /\ beside' = beside   BY <2>4 DEF PanelEnds
    <3>2. ~blind' => Accordion(acc') /\ (~beside' => OneOpen(acc'))
      BY <2>4, <3>1, EndKeepsPanels DEF CollapseInv
    <3> QED  BY <2>0, <3>1, <3>2, AccordionNext
  <2> QED  BY <2>1, <2>2, <2>3, <2>4 DEF CollapseNext
<1> QED  BY <1>1, <1>2, PTL DEF CollapseSpec

\* An accordion's triggers say which panels are open when nothing moves, unless one was
\* used while it moved that no object is kept of; and it has one panel open or opening at
\* most, unless one was also shown beside another by an object that a call had built, which
\* has no parent (Collapse.prototype.show, hide and toggle, and the constructor).
THEOREM AccordionOpensOne == CollapseSpec => []OnePanelOpen
<1>1. CollapseInv => OnePanelOpen
  <2> SUFFICES ASSUME Accordion(acc), ~beside => OneOpen(acc)
               PROVE  /\ ~beside => Cardinality({p \in Panels : acc.class[p] \in {"open", "opening"}}) <= 1
                      /\ ~Moving(acc) => acc.trigger = acc.class
    BY DEF CollapseInv, OnePanelOpen
  <2>1. ASSUME ~beside   PROVE Cardinality({p \in Panels : acc.class[p] \in {"open", "opening"}}) <= 1
    <3> DEFINE S == {p \in Panels : acc.class[p] \in {"open", "opening"}}
    <3>1. \A x, y \in S : x = y   BY <2>1 DEF OneOpen
    <3> HIDE DEF S
    <3>2. Cardinality(S) <= 1   BY <3>1, AtMostOne
    <3> QED  BY <3>2 DEF S
  <2>2. ASSUME ~Moving(acc)   PROVE acc.trigger = acc.class
    <3>1. \A p \in Panels : acc.trigger[p] = acc.class[p]
      BY <2>2, MovingWaits DEF Moving, Accordion, Rests
    <3>2. acc.trigger \in [Panels -> {"open", "shut"}] /\ acc.class \in [Panels -> Classes]
      BY DEF Accordion, Accordions
    <3> QED  BY <3>1, <3>2
  <2> QED  BY <2>1, <2>2
<1> QED  BY <1>1, CollapseInvariance, PTL
=============================================================================
