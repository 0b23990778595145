----------------------------- MODULE TipPlacement -----------------------------
(* Where Bootstrap puts a tooltip: beside its element, on the side asked for  *)
(* or the opposite one, moved along that side until it fits the viewport, its *)
(* arrow moved back by as much.  One state per geometry and placement; all    *)
(* measures are even, so that halves are exact.                               *)
EXTENDS Integers

CONSTANTS
    Coordinates,   \* where the element's box begins, in both directions
    TipSizes,      \* widths and heights of tips
    Paddings,      \* viewport.padding
    Scrolls        \* how far the viewport is scrolled

ASSUME PlacementAssumption ==
    \A n \in Coordinates \union TipSizes \union Paddings \union Scrolls : n \in Nat /\ n % 2 = 0

VARIABLES
    spot,     \* the element's box, the tip's width and height, the scroll and the padding
    placement,
    offset    \* the tip's box, its arrow's distance from its edge; or Unplaced

placeVars == <<spot, placement, offset>>

Unplaced == [side |-> "none"]

Sides == {"top", "bottom", "left", "right"}
Along(side) == IF side \in {"top", "bottom"} THEN "horizontal" ELSE "vertical"

\* The viewport: an element of ten by ten, the element itself two by two.
View == [top |-> 0, left |-> 0, width |-> 10, height |-> 10, bottom |-> 10, right |-> 10]
Side == 2

\* grown: the height after the first placing, when the tip has wrapped its text.
Spots == [top : Coordinates, left : Coordinates, width : TipSizes, height : TipSizes,
          grown : TipSizes, padding : Paddings, scroll : Scrolls]

PlaceInit ==
    /\ spot \in Spots
    /\ placement \in [side : Sides, auto : BOOLEAN]
    /\ offset = Unplaced

\* show(): an automatic placement gives way to the opposite side.
AutoSide(p, s) ==
    CASE ~p.auto -> p.side
      [] p.auto /\ p.side = "bottom" /\ s.top + Side + s.height > View.bottom -> "top"
      [] p.auto /\ p.side = "top"    /\ s.top - s.height < View.top           -> "bottom"
      [] p.auto /\ p.side = "right"  /\ s.left + Side + s.width > View.width  -> "left"
      [] p.auto /\ p.side = "left"   /\ s.left - s.width < View.left          -> "right"
      [] OTHER -> p.side

CalculatedOffset(side, s) ==
    [top  |-> CASE side = "bottom" -> s.top + Side
                [] side = "top"    -> s.top - s.height
                [] OTHER           -> s.top + Side \div 2 - s.height \div 2,
     left |-> CASE side = "left"   -> s.left - s.width
                [] side = "right"  -> s.left + Side
                [] OTHER           -> s.left + Side \div 2 - s.width \div 2]

\* Mutant: as if the page were not scrolled.
UnscrolledDelta(side, at, width, height, s) ==
    LET first == (IF Along(side) = "vertical" THEN at.top ELSE at.left) - s.padding
        last  == first + 2 * s.padding + (IF Along(side) = "vertical" THEN height ELSE width)
    IN  CASE first < 0               -> 0 - first
          [] first >= 0 /\ last > 10 -> 10 - last
          [] OTHER                   -> 0

\* getViewportAdjustedDelta(): back into the viewport, along the side only.
AdjustedDelta(side, at, width, height, s) ==
    LET first == IF Along(side) = "vertical" THEN at.top - s.padding - s.scroll
                                             ELSE at.left - s.padding
        last  == IF Along(side) = "vertical" THEN at.top + s.padding - s.scroll + height
                                             ELSE at.left + s.padding + width
        low   == IF Along(side) = "vertical" THEN View.top ELSE View.left
        high  == IF Along(side) = "vertical" THEN View.top + View.height
                                             ELSE View.left + View.width
    IN  CASE first < low                  -> low - first
          [] first >= low /\ last > high  -> high - last
          [] OTHER                        -> 0

\* applyPlacement() and replaceArrow(): the arrow is at half the tip's measure, less
\* half of arrowDelta, 50 * (1 - arrowDelta / dimension) per cent.
ApplyPlacement(side, s) ==
    LET at    == CalculatedOffset(side, s)
        moved == IF side = "top" /\ s.grown # s.height
                 THEN [at EXCEPT !.top = @ + s.height - s.grown] ELSE at
        delta == AdjustedDelta(side, moved, s.width, s.grown, s)
        arrow == IF Along(side) = "vertical"
                 THEN (s.grown - (2 * delta - s.height + s.grown)) \div 2
                 ELSE (s.width - 2 * delta) \div 2
    IN  [side |-> side, height |-> s.grown, arrow |-> arrow,
         top  |-> IF Along(side) = "vertical" THEN moved.top + delta ELSE moved.top,
         left |-> IF Along(side) = "horizontal" THEN moved.left + delta ELSE moved.left]

Place ==
    /\ offset = Unplaced
    /\ offset' = ApplyPlacement(AutoSide(placement, spot), spot)
    /\ UNCHANGED <<spot, placement>>

PlaceNext == Place

PlaceSpec == PlaceInit /\ [][PlaceNext]_placeVars

-----------------------------------------------------------------------------
(* Properties.                                                               *)

\* A tip lies beside its element, the arrow at the middle of it, and within the
\* viewport along that side if it fits there with its padding, wherever the element
\* is, however the page is scrolled, and when the text has made the tip higher than
\* it was when its place was calculated.
BesideAndInView ==
    offset # Unplaced =>
      LET vertical == Along(offset.side) = "vertical"
          low  == IF vertical THEN View.top + spot.scroll ELSE View.left
          at   == IF vertical THEN offset.top  ELSE offset.left
          size == IF vertical THEN offset.height ELSE spot.width
      IN  /\ CASE offset.side = "top"    -> offset.top + offset.height = spot.top
               [] offset.side = "bottom" -> offset.top = spot.top + Side
               [] offset.side = "left"   -> offset.left + spot.width = spot.left
               [] OTHER                  -> offset.left = spot.left + Side
          /\ at + offset.arrow = (IF vertical THEN spot.top ELSE spot.left) + Side \div 2
          /\ size + 2 * spot.padding <= 10 =>
               low + spot.padding <= at /\ at + size + spot.padding <= low + 10
=============================================================================
