------------------------------- MODULE Carousel -------------------------------
(* Bootstrap's carousel, the boxes of the console's viewer: slides that are   *)
(* ended by a transition, the interval that starts them, and to(), which      *)
(* waits for the end of a slide by listening to the next "slid" event.  That  *)
(* event is fired by a timeout after the slide's end, so that between the two *)
(* something else may begin.                                                  *)
(*                                                                            *)
(* A transition ends by the browser's event or by the timer that emulates it; *)
(* whichever comes first makes the other one do nothing.                      *)
EXTENDS Integers, FiniteSets, SequencesExt

CONSTANTS
    Items,          \* the number of items, 0 .. Items - 1
    Interval,       \* options.interval is not false
    Wrap,           \* options.wrap
    MaxCarouselOps  \* bound: calls, clicks and slides

ASSUME CarouselAssumption == /\ Items \in Nat \ {0, 1} /\ MaxCarouselOps \in Nat
                             /\ Interval \in BOOLEAN /\ Wrap \in BOOLEAN

VARIABLES
    car,        \* the Carousel object, its items' classes and the browser's intervals
    slid,       \* timeouts that will trigger "slid"
    waiting,    \* the positions that to() keeps for the next "slid"
    carouselOps,
    wished,     \* history: the position last asked for by to(), if still due; or -1
    stopped,    \* history: paused, and neither cycle() nor to() since
    overtaken   \* history: something began between the end of a slide and "slid"

carouselVars == <<car, slid, waiting, carouselOps, wished, stopped, overtaken>>

None == 0

\* clearInterval() of the known interval, and a new one if the options want one.
WithoutInterval(c) == [c EXCEPT !.running = @ \ {c.interval}, !.interval = None]
NewInterval(c) ==
    LET id == CHOOSE n \in 1 .. 9 : n \notin c.running
    IN  [c EXCEPT !.interval = id, !.running = @ \union {id}]

\* pause() and cycle(), called by the page or, as hovering, by the mouse.
Pause(c, hover) == WithoutInterval(IF hover THEN c ELSE [c EXCEPT !.paused = TRUE])
Cycle(c, hover) ==
    LET going == WithoutInterval(IF hover THEN c ELSE [c EXCEPT !.paused = FALSE])
    IN  IF Interval /\ ~going.paused THEN NewInterval(going) ELSE going

Active(c) == CHOOSE i \in c.active : TRUE

ItemForDirection(c, type) ==
    LET willWrap == \/ type = "prev" /\ Active(c) = 0
                    \/ type = "next" /\ Active(c) = Items - 1
    IN  CASE willWrap /\ ~Wrap -> Active(c)
          [] type = "next"     -> (Active(c) + 1) % Items
          [] OTHER             -> (Active(c) + Items - 1) % Items

\* slide(): what a handler of the event "slide" does is its reaction.  Whether the
\* carousel was cycling is read before the handler runs.
SlideTo(c, next, reaction) ==
    LET told  == IF reaction = "pause" THEN Pause(c, FALSE) ELSE c
        slide == [told EXCEPT !.sliding = TRUE, !.slides = @ \union {<<Active(c), next>>}]
    IN  CASE next \in c.active                                -> [c EXCEPT !.sliding = FALSE]
          [] next \notin c.active /\ reaction = "prevent"     -> told
          [] OTHER -> IF c.interval # None THEN Cycle(Pause(slide, FALSE), FALSE) ELSE slide

\* Mutant: a slide under way is not waited for.
TurnAnyway(c, type, reaction) == SlideTo(c, ItemForDirection(c, type), reaction)

\* next() and prev().
Turn(c, type, reaction) ==
    IF c.sliding THEN c ELSE SlideTo(c, ItemForDirection(c, type), reaction)

Waits(c)      == c.sliding
InRange(pos)  == pos \in 0 .. Items - 1

\* to(), when it need not wait.
Go(c, pos) == IF pos \in c.active THEN Cycle(Pause(c, FALSE), FALSE) ELSE SlideTo(c, pos, "none")

CarouselInit ==
    /\ car = [active |-> {0}, sliding |-> FALSE, slides |-> {}, paused |-> FALSE,
              interval |-> IF Interval THEN 1 ELSE None,
              running |-> IF Interval THEN {1} ELSE {}]
    /\ slid = 0 /\ waiting = << >> /\ carouselOps = 0
    /\ wished = -1 /\ stopped = FALSE /\ overtaken = FALSE

Counted    == carouselOps < MaxCarouselOps /\ carouselOps' = carouselOps + 1

\* Something that begins while positions wait for a "slid" that is yet to come.
SlideBegins(c) == overtaken' = (overtaken \/ (waiting # << >> /\ ~car.sliding /\ c # car))

Move(type) ==
    /\ Counted
    /\ \E reaction \in {"none", "prevent", "pause"} :
         LET c == Turn(car, type, reaction)
         IN  /\ car' = c /\ SlideBegins(c)
             /\ wished'  = IF c.sliding /\ ~car.sliding THEN -1 ELSE wished
             /\ stopped' = IF c.interval # None THEN FALSE ELSE stopped
    /\ UNCHANGED <<slid, waiting>>

To(pos) ==
    /\ Counted
    /\ wished' = IF InRange(pos) THEN pos ELSE wished
    /\ CASE ~InRange(pos) -> UNCHANGED <<car, waiting, stopped, overtaken>>
         [] InRange(pos) /\ Waits(car) -> /\ waiting' = Append(waiting, pos)
                                          /\ UNCHANGED <<car, stopped, overtaken>>
         [] OTHER -> /\ car' = Go(car, pos)
                     /\ overtaken' = (overtaken \/ waiting # << >>)
                     /\ stopped' = FALSE
                     /\ UNCHANGED waiting
    /\ UNCHANGED slid

\* The browser runs an interval: next().
IntervalTick ==
    /\ car.running # {} /\ Counted
    /\ LET c == Turn(car, "next", "none")
       IN  /\ car' = c /\ SlideBegins(c)
           /\ wished' = IF c.sliding /\ ~car.sliding THEN -1 ELSE wished
    /\ UNCHANGED <<slid, waiting, stopped>>

PauseOrCycle(hover) ==
    /\ Counted
    /\ \/ car' = Pause(car, hover) /\ stopped' = TRUE
       \/ car' = Cycle(car, hover) /\ stopped' = (hover /\ car.paused)
    /\ UNCHANGED <<slid, waiting, wished, overtaken>>

\* The transition of a slide ends: the classes, the flag, and a timeout for "slid".
SlideEnds ==
    /\ \E s \in car.slides :
         car' = [car EXCEPT !.active = (@ \union {s[2]}) \ {s[1]}, !.sliding = FALSE,
                            !.slides = @ \ {s}]
    /\ slid' = slid + 1
    /\ UNCHANGED <<waiting, carouselOps, wished, stopped, overtaken>>

\* Every waiting to() is called again, and waits again if one before it, or another
\* slide, has begun.
GoneOn(c, positions) ==
    LET after[n \in 0 .. Len(positions)] ==
          IF n = 0 THEN [car |-> c, waiting |-> << >>]
          ELSE IF Waits(after[n - 1].car)
               THEN [after[n - 1] EXCEPT !.waiting = Append(@, positions[n])]
               ELSE [after[n - 1] EXCEPT !.car = Go(@, positions[n])]
    IN  after[Len(positions)]

\* The timeout that triggers "slid".
Slid ==
    /\ slid > 0
    /\ slid' = slid - 1
    /\ LET end == GoneOn(car, waiting) IN car' = end.car /\ waiting' = end.waiting
    /\ stopped' = IF waiting # << >> THEN FALSE ELSE stopped
    /\ UNCHANGED <<carouselOps, wished, overtaken>>

CarouselNext ==
    \/ Move("next") \/ Move("prev")
    \/ \E pos \in 0 .. Items : To(pos)
    \/ IntervalTick \/ SlideEnds \/ Slid
    \/ \E hover \in BOOLEAN : PauseOrCycle(hover)

CarouselSpec == CarouselInit /\ [][CarouselNext]_carouselVars

-----------------------------------------------------------------------------
(* Properties.                                                               *)

\* The console's boxes are never mixed up: one slide at a time, from the one active
\* item to another, and what interval ticks, clicks and waiting positions begin
\* leaves one active item at its end.  No position that to() keeps is lost: when no
\* slide is under way and no "slid" to come, none waits, and the item last asked
\* for is shown, however many slides it had to wait for, unless something began
\* ahead of those waiting.
OneItemShown ==
    /\ Cardinality(car.active) = 1
    /\ car.sliding <=> car.slides # {}
    /\ \A s, t \in car.slides : s = t /\ s[1] \in car.active /\ s[2] # s[1]
    /\ ~car.sliding /\ slid = 0 =>
         /\ waiting = << >>
         /\ wished >= 0 /\ ~overtaken => car.active = {wished}

\* The browser runs no interval but the one that pause() can clear, and none after
\* pause() or in a carousel that has no interval.  (A pause() in a handler of
\* "slide" is not one of these: slide() starts cycling again behind it.)
PauseHolds ==
    /\ car.running \subseteq {car.interval}
    /\ stopped \/ ~Interval => car.running = {}

\* Whatever is asked of a carousel while it slides: the item that is shown and the
\* interval that runs are those asked for last.
SlidesAsAsked == OneItemShown /\ PauseHolds
=============================================================================
