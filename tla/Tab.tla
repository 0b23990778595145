---------------------------------- MODULE Tab ----------------------------------
(* Bootstrap's tabs.  A click moves the mark of the active tab at once; with   *)
(* fading panes the pane follows when the one it found active has faded out,   *)
(* and then takes away what it found active at the click.                      *)
EXTENDS Naturals, FiniteSets, SequencesExt

CONSTANTS
    Panes,       \* 1 .. n; a tab has the name of its pane
    MaxTabOps    \* bound: clicks

ASSUME TabAssumption == IsFiniteSet(Panes) /\ Panes \subseteq Nat \ {0} /\ MaxTabOps \in Nat

VARIABLES
    tabFade,     \* the panes have the class "fade"
    tab,         \* the active tab
    pane,        \* the panes that are active, and "in"; those that are fading
    waits,       \* activate's next() functions waiting for a fade to end
    tabOps,
    hasty,       \* history: a click came while a pane was awaited
    crowded      \* history: a click found several panes active

tabVars == <<tabFade, tab, pane, waits, tabOps, hasty, crowded>>

TabInit ==
    /\ tabFade \in BOOLEAN
    /\ tab \in Panes
    /\ pane = [active |-> {tab}, in |-> IF tabFade THEN {tab} ELSE {}, fading |-> {}]
    /\ waits = << >> /\ tabOps = 0 /\ hasty = FALSE /\ crowded = FALSE

\* Mutant: what was active stays so.
NextBeside(p, w) == [p EXCEPT !.active = @ \union {w.to}, !.in = @ \union {w.to}]

\* next(): a pane that is no longer shown does not fade, and one new to "in" does.
ShowNext(p, w) ==
    LET left == p.active \ w.found
    IN  [active |-> left \union {w.to},
         in     |-> p.in \union (IF tabFade THEN {w.to} ELSE {}),
         fading |-> (p.fading \ w.found) \union (IF tabFade THEN {w.to} \ p.in ELSE {})]

\* The handlers of the end of a fade of pane e, in the order they were set; each was
\* set once for every pane that was active, and tells its timer not to ring.
RunEnds(s, e) ==
    LET run[i \in 0 .. Len(s.waits)] ==
          IF i = 0 THEN [pane |-> s.pane, waits |-> << >>]
          ELSE LET w    == s.waits[i]
                   left == IF e \in w.found THEN [w EXCEPT !.on = @ \ {e}, !.timer = FALSE] ELSE w
               IN  [pane  |-> IF e \in w.on THEN ShowNext(run[i - 1].pane, w) ELSE run[i - 1].pane,
                    waits |-> IF left.on = {} THEN run[i - 1].waits ELSE Append(run[i - 1].waits, left)]
    IN  run[Len(s.waits)]

\* trigger() of that end on several panes, in the order of the document.
EndAll(s, found) ==
    LET ended[e \in 0 .. Max(found)] ==
          IF e = 0 THEN s
          ELSE IF e \in found THEN RunEnds(ended[e - 1], e) ELSE ended[e - 1]
    IN  ended[Max(found)]

-----------------------------------------------------------------------------
(* show() of a tab's link; a handler of "show" or "hide" may forbid it. *)
ShowTab(p) ==
    /\ tabOps < MaxTabOps /\ tabOps' = tabOps + 1
    /\ tab # p /\ tab' = p
    /\ LET w == [to |-> p, found |-> pane.active, on |-> pane.active, timer |-> TRUE]
       IN  IF tabFade /\ pane.active # {}
           THEN /\ waits' = Append(waits, w)
                /\ pane' = [pane EXCEPT !.in = @ \ pane.active,
                                        !.fading = @ \union (pane.active \intersect pane.in)]
           ELSE pane' = ShowNext(pane, w) /\ UNCHANGED waits
    /\ hasty' = (hasty \/ waits # << >>)
    /\ crowded' = (crowded \/ Cardinality(pane.active) > 1)
    /\ UNCHANGED tabFade

\* The browser's event.
FadeOver(e) ==
    /\ e \in pane.fading
    /\ LET after == RunEnds([pane |-> [pane EXCEPT !.fading = @ \ {e}], waits |-> waits], e)
       IN  pane' = after.pane /\ waits' = after.waits
    /\ UNCHANGED <<tabFade, tab, tabOps, hasty, crowded>>

\* emulateTransitionEnd's timer triggers it on all that were active.
FadeTimeout(i) ==
    /\ waits[i].timer
    /\ LET after == EndAll([pane |-> pane, waits |-> waits], waits[i].found)
       IN  pane' = after.pane /\ waits' = after.waits
    /\ UNCHANGED <<tabFade, tab, tabOps, hasty, crowded>>

TabNext ==
    \/ \E p \in Panes : ShowTab(p)
    \/ \E e \in Panes : FadeOver(e)
    \/ \E i \in DOMAIN waits : FadeTimeout(i)

TabSpec == TabInit /\ [][TabNext]_tabVars

-----------------------------------------------------------------------------
(* Properties.                                                               *)

\* Once the panes are at rest the active tab's own is shown, whichever of the browser's
\* events and the timers came first and however fast the tabs were changed; and it alone
\* unless a tab was chosen before the pane of the last one had come.  (Then two may be
\* active, and a click that finds both leaves a function with one of them that may
\* take away a later pane: such clicks are left aside.)
TabShowsItsPane ==
    waits = << >> /\ ~crowded =>
      /\ tab \in pane.active /\ (tabFade => tab \in pane.in)
      /\ ~hasty => pane.active = {tab} /\ pane.in \subseteq {tab}
=============================================================================
