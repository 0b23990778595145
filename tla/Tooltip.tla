------------------------------- MODULE Tooltip --------------------------------
(* Bootstrap's tooltip and its popover: a tip that three kinds of events, a   *)
(* delay before showing or hiding, calls, and the ends of the fades they      *)
(* began all show and hide again.  A popover differs in its template and in   *)
(* what counts as content; without content nothing is shown.                  *)
EXTENDS Integers, SequencesExt

CONSTANT MaxTipOps   \* bound: events and calls

ASSUME TooltipAssumption == MaxTipOps \in Nat

VARIABLES
    tip,         \* the Tooltip object and the element of its tip
    tipOptions,  \* [popover, manual, animation, showDelay, hideDelay]
    text,        \* the attributes of the element that are not empty
    tipOps,
    wanted,      \* history: what the events, or the last call, ask for
    crossed      \* history: a call or a second showing crossed what had yet to end

tipVars == <<tip, tipOptions, text, tipOps, wanted, crossed>>

Sources == {"click", "hover", "focus"}

TipInit ==
    /\ tip = [alive |-> TRUE, enabled |-> TRUE, inState |-> {}, hoverState |-> "none",
              timeout |-> "none", in |-> FALSE, fade |-> FALSE, attached |-> FALSE,
              ends |-> << >>]
    /\ text \in SUBSET {"title", "content"}
    /\ tipOptions \in [popover : BOOLEAN, manual : BOOLEAN, animation : BOOLEAN, showDelay : BOOLEAN,
                       hideDelay : BOOLEAN]
    /\ tipOps = 0 /\ wanted = FALSE /\ crossed = FALSE

-----------------------------------------------------------------------------
(* The object's methods.                                                     *)

\* hide()'s complete(), with what destroy() adds to it.
TipHidden(t, does) ==
    LET away == IF t.hoverState # "in" THEN [t EXCEPT !.attached = FALSE] ELSE t
    IN  IF does = "hidden" THEN away
        ELSE [away EXCEPT !.alive = FALSE, !.attached = FALSE, !.in = FALSE, !.fade = FALSE]

HideTip(t, does) ==
    LET out == [t EXCEPT !.in = FALSE]
    IN  IF t.fade THEN [out EXCEPT !.ends = Append(@, does), !.hoverState = "none"]
                  ELSE [TipHidden(out, does) EXCEPT !.hoverState = "none"]

LeaveTip(t) ==
    LET out == [t EXCEPT !.timeout = "none", !.hoverState = "out"]
    IN  CASE t.inState # {}                             -> t
          [] t.inState = {} /\ tipOptions.hideDelay     -> [out EXCEPT !.timeout = "hide"]
          [] OTHER                                      -> HideTip(out, "hidden")

\* Mutant: it does not look whether somebody has left meanwhile.
TipStays(t) == [t EXCEPT !.hoverState = "none"]

\* show()'s complete(): one who left meanwhile leaves now.
TipShown(t) ==
    LET rest == [t EXCEPT !.hoverState = "none"]
    IN  IF t.hoverState = "out" THEN LeaveTip(rest) ELSE rest

\* hasContent() of a tooltip and of a popover.
GetTitle(attributes)   == "title" \in attributes
HasContent(attributes) == GetTitle(attributes) \/ (tipOptions.popover /\ "content" \in attributes)

ShowTip(t) ==
    LET shown == [t EXCEPT !.attached = TRUE, !.in = TRUE, !.fade = tipOptions.animation]
    IN  CASE ~(HasContent(text) /\ t.enabled)             -> t
          [] HasContent(text) /\ t.enabled /\ tipOptions.animation ->
                                                       [shown EXCEPT !.ends = Append(@, "shown")]
          [] OTHER                                  -> TipShown(shown)

EnterTip(t) ==
    CASE t.in \/ t.hoverState = "in" -> [t EXCEPT !.hoverState = "in"]
      [] ~t.in /\ t.hoverState # "in" /\ tipOptions.showDelay ->
            [t EXCEPT !.hoverState = "in", !.timeout = "show"]
      [] OTHER -> ShowTip([t EXCEPT !.hoverState = "in", !.timeout = "none"])

ToggleTip(t) == IF t.in THEN LeaveTip(t) ELSE EnterTip(t)

DestroyTip(t) == HideTip([t EXCEPT !.timeout = "none"], "destroyed")

-----------------------------------------------------------------------------
(* What happens to it.  A handler that prevents "show" or "hide" is left out. *)

TipTurn == /\ tip.alive /\ tipOps < MaxTipOps
           /\ tipOps' = tipOps + 1

\* The pointer turns round twice within one fade: it enters again while a "shown"
\* is to come, whose complete() forgets it, or leaves while a "hidden" is, whose
\* complete() takes the tip away; or it enters a tip that is being destroyed.
Crosses(t) ==
    \/ /\ ~tip.in /\ (t.in \/ t.hoverState = "in")
       /\ {"shown", "destroyed"} \intersect ToSet(tip.ends) # {}
    \/ /\ tip.in /\ (~t.in \/ t.hoverState = "out")
       /\ "hidden" \in ToSet(tip.ends)

\* mouseenter, focusin and a click that turns the tip on; and their opposites.
EnterEvent(source) ==
    /\ TipTurn /\ ~tipOptions.manual /\ source \notin tip.inState
    /\ tip' = EnterTip([tip EXCEPT !.inState = @ \union {source}])
    /\ wanted' = TRUE /\ crossed' = (crossed \/ Crosses(tip'))

LeaveEvent(source) ==
    /\ TipTurn /\ ~tipOptions.manual /\ source \in tip.inState
    /\ LET left == [tip EXCEPT !.inState = @ \ {source}]
       IN  tip' = IF source = "click" /\ left.inState # {} THEN EnterTip(left) ELSE LeaveTip(left)
    /\ wanted' = (tip'.inState # {}) /\ crossed' = (crossed \/ Crosses(tip'))

ToggleCalled ==
    /\ TipTurn /\ tipOptions.manual
    /\ tip' = ToggleTip(tip)
    /\ wanted' = ~tip.in /\ crossed' = (crossed \/ Crosses(tip'))

ShowOrHideCalled ==
    /\ TipTurn /\ tipOptions.manual
    /\ \/ tip' = ShowTip(tip) /\ wanted' = TRUE
       \/ tip' = HideTip(tip, "hidden") /\ wanted' = FALSE
    /\ crossed' = (crossed \/ tip.ends # << >> \/ tip.timeout # "none" \/ tip.hoverState # "none")

EnableCalled ==
    /\ TipTurn
    /\ tip' = [tip EXCEPT !.enabled = ~@]
    /\ crossed' = TRUE /\ UNCHANGED wanted

\* The page changes an attribute, of which a tip that is shown takes no notice.
TextChanged ==
    /\ TipTurn
    /\ \E attribute \in {"title", "content"} :
         text' = (text \union {attribute}) \ (text \intersect {attribute})
    /\ crossed' = (crossed \/ HasContent(text) # HasContent(text'))
    /\ UNCHANGED <<tip, wanted>>

DestroyCalled ==
    /\ TipTurn /\ "destroyed" \notin ToSet(tip.ends)
    /\ tip' = DestroyTip(tip)
    /\ UNCHANGED <<wanted, crossed>>

\* The timeout of enter() or leave(), which looks whether it is still meant.
TipDelayOver ==
    /\ tip.timeout # "none"
    /\ LET over == [tip EXCEPT !.timeout = "none"]
       IN  tip' = CASE tip.timeout = "show" /\ tip.hoverState = "in"  -> ShowTip(over)
                    [] tip.timeout = "hide" /\ tip.hoverState = "out" -> HideTip(over, "hidden")
                    [] OTHER                                          -> over
    /\ UNCHANGED <<tipOps, wanted, crossed>>

\* A fade of the tip ends: all that waits for one is called, oldest first.
TipFadeEnds ==
    /\ tip.ends # << >>
    /\ LET after[i \in 0 .. Len(tip.ends)] ==
             IF i = 0 THEN [tip EXCEPT !.ends = << >>]
             ELSE IF tip.ends[i] = "shown" THEN TipShown(after[i - 1])
             ELSE TipHidden(after[i - 1], tip.ends[i])
       IN  tip' = after[Len(tip.ends)]
    /\ UNCHANGED <<tipOps, wanted, crossed>>

TipNext ==
    /\ \/ /\ \/ \E source \in Sources : EnterEvent(source) \/ LeaveEvent(source)
             \/ ToggleCalled \/ ShowOrHideCalled \/ EnableCalled \/ DestroyCalled
             \/ TipDelayOver \/ TipFadeEnds
          /\ UNCHANGED text
       \/ TextChanged
    /\ UNCHANGED tipOptions

TipSpec == TipInit /\ [][TipNext]_tipVars

-----------------------------------------------------------------------------
(* Properties.                                                               *)

TipAtRest == tip.ends = << >> /\ tip.timeout = "none"

\* However enter, leave, delays and fades cross, the tip ends up in the document
\* and visible just when something is still over it, or was toggled on, and it has
\* content, a title or, for a popover, its own.  (One that
\* turns round twice within a fade can leave it out of the document.)  One that was
\* destroyed stays away: no delay or fade of its time brings it back.  (An enter()
\* while it fades out to be destroyed does.)
TipAsWanted ==
    ~crossed =>
      IF tip.alive THEN TipAtRest => tip.attached = (wanted /\ HasContent(text)) /\ tip.in = tip.attached
                   ELSE ~tip.attached /\ tip.timeout # "show"
=============================================================================
