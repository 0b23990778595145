-------------------------------- MODULE Modal ---------------------------------
(* Bootstrap's modal dialog: the dialog, the backdrop it puts behind itself   *)
(* and what it does to the page, opened and closed by calls, clicks and the   *)
(* escape key while the fades of an earlier opening or closing still run.     *)
(*                                                                            *)
(* A fade's end calls whatever waits for it on that element: one handler of   *)
(* "bsTransitionEnd" each, called by the browser's event or by the timer that *)
(* emulates it.  Where it returns the focus to is left out.  The page has a   *)
(* scrollbar or not, and the dialog is too tall for the window or not.        *)
EXTENDS Integers, FiniteSets, Sequences

CONSTANT MaxModalOps   \* bound: calls, clicks and keys

ASSUME ModalAssumption == MaxModalOps \in Nat

VARIABLES
    modal,       \* the Modal object and the page
    fades,       \* [on, does]: what waits for the end of a fade, oldest first
    modalFade,   \* the element has the class "fade"
    backdropOption,  \* "true", "static" or "false"
    tall,        \* the dialog is higher than the window
    modalOps,
    reopened     \* history: shown while the closing before had still to be finished

modalVars == <<modal, fades, modalFade, backdropOption, tall, modalOps, reopened>>

NoBackdrop == 0

\* What a fade is on: the element, its dialog, or a backdrop.
Element         == <<"element", 0>>
Dialog          == <<"dialog", 0>>
TheBackdrop(id) == <<"backdrop", id>>

ModalInit ==
    /\ modal = [isShown |-> FALSE, display |-> FALSE, in |-> FALSE, pageOpen |-> FALSE,
                padding |-> 0, originalPadding |-> 0, bodyIsOverflowing |-> FALSE,
                adjusted |-> "none",
                backdrop |-> NoBackdrop, backdrops |-> {},
                escape |-> FALSE, outside |-> 0, pressed |-> FALSE, ignoreClick |-> FALSE,
                focusKept |-> FALSE]
    /\ fades = << >> /\ modalOps = 0 /\ reopened = FALSE
    /\ modalFade \in BOOLEAN /\ tall \in BOOLEAN /\ backdropOption \in {"true", "static", "false"}

-----------------------------------------------------------------------------
(* The object's methods, on a pair of the object and what waits.             *)

Await(s, on, does, done) ==
    IF modalFade THEN [s EXCEPT !.fades = Append(@, [on |-> on, does |-> does])] ELSE done

\* What waits for other fades than those of an element.
Elsewhere(waiting, on) ==
    LET kept[i \in 0 .. Len(waiting)] ==
          IF i = 0 THEN << >>
          ELSE IF waiting[i].on = on THEN kept[i - 1] ELSE Append(kept[i - 1], waiting[i])
    IN  kept[Len(waiting)]

\* Mutant: the padding the scrollbar asked for stays.
ClosedPadded(s) == [s EXCEPT !.modal.pageOpen = FALSE, !.modal.adjusted = "none"]

\* setScrollbar() and resetScrollbar(): room for the scrollbar that the page loses.
SetScrollbar(m, overflowing) ==
    [m EXCEPT !.bodyIsOverflowing = overflowing, !.originalPadding = m.padding,
              !.padding = IF overflowing THEN @ + 1 ELSE @]
ResetScrollbar(m) == [m EXCEPT !.padding = m.originalPadding]

\* adjustDialog(): on which side the element has room for the scrollbar.
AdjustDialog(m, high) ==
    [m EXCEPT !.adjusted = CASE ~m.bodyIsOverflowing /\ high -> "left"
                             [] m.bodyIsOverflowing /\ ~high -> "right"
                             [] OTHER                         -> "none"]

\* The last thing of a closing: the page as it was.
Closed(s) == [s EXCEPT !.modal = ResetScrollbar([@ EXCEPT !.pageOpen = FALSE,
                                                          !.adjusted = "none"])]

\* What shows the dialog, once its backdrop is there.
Opened(s) == LET t == [s EXCEPT !.modal = AdjustDialog([@ EXCEPT !.display = TRUE, !.in = TRUE,
                                                                 !.focusKept = TRUE], tall)]
             IN  Await(t, Dialog, "shown", t)

RemoveBackdrop(s) ==
    LET id == s.modal.backdrop
    IN  [modal |-> [s.modal EXCEPT !.backdrops = @ \ {id}, !.backdrop = NoBackdrop],
         fades |-> Elsewhere(s.fades, TheBackdrop(id))]

\* The two callbacks of backdrop().
BackdropDone(s, does) == IF does = "opened" THEN Opened(s) ELSE Closed(s)

\* backdrop(callback), with what the callback does.
Backdrop(s, does) ==
    LET id    == Cardinality(s.modal.backdrops) + 1
        added == [s EXCEPT !.modal = [s.modal EXCEPT !.backdrop = id, !.backdrops = @ \union {id},
                                                     !.outside = @ + 1]]
    IN  CASE s.modal.isShown /\ backdropOption # "false" ->
                Await(added, TheBackdrop(id), does, BackdropDone(added, does))
          [] ~s.modal.isShown /\ s.modal.backdrop # NoBackdrop ->
                Await(s, TheBackdrop(s.modal.backdrop), "remove", BackdropDone(RemoveBackdrop(s), does))
          [] OTHER -> BackdropDone(s, does)

HideModal(s) == Backdrop([s EXCEPT !.modal = [@ EXCEPT !.display = FALSE]], "closed")

\* A waiting callback is called.
CallBack(s, does) ==
    CASE does \in {"opened", "closed"} -> BackdropDone(s, does)
      [] does = "remove"               -> Closed(RemoveBackdrop(s))
      [] does = "hideModal"            -> HideModal(s)
      [] OTHER                         -> s

\* All that wait for the fade of an element, in the order they were set.
CallAll(m, waiting, on) ==
    LET after[i \in 0 .. Len(waiting)] ==
          IF i = 0 THEN [modal |-> m, fades |-> Elsewhere(waiting, on)]
          ELSE IF waiting[i].on = on THEN CallBack(after[i - 1], waiting[i].does)
          ELSE after[i - 1]
    IN  after[Len(waiting)]

\* show() and hide(), past their events.
ShowModal(s, overflowing) ==
    IF s.modal.isShown THEN s
    ELSE Backdrop([s EXCEPT !.modal = SetScrollbar([@ EXCEPT !.isShown = TRUE, !.pageOpen = TRUE,
                                                             !.escape = TRUE], overflowing)],
                  "opened")

Hide(s) ==
    IF ~s.modal.isShown THEN s
    ELSE LET out == [s EXCEPT !.modal = [@ EXCEPT !.isShown = FALSE, !.escape = FALSE,
                                                  !.focusKept = FALSE, !.in = FALSE,
                                                  !.outside = 0, !.pressed = FALSE]]
         IN  Await(out, Element, "hideModal", HideModal(out))

-----------------------------------------------------------------------------
(* What happens to it.  A handler that prevents "show" or "hide" is no step.  *)

Now        == [modal |-> modal, fades |-> fades]
ModalBecomes(s) == modal' = s.modal /\ fades' = s.fades
ModalTurn  == modalOps < MaxModalOps /\ modalOps' = modalOps + 1

\* A closing is finished when nothing is left to close.
Closing == ~modal.isShown /\ (fades # << >> \/ modal.pageOpen)

Show ==
    /\ ModalTurn /\ \E overflowing \in BOOLEAN : ModalBecomes(ShowModal(Now, overflowing))
    /\ reopened' = (reopened \/ Closing)

HideCalled == ModalTurn /\ ModalBecomes(Hide(Now)) /\ UNCHANGED reopened

\* A click of what has data-toggle="modal".
ToggleClicked == IF modal.isShown THEN HideCalled ELSE Show

\* The window is resized, to which only a shown dialog listens.
WindowResized ==
    /\ ModalTurn
    /\ tall' = ~tall
    /\ modal' = IF modal.isShown THEN AdjustDialog(modal, tall' /\ modal.display) ELSE modal
    /\ UNCHANGED <<fades, reopened>>

EscapeKey ==
    /\ ModalTurn /\ modal.escape
    /\ ModalBecomes(Hide(Now)) /\ UNCHANGED reopened

\* The mouse goes down in the dialog.
PressInDialog ==
    /\ ModalTurn /\ modal.isShown /\ modal.display
    /\ modal' = [modal EXCEPT !.pressed = TRUE]
    /\ UNCHANGED <<fades, reopened>>

\* It goes up outside the dialog, which is a click of the element: each handler
\* that backdrop() added either takes the flag away or hides.
ReleaseOutside ==
    /\ ModalTurn /\ modal.display
    /\ LET up   == [modal EXCEPT !.pressed = FALSE, !.ignoreClick = @ \/ modal.pressed]
           left == IF up.ignoreClick THEN up.outside - 1 ELSE up.outside
           seen == IF up.outside > 0 THEN [up EXCEPT !.ignoreClick = FALSE] ELSE up
       IN  ModalBecomes(IF left > 0 /\ backdropOption = "true"
                   THEN Hide([modal |-> seen, fades |-> fades])
                   ELSE [modal |-> seen, fades |-> fades])
    /\ UNCHANGED reopened

\* The fade of an element ends.  A closing takes 300 ms and a backdrop's fade 150,
\* so that a backdrop which began to fade in before a closing ends before it.
FadeEnds(on) ==
    /\ \E i \in DOMAIN fades : fades[i].on = on
    /\ on = Element /\ ~reopened => \A i \in DOMAIN fades : fades[i].does # "opened"
    /\ ModalBecomes(CallAll(modal, fades, on))
    /\ UNCHANGED <<modalOps, reopened>>

ModalNext ==
    \/ /\ Show \/ HideCalled \/ ToggleClicked \/ EscapeKey \/ PressInDialog \/ ReleaseOutside
          \/ \E i \in DOMAIN fades : FadeEnds(fades[i].on)
       /\ UNCHANGED <<modalFade, backdropOption, tall>>
    \/ WindowResized /\ UNCHANGED <<modalFade, backdropOption>>

ModalSpec == ModalInit /\ [][ModalNext]_modalVars

-----------------------------------------------------------------------------
(* Properties.                                                               *)

\* When every fade is over the page is what isShown says: the dialog on one
\* backdrop and the page behind it held, with room for the scrollbar as the window is
\* now, or neither and all padding as it was, however soon it was closed again while
\* it opened.  (A show() before the
\* closing is finished leaves it half open: its hideModal() comes later.)
PageFitsModal ==
    fades = << >> /\ ~reopened =>
      /\ modal.display = modal.isShown /\ modal.pageOpen = modal.isShown
      /\ Cardinality(modal.backdrops) =
           (IF modal.isShown /\ backdropOption # "false" THEN 1 ELSE 0)
      /\ IF modal.isShown THEN modal = AdjustDialog(modal, tall)
                          ELSE modal.padding = 0 /\ modal.adjusted = "none"
=============================================================================
