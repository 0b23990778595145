-------------------------------- MODULE Ready ---------------------------------
(* jQuery.ready of jQuery 1.7.2, by which the console's app.js waits for the   *)
(* document before it starts AngularJS: functions given to ready(), handlers   *)
(* bound to the event "ready", and the holds that delay both.  The list of     *)
(* functions is a jQuery.Callbacks("once memory"); what such a list does is    *)
(* the subject of Callbacks, here it runs its functions at once.               *)
(*                                                                            *)
(* Assumed: who releases a hold has taken it, so readyWait reaches 0 only      *)
(* after the document is ready, when document.body exists.                     *)
EXTENDS Integers

CONSTANTS
    Scripts,    \* functions of the page
    MaxHolds    \* bound: calls of holdReady(true)

ASSUME ReadyAssumption == MaxHolds \in Nat

VARIABLES
    readyState,   \* document.readyState
    loaded,       \* the load event is over
    listening,    \* the events jQuery listens to
    standard,     \* the browser has addEventListener; or it has attachEvent and doScroll
    readyTimer,   \* a setTimeout(jQuery.ready) is pending
    scrollTimer,  \* a setTimeout(doScrollCheck) is pending
    readyWait,
    isReady,
    readyList,    \* "unbound", "waiting" or "fired"
    given,        \* functions in the list that have not run
    onReady,      \* handlers of the event "ready"
    runs,          \* how often each function of the page was run
    holds,        \* history: holds taken so far
    released      \* history: of these, released

readyVars == <<readyState, loaded, standard, listening, readyTimer, scrollTimer, readyWait, isReady, readyList,
               given, onReady, runs, holds, released>>

ReadyInit ==
    /\ readyState \in {"loading", "interactive", "complete"} /\ loaded = (readyState = "complete")
    /\ standard \in BOOLEAN /\ listening = {} /\ readyTimer = FALSE /\ scrollTimer = FALSE
    /\ readyWait = 1 /\ isReady = FALSE /\ readyList = "unbound"
    /\ given = {} /\ onReady = {} /\ runs = [f \in Scripts |-> 0]
    /\ holds = 0 /\ released = 0

\* readyList.fireWith() and trigger("ready").off("ready"): the list fires once.
FireReady ==
    /\ readyList' = "fired" /\ given' = {} /\ onReady' = {}
    /\ runs' = [f \in Scripts |-> runs[f] + (IF f \in given \union onReady THEN 1 ELSE 0)]

NotFired == UNCHANGED <<readyList, given, onReady, runs>>

\* Mutant: holds are not looked at.
DocumentReadyNow ==
    IF isReady THEN UNCHANGED <<isReady, readyWait>> /\ NotFired
    ELSE isReady' = TRUE /\ readyWait' = readyWait - 1 /\ FireReady

\* ready() for an event or a timer.
DocumentReady ==
    IF isReady THEN UNCHANGED <<isReady, readyWait>> /\ NotFired
    ELSE /\ isReady' = TRUE
         /\ readyWait' = readyWait - 1
         /\ IF readyWait' > 0 THEN NotFired ELSE FireReady

-----------------------------------------------------------------------------
(* The page.                                                                 *)

\* bindReady(): too late for the events of the document, a timer stands in; a
\* browser with doScroll tries it at once, and when the document is parsed it may
\* already scroll, with nothing in the list yet.
BindReady ==
    \/ /\ readyList # "unbound"
       /\ UNCHANGED <<listening, readyTimer, scrollTimer, readyWait, isReady, readyList>>
    \/ /\ readyList = "unbound" /\ readyState = "complete"
       /\ readyList' = "waiting" /\ readyTimer' = TRUE
       /\ UNCHANGED <<listening, scrollTimer, readyWait, isReady>>
    \/ /\ readyList = "unbound" /\ readyState # "complete"
       /\ listening' = {"load", IF standard THEN "DOMContentLoaded" ELSE "readystatechange"}
       /\ \/ /\ readyList' = "waiting" /\ scrollTimer' \in {FALSE, ~standard}
             /\ UNCHANGED <<readyWait, isReady>>
          \/ /\ ~standard /\ readyState = "interactive"
             /\ isReady' = TRUE /\ readyWait' = readyWait - 1
             /\ readyList' = IF readyWait' > 0 THEN "waiting" ELSE "fired"
             /\ UNCHANGED scrollTimer
       /\ UNCHANGED readyTimer

Fresh(f) == f \notin given \union onReady /\ runs[f] = 0

\* $(document).ready(f): a list that has fired runs it at once.
GiveReady(f) ==
    /\ Fresh(f)
    /\ BindReady
    /\ IF readyList' = "fired" THEN runs' = [runs EXCEPT ![f] = 1] /\ UNCHANGED given
                              ELSE given' = given \union {f} /\ UNCHANGED runs
    /\ UNCHANGED <<readyState, loaded, standard, onReady, holds, released>>

\* $(document).on("ready", f)
BindEvent(f) ==
    /\ Fresh(f)
    /\ BindReady
    /\ onReady' = onReady \union {f}
    /\ UNCHANGED <<readyState, loaded, standard, given, runs, holds, released>>

Hold ==
    /\ holds < MaxHolds
    /\ holds' = holds + 1 /\ readyWait' = readyWait + 1
    /\ UNCHANGED <<readyState, loaded, standard, listening, readyTimer, scrollTimer, isReady,
                   readyList, given, onReady, runs, released>>

\* holdReady(false), which is ready(true).
Release ==
    /\ released < holds
    /\ released' = released + 1
    /\ readyWait' = readyWait - 1
    /\ IF readyWait' = 0 THEN isReady' = TRUE /\ FireReady
                         ELSE UNCHANGED isReady /\ NotFired
    /\ UNCHANGED <<readyState, loaded, standard, listening, readyTimer, scrollTimer, holds>>

-----------------------------------------------------------------------------
(* The browser.                                                              *)

\* An event of the document; jQuery keeps only its listener for load.
DocumentEvent(event) ==
    /\ listening' = listening \ ({event} \ {"load"})
    /\ IF event \in listening THEN DocumentReady
                              ELSE UNCHANGED <<isReady, readyWait>> /\ NotFired
    /\ UNCHANGED <<standard, readyTimer, scrollTimer, holds, released>>

ContentLoaded == /\ readyState = "loading" /\ readyState' = "interactive"
                 /\ DocumentEvent("DOMContentLoaded")
                 /\ UNCHANGED loaded

Completes == /\ readyState = "interactive" /\ readyState' = "complete"
             /\ DocumentEvent("readystatechange")
             /\ UNCHANGED loaded

Loaded == /\ readyState = "complete" /\ ~loaded /\ loaded' = TRUE
          /\ DocumentEvent("load")
          /\ UNCHANGED readyState

ReadyTimer == /\ readyTimer /\ readyTimer' = FALSE
              /\ DocumentReady
              /\ UNCHANGED <<readyState, loaded, standard, listening, scrollTimer, holds, released>>

\* doScrollCheck() tries again, unless the document is ready by other means.
DoScrollCheck ==
    /\ scrollTimer
    /\ \/ /\ isReady \/ readyState # "loading"
          /\ scrollTimer' = FALSE
          /\ DocumentReady
       \/ /\ ~isReady
          /\ UNCHANGED <<scrollTimer, isReady, readyWait>> /\ NotFired
    /\ UNCHANGED <<readyState, loaded, standard, listening, readyTimer, holds, released>>

ReadyNext == \/ \E f \in Scripts : GiveReady(f) \/ BindEvent(f)
             \/ Hold \/ Release
             \/ ContentLoaded \/ Completes \/ Loaded \/ ReadyTimer \/ DoScrollCheck

\* The document gets loaded, timers expire, and every hold is released.
ReadyFairness == /\ WF_readyVars(ContentLoaded \/ Completes \/ Loaded)
                 /\ WF_readyVars(ReadyTimer) /\ WF_readyVars(Release)

ReadySpec == ReadyInit /\ [][ReadyNext]_readyVars /\ ReadyFairness

-----------------------------------------------------------------------------
(* Properties.                                                               *)

\* What is given to ready() runs once and in time: the first functions not before
\* the document is ready and every hold is released, and each of them at the end,
\* whether it comes before, with or after the events of the document and the holds
\* come before or after those (lines 405 to 486).
ReadyInTime ==
    /\ [][(\A f \in Scripts : runs[f] = 0) /\ readyList' = "fired" /\ readyList # "fired" =>
            readyState' # "loading" /\ released' = holds' ]_readyVars
    /\ \A f \in Scripts : /\ [](runs[f] <= 1)
                          /\ f \in given ~> runs[f] = 1
=============================================================================
