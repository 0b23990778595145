------------------------------- MODULE MCEffects ------------------------------
(* The parts of jQuery that work with the browser's timers and events, for    *)
(* TLC: effects and their queues, requests, and ready().  They share no state, *)
(* so a behaviour follows one part; the pins give the others a state in which  *)
(* no fairness asks anything of them.  Effects come twice: three calls of any  *)
(* kind, and four of which the first two are fades and the others stop() them. *)
(* Of two requests the one whose status is not watched has a timeout: what it  *)
(* does before it is what one without does.                                    *)
EXTENDS FxQueue, Ajax, Ready

VARIABLE part

Init ==
    /\ part \in {"effects", "cut", "ajax", "ready"}
    /\ FxInit    /\ \A e \in Elements : ~shown[e]
    /\ AjaxInit
    /\ \A r \in Requests : IF part # "ajax" THEN ~options[r].global /\ ~options[r].timeout
                           ELSE r \in Watched \/ options[r].timeout
    /\ ReadyInit /\ (part # "ready" => readyState = "complete" /\ standard)

Calls == 3    \* bound: calls of any kind

CutShort ==
    \/ Run \/ Tick \/ DelayOver \/ LookAgain
    \/ /\ fxOps < 2
       /\ \E e \in Elements, to \in {"show", "hide"} : Fade(e, to) \/ FadeAside(e, to)
    \/ /\ fxOps >= 2
       /\ \E e \in Elements, clear, gotoEnd \in BOOLEAN : Stop(e, clear, gotoEnd)
    \/ \E p \in Promises : Promise(p)

Next == /\ UNCHANGED part
        /\ \/ part = "effects" /\ FxNext    /\ UNCHANGED <<ajaxVars, readyVars>>
                                /\ fxOps' <= Calls
           \/ part = "cut"     /\ CutShort  /\ UNCHANGED <<ajaxVars, readyVars>>
           \/ part = "ajax"    /\ AjaxNext  /\ UNCHANGED <<fxVars, readyVars>>
           \/ part = "ready"   /\ ReadyNext /\ UNCHANGED <<fxVars, ajaxVars>>

Spec == /\ Init /\ [][Next]_<<part, fxVars, ajaxVars, readyVars>>
        /\ FxFairness /\ AjaxFairness /\ ReadyFairness
=============================================================================
