----------------------------- MODULE MCWebConsole -----------------------------
(* The pages of the console for TLC.  The route decides which controller the  *)
(* browser runs; the controllers share no state, so a behaviour follows one   *)
(* page.  An environment offers one dataset; the job of another one, which    *)
(* somebody else has launched, may run there.  Half of the viewer's           *)
(* behaviours keep to one environment; in the others ("two") its user may     *)
(* change it at any time, in one start without faults and with one request    *)
(* in flight.                                                                 *)
EXTENDS LSGiViewer, SettingsPage

VARIABLE route

MCAvailable == [e \in Environments |-> <<"own">>]
MCState0    == [i \in 1 .. NIterations |-> i]

Init == /\ route \in {"one", "two", "settings"}
        /\ ViewerInit /\ SettingsInit
        /\ route = "settings" => \A e \in Environments : jobs[e] = NoDataset
        /\ route = "one" => \A e \in Environments \ {scope.environment} : jobs[e] = NoDataset
        /\ route = "two" => \A e \in Environments : jobs[e] = Head(Available[e])

Next == \/ /\ route = "one" /\ ViewerNext
           /\ scope'.environment = scope.environment
           /\ UNCHANGED <<route, settingsVars>>
        \/ /\ route = "two" /\ ViewerNext
           /\ starts' <= 1 /\ Len(inFlight') <= 1
           /\ UNCHANGED <<faults, route, settingsVars>>
        \/ route = "settings" /\ SettingsNext /\ UNCHANGED <<route, viewerVars>>

Spec == Init /\ [][Next]_<<route, viewerVars, settingsVars>> /\ ViewerFairness
=============================================================================
