----------------------------- MODULE MCLibraries ------------------------------
(* The parts of the console's libraries with safety properties only, for TLC: *)
(* jQuery's callback lists, deferreds and events, and Bootstrap's widgets.     *)
(* They share no state, so a behaviour follows one part and the others stay as *)
(* the pins below say.                                                        *)
EXTENDS Callbacks, Deferred, Events, Carousel, Modal, Tooltip, TipPlacement, Collapse,
        ScrollSpy, Tab

VARIABLE part

Parts == {"callbacks", "deferred", "events", "carousel", "modal", "tooltip", "placement",
          "collapse", "spy", "tabs"}

MCFlagSets == {{}, {"once"}, {"memory"}, {"unique"}, {"once", "memory"}, {"unique", "memory"},
               {"stopOnFalse", "memory"}}
MCWatched  == {<<"a", "done">>, <<"a", "fail">>, <<"a", "progress">>, <<"w", "done">>,
               <<"p", "progress">>}
MCAncestry == <<"box", "page">>
MCContent  == [CHOOSE c \in Contents : TRUE EXCEPT !.visible = {}]

Init ==
    /\ part \in Parts
    /\ CallbacksInit /\ (part # "callbacks" => cb.flags = {})
    /\ DeferredInit /\ EventsInit /\ CarouselInit
    /\ ModalInit     /\ (part # "modal" => ~modalFade /\ ~tall /\ backdropOption = "false")
    /\ TipInit       /\ (part # "tooltip" => text = {} /\ \A o \in DOMAIN tipOptions : ~tipOptions[o])
    /\ CollapseInit  /\ (part # "collapse" => \A p \in Panels : acc.class[p] = "shut")
    /\ PlaceInit     /\ (part # "placement" =>
                           /\ placement = [side |-> "top", auto |-> FALSE]
                           /\ spot = CHOOSE s \in Spots : TRUE)
    /\ SpyInit       /\ (part # "spy" => content = MCContent /\ scrollTop = 0 /\ spy.targets = << >>)
    /\ TabInit       /\ (part # "tabs" => ~tabFade /\ tab = 1)

\* What a step leaves alone.
Others(p) ==
    /\ part = p /\ UNCHANGED part
    /\ p # "callbacks" => UNCHANGED cbVars
    /\ p # "deferred"  => UNCHANGED deferredVars
    /\ p # "events"    => UNCHANGED eventVars
    /\ p # "carousel"  => UNCHANGED carouselVars
    /\ p # "modal"     => UNCHANGED modalVars
    /\ p # "tooltip"   => UNCHANGED tipVars
    /\ p # "placement" => UNCHANGED placeVars
    /\ p # "collapse"  => UNCHANGED collapseVars
    /\ p # "spy"       => UNCHANGED spyVars
    /\ p # "tabs"      => UNCHANGED tabVars

Next == \/ Others("callbacks") /\ CallbacksNext
        \/ Others("deferred")  /\ DeferredNext
        \/ Others("events")    /\ EventsNext
        \/ Others("carousel")  /\ CarouselNext
        \/ Others("modal")     /\ ModalNext
        \/ Others("tooltip")   /\ TipNext
        \/ Others("placement") /\ PlaceNext
        \/ Others("collapse")  /\ CollapseNext
        \/ Others("spy")       /\ SpyNext
        \/ Others("tabs")      /\ TabNext

Spec == Init /\ [][Next]_<<part, cbVars, deferredVars, eventVars, carouselVars, modalVars,
                           tipVars, placeVars, collapseVars, spyVars, tabVars>>
=============================================================================
