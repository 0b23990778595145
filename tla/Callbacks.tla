------------------------------ MODULE Callbacks -------------------------------
(* One jQuery.Callbacks list and the code that uses it: any method may be     *)
(* called from outside and from inside the callbacks it runs, in any order,   *)
(* and a callback may return false or throw.                                  *)
EXTENDS CallbackLists

CONSTANTS
    Fns,         \* callbacks
    FlagSets,    \* the flags lists are made with
    MaxOps,      \* bound: method calls
    MaxThrows    \* bound: callbacks that throw

ASSUME CallbacksAssumption == /\ MaxOps \in Nat /\ MaxThrows \in Nat
                              /\ FlagSets \subseteq SUBSET {"once", "memory", "unique", "stopOnFalse"}

VARIABLES
    cb,          \* the list
    ops, throws,
    got,         \* history: the last value a callback was run with
    todo,        \* history: what is left to run of this firing, kept without indices
    subscribed,  \* history: added and not taken out again
    emptied      \* history: the list was emptied or its code left while it was firing

cbVars == <<cb, ops, throws, got, todo, subscribed, emptied>>

CallbacksInit ==
    /\ \E flags \in FlagSets : cb = NewList(flags)
    /\ ops = 0 /\ throws = 0
    /\ got = [f \in Fns |-> Nothing]
    /\ todo = << >> /\ subscribed = {} /\ emptied = FALSE

CallbackTurn == /\ cb.phase \in {"idle", "call"} /\ ops < MaxOps
                /\ ops' = ops + 1

\* What a firing that a step has just started will run after its first callback.
Started == SubSeq(cb'.list, cb'.firingIndex + 2, Len(cb'.list))
Begins  == cb'.phase # "idle" /\ cb.phase = "idle"

AddCallback(f) ==
    /\ CallbackTurn
    /\ cb' = AddTo(cb, f)
    /\ todo' = CASE Begins              -> Started
                 [] Len(cb'.list) > Len(cb.list) /\ cb.phase = "call" -> Append(todo, f)
                 [] OTHER               -> todo
    /\ subscribed' = IF cb.off THEN subscribed ELSE subscribed \union {f}
    /\ UNCHANGED <<throws, got, emptied>>

RemoveCallback(f) ==
    /\ CallbackTurn
    /\ cb' = RemoveFrom(cb, f)
    /\ todo' = Without(todo, f)
    /\ subscribed' = subscribed \ {f}
    /\ UNCHANGED <<throws, got, emptied>>

EmptyCallbacks ==
    /\ CallbackTurn
    /\ cb' = EmptyList(cb)
    /\ todo' = << >> /\ subscribed' = {}
    /\ emptied' = (emptied \/ cb.firing)
    /\ UNCHANGED <<throws, got>>

\* Values are the numbers of the calls, so a later firing has a greater one.
FireCallbacks ==
    /\ CallbackTurn
    /\ cb' = FireWith(cb, ops')
    /\ todo' = IF Begins THEN Started ELSE todo
    /\ UNCHANGED <<throws, got, subscribed, emptied>>

TurnOff ==
    /\ CallbackTurn
    /\ cb' \in {Disable(cb), Lock(cb)}
    /\ IF cb'.off THEN todo' = << >> /\ subscribed' = {}
                  ELSE UNCHANGED <<todo, subscribed>>
    /\ UNCHANGED <<throws, got, emptied>>

\* What the end of a call does to the history: it got args, and the next in line
\* is now running.
Ran == got' = [got EXCEPT ![cb.current] = cb.args]

Returns ==
    /\ cb.phase = "call"
    /\ \E result \in BOOLEAN : cb' = Return(cb, result)
    /\ Ran
    /\ todo' = IF cb'.phase = "call" /\ todo # << >> THEN Tail(todo) ELSE << >>
    /\ emptied' = (emptied \/ cb'.phase = "idle")
    /\ UNCHANGED <<ops, throws, subscribed>>

Throws ==
    /\ cb.phase = "call" /\ throws < MaxThrows
    /\ cb' = Throw(cb)
    /\ Ran
    /\ throws' = throws + 1 /\ todo' = << >> /\ emptied' = TRUE
    /\ UNCHANGED <<ops, subscribed>>

FinishFire ==
    /\ cb.phase = "end"
    /\ cb' = Finish(cb)
    /\ todo' = IF cb'.phase = "call" THEN Tail(cb'.list) ELSE << >>
    /\ subscribed' = IF cb'.off THEN {} ELSE subscribed
    /\ UNCHANGED <<ops, throws, got, emptied>>

CallbacksNext ==
    \/ \E f \in Fns : AddCallback(f) \/ RemoveCallback(f)
    \/ EmptyCallbacks \/ FireCallbacks \/ TurnOff
    \/ Returns \/ Throws \/ FinishFire

CallbacksSpec == CallbacksInit /\ [][CallbacksNext]_cbVars

-----------------------------------------------------------------------------
(* Properties.                                                               *)

\* A firing runs what it has to, each once and in order: while a callback runs,
\* the part of the list behind the index is what is left, whatever callbacks were
\* added, removed (the running one included) or fired meanwhile (lines 1101-1145).
\* Emptying the list from inside leaves the loop with a length of its own.
NothingSkipped ==
    cb.phase = "call" /\ ~emptied /\ ~cb.off =>
      /\ cb.firingLength <= Len(cb.list)
      /\ todo = SubSeq(cb.list, cb.firingIndex + 2, cb.firingLength)

\* A list with memory owes its subscribers nothing when it is at rest: each of
\* them, early or late, has last been run with what the list was last fired with.
LatestForAll ==
    cb.phase = "idle" /\ ~emptied /\ cb.memory > 0 =>
      \A f \in subscribed : got[f] = cb.memory

\* A list keeps both promises while callbacks change it, fire it and turn it off.
CalledAsPromised == NothingSkipped /\ LatestForAll
=============================================================================
