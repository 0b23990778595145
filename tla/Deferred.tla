------------------------------- MODULE Deferred -------------------------------
(* jQuery.Deferred: two deferreds a and b that code resolves, rejects and     *)
(* notifies as it likes, p = a.pipe(...) whose function answers with b's      *)
(* promise or with a value, and w = jQuery.when(a, b).  Every one is three    *)
(* lists of CallbackLists; what wires them together are callbacks of theirs,  *)
(* so that a settlement runs through the lists as nested calls.               *)
(*                                                                            *)
(* calls is the stack of the running loops and scripts: the top frame's todo  *)
(* holds the primitive operations its code has still to do, and an operation  *)
(* that makes another list fire puts that list on top.  Callbacks that throw  *)
(* are left to the module Callbacks.                                          *)
EXTENDS CallbackLists

CONSTANTS
    Watched,        \* the lists users add callbacks to
    MaxDeferredOps  \* bound: operations of users

ASSUME DeferredAssumption == MaxDeferredOps \in Nat

VARIABLES
    lists,     \* lists[d, kind]
    state,     \* state[d]
    count,     \* when()'s count of results it waits for
    made,      \* which of p and w exist
    calls,
    userOps,
    ran,       \* history: ran[l], whether a user's callback of the list has run
    settledAt, \* history: userOps when d was settled
    late       \* history: a progress callback ran with a later value than that

deferredVars == <<lists, state, count, made, calls, userOps, ran, settledAt, late>>

Deferreds == {"a", "b", "p", "w"}
Kinds     == {"done", "fail", "progress"}
Lists     == Deferreds \X Kinds

\* Callbacks, and the primitive operations they and the scripts consist of.
User          == <<"user">>
ResolvesPipe  == <<"pipe">>
CountsDown    == <<"count">>
FireOf(l)     == <<"fire", l>>
Settled(d, s) == <<"state", d, s>>
Disables(l)   == <<"disable", l>>
Locks(l)      == <<"lock", l>>
Adds(l, op)   == <<"add", l, op>>

Then(d, done, fail, progress) ==
    <<Adds(<<d, "done">>, done), Adds(<<d, "fail">>, fail), Adds(<<d, "progress">>, progress)>>

Following(d) == <<FireOf(<<d, "done">>), FireOf(<<d, "fail">>), FireOf(<<d, "progress">>)>>

\* Mutant: a settlement leaves the list of the other outcome usable.
NewDeferredOpen(d, kind) ==
    LET start == NewList(IF kind = "progress" THEN {"memory"} ELSE {"once", "memory"})
    IN  IF kind = "progress" THEN start
        ELSE AddTo(AddTo(start, Settled(d, IF kind = "done" THEN "resolved" ELSE "rejected")),
                   Locks(<<d, "progress">>))

\* The lists of a new deferred: the first callbacks of two of them keep its state.
NewDeferred(d, kind) ==
    LET start == NewList(IF kind = "progress" THEN {"memory"} ELSE {"once", "memory"})
        other == IF kind = "done" THEN "fail" ELSE "done"
        s     == IF kind = "done" THEN "resolved" ELSE "rejected"
    IN  IF kind = "progress" THEN start
        ELSE AddTo(AddTo(AddTo(start, Settled(d, s)), Disables(<<d, other>>)),
                   Locks(<<d, "progress">>))

DeferredInit ==
    /\ lists = [l \in Lists |-> NewDeferred(l[1], l[2])]
    /\ state = [d \in Deferreds |-> "pending"]
    /\ count = 2 /\ made = {} /\ calls = << >> /\ userOps = 0
    /\ ran = [l \in Lists |-> FALSE]
    /\ settledAt = [d \in Deferreds |-> 0] /\ late = FALSE

-----------------------------------------------------------------------------
(* Running code.                                                             *)

\* What calling a callback has to do.  pipe's function returns a promise, which p
\* then follows, or a value that resolves p at once.
Bodies(op) ==
    CASE op = User         -> {<< >>}
      [] op = ResolvesPipe -> LET f == Following("p")
                              IN  {Then("b", f[1], f[2], f[3]), <<f[1]>>}
      [] OTHER             -> {<<op>>}

\* The frame of list l once its record is c.
Frames(l, c) ==
    IF c.phase = "call" THEN {[list |-> l, todo |-> body] : body \in Bodies(c.current)}
                        ELSE {[list |-> l, todo |-> << >>]}

\* List l becomes c; if that starts its loop, the loop runs before anything else.
Becomes(l, c, stack) ==
    /\ lists' = [lists EXCEPT ![l] = c]
    /\ IF lists[l].phase = "idle" /\ c.phase # "idle"
       THEN \E frame \in Frames(l, c) : calls' = Append(stack, frame)
       ELSE calls' = stack

\* A primitive operation, with the value the code at hand was called with.
Do(op, v, stack) ==
    LET kind == Head(op)
    IN  \/ /\ kind = "fire" /\ Becomes(op[2], FireWith(lists[op[2]], v), stack)
           /\ UNCHANGED <<state, count, settledAt>>
        \/ /\ kind = "add" /\ Becomes(op[2], AddTo(lists[op[2]], op[3]), stack)
           /\ UNCHANGED <<state, count, settledAt>>
        \/ /\ kind = "disable" /\ Becomes(op[2], Disable(lists[op[2]]), stack)
           /\ UNCHANGED <<state, count, settledAt>>
        \/ /\ kind = "lock" /\ Becomes(op[2], Lock(lists[op[2]]), stack)
           /\ UNCHANGED <<state, count, settledAt>>
        \/ /\ kind = "state"
           /\ state' = [state EXCEPT ![op[2]] = op[3]]
           /\ settledAt' = [settledAt EXCEPT ![op[2]] = userOps]
           /\ calls' = stack /\ UNCHANGED <<lists, count>>
        \/ /\ kind = "count"
           /\ count' = count - 1
           /\ IF count' = 0
              THEN Becomes(<<"w", "done">>, FireWith(lists[<<"w", "done">>], v), stack)
              ELSE calls' = stack /\ UNCHANGED lists
           /\ UNCHANGED <<state, settledAt>>

Frame   == Last(calls)
IsLoop  == Frame.list \in Lists
InCall  == calls # << >> /\ IsLoop /\ lists[Frame.list].phase = "call"
InUser  == InCall /\ lists[Frame.list].current = User
Value   == IF IsLoop THEN lists[Frame.list].args ELSE userOps
Rest    == [Frame EXCEPT !.todo = Tail(@)]

\* The top frame does the next operation of its code.
Operate ==
    /\ calls # << >> /\ Frame.todo # << >>
    /\ Do(Head(Frame.todo), Value, Append(Front(calls), Rest))
    /\ UNCHANGED <<made, userOps, ran, late>>

\* Its callback returns, or the rest of fire() is run after the last one.
Proceed ==
    /\ calls # << >> /\ IsLoop /\ Frame.todo = << >>
    /\ LET l == Frame.list
           c == IF InCall THEN Return(lists[l], TRUE) ELSE Finish(lists[l])
       IN  /\ lists' = [lists EXCEPT ![l] = c]
           /\ IF c.phase = "idle" THEN calls' = Front(calls)
              ELSE \E frame \in Frames(l, c) : calls' = Append(Front(calls), frame)
           /\ ran' = IF InUser THEN [ran EXCEPT ![l] = TRUE] ELSE ran
           /\ late' = \/ late
                      \/ InUser /\ l[2] = "progress" /\ state[l[1]] # "pending"
                         /\ lists[l].args > settledAt[l[1]]
    /\ UNCHANGED <<state, count, made, userOps, settledAt>>

\* A script has run.
Leave ==
    /\ calls # << >> /\ ~IsLoop /\ Frame.todo = << >>
    /\ calls' = Front(calls)
    /\ UNCHANGED <<lists, state, count, made, userOps, ran, settledAt, late>>

-----------------------------------------------------------------------------
(* Users, from outside and from inside a callback of theirs.                 *)

UserTurn == /\ calls = << >> \/ InUser
            /\ userOps < MaxDeferredOps
            /\ userOps' = userOps + 1

\* resolve, reject or notify a deferred of one's own.
Settle(d, kind) ==
    /\ UserTurn
    /\ Do(FireOf(<<d, kind>>), userOps', calls)
    /\ UNCHANGED <<made, ran, late>>

Watch(l) ==
    /\ UserTurn
    /\ Do(Adds(l, User), userOps', calls)
    /\ UNCHANGED <<made, ran, late>>

Script(todo) == calls' = Append(calls, [list |-> <<"script">>, todo |-> todo])

\* p = a.pipe(f)
Pipe ==
    /\ UserTurn /\ "p" \notin made
    /\ made' = made \union {"p"}
    /\ LET f == Following("p") IN Script(Then("a", ResolvesPipe, f[2], f[3]))
    /\ UNCHANGED <<lists, state, count, ran, settledAt, late>>

\* w = jQuery.when(a, b)
When ==
    /\ UserTurn /\ "w" \notin made
    /\ made' = made \union {"w"}
    /\ LET f == Following("w")
       IN  Script(Then("a", CountsDown, f[2], f[3]) \o Then("b", CountsDown, f[2], f[3]))
    /\ UNCHANGED <<lists, state, count, ran, settledAt, late>>

DeferredNext ==
    \/ Operate \/ Proceed \/ Leave
    \/ \E d \in {"a", "b"}, kind \in Kinds : Settle(d, kind)
    \/ \E l \in Watched : Watch(l)
    \/ Pipe \/ When

DeferredSpec == DeferredInit /\ [][DeferredNext]_deferredVars

-----------------------------------------------------------------------------
(* Properties.                                                               *)

\* A deferred is settled once, and only callbacks of that outcome are ever run,
\* although either may be asked for again from inside a callback of the first
\* settlement or of a notification (lines 1298-1302).  No progress callback is run
\* with a notification made after the settlement, and those waiting for the end of
\* a running notification are dropped by it.
OneOutcome ==
    /\ ~late
    /\ \A d \in Deferreds :
         /\ ran[<<d, "done">>] => state[d] = "resolved" /\ ~ran[<<d, "fail">>]
         /\ ran[<<d, "fail">>] => state[d] = "rejected"
         /\ lists[<<d, "done">>].off \/ lists[<<d, "fail">>].off \/ state[d] = "pending"
            \/ calls # << >>

\* When no code is running, when()'s deferred is resolved just when both of its
\* deferreds are, and rejected just when one of them is; pipe's has followed a's
\* failure, or a's success and the promise its function returned.
CombinedAgree ==
    calls = << >> =>
      /\ "w" \in made =>
           /\ state["w"] = "resolved" <=> state["a"] = "resolved" /\ state["b"] = "resolved"
           /\ state["w"] = "rejected" <=> "rejected" \in {state["a"], state["b"]}
      /\ "p" \in made =>
           /\ state["a"] = "rejected" => state["p"] = "rejected"
           /\ state["a"] = "pending"  => state["p"] = "pending"
           /\ state["a"] = "resolved" => state["p"] \in {"resolved", state["b"]}

\* Both hold of deferreds settled, watched, piped and joined in any order.
SettledOnce == OneOutcome /\ CombinedAgree
=============================================================================
