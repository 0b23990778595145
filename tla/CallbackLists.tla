---------------------------- MODULE CallbackLists -----------------------------
(* jQuery.Callbacks of jQuery 1.7.2, the list behind its Deferreds, its ready *)
(* event and its ajax requests, as operators on a record that holds the       *)
(* closure's variables.  A callback runs while its list is firing and may     *)
(* call any method of it, so a call is a phase of the list and not a step.    *)
(*                                                                            *)
(* Phases: "idle", no code of the list on the stack; "call", the callback at  *)
(* firingIndex is running; "end", the loop is over and the rest of fire()     *)
(* still to be run.  A list whose code was left by an exception is idle with  *)
(* firing still set.                                                          *)
EXTENDS Integers, SequencesExt

\* memory before any firing, and the value true of a list that was halted or
\* does not remember; anything greater is what the list was last fired with.
Nothing == 0
Halted  == -1

NewList(flags) ==
    [flags |-> flags, list |-> << >>, off |-> FALSE, stack |-> << >>, locked |-> FALSE,
     memory |-> Nothing, args |-> Nothing, current |-> "none", phase |-> "idle",
     firing |-> FALSE, firingStart |-> 0, firingLength |-> 0, firingIndex |-> 0]

\* The head of the loop: call the next one, leave, or fail on a missing one.
LoopTest(c) ==
    CASE c.off \/ c.firingIndex >= c.firingLength -> [c EXCEPT !.phase = "end"]
      [] ~c.off /\ c.firingIndex < Min({c.firingLength, Len(c.list)}) ->
            [c EXCEPT !.phase = "call", !.current = c.list[c.firingIndex + 1]]
      [] OTHER -> [c EXCEPT !.phase = "idle"]

FireList(c, v) ==
    LoopTest([c EXCEPT !.memory = IF "memory" \in c.flags THEN v ELSE Halted,
                       !.args = v, !.firing = TRUE, !.firingIndex = c.firingStart,
                       !.firingStart = 0, !.firingLength = Len(c.list)])

\* The running callback returns, FALSE or something else.
Return(c, result) ==
    IF ~result /\ "stopOnFalse" \in c.flags
    THEN [c EXCEPT !.memory = Halted, !.phase = "end"]
    ELSE LoopTest([c EXCEPT !.firingIndex = @ + 1])

\* It throws: nothing after the call is run.
Throw(c) == [c EXCEPT !.phase = "idle"]

Disable(c) == [c EXCEPT !.off = TRUE, !.list = << >>, !.locked = TRUE, !.stack = << >>,
                        !.memory = Nothing]

FireWith(c, v) ==
    CASE c.locked                                        -> c
      [] ~c.locked /\ c.firing /\ "once" \notin c.flags  -> [c EXCEPT !.stack = Append(@, v)]
      [] ~c.locked /\ ~c.firing
         /\ ~("once" \in c.flags /\ c.memory # Nothing)  -> FireList(c, v)
      [] OTHER                                           -> c

\* The rest of fire(): a firing asked for meanwhile, or the end of a list that
\* fires once.
Finish(d) ==
    LET c == [d EXCEPT !.firing = FALSE, !.phase = "idle"]
    IN  CASE ~c.off /\ "once" \notin c.flags /\ c.stack # << >> ->
                FireWith([c EXCEPT !.stack = Tail(@)], Head(c.stack))
          [] ~c.off /\ "once" \in c.flags /\ c.memory = Halted -> Disable(c)
          [] ~c.off /\ "once" \in c.flags /\ c.memory # Halted -> [c EXCEPT !.list = << >>]
          [] OTHER -> c

Has(c, f) == f \in Range(c.list)

\* The first n elements of s without those that are f, and all of s without them.
Spared(s, f) ==
    LET kept[n \in 0 .. Len(s)] == IF n = 0 THEN << >>
                                   ELSE IF s[n] = f THEN kept[n - 1] ELSE Append(kept[n - 1], s[n])
    IN  kept
Without(s, f) == Spared(s, f)[Len(s)]

\* Mutant: removing a callback leaves the indices of the loop where they are.
RemoveUnmoved(c, f) == [c EXCEPT !.list = Without(@, f)]

AddTo(c, f) ==
    LET added == IF "unique" \in c.flags /\ Has(c, f) THEN c.list ELSE Append(c.list, f)
    IN  CASE c.off                  -> c
          [] ~c.off /\ c.firing     -> [c EXCEPT !.list = added, !.firingLength = Len(added)]
          [] ~c.off /\ ~c.firing /\ c.memory > 0 ->
                FireList([c EXCEPT !.list = added, !.firingStart = Len(c.list)], c.memory)
          [] OTHER                  -> [c EXCEPT !.list = added]

\* Every occurrence of f goes; the indices of the loop move by those before them.
RemoveFrom(c, f) ==
    LET upTo(n) == LET m == Min({n + 1, Len(c.list)}) IN m - Len(Spared(c.list, f)[m])
    IN  CASE c.off                -> c
          [] ~c.off /\ c.firing   ->
                [c EXCEPT !.list = Without(@, f), !.firingLength = @ - upTo(c.firingLength),
                          !.firingIndex = @ - upTo(Min({c.firingIndex, c.firingLength}))]
          [] OTHER                -> [c EXCEPT !.list = Without(@, f)]

EmptyList(c) == [c EXCEPT !.list = << >>, !.off = FALSE]

Lock(c) == IF c.memory \in {Nothing, Halted} THEN Disable(c)
           ELSE [c EXCEPT !.locked = TRUE, !.stack = << >>]
=============================================================================
