-------------------------------- MODULE Events --------------------------------
(* The event system of jQuery 1.7.2: the handlers on()/one() attach to the     *)
(* elements of one ancestry, off(), trigger() and the dispatch of native       *)
(* events, of one type.  Handlers are code of the user: while one runs, any    *)
(* method may be called, an event of the same type triggered included.         *)
(*                                                                            *)
(* evStack is the call stack, the running function first.  A walk takes an     *)
(* event from its target up: the browser's over the native listeners, or that  *)
(* of trigger(), which then calls the target's native method and thereby       *)
(* makes the browser walk once more.                                           *)
(*                                                                            *)
(* Left out: special events, inline handlers, global triggers, the selectors'  *)
(* engine (a selector names the element it matches), the data of handlers.     *)
EXTENDS Integers, SequencesExt, FiniteSets

CONSTANTS
    Ancestry,     \* the elements, innermost first
    Clickable,    \* those with a native method of the event's name
    Handlers,     \* the functions of the user
    Namespaces,   \* with NoNamespace
    NoNamespace,
    NoSelector,
    MaxEventOps   \* bound: calls, native events and throws

ASSUME EventsAssumption == /\ Ancestry \in Seq(Range(Ancestry)) /\ IsInjective(Ancestry)
                           /\ Clickable \subseteq Range(Ancestry)
                           /\ NoNamespace \in Namespaces /\ NoSelector \notin Range(Ancestry)
                           /\ MaxEventOps \in Nat

VARIABLES
    bound,       \* bound[e]: the handlers of e, how many are delegated, and
                 \* whether the browser has a listener of jQuery's on e
    triggered,   \* jQuery.event.triggered is set
    evStack,
    eventOps,
    handled,     \* history: <<event, handler>> pairs so far
    again,       \* history: such a pair happened twice
    nested       \* history: an event was made while a handler was running

eventVars == <<bound, triggered, evStack, eventOps, handled, again, nested>>

\* The elements of s that are in T.
Among(s, T) ==
    LET those[n \in 0 .. Len(s)] == IF n = 0 THEN << >>
                                    ELSE IF s[n] \in T THEN Append(those[n - 1], s[n]) ELSE those[n - 1]
    IN  those[Len(s)]

Nodes == Range(Ancestry)
Upward(e) == SubSeq(Ancestry, CHOOSE i \in DOMAIN Ancestry : Ancestry[i] = e, Len(Ancestry))
Below(e)  == Among(Ancestry, {d \in Nodes : d # e /\ e \in Range(Upward(d))})

Doing(what) == evStack # << >> /\ Head(evStack).does = what

EventsInit ==
    /\ bound = [e \in Nodes |-> [list |-> << >>, delegateCount |-> 0, listener |-> FALSE]]
    /\ triggered = FALSE /\ evStack = << >> /\ eventOps = 0
    /\ handled = {} /\ again = FALSE /\ nested = FALSE

-----------------------------------------------------------------------------
(* The list of an element: delegates in front.                               *)

Attach(b, h) ==
    IF h.selector = NoSelector
    THEN [b EXCEPT !.list = Append(@, h), !.listener = TRUE]
    ELSE [list          |-> InsertAt(b.list, b.delegateCount + 1, h),
          delegateCount |-> b.delegateCount + 1,
          listener      |-> TRUE]

\* What is not named matches everything; a function is known by its guid, which
\* the wrapper of one() shares with it.
Matches(h, fn, selector, namespace) ==
    /\ fn = h.fn
    /\ namespace \in {NoNamespace, h.namespace}
    /\ selector \in {NoSelector, h.selector}

\* The handlers of an element that off() is for.
Meant(b, fn, selector, namespace) ==
    {h \in Range(b.list) : Matches(h, fn, selector, namespace)}

\* Mutant: the delegates that go are still counted, as far as handlers are left.
DetachUncounted(b, fn, selector, namespace) ==
    LET kept == Among(b.list, Range(b.list) \ Meant(b, fn, selector, namespace))
    IN  [b EXCEPT !.list = kept, !.listener = @ /\ kept # << >>,
                  !.delegateCount = IF @ < Len(kept) THEN @ ELSE Len(kept)]

Detach(b, fn, selector, namespace) ==
    LET out  == Meant(b, fn, selector, namespace)
        kept == Among(b.list, Range(b.list) \ out)
        gone == Among(b.list, {h \in out : h.selector # NoSelector})
    IN  [list          |-> kept,
         delegateCount |-> b.delegateCount - Len(gone),
         listener      |-> b.listener /\ kept # << >>]

\* What dispatch() at e is going to run for an event from below: the delegates of
\* each element on the way up to e, then e's own, each with the element it is for.
Queue(e, target, namespace) ==
    LET b         == bound[e]
        direct    == SubSeq(b.list, b.delegateCount + 1, Len(b.list))
        way       == Among(Upward(target), Range(Below(e)))
        at(d, hs) == [i \in DOMAIN hs |-> [at |-> d, h |-> hs[i]]]
        for(d)    == Among(SubSeq(b.list, 1, b.delegateCount), {h \in Range(b.list) : h.selector = d})
        all       == FlattenSeq([i \in DOMAIN way |-> at(way[i], for(way[i]))]) \o at(e, direct)
    IN  Among(all, {q \in Range(all) : namespace \in {NoNamespace, q.h.namespace}})

-----------------------------------------------------------------------------
(* What the user does.                                                       *)

EventTurn == /\ ~Doing("walk") /\ ~Doing("dispatch")
             /\ eventOps < MaxEventOps
             /\ eventOps' = eventOps + 1

On(e, fn, selector, namespace, one) ==
    /\ EventTurn
    /\ bound' = [bound EXCEPT ![e] = Attach(@, [id |-> eventOps', fn |-> fn, selector |-> selector,
                                                namespace |-> namespace, one |-> one])]
    /\ UNCHANGED <<triggered, evStack, handled, again, nested>>

Off(e, fn, selector, namespace) ==
    /\ EventTurn
    /\ bound' = [bound EXCEPT ![e] = Detach(@, fn, selector, namespace)]
    /\ UNCHANGED <<triggered, evStack, handled, again, nested>>

Walk(by, event, e, path, namespace, default) ==
    [does |-> "walk", by |-> by, event |-> event, target |-> e, path |-> path,
     namespace |-> namespace, default |-> default, stopped |-> FALSE]

\* trigger() and, with only, triggerHandler().
Trigger(e, namespace, only) ==
    /\ EventTurn
    /\ evStack' = << Walk("trigger", eventOps', e, IF only THEN <<e>> ELSE Upward(e), namespace,
                        ~only /\ e \in Clickable) >> \o evStack
    /\ nested' = (nested \/ evStack # << >>)
    /\ UNCHANGED <<bound, triggered, handled, again>>

NativeEvent(e) ==
    /\ EventTurn
    /\ evStack' = << Walk("browser", eventOps', e, Upward(e), NoNamespace, FALSE) >> \o evStack
    /\ nested' = (nested \/ evStack # << >>)
    /\ UNCHANGED <<bound, triggered, handled, again>>

-----------------------------------------------------------------------------
(* What jQuery and the browser do.                                           *)

\* The handle of the next element of a walk is called, if it has one; it discards
\* the event trigger() makes with the native method.
WalkUp ==
    /\ Doing("walk")
    /\ LET w == Head(evStack)
       IN  /\ w.path # << >> /\ ~w.stopped
           /\ LET e     == Head(w.path)
                  moved == <<[w EXCEPT !.path = Tail(@)]>> \o Tail(evStack)
              IN  evStack' = IF bound[e].listener /\ ~triggered
                           THEN << [does |-> "dispatch", event |-> w.event, on |-> e,
                                    queue |-> Queue(e, w.target, w.namespace)] >> \o moved
                           ELSE moved
    /\ UNCHANGED <<bound, triggered, eventOps, handled, again, nested>>

\* The end of a walk.  trigger() does the default action, during which triggered
\* is set, unless a handler has prevented it.
WalkEnds ==
    /\ Doing("walk")
    /\ LET w == Head(evStack)
       IN  /\ w.path = << >> \/ w.stopped
           /\ IF w.default
              THEN /\ evStack' = << Walk("default", w.event, w.target, Upward(w.target),
                                       NoNamespace, FALSE) >> \o Tail(evStack)
                   /\ triggered' = TRUE
              ELSE /\ evStack' = Tail(evStack)
                   /\ triggered' = (triggered /\ w.by # "default")
    /\ UNCHANGED <<bound, eventOps, handled, again, nested>>

\* The next handler of a dispatch; that of one() first takes itself off.
RunHandler ==
    /\ Doing("dispatch") /\ Head(evStack).queue # << >>
    /\ LET d == Head(evStack)
           q == Head(d.queue)
           p == <<d.event, q.h.id>>
       IN  /\ evStack' = << [does |-> "handler", at |-> q.at] >>
                       \o << [d EXCEPT !.queue = Tail(@)] >> \o Tail(evStack)
           /\ bound' = IF q.h.one
                       THEN [bound EXCEPT ![d.on] =
                               Detach(@, q.h.fn, q.h.selector, q.h.namespace)]
                       ELSE bound
           /\ handled' = handled \union {p}
           /\ again' = \/ again \/ p \in handled
                       \/ q.h.one /\ ~nested /\ \E r \in handled : r[2] = q.h.id
    /\ UNCHANGED <<triggered, eventOps, nested>>

DispatchEnds ==
    /\ Doing("dispatch") /\ Head(evStack).queue = << >>
    /\ evStack' = Tail(evStack)
    /\ UNCHANGED <<bound, triggered, eventOps, handled, again, nested>>

\* The methods of an event: no default action, no walk further up, and no handler
\* of the element any more.
PreventDefault(w)           == [w EXCEPT !.default = FALSE]
StopPropagation(w)          == [w EXCEPT !.stopped = TRUE]
StopImmediatePropagation(d) == [d EXCEPT !.queue = << >>]

\* A handler returns: "false" prevents the default action and stops the event above
\* the element it ran for, "halt" has called stopImmediatePropagation.
HandlerReturns(result) ==
    /\ Doing("handler")
    /\ LET at == Head(evStack).at
           d  == evStack[2]
           w  == evStack[3]
           left == CASE result = "go"    -> <<d, w>>
                     [] result = "false" -> << [d EXCEPT !.queue = Among(@, {q \in Range(@) : q.at = at})],
                                               PreventDefault(StopPropagation(w)) >>
                     [] result = "halt"  -> << StopImmediatePropagation(d), StopPropagation(w) >>
       IN  evStack' = left \o SubSeq(evStack, 4, Len(evStack))
    /\ UNCHANGED <<bound, triggered, eventOps, handled, again, nested>>

\* An exception goes up to the browser, through any trigger() on its way.
HandlerThrows ==
    /\ EventTurn /\ evStack # << >>
    /\ LET catching == {i \in DOMAIN evStack : evStack[i].does = "walk" /\ evStack[i].by # "trigger"}
       IN  evStack' = IF catching = {} THEN << >>
                    ELSE SubSeq(evStack, CHOOSE i \in catching : \A j \in catching : i <= j,
                                Len(evStack))
    /\ UNCHANGED <<bound, triggered, handled, again, nested>>

EventsNext ==
    \/ \E e \in Nodes, fn \in Handlers, ns \in Namespaces :
          \E selector \in Range(Below(e)) \union {NoSelector} :
             \/ \E one \in BOOLEAN : On(e, fn, selector, ns, one)
             \/ Off(e, fn, selector, ns)
    \/ \E e \in Nodes : \/ \E ns \in Namespaces, only \in BOOLEAN : Trigger(e, ns, only)
                            \/ NativeEvent(e)
    \/ WalkUp \/ WalkEnds \/ RunHandler \/ DispatchEnds
    \/ \E result \in {"go", "false", "halt"} : HandlerReturns(result)
    \/ HandlerThrows

EventsSpec == EventsInit /\ [][EventsNext]_eventVars

-----------------------------------------------------------------------------
(* Properties.                                                               *)

\* An event reaches a handler at most once: the native event of trigger()'s default
\* action is not taken for another one, in whatever order handlers come and go, and
\* a handler of one() gets one event unless events are made inside handlers, where
\* the dispatch around has queued it already.  The count of delegates the queues
\* are cut with is right, and the browser calls jQuery on the elements with handlers
\* (lines 2940, 3005, 3063, 3240 and 3799).
HandledOnce ==
    /\ ~again
    /\ triggered <=> \E i \in DOMAIN evStack : evStack[i].does = "walk" /\ evStack[i].by = "default"
    /\ \A e \in Nodes :
         /\ bound[e].listener <=> bound[e].list # << >>
         /\ \A i \in DOMAIN bound[e].list :
              bound[e].list[i].selector # NoSelector <=> i <= bound[e].delegateCount
=============================================================================
