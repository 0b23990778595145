------------------------------- MODULE FxQueue --------------------------------
(* The queues and fades of jQuery 1.7.2: what fadeIn, fadeOut, delay, stop,   *)
(* clearQueue and promise do to the fx queues of the elements, to the one     *)
(* list of timers and to the interval that ticks it.                          *)
(*                                                                            *)
(* Everything but the interval and the timeouts is synchronous, and the code  *)
(* of a user runs in the middle of it: the complete callback of a fade is     *)
(* called from the loop over the timers and may queue and stop what it likes. *)
(* code is what the running function has still to do, first operation first;  *)
(* while it starts with <<"user">>, a callback has the turn.                  *)
(*                                                                            *)
(* A fade animates the one property opacity and takes more than no time: it   *)
(* is done at its first or second tick.  Opacity is full, what the page gave  *)
(* the element, or part.  show() and hide() without a speed go around queues  *)
(* and timers.                                                                *)
EXTENDS Integers, SequencesExt

CONSTANTS
    Elements,
    Loose,        \* elements whose queue users go around, with fades outside of
                  \* it, show(), hide(), clearQueue() and dequeue()
    Promises,
    MaxFxOps      \* bound: calls of users

ASSUME FxAssumption == Loose \subseteq Elements /\ MaxFxOps \in Nat

VARIABLES
    queue,      \* queue[e]: the fx queue; << >> stands for no queue data
    hook,       \* hook[e]: the delay that the .run data can stop, or 0
    mark,       \* mark[e]: fades outside the queue
    shown, opacity,
    saved,      \* saved[e]: the fxshow data
    timers,     \* jQuery.timers
    ticking,    \* timerId is set
    timeouts,   \* pending setTimeout callbacks
    code,
    defer,      \* defer[e]: the promise that made the list in the defer data
    listeners,  \* listeners[d]: the promises that added their resolve() to it
    waits,      \* waits[p]: the count of promise(); -1 before it is made
    fxOps,
    asked,      \* history: what the last fade asked of an element is, if it must hold
    busy,       \* history: elements that have not been at rest since p was made
    misused,    \* history: elements that were stopped while their queue could not tell
                \* what runs, see Misuses
    lost        \* history: elements whose timer a loop over the timers has taken off or left
                \* in by mistake, and those whose code has ended with an error

elementVars == <<queue, hook, mark, shown, opacity, saved, timers, ticking>>
promiseVars == <<defer, listeners, waits>>
fxHistory   == <<asked, busy, misused, lost>>
fxVars      == <<elementVars, promiseVars, timeouts, code, fxOps, fxHistory>>

Sentinel  == [kind |-> "inprogress"]
NoPromise == "none"
Anything  == "anything"
FxUser == <<"user">>

FxInit ==
    /\ queue = [e \in Elements |-> << >>] /\ hook = [e \in Elements |-> 0]
    /\ mark = [e \in Elements |-> 0]
    /\ shown \in [Elements -> BOOLEAN] /\ opacity = [e \in Elements |-> "full"]
    /\ saved = [e \in Elements |-> "none"]
    /\ timers = << >> /\ ticking = FALSE /\ timeouts = {} /\ code = << >>
    /\ defer = [e \in Elements |-> NoPromise]
    /\ listeners = [d \in Promises \X Elements |-> {}]
    /\ waits = [p \in Promises |-> -1]
    /\ fxOps = 0
    /\ asked = [e \in Elements |-> Anything]
    /\ busy = [p \in Promises |-> {}] /\ misused = {} /\ lost = {}

\* No queue and no mark: what promise() calls done with an element.
AtRest(e) == queue[e] = << >> /\ mark[e] = 0

\* Elements that come to rest in a step are no longer owed to any promise.
FxSettle == busy' = [p \in Promises |-> {e \in busy[p] : queue'[e] # << >> \/ mark'[e] > 0}]

-----------------------------------------------------------------------------
(* The operations.                                                           *)

FxGoes(next) == code' = next \o Tail(code)

Recheck(e) == [act |-> "recheck", elem |-> e, id |-> 0, of |-> defer[e]]

\* Mutant: a queue that has ended looks at the queue, and a mark at the marks.
HandleDeferSwapped(e, src) ==
    timeouts' = IF /\ defer[e] # NoPromise
                   /\ src = "mark"  \/ queue[e] = << >>
                   /\ src = "queue" \/ mark[e] = 0
                THEN timeouts \union {Recheck(e)} ELSE timeouts

\* handleQueueMarkDefer(): look again when the running code is over.
HandleDefer(e, src) ==
    timeouts' = IF /\ defer[e] # NoPromise
                   /\ src = "queue" \/ queue[e] = << >>
                   /\ src = "mark"  \/ mark[e] = 0
                THEN timeouts \union {Recheck(e)} ELSE timeouts

\* Mutant: the job is started without a sentinel.
DequeueBare(e) ==
    /\ hook' = [hook EXCEPT ![e] = 0]
    /\ queue' = [queue EXCEPT ![e] = IF @ = << >> THEN @ ELSE Tail(@)]
    /\ IF queue[e] # << >> THEN FxGoes(<< <<"start", e, Head(queue[e])>> >>) /\ UNCHANGED timeouts
                           ELSE FxGoes(<< >>) /\ HandleDefer(e, "queue")
    /\ UNCHANGED <<mark, shown, opacity, saved, timers, ticking>>

\* dequeue(): the sentinel goes, the next job starts behind a new one.  With no
\* job left the queue's data goes, and with it the hook of what is running.
Dequeue(e) ==
    LET rest == IF queue[e] # << >> /\ Head(queue[e]) = Sentinel THEN Tail(queue[e]) ELSE queue[e]
    IN  /\ hook' = [hook EXCEPT ![e] = 0]
        /\ IF rest # << >>
           THEN /\ queue' = [queue EXCEPT ![e] = <<Sentinel>> \o Tail(rest)]
                /\ FxGoes(<< <<"start", e, Head(rest)>> >>)
                /\ UNCHANGED timeouts
           ELSE /\ queue' = [queue EXCEPT ![e] = << >>]
                /\ HandleDefer(e, "queue")
                /\ FxGoes(<< >>)
        /\ UNCHANGED <<mark, shown, opacity, saved, timers, ticking>>

\* _unmark(e), of one mark or by force of all.
Unmark(e, n) ==
    /\ mark' = [mark EXCEPT ![e] = n]
    /\ IF n = 0 THEN HandleDefer(e, "mark") ELSE UNCHANGED timeouts
    /\ UNCHANGED <<queue, hook, shown, opacity, saved, timers, ticking>>

\* opt.complete: the user's callback, then the queue or the mark.
Complete(e, queued) ==
    <<FxUser, IF queued THEN <<"dequeue", e>> ELSE <<"unmark", e>> >>

StartDelay(e, job) ==
    /\ timeouts' = timeouts \union {[act |-> "next", elem |-> e, id |-> job.id, of |-> NoPromise]}
    /\ hook' = [hook EXCEPT ![e] = job.id]
    /\ FxGoes(<< >>)
    /\ UNCHANGED <<queue, mark, shown, opacity, saved, timers, ticking>>

\* _mark(): a fade outside the queue begins.
Mark(e) == mark' = [mark EXCEPT ![e] = @ + 1]

\* cur(): the present opacity.
Cur(e) == opacity[e]

\* Mutant: what an animation cut short has saved is not looked at.
BeforeNow(e) == Cur(e)

\* The state to return to: what an animation cut short has saved, or the present.
Before(e) == IF saved[e] # "none" THEN saved[e] ELSE Cur(e)

\* doAnimation() of {opacity: show} or {opacity: hide}.
StartFade(e, job) ==
    LET timer == [id |-> job.id, elem |-> e, to |-> job.kind, queued |-> job.queued,
                  orig |-> Before(e),
                  keep |-> IF job.kind = "show" THEN Before(e) ELSE Cur(e),
                  fresh |-> TRUE, called |-> FALSE]
    IN  /\ IF job.queued THEN UNCHANGED mark ELSE Mark(e)
        /\ IF shown[e] = (job.kind = "show")
           THEN /\ FxGoes(Complete(e, job.queued))
                /\ UNCHANGED <<shown, opacity, timers, ticking>>
           ELSE /\ timers' = Append(timers, timer)
                /\ ticking' = TRUE
                /\ shown' = [shown EXCEPT ![e] = TRUE]
                /\ opacity' = [opacity EXCEPT
                                 ![e] = IF job.kind = "show" /\ saved[e] = "none" THEN "part" ELSE @]
                /\ FxGoes(<< >>)
        /\ UNCHANGED <<queue, hook, saved, timeouts>>

Start(e, job) == IF job.kind = "delay" THEN StartDelay(e, job) ELSE StartFade(e, job)

\* The last step of the i-th timer.
LastStep(i, next) ==
    LET t == timers[i]
    IN  /\ shown'   = [shown   EXCEPT ![t.elem] = IF t.to = "hide" THEN FALSE ELSE @]
        /\ opacity' = [opacity EXCEPT ![t.elem] = t.orig]
        /\ saved'   = [saved   EXCEPT ![t.elem] = "none"]
        /\ timers'  = [timers  EXCEPT ![i].called = TRUE]
        /\ FxGoes((IF t.called THEN << >> ELSE Complete(t.elem, t.queued)) \o next)

\* update(): the opacity of a step.
Update(e, value) == opacity' = [opacity EXCEPT ![e] = value]

\* tick(), from the i-th timer on.
TickAt(i) ==
    /\ IF i <= Len(timers)
       THEN \/ /\ timers[i].fresh
               /\ timers' = [timers EXCEPT ![i].fresh = FALSE]
               /\ Update(timers[i].elem, "part")
               /\ FxGoes(<< <<"tick", i + 1>> >>)
               /\ UNCHANGED <<shown, saved, ticking>>
            \/ LastStep(i, << <<"ticked", i, timers[i].id>> >>) /\ UNCHANGED ticking
       ELSE /\ ticking' = (timers # << >>)
            /\ FxGoes(<< >>)
            /\ UNCHANGED <<shown, opacity, saved, timers>>
    /\ UNCHANGED <<queue, hook, mark, timeouts>>

\* A callback has removed or ended timers: the one that was the i-th is in another
\* place, and stays.
Misplaced(i, id) == {timers[j].elem : j \in {k \in DOMAIN timers \ {i} : timers[k].id = id}}

\* The timer is over; it goes if it is still the i-th.
Ticked(i, id) ==
    /\ IF i <= Len(timers) /\ timers[i].id = id
       THEN timers' = RemoveAt(timers, i) /\ FxGoes(<< <<"tick", i>> >>)
       ELSE UNCHANGED timers /\ FxGoes(<< <<"tick", i + 1>> >>)
    /\ lost' = lost \union Misplaced(i, id)
    /\ UNCHANGED <<queue, hook, mark, shown, opacity, saved, ticking, timeouts>>

\* stop(): first the marks, when no callback will take them off.
StopMarks(e, gotoEnd) ==
    /\ IF gotoEnd THEN UNCHANGED <<mark, timeouts>> ELSE mark' = [mark EXCEPT ![e] = 0] /\ HandleDefer(e, "mark")
    /\ FxGoes(<< <<"stopHook", e, gotoEnd>> >>)
    /\ UNCHANGED <<queue, hook, shown, opacity, saved, timers, ticking>>

\* Then a delay that is running, if its hook is there.  Nothing is dequeued instead
\* of it when a fade outside the queue is made to finish by the same call.
StopHook(e, gotoEnd) ==
    /\ timeouts' = {t \in timeouts : ~(t.act = "next" /\ hook[e] > 0 /\ t.id = hook[e])}
    /\ hook' = [hook EXCEPT ![e] = 0]
    /\ FxGoes(<< <<"stopAt", e, gotoEnd, Len(timers), FALSE>> >>)
    /\ lost' = IF gotoEnd /\ hook[e] # 0 /\ \E t \in Range(timers) : t.elem = e
               THEN lost \union {e} ELSE lost
    /\ UNCHANGED <<queue, mark, shown, opacity, saved, timers, ticking>>

\* Who is left in the middle when the running code ends with an error.
Abandoned == {op[2] : op \in {o \in Range(code) : o[1] \in {"dequeue", "unmark", "stopAt"}}}
             \union {t.elem : t \in {u \in Range(timers) : u.called}}

\* Then the timers, from the last: made to finish, or to save what they started
\* from.  The next job starts unless a callback has started it.  When callbacks
\* have made the timers fewer than that, the code throws, and all that runs ends.
StopAt(e, gotoEnd, i, had) ==
    /\ CASE i = 0 -> /\ FxGoes(IF gotoEnd /\ had THEN << >> ELSE << <<"dequeue", e>> >>)
                     /\ UNCHANGED <<shown, opacity, saved, timers, lost>>
         [] i > Len(timers) -> /\ code' = << >> /\ lost' = lost \union Abandoned
                               /\ UNCHANGED <<shown, opacity, saved, timers>>
         [] i \in DOMAIN timers /\ timers[i].elem # e ->
                     /\ FxGoes(<< <<"stopAt", e, gotoEnd, i - 1, had>> >>)
                     /\ UNCHANGED <<shown, opacity, saved, timers, lost>>
         [] OTHER -> /\ IF gotoEnd THEN LastStep(i, << <<"splice", e, i, timers[i].id>> >>)
                        ELSE /\ saved' = [saved EXCEPT ![e] = IF @ = "none" THEN timers[i].keep ELSE @]
                             /\ timers' = RemoveAt(timers, i)
                             /\ FxGoes(<< <<"stopAt", e, gotoEnd, i - 1, TRUE>> >>)
                             /\ UNCHANGED <<shown, opacity>>
                     /\ UNCHANGED lost
    /\ UNCHANGED <<queue, hook, mark, ticking, timeouts>>

\* The i-th timer goes, whichever that is now.
Splice(e, i, id) ==
    /\ timers' = IF i <= Len(timers) THEN RemoveAt(timers, i) ELSE timers
    /\ FxGoes(<< <<"stopAt", e, TRUE, i - 1, TRUE>> >>)
    /\ lost' = lost \union Misplaced(i, id)
                    \union {timers[j].elem : j \in {k \in DOMAIN timers \intersect {i} : timers[k].id # id}}
    /\ UNCHANGED <<queue, hook, mark, shown, opacity, saved, ticking, timeouts>>

\* The running function does its next operation.
Run ==
    /\ code # << >>
    /\ LET op == Head(code)
       IN  \/ /\ op[1] = "user" /\ FxGoes(<< >>)
              /\ UNCHANGED <<elementVars, timeouts>>
           \/ op[1] = "dequeue"  /\ Dequeue(op[2])
           \/ op[1] = "unmark"   /\ Unmark(op[2], IF mark[op[2]] > 0 THEN mark[op[2]] - 1 ELSE 0)
                                 /\ FxGoes(<< >>)
           \/ op[1] = "start"    /\ Start(op[2], op[3])
           \/ op[1] = "tick"     /\ TickAt(op[2])
           \/ op[1] = "ticked"   /\ Ticked(op[2], op[3])
           \/ op[1] = "stop"     /\ StopMarks(op[2], op[3])
           \/ op[1] = "stopHook" /\ StopHook(op[2], op[3])
           \/ op[1] = "stopAt"   /\ StopAt(op[2], op[3], op[4], op[5])
           \/ op[1] = "splice"   /\ Splice(op[2], op[3], op[4])
    /\ Head(code)[1] \notin {"ticked", "stopHook", "stopAt", "splice"} => UNCHANGED lost
    /\ FxSettle
    /\ UNCHANGED <<promiseVars, fxOps, asked, misused>>

-----------------------------------------------------------------------------
(* What starts code: the interval, the timeouts and users.                   *)

Tick ==
    /\ code = << >> /\ ticking
    /\ code' = << <<"tick", 1>> >>
    /\ UNCHANGED <<elementVars, promiseVars, timeouts, fxOps, fxHistory>>

DelayOver ==
    /\ code = << >>
    /\ \E t \in timeouts : /\ t.act = "next"
                           /\ timeouts' = timeouts \ {t}
                           /\ code' = << <<"dequeue", t.elem>> >>
    /\ UNCHANGED <<elementVars, promiseVars, fxOps, fxHistory>>

\* The timeout of handleQueueMarkDefer(): the list it was made for is fired when
\* the element is still at rest, and each listener counts down.
LookAgain ==
    /\ code = << >>
    /\ \E t \in timeouts :
         /\ t.act = "recheck"
         /\ timeouts' = timeouts \ {t}
         /\ IF AtRest(t.elem)
            THEN LET d == <<t.of, t.elem>>
                 IN  /\ defer' = [defer EXCEPT ![t.elem] = NoPromise]
                     /\ waits' = [p \in Promises |-> IF p \in listeners[d] THEN waits[p] - 1
                                                                          ELSE waits[p]]
                     /\ listeners' = [listeners EXCEPT ![d] = {}]
            ELSE UNCHANGED promiseVars
    /\ UNCHANGED <<elementVars, code, fxOps, fxHistory>>

InCallback == code # << >> /\ Head(code) = FxUser
UsersTurn  == code = << >> \/ InCallback

FxTurn == /\ UsersTurn
          /\ fxOps < MaxFxOps
          /\ fxOps' = fxOps + 1

\* A job of the element has called back, or stop() has emptied its queue: the next
\* one will be dequeued when what runs now returns.
Owed(e) == <<"dequeue", e>> \in Range(code)

\* What makes two jobs of an element run, or the state its last fade began with
\* stay: to stop it, or to queue a first job, while a dequeue is owed; and stop(true)
\* during a delay, which takes the hook off and leaves the timeout running.
Misuses(e, how) == misused' = IF how THEN misused \union {e} ELSE misused

\* queue(): the job waits behind the sentinel, or is dequeued at once.
Enqueue(e, job) ==
    /\ queue' = [queue EXCEPT ![e] = Append(@, job)]
    /\ code' = IF queue[e] # << >> /\ Head(queue[e]) = Sentinel THEN code
               ELSE << <<"dequeue", e>> >> \o code
    /\ Misuses(e, Owed(e) /\ queue[e] = << >>)
    /\ UNCHANGED lost

Fade(e, to) ==
    /\ FxTurn
    /\ Enqueue(e, [kind |-> to, id |-> fxOps', queued |-> TRUE])
    /\ asked' = [asked EXCEPT ![e] = to]
    /\ UNCHANGED <<hook, mark, shown, opacity, saved, timers, ticking, promiseVars, timeouts, busy>>

\* A fade with queue: false.
FadeAside(e, to) ==
    /\ FxTurn /\ e \in Loose
    /\ code' = << <<"start", e, [kind |-> to, id |-> fxOps', queued |-> FALSE]>> >> \o code
    /\ UNCHANGED <<elementVars, promiseVars, timeouts, fxHistory>>

\* show() and hide() without a speed: at once, whatever is queued or running.
ShowAtOnce(e) == /\ FxTurn /\ e \in Loose
                 /\ shown' = [shown EXCEPT ![e] = TRUE]
                 /\ UNCHANGED <<queue, hook, mark, opacity, saved, timers, ticking, promiseVars,
                                timeouts, code, fxHistory>>

HideAtOnce(e) == /\ FxTurn /\ e \in Loose
                 /\ shown' = [shown EXCEPT ![e] = FALSE]
                 /\ UNCHANGED <<queue, hook, mark, opacity, saved, timers, ticking, promiseVars,
                                timeouts, code, fxHistory>>

\* toggle() without a speed.
ToggleAtOnce(e) == IF shown[e] THEN HideAtOnce(e) ELSE ShowAtOnce(e)

\* delay().
Delay(e) ==
    /\ FxTurn
    /\ Enqueue(e, [kind |-> "delay", id |-> fxOps', queued |-> TRUE])
    /\ UNCHANGED <<hook, mark, shown, opacity, saved, timers, ticking, promiseVars, timeouts,
                   asked, busy>>

\* The queue's data becomes an empty array, sentinel and all, and is dequeued.
ClearQueue(e) ==
    /\ FxTurn /\ e \in Loose
    /\ queue' = [queue EXCEPT ![e] = << >>]
    /\ code' = << <<"dequeue", e>> >> \o code
    /\ UNCHANGED <<hook, mark, shown, opacity, saved, timers, ticking, promiseVars, timeouts,
                   fxHistory>>

\* dequeue() by a user, who ends the running job early.
DequeueCalled(e) ==
    /\ FxTurn /\ e \in Loose
    /\ code' = << <<"dequeue", e>> >> \o code
    /\ UNCHANGED <<elementVars, promiseVars, timeouts, fxHistory>>

FadeWaits(e) == \E i \in DOMAIN queue[e] : queue[e][i].kind \in {"show", "hide"}

\* stop().  The queue that is cleared takes the hook of its delay with it.
Stop(e, clear, gotoEnd) ==
    /\ FxTurn
    /\ queue' = [queue EXCEPT ![e] = IF clear THEN << >> ELSE @]
    /\ code' = (IF clear THEN << <<"dequeue", e>> >> ELSE << >>) \o << <<"stop", e, gotoEnd>> >> \o code
    /\ asked' = [asked EXCEPT ![e] = IF clear \/ (~gotoEnd /\ ~FadeWaits(e)) THEN Anything ELSE @]
    /\ Misuses(e, Owed(e) \/ (clear /\ hook[e] # 0))
    /\ UNCHANGED <<lost, hook, mark, shown, opacity, saved, timers, ticking, promiseVars, timeouts, busy>>

\* promise() of all elements: it joins the list an element has, or makes one for
\* an element that is not at rest.
Promise(p) ==
    /\ UsersTurn /\ waits[p] = -1
    /\ LET joined == {e \in Elements : defer[e] # NoPromise \/ ~AtRest(e)}
       IN  /\ defer' = [e \in Elements |-> IF e \in joined /\ defer[e] = NoPromise THEN p ELSE defer[e]]
           /\ waits' = [waits EXCEPT ![p] = Cardinality(joined)]
           /\ listeners' = [d \in Promises \X Elements |->
                              IF d[2] \in joined /\ d[1] = defer'[d[2]] THEN listeners[d] \union {p}
                                                                       ELSE listeners[d]]
           /\ busy' = [busy EXCEPT ![p] = {e \in Elements : ~AtRest(e)}]
    /\ UNCHANGED <<elementVars, timeouts, code, fxOps, asked, misused, lost>>

FxNext ==
    \/ Run \/ Tick \/ DelayOver \/ LookAgain
    \/ \E e \in Elements, to \in {"show", "hide"} : Fade(e, to) \/ FadeAside(e, to)
    \/ \E e \in Elements : Delay(e) \/ ClearQueue(e) \/ DequeueCalled(e)
    \/ \E e \in Elements : ShowAtOnce(e) \/ HideAtOnce(e) \/ ToggleAtOnce(e)
    \/ \E e \in Elements, clear, gotoEnd \in BOOLEAN : Stop(e, clear, gotoEnd)
    \/ \E p \in Promises : Promise(p)

\* Code that runs comes to its end; the browser ticks and fires its timeouts.
FxFairness == /\ WF_fxVars(Run) /\ WF_fxVars(Tick)
              /\ WF_fxVars(DelayOver) /\ WF_fxVars(LookAgain)

FxSpec == FxInit /\ [][FxNext]_fxVars /\ FxFairness

-----------------------------------------------------------------------------
(* Properties.                                                               *)

Running(e) == Cardinality({i \in DOMAIN timers : timers[i].elem = e /\ timers[i].queued})
              + Cardinality({t \in timeouts : t.act = "next" /\ t.elem = e})

\* The jobs of an fx queue take turns: no fade starts while another fade or a delay
\* of the element is running, and the sentinel is there just as long as one is.
\* Nor are running fades left without the interval that ticks for them.  The code
\* keeps this only for queues that are used as queues: not for Loose elements; not
\* once an element is stopped, or given its first job, between the callback of a job
\* and the dequeue that follows it, as in its own complete callback, or stopped with
\* its queue cleared during a delay, whose timeout then still comes (misused); and
\* not for those whose timer another stop() has taken off by its place (lost).
JobsTakeTurns ==
    code = << >> =>
      /\ timers # << >> => ticking
      /\ \A e \in Elements \ (Loose \union misused \union lost) :
           Running(e) = IF queue[e] # << >> /\ Head(queue[e]) = Sentinel THEN 1 ELSE 0

\* When nothing of an element's queue is left, it is shown or hidden as the last
\* fade asked, and a hidden one will appear in full, also when fades before were
\* stopped half way: by stop() outside of the element's own callbacks, and without
\* clearing during a delay.  As above, Loose, misused and lost elements are excepted.
LastFadeHolds ==
    code = << >> =>
      \A e \in Elements \ (Loose \union misused \union lost) :
         queue[e] = << >> => /\ asked[e] # Anything => shown[e] = (asked[e] = "show")
                             /\ ~shown[e] => opacity[e] = "full" /\ saved[e] = "none"

\* A promise of the queues is kept, and not before each of its elements has been at
\* rest: whatever users do to any of the queues, unless a timer or a delay is lost.
PromisesKept ==
    \A p \in Promises : /\ [](waits[p] = 0 => busy[p] = {})
                        /\ waits[p] > 0 ~> waits[p] = 0 \/ lost # {}
=============================================================================
