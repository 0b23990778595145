------------------------------ MODULE LSGiViewer ------------------------------
(* The viewer page of the web console: LSGiViewerCtrl, the requests of        *)
(* LSGiViewerService and the timers of the browser.  Nothing the page starts  *)
(* is awaited: the answers to its requests, the delays before polling and the *)
(* ticks of its polling interval arrive whenever they do, and every handler   *)
(* works on the one $scope of the page, whichever click it belongs to.  Its   *)
(* user may leave it (app.js changes the route): no handler stops anything    *)
(* then, so a page left behaves as one whose user never acts again.           *)
(*                                                                            *)
(* The web service, the job it launches and its query service are the         *)
(* environment: a job per environment that counts its iterations, answers     *)
(* fixed when the service handles a request and delivered in any order.       *)
(*                                                                            *)
(* Left out: the texts and the fading messages, the counters' animation, the  *)
(* numbers derived from the statistics, the number of nodes.                  *)
EXTENDS Integers, FiniteSets, Charts

CONSTANTS
    NIterations,    \* $scope.nIterations, the iteration polling stops at
    Environments,   \* what getExecutionConfiguration offers
    Datasets,
    Available,      \* Available[e]: the datasets of an environment, in order
    Vertices,       \* stats.totalVertices
    State0,         \* State0[i]: stats.state0 at iteration i
    NoDataset,      \* nothing selected, nothing running
    MaxStarts,      \* bound: clicks on Launch and Query
    MaxInFlight,    \* bound: requests in flight
    MaxFaults       \* bound: requests that are refused or get lost

ASSUME ViewerAssumption ==
    /\ NIterations \in Nat \ {0} /\ Vertices \in Nat \ {0}
    /\ MaxStarts \in Nat /\ MaxInFlight \in Nat \ {0} /\ MaxFaults \in Nat
    /\ NoDataset \notin Datasets
    /\ \A e \in Environments : Available[e] \in Seq(Datasets) /\ Available[e] # << >>
    /\ \A i \in 1 .. NIterations : State0[i] \in 0 .. Vertices

VARIABLES
    config,      \* what has become of the execution configuration
    scope,       \* the variables of $scope that handlers read
    timers,      \* pending setTimeout callbacks: [act, start]
    intervals,   \* the intervals the browser runs, named by the start they belong to
    inFlight,    \* requests without a delivered answer, in the order of sending
    jobs,        \* jobs[e]: the dataset whose job and query service run on e
    engine,      \* engine[e]: the iteration this job has published
    starts,      \* clicks on Launch and Query so far
    faults,
    overlapped,  \* history: a start was made while another was still pending
    strayed,     \* history: another environment was selected since the last start
    disordered   \* history: a search was served or answered before an older one,
                 \* or answered after a new start

scopeVars   == <<config, scope, timers, intervals>>
serviceVars == <<jobs, engine, faults>>
historyVars == <<starts, overlapped, strayed, disordered>>
viewerVars  == <<scopeVars, inFlight, serviceVars, historyVars>>

\* "refused" stands for failed, error and unreachable, which no handler tells
\* apart but in the text it shows; "empty" is an answer without a status.
Refusals   == {"refused", "empty"}
Unserved   == "unserved"
NoInterval == 0

\* What a request addresses: the selection at the time it is sent.
Target == [environment |-> scope.environment, dataset |-> scope.dataset]

\* $http: a request of this kind leaves the page, after n starts.
Send(kind, n) ==
    /\ Len(inFlight) < MaxInFlight
    /\ inFlight' = Append(inFlight, [kind |-> kind, to |-> Target,
                                     start |-> n, answer |-> Unserved,
                                     iteration |-> 0])

ViewerInit ==
    /\ config = "loading"
    /\ scope = [environment |-> CHOOSE e \in Environments : TRUE, dataset |-> NoDataset,
                inputTab |-> TRUE, showStopBtn |-> FALSE, showResults |-> FALSE,
                showGraphStats |-> FALSE, intervalID |-> NoInterval,
                iteration |-> 0, lastIteration |-> -1, convergenceData |-> 0,
                convergenceChart |-> Cleared, stateChart |-> Cleared]
    /\ timers = {} /\ intervals = {} /\ inFlight = << >>
    /\ jobs \in [Environments -> Datasets \union {NoDataset}]
    /\ engine = [e \in Environments |-> 0]
    /\ starts = 0 /\ faults = 0
    /\ overlapped = FALSE /\ strayed = FALSE /\ disordered = FALSE

-----------------------------------------------------------------------------
(* The selections.                                                           *)

SelectFirst(e) == [scope EXCEPT !.environment = e, !.dataset = Head(Available[e])]

\* The configuration arrives; an answer without environments makes
\* selectEnvironment fail, a lost one leaves nothing selected either.
LoadExecutionEnvironments ==
    /\ config = "loading"
    /\ \/ /\ config' = "ready"
          /\ \E e \in Environments : scope' = SelectFirst(e)
          /\ UNCHANGED faults
       \/ /\ faults < MaxFaults
          /\ faults' = faults + 1
          /\ config' = "missing"
          /\ UNCHANGED scope
    /\ UNCHANGED <<timers, intervals, inFlight, jobs, engine, historyVars>>

MenuShown == scope.inputTab

SelectEnvironment(e) ==
    /\ MenuShown /\ config = "ready"
    /\ scope' = SelectFirst(e)
    /\ strayed' = (strayed \/ e # scope.environment)
    /\ UNCHANGED <<config, timers, intervals, inFlight, serviceVars,
                   starts, overlapped, disordered>>

SelectDataset(d) ==
    /\ MenuShown /\ config = "ready"
    /\ d \in Range(Available[scope.environment])
    /\ scope' = [scope EXCEPT !.dataset = d]
    /\ UNCHANGED <<config, timers, intervals, inFlight, serviceVars, historyVars>>

\* A click on one of the three boxes: inputTab = !showStopBtn && n.
ClickTab ==
    /\ scope' = [scope EXCEPT !.inputTab = ~scope.showStopBtn]
    /\ UNCHANGED <<config, timers, intervals, inFlight, serviceVars, historyVars>>

-----------------------------------------------------------------------------
(* Starting.                                                                 *)

\* Mutant: reset() leaves the charts as they are.
ResetKeeping(s) ==
    [s EXCEPT !.inputTab = FALSE, !.showStopBtn = FALSE, !.showResults = FALSE,
              !.intervalID = NoInterval, !.iteration = 0, !.lastIteration = -1,
              !.showGraphStats = FALSE]

\* reset(): the part of it that is on $scope.
Reset(s) ==
    [s EXCEPT !.inputTab = FALSE, !.showStopBtn = FALSE, !.showResults = FALSE,
              !.intervalID = NoInterval, !.iteration = 0, !.lastIteration = -1,
              !.showGraphStats = FALSE,
              !.convergenceChart = Cleared, !.stateChart = Cleared]

\* Mutant: the interval is only forgotten.
ClearNothing == UNCHANGED intervals

\* clearInterval($scope.intervalID): the one the page knows of, if any.
ClearInterval == intervals' = intervals \ {scope.intervalID}

\* A start whose polling has not begun: its launch is unanswered or it waits.
StartPending ==
    \/ \E t \in timers : t.act = "startPolling"
    \/ \E i \in DOMAIN inFlight : inFlight[i].kind = "launch"

NewStart ==
    /\ starts < MaxStarts
    /\ starts' = starts + 1
    /\ overlapped' = (overlapped \/ StartPending)
    /\ strayed' = FALSE

\* launch(): without a configuration it fails after the reset, before the request.
Launch ==
    /\ MenuShown
    /\ scope' = [Reset(scope) EXCEPT !.showGraphStats = TRUE]
    /\ ClearInterval
    /\ IF config = "ready"
       THEN NewStart /\ Send("launch", starts')
       ELSE UNCHANGED <<starts, overlapped, strayed, inFlight>>
    /\ UNCHANGED <<config, timers, serviceVars, disordered>>

\* query(): two timers of the same delay, the statistics' one set first.
Query ==
    /\ MenuShown /\ config = "ready"
    /\ NewStart
    /\ scope' = [Reset(scope) EXCEPT !.showGraphStats = TRUE]
    /\ ClearInterval
    /\ timers' = timers \union {[act |-> "hideStats",    start |-> starts'],
                                [act |-> "startPolling", start |-> starts']}
    /\ UNCHANGED <<config, inFlight, serviceVars, disordered>>

HideGraphStats ==
    /\ \E t \in timers :
          /\ t.act = "hideStats"
          /\ timers' = timers \ {t}
    /\ scope' = [scope EXCEPT !.showGraphStats = FALSE]
    /\ UNCHANGED <<config, intervals, inFlight, serviceVars, historyVars>>

-----------------------------------------------------------------------------
(* Polling.                                                                  *)

\* poll() before the last iteration: searchByThreshold() and the Stop button.
\* s.intervalID is set by what calls poll.
Search(s) == /\ s.iteration < NIterations
             /\ Send("search", starts)
             /\ scope' = [s EXCEPT !.showStopBtn = TRUE]

\* startPolling(): poll at once, then every pollingTime, whether that poll has
\* decided to go on or not.
StartPolling ==
    \E t \in timers :
      /\ t.act = "startPolling"
      /\ [t EXCEPT !.act = "hideStats"] \notin timers
      /\ timers' = timers \ {t}
      /\ LET polled == [scope EXCEPT !.intervalID = t.start]
         IN  \/ Search(polled) /\ intervals' = intervals \union {t.start}
             \/ /\ scope.iteration >= NIterations
                /\ scope' = [polled EXCEPT !.showStopBtn = FALSE]
                /\ intervals' = (intervals \ {scope.intervalID}) \union {t.start}
                /\ UNCHANGED inFlight
      /\ UNCHANGED <<config, serviceVars, historyVars>>

\* Mutant: the last iteration only takes the Stop button away.
TickOn(i) ==
    /\ i \in intervals
    /\ \/ Search(scope)
       \/ /\ scope.iteration >= NIterations
          /\ scope' = [scope EXCEPT !.showStopBtn = FALSE]
          /\ UNCHANGED inFlight
    /\ UNCHANGED <<config, timers, intervals, serviceVars, historyVars>>

\* A tick of any interval the browser still runs calls poll(); at the last
\* iteration it clears the interval the page knows of.
Tick(i) ==
    /\ i \in intervals
    /\ \/ Search(scope) /\ UNCHANGED intervals
       \/ /\ scope.iteration >= NIterations
          /\ ClearInterval
          /\ scope' = [scope EXCEPT !.intervalID = NoInterval, !.showStopBtn = FALSE]
          /\ UNCHANGED inFlight
    /\ UNCHANGED <<config, timers, serviceVars, historyVars>>

Stop ==
    /\ scope.showStopBtn
    /\ ClearInterval
    /\ scope' = [scope EXCEPT !.intervalID = NoInterval]
    /\ Send("stop", starts)
    /\ UNCHANGED <<config, timers, serviceVars, historyVars>>

-----------------------------------------------------------------------------
(* The web service and what it controls.                                     *)

Iterate(e) ==
    /\ jobs[e] # NoDataset /\ engine[e] < NIterations
    /\ engine' = [engine EXCEPT ![e] = @ + 1]
    /\ UNCHANGED <<scopeVars, inFlight, jobs, faults, historyVars>>

Answer(i, a)    == inFlight' = [inFlight EXCEPT ![i].answer = a]
Statistics(i, n) == inFlight' = [inFlight EXCEPT ![i].answer = "stats", ![i].iteration = n]

\* The service handles a request: launch replaces the job, stop ends it, a
\* search is answered by the query service of the dataset's port.
Serve(i) ==
    /\ inFlight[i].answer = Unserved
    /\ LET r == inFlight[i]
           e == r.to.environment
       IN  \/ /\ r.kind = "launch"
              /\ jobs' = [jobs EXCEPT ![e] = r.to.dataset]
              /\ engine' = [engine EXCEPT ![e] = 0]
              /\ Answer(i, "success")
           \/ /\ r.kind = "stop"
              /\ jobs' = [jobs EXCEPT ![e] = NoDataset]
              /\ Answer(i, "success") /\ UNCHANGED engine
           \/ /\ r.kind = "search"
              /\ IF jobs[e] = r.to.dataset THEN Statistics(i, engine[e])
                                           ELSE Answer(i, "null")
              /\ UNCHANGED <<jobs, engine>>
    /\ disordered' = (disordered \/ \E k \in 1 .. i - 1 : inFlight[k].answer = Unserved)
    /\ UNCHANGED <<scopeVars, faults, starts, overlapped, strayed>>

Refuse(i) ==
    /\ inFlight[i].answer = Unserved
    /\ faults < MaxFaults
    /\ faults' = faults + 1
    /\ \E a \in Refusals : /\ inFlight[i].kind = "search" => a = "refused"
                           /\ Answer(i, a)
    /\ UNCHANGED <<scopeVars, jobs, engine, historyVars>>

-----------------------------------------------------------------------------
(* The answers.                                                              *)

LaunchAnswered(r) ==
    IF r.answer = "success"
    THEN /\ timers' = timers \union {[act |-> "startPolling", start |-> r.start]}
         /\ UNCHANGED <<scope, intervals>>
    ELSE /\ scope' = Reset(scope)
         /\ ClearInterval
         /\ UNCHANGED timers

StopAnswered(r) ==
    /\ CASE r.answer = "success" -> /\ scope' = [scope EXCEPT !.showStopBtn = FALSE]
                                    /\ UNCHANGED intervals
         [] r.answer = "empty"   -> scope' = Reset(scope) /\ ClearInterval
         [] OTHER                -> UNCHANGED <<scope, intervals>>
    /\ UNCHANGED timers

\* Statistics of an iteration after the first: shown, and added to the charts
\* unless they are of the iteration received last.
Results(s, i) ==
    LET shown == [s EXCEPT !.iteration = i, !.showGraphStats = FALSE, !.showResults = TRUE]
    IN  IF s.lastIteration = i THEN shown
        ELSE [shown EXCEPT
                !.convergenceData  = i,
                !.convergenceChart = BarPut(@, i, (100 * State0[i]) \div Vertices),
                !.stateChart       = StackPut(@, i, <<State0[i], Vertices - State0[i]>>),
                !.lastIteration    = i]

SearchAnswered(r) ==
    /\ \/ /\ r.answer = "stats"
          /\ scope' = IF r.iteration = 0
                      THEN [scope EXCEPT !.iteration = 0, !.lastIteration = 0]
                      ELSE Results(scope, r.iteration)
          /\ UNCHANGED intervals
       \/ /\ r.answer # "stats"
          /\ scope' = [Reset(scope) EXCEPT !.inputTab = (r.answer = "null")]
          /\ ClearInterval
    /\ UNCHANGED timers

\* The i-th request in flight gets its answer.  It is out of order when a search
\* sent before it is still in flight, or when the user has started anew.
Deliver(i) ==
    LET r == inFlight[i]
    IN  /\ r.answer # Unserved
        /\ inFlight' = RemoveAt(inFlight, i)
        /\ CASE r.kind = "launch" -> LaunchAnswered(r)
             [] r.kind = "stop"   -> StopAnswered(r)
             [] r.kind = "search" -> SearchAnswered(r)
        /\ disordered' = \/ disordered
                         \/ r.start # starts
                         \/ \E k \in 1 .. i - 1 : inFlight[k].kind = "search"
        /\ UNCHANGED <<config, serviceVars, starts, overlapped, strayed>>

-----------------------------------------------------------------------------
User == \/ \E e \in Environments : SelectEnvironment(e)
        \/ \E d \in Datasets : SelectDataset(d)
        \/ ClickTab \/ Launch \/ Query \/ Stop

Service == \/ \E e \in Environments : Iterate(e)
           \/ \E i \in DOMAIN inFlight : Serve(i)
           \/ \E i \in DOMAIN inFlight : Refuse(i)

Browser == \/ LoadExecutionEnvironments
           \/ HideGraphStats \/ StartPolling
           \/ \E i \in intervals : Tick(i)
           \/ \E i \in DOMAIN inFlight : Deliver(i)

ViewerNext == User \/ Service \/ Browser

\* The browser fires its timers and ticks and hands over every answer, the
\* service handles every request, oldest first at the latest, and the engine goes
\* on.  The user need do nothing.
ViewerFairness ==
    /\ WF_viewerVars(HideGraphStats \/ StartPolling)
    /\ WF_viewerVars(\E i \in intervals : Tick(i))
    /\ WF_viewerVars(inFlight # << >> /\ Serve(1))
    /\ WF_viewerVars(inFlight # << >> /\ Deliver(1))
    /\ \A e \in Environments : WF_viewerVars(Iterate(e))

ViewerSpec == ViewerInit /\ [][ViewerNext]_viewerVars /\ ViewerFairness

-----------------------------------------------------------------------------
(* Properties.                                                               *)

\* As long as no start is made while another is pending, the page never loses
\* an interval: whatever is reset, stopped, answered late or refused, the
\* browser runs at most the interval whose ID the page holds (lines 127, 265,
\* 281 and 390 of the controller).
OnlyKnownIntervalRuns ==
    ~overlapped => intervals \subseteq {scope.intervalID}

\* As long as answers come in order, starts do not overlap and the environment of the
\* start stays selected (polling asks the one selected when it ticks), both charts hold
\* the same iterations and draw each in a slot of its own inside the axis, and
\* the page names the last of them: resets, duplicates and the iteration 0 of a
\* loading job leave no bar that the next update misplaces.  Only then is it
\* right to stop at the last iteration: what the page counts to it shows.
ChartsShowTheRun ==
    ~overlapped /\ ~strayed /\ ~disordered =>
      LET bars   == scope.convergenceChart
          stacks == scope.stateChart
      IN  /\ Len(bars) = Len(stacks)
          /\ \A i \in DOMAIN bars : bars[i].x = stacks[i].x
          /\ BarsInSlots(bars) /\ StacksFillAxis(stacks)
          /\ scope.showResults => /\ bars # << >>
                                  /\ scope.lastIteration = bars[Len(bars)].x
                                  /\ scope.convergenceData = scope.lastIteration
          /\ scope.iteration = NIterations => scope.showResults

\* Polling ends: an interval does not outlive the job it watches, whatever the
\* order of the answers, even when the user does nothing or leaves the page.
PollingEnds ==
    intervals # {} /\ ~overlapped ~> intervals = {} \/ overlapped
=============================================================================
