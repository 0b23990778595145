# LSGi: a formal model of the inference system

LSGi runs Gibbs sampling over a graph that is divided among the nodes of a machine with
fabric-attached memory (FAM): a memory all nodes can map, but whose contents the caches of
different nodes do not keep coherent. One engine process per node samples its partition
with several threads and publishes the states through files in FAM; a query service maps
the same files and answers while the engine goes on; a web console launches jobs, polls
the query service and draws what it answers.

This directory models that system in TLA+, model-checks it with TLC and proves the safety
properties that matter most with TLAPS: the engine, the query service and the two pages of the console
are modelled, checked and proved about, and so are ten parts of the two libraries that the
console carries in its own tree and is built on: jQuery's callback lists, requests and events,
and of Bootstrap the carousel, modal, tooltip and its placement, collapse, scrollspy and tabs.
jQuery's deferreds, effects and ready() are modelled and checked.

Paths in this document are relative to the repository; `inference.cpp` and the like stand for `LSGi/source/inference/...`,
`search.h` and `ServerSocket.h` for `LSGi/source/queryService/queryService/...`,
`LSGiViewerController.js`, `BarChart.js`, `jquery-1.7.2.js` and `bootstrap.js` for files
under `LSGi/source/webConsole/LSGiWebConsole/WebContent/{js,lib}/`.

Contents: [components](#the-system) - [hard behaviours](#what-is-hard-about-it) -
[modules](#the-modules) - [runs](#the-runs) - [proofs](#the-proofs) -
[disagreements](#where-the-code-and-its-promises-disagree) -
[not modelled](#what-is-not-modelled) - [plan](#plan)

## The system

| Component | Where | State | Operations | Modelled in |
|---|---|---|---|---|
| Inter-process barrier | processSync.cpp | a file in FAM with one counter per process; the phase of each process | initGlobalBarrier, globalBarrier, clearBarrier | ProcessSync, PhaseBarrier |
| Array startup | globalStates.cpp, inference.cpp | per partition the files .states, .pdist, .stats; who has mapped which; which labels are stored | createGlobalArray, the mappings of initialize_global_arrayByPartition, readPriors | EngineStartup |
| Sampling loop | inference.cpp, globalStates.cpp | per process: T workers, a main thread, an array of all states in DRAM; per partition: the mapped files and what has reached FAM of them | sample, push, computeConvergenceAtIteration, persist, mark, pull, statistics | InferenceRound, PublishedFiles |
| Work partition | binaryGraphReader.cpp, inference.cpp | sizes read from a file, a range per process, a part per worker | readPartitionSizes, ranges, find_work_index_for_threadByPartition | WorkPartition |
| Query service, queries | search.h | mapped .pdist and .stats files, the cache of its node, locals of a query | findState, readStatistics, countNElements, findNElements and the requests built from them | QueryService |
| Query service, server | ServerSocket.h, QueryService.cpp | listening socket, stop flag, a detached thread per connection | accept, read, answer, stop | QueryServer |
| Topology index | binaryGraphReader.cpp, inference.cpp | one array with a place per vertex: its own factors, then a block per edge; counts and offsets | getEdgeNeigbornsCounter, buildTopology, getNeigborns, copyFactors2 | TopologyIndex |
| Gibbs kernel | inference.cpp get_sample | none of its own | one sample of one vertex | its timing in InferenceRound, the slots it reads in TopologyIndex |
| Configuration, driver | inferenceConfig.cpp, engineMain.cpp | the parsed parameters | read a configuration line, start the engine | as constants |
| Query clients | clientService, JClient | a socket, a partly read response | send a request, read a response | QueryServer |
| Viewer page | LSGiViewerController.js, LSGiViewerService.js | one $scope: selection, intervalID, last iteration, what is shown; timers, intervals and requests in flight in the browser | select, launch, query, stop, reset, tick of the polling, an answer to each kind of request | LSGiViewer |
| Charts | BarChart.js, StackedChart.js | hashMap of what is drawn, in the order of insertion | put, clear, update | Charts |
| Gauge and pie chart | GaugeChart.js, PieChart.js | the last value | draw it | no |
| Web service | LSGiController.java, SSHConnector.java | none between requests | forward to ssh or to the query service | as the environment in LSGiViewer |
| Settings page | LSGiSettingsController.js, LSGiSettingsController.java | the selected file, the text shown, requests in flight; the files on disk, opened by several threads | select, load, edit, save | SettingsPage |
| jQuery: callbacks, deferreds | jquery-1.7.2.js 950-1460 | list, memory, stack, indices of a firing | add, remove, fire, disable, lock, empty; resolve, reject, notify, pipe, when | CallbackLists, Callbacks, Deferred |
| jQuery: events | jquery-1.7.2.js 2820-3850 | handlers of an element, count of delegates, what runs | on, one, off, trigger, dispatch | Events |
| jQuery: effects | jquery-1.7.2.js 1990-2210, 8330-9140 | fx queues, marks, timers, the interval | queue, dequeue, fades, delay, stop, clearQueue, promise | FxQueue |
| jQuery: requests | jquery-1.7.2.js 7330-8330 | state, transport, timer and callbacks of a request; jQuery.active | ajax, abort, statusCode, timeout, answer, done | Ajax |
| jQuery: ready | jquery-1.7.2.js 395-525, 925-950 | isReady, readyWait, its list | ready, holdReady, bindReady | Ready |
| Bootstrap: carousel, modal, tooltip and popover, collapse, scrollspy, tabs | bootstrap.js | per component: what is shown, what moves, who waits for the end of a transition | the methods, clicks, and ends of transitions and delays | Carousel, Modal, Tooltip, TipPlacement, Collapse, ScrollSpy, Tab |
| Rest of the libraries | selectors, DOM, CSS; Alert, Button, Dropdown, Affix | the document | | no |
| Graph converter, scripts, FAM tests | the rest | files on a disk | sequential | no; the launch and kill scripts are Launch and Kill |

**How they interact.** The launch script starts N engine processes. They share nothing but
FAM: the barrier file (twice: array files created; graph loaded) and, per partition, three
files with one writer, its owner. In the sampling loop no process waits for another; each
pulls whatever the others have persisted. In a process the workers and the main thread
alternate through two pthread barriers. The query service only reads the files, from a node
whose cache does not follow the writers. The console only sees answers of the service.
Its pages are single-threaded: everything is a handler that runs to its end, and what a
handler started (a request, a timer, an interval, a transition) comes back as a handler
of its own, after any others. The page loads `jquery-1.7.2.js`, then a minified 2.0.1 that
takes over `$`, then Bootstrap and AngularJS. It uses three carousels without an interval,
`fadeIn` and `fadeOut` of its messages, animated counters and `$(document).ready`. Of the
two copies of jQuery only 1.7.2 is there in readable form; it is modelled as the library
it is, for any code that uses it, not as the few calls of this page.

## What is hard about it

* **Barrier**: the poll adds up counters read one after the other while they change, and
  counters are set back by their owners, without a barrier behind the last one; the file
  outlives launches, killed ones included; the file exists before it has its length.
  *Correct* means: nobody leaves barrier k before all have called it; all who have called
  it get through; launches do not disturb each other.
* **Startup**: the master truncates files that others will map; the barriers are all that
  keeps truncation, mapping, labelling and sampling in order. *Correct*: a launch works on
  its own files, all labels are stored before anybody samples, no mapped file is truncated.
* **Sampling loop**: three kinds of threads' accesses to one array; stores that reach FAM
  when persisted or at any earlier moment, line by line; a mark whose meaning for a reader
  depends on the order of three stores and two persists; two formulas for one sample
  counter; processes at different iterations. *Correct*: remote states change only while
  no worker samples; they come from the owner's past; the mark never promises more than
  FAM holds; a finished process has left its last iteration in FAM; no process waits for
  another.
* **Work partition**: integer division and ranges; a line count that depends on the last
  newline. *Correct*: every vertex has exactly one worker, of the owner's process.
* **Topology index**: counted in one pass over the edges, filled in another, with no end
  marked; the factors of an edge are kept as the file has them at one end and turned round
  at the other. *Correct*: each vertex has one block per edge, in its own place, with the
  factors seen from its side, and nothing is written beside the array.
* **Queries**: stale cache lines; values that are loaded two or three times while the
  engine changes them; a result allocated for one count and filled by a second search.
  *Correct*: an answer is not older than the question; nothing in a response is older than
  the iteration sent with it; the search stays inside what was allocated and numbers the
  vertices correctly.
* **Viewer page**: handlers work on whatever the $scope holds when they run; answers of the
  job before, of another dataset, out of order or never; two starts at once; an interval
  known by the one ID that the next start writes over. *Correct*: no interval runs that the
  page cannot clear; polling ends; the charts show the run the page names.
* **Settings page**: an answer is taken for the file selected by then; a save empties the
  file and writes it later, in a thread of its own. *Correct*: a file holds what was saved.
* **Libraries**: user code runs in the middle of a library's loop and calls the library
  again; ends of fades are events or timers, whichever comes first, of an operation that
  may be countermanded by then. *Correct*: every callback once and in order; a deferred,
  a request has one outcome; what is shown at rest is what was last asked for.
* **Server**: a stop flag tested only after the next connection; one client that dies can
  end the service for all, by a failing read or a write to a reset connection; clients take
  the end of a connection for an answer. *Correct*: whoever asks is answered, unless it dies
  itself or the service ends for one of these causes.

`PROJECT.json` lists every hazard with its line and the properties that cover it.

## The modules

| Module | What it is |
|---|---|
| PhaseBarrier | Abstract: processes go through phases 1..k; nobody leaves a phase all have not arrived at |
| ProcessSync | The counters, the poll, the file's creation, launches and kills |
| EngineStartup | Extends ProcessSync by the array files that the two barriers protect |
| PublishedFiles | Abstract: how far the distribution, the mark and the statistics of a partition may be apart in FAM |
| InferenceRound | Workers, main threads, caches and FAM during sampling |
| QueryService | One query against files that change as PublishedFiles allows |
| WorkPartition | From the file of partition sizes to the part of each worker |
| TopologyIndex | From the edges of the graph file to the array a process samples from |
| QueryServer | The connections of the query service, its threads, its end, and its clients |
| LSGiViewer, Charts | The viewer page against a service that answers in any order, and its charts |
| SettingsPage | The settings page and the service's handlers of it |
| CallbackLists, Callbacks, Deferred | jQuery's callback list as operators on a record; code that uses one from inside it; deferreds made of three each |
| Events, FxQueue, Ajax, Ready | jQuery's events, effects and queues, requests, ready() |
| Carousel, Modal, Tooltip, TipPlacement, Collapse, ScrollSpy, Tab | Bootstrap's components: what moves or fades, what is measured and kept |
| X_proofs | Theorems about X; Startup_proofs about ProcessSync and EngineStartup, QueryService_proofs also about QueryServer |
| Graph_proofs | Theorems about WorkPartition and TopologyIndex |
| Console_proofs | Theorems about LSGiViewer, Charts and SettingsPage |
| JQuery_proofs | Theorems about CallbackLists, Callbacks and Ajax |
| Bootstrap_proofs | Theorems about TipPlacement, Carousel, Modal, ScrollSpy, Tab, Tooltip and Collapse |
| MCX | Instances of X for TLC, one .cfg per run; MCWorkPartition, MCQueries, MCWebConsole, MCLibraries and MCEffects put several modules that share no state into one run |

Composition: EngineStartup *extends* ProcessSync (its steps are steps of ProcessSync or
leave its variables alone: theorem `StartupIsSync`). InferenceRound begins where
EngineStartup's processes are at "infer". PublishedFiles is the interface between engine
and service: InferenceRound is proved to implement it (`FilesImplementation`),
and QueryService uses its `Publish` as the environment, so what is proved of a query holds
with this engine. A thread of QueryServer runs one query of QueryService; the two are told
apart because they share no state: what a query answers does not depend on the connections,
and the connections only on how many pieces an answer has. TopologyIndex gets the range of
vertices that WorkPartition computes for a process, and holds for any.

### ProcessSync
One action per statement that touches shared state. `initGlobalBarrier` is
FindBarrierFile / CreateBarrierFile, SizeBarrierFile / MissBarrierFile, AwaitBarrierFile,
then MapBarrierFile and InitCounter; the creation is two steps because open() and
ftruncate() are, and others look at the file in between. `globalBarrier(p, N, k)` is
Announce (store k, persist), ReadCounter once per counter, and Rescan or Leave; the sum is
a variable because a scan is not atomic. `clearBarrier` is ClearBarrier. RefuseGraph is
the early return when the graph is unusable. Launch is the launch script, run when the
processes of the launch before are gone; Kill is the kill script or a crash. `clean` is a
history variable: did this launch find all counters at 0?
*Abstractions*: a counter is an int on a page of its own, a store is persisted in the
statement behind it, and the poll invalidates the mapping before it reads (the read
returns what FAM holds); so counters are one value each. The 64-bit sum cannot overflow:
it is at most 2N. The usleep() intervals are left out.

### EngineStartup
`arrays[q]` says which launch created the files of partition q, `mapped[p][q]` which
creation p has mapped. CreateArrays is one turn of the master's loop (three files of one
partition at a time: nobody maps them before barrier 1, which the run checks); MapArrays,
one per partition, in order; ReadPriors stores the labels; EnterBarrier and StartupRefuse
are Announce and RefuseGraph with what the code has done before them.

### InferenceRound
A worker's turn is Sample, PushStates, PushDistribution, ComputeConvergence, then the two
pthread barriers (Barrier1, Barrier2: all T + 1 threads at once; a thread that has arrived
can do nothing else). The main thread, between them: PersistStates, StoreMark,
PersistDistribution (one persist call for the probabilities and the mark behind them),
Pull (each segment of each other partition), RecordStats, PersistStats. The cache of a
node may write any line back at any time (WriteBack...).
*Abstractions*: the states of a segment are one version (the iteration they are from), and
so are its probabilities; so a segment is written and pulled atomically. Tearing inside a
segment is between versions a reader may see anyway in neighbouring segments. Random
numbers and the sampling kernel are left out. A pull reads FAM, because the code
invalidates the range right before the memcpy. The number of vertices is assumed not to
be 0. `Interval` is at least 2: with 0 or 1 the code divides by zero
(inference.cpp:670, 673). The files start with zeros. That is an assumption for one element:
the array they are written from has num_of_nodes + 1 of them and the memset clears
num_of_nodes (inference.cpp:772-773), so the first mark of a partition that has all the
vertices (one process, as in round_threads) is what malloc left there. In an array of that
size, pages fresh from the kernel, it is 0; otherwise the mark means nothing until the
first one reaches FAM.

### QueryService
The actions follow findState (three loads: the probability, the mark, the probability
again), readStatistics, countNElements (a load per vertex) and findNElements (a load to
compare, one for p_0, one for the state). `cachedDist` and `cachedMark` are what the cache
of the service's node holds; Invalidate is pmem_invalidate with the length the code gives
it; Fetch and Evict are the other threads of the service and the hardware. Publish is the
engine. A probability is the iteration it is from, and `Above` says which of them reach
the threshold: an arbitrary table in the proofs.
readStatistics loads an iteration twice, to compare it (CompareIteration) and to keep it
(KeepIteration), and the engine may publish in between. `sure[p]` is the iteration partition
p was last found at, `overtaken` has the partitions that were published twice or more between
the two loads.
*Abstractions*: one query at a time (queries share only the cache); all partitions have
the same size S; the lines of the .stats file, dropped just before, are loaded from FAM.
minIter starts at 1000000 as in the code, and the number of iterations is assumed not to
exceed it. The other two statistics are sums of numbers the model leaves out.

### WorkPartition
readPartitionSizes line by line, with its two asserts; the ranges; and for each worker
WorkStart and WorkEnd, with the last worker taking the remainder of the division. The
reader's `getline` returns good(), which is false for a last line without newline: such a
line is not read.

### TopologyIndex
One action per turn of a loop: CountEdge (getEdgeNeigbornsCounter), LayOut (buildTopology
gives a vertex the next place), Allocate, FillEnd (getNeigborns, one end of one edge, with
copyFactors2). A slot holds which factor of which edge it is, a vertex, or what malloc left.
Put extends the domain of the array if it writes outside, so that IndexHoldsGraph sees it.
UnaryRead, NeighborRead and FactorRead are the slots get_sample reads. Which factor of an
edge belongs to which states is taken from the description of the file
(binaryGraphReader.h:31-37: the state of "from" first), so IndexHoldsGraph compares the
code with it for edges from a smaller number to a larger one. For the others the code
differs (see the disagreements), and what is checked is that both ends of such an edge
agree and each of its four factors is there.
*Abstractions*: the values of the factors; the table that would share equal factors is
switched off (USEDFACTORTABLE) and left out. An edge joins two different
vertices, as in the graphs the converter writes.

### QueryServer
The main thread has TestFlag and Accept; a thread TakeSocket, ReadRequest, a WritePiece per
write() and CloseSocket, or it ends the process (FailToRead, WriteToReset); a client
Connect, Send, ReadAnswer, ReadEnd and Die, which closes its connection or resets it.
Restart is the next launch of the service. Everything the threads share is there:
the stop flag, which is a plain bool that one thread writes and another reads and so is
seen at once or later like any interleaving; and what `arg` points to, a cell of its own.
*Abstractions*: a request and each fixed piece of an answer are read whole; the entries are
one piece; listen() has room for all.

### LSGiViewer, Charts
One action per handler of the controller and per kind of answer: SelectEnvironment,
SelectDataset, Launch, Query, Stop, Reset, Tick (the polling), the two setTimeout callbacks
behind Launch and Query (StartPolling, HideGraphStats), and Deliver, which hands any
request in flight its answer. An answer is fixed by Serve, when the service handles the
request, and may wait. `scope` holds the variables of $scope that a handler reads;
`intervals` is what the browser runs, which is more than `intervalID` when a start writes
over it. Iterate is the job; somebody else's job may be running already. `overlapped`,
`strayed` and `disordered` are history: a start came while another was pending, another
environment was selected since the last start, a search was served or answered before an
older one. Charts gives the insertion order of hashMap, which both charts lay their bars
out by.
*Abstractions*: numbers derived from the statistics, counters, messages and gauges are
left out; failed, erroneous and unreachable answers are one, as no handler tells them
apart.

### SettingsPage
Select, Load, Edit, Save and Answered; in the service LoadFile, and a save in two
steps, OpenFile and WriteFile, since FileOutputStream truncates before the write. A content
is the file it came from, a version, and its form: a list, other JSON, or none.

### CallbackLists, Callbacks, Deferred
A list is a record with the closure's variables (list, memory, stack, firing,
firingStart, firingLength, firingIndex); a callback in the middle of a loop may call any
method, so being called is a phase of the list. Deferred keeps a stack of running loops:
resolving a deferred runs disable and lock of the other lists as nested calls.

### Events, FxQueue, Ajax
Each keeps the code still to be run as a stack of small operations (`evStack`, `code`,
`ajaxCode`): user code has a turn between two of them and may call the module again. So
every interleaving that callbacks allow is there, and none that threads would. FxQueue's
`Tick` is the one interval of all timers, DelayOver and LookAgain the timeouts. Ajax's
transport answers at once, later or never, or throws.

FxQueue has stop() whenever user code has the turn, with its loop as it is: it goes down by
an index from before the callbacks it runs (StopAt, Splice), and ends with an error when they
have left fewer timers than that. Two histories name the elements for which the order of a
queue is then not kept by the code, and JobsTakeTurns and LastFadeHolds except them:
* `misused`: stopped, or given its first job, while a dequeue is owed, that is between the
  callback of a job and the dequeue behind it (its own complete callback is the usual case;
  the job is dequeued twice, jquery-1.7.2.js:8683-8684 and 8751-8752); or stopped with its
  queue cleared during a delay, whose hook goes with the queue (8635-8636), so that its
  timeout stays and dequeues beside what runs by then.
* `lost`: its timer was taken off for another's (8676) or left in, its callbacks were
  abandoned by the error at 8667, or stop(false, true) took away its delay and dequeued
  nothing, as a fade outside the queue was made to finish (8683).

PromisesKept excepts only the second: whoever waits for a queue that was misused is still
told in the end. Elements in `Loose`, whose users go around the queue, are excepted from the
first two properties and not from the third.
*Left out*: dequeue() looks a second time at the array it began with, which is not the
queue's any more if the job it started has cleared it; user code that catches the error of
stop().

Ajax has `revived`: requests that were sent although they were over, because a handler of
ajaxSend (7718) or, without a beforeSend, of ajaxStart (7686) had aborted them. They go on
as in the code, with done() once more for what it does again. OverOnce states the counter
while there are none, and the rest with them.

### Ready, Carousel, Modal, Tooltip, Collapse, ScrollSpy, Tab
Their steps are the methods, clicks, and the ends of transitions and delays. A transition
ends by the browser's event or by the timer Bootstrap sets in case it does not come; the
first makes the other do nothing, except where the code listens twice. TipPlacement has one
state per geometry: place a tip, then compare with what beside and in view mean. ScrollSpy has a page whose
sections and height change; `seen` and `unnoticed` say whether the object can have noticed.
In Collapse an object has the parent (`parent`) if a click of its trigger built it, which has
data-parent; one that collapse('show') or collapse('hide') builds, show() of another panel
included, has the panel's own data and no parent: its show() hides nobody. `beside` says
that one has opened a panel next to an open one; OnePanelOpen then only speaks of the
triggers.
Tab keeps each click's next() with the panes it found active (`waits`); what the two fades
and timers of one click do to each other is RunEnds.

## The runs

| Run | Instance | Distinct states | Shows |
|---|---|---|---|
| sync_launches | 3 processes, 2 launches, nobody killed, fair | 11,652 | the polled sums implement PhaseBarrier; every launch leaves all counters at 0; under fairness all get through barrier 1, and somebody through barrier 2 |
| startup_kill | 2 processes, 3 launches, kills anywhere | 20,814 | a launch that found all counters at 0 has a correct barrier; its files, labels and mappings are its own when they should be; no file truncated under a mapping |
| round_procs | 2 processes of 1 worker, 3 iterations | 42,921 | remote states are of the owner's past and change only while the workers wait; process 0 finishes alone |
| round_threads | 1 process of 2 workers, 5 iterations, statistics every 2 | 1,118 | what mark and statistics in FAM say is true; PublishedFiles is implemented; convergence samples are complete when read |
| partition | 2 processes of 3 workers, all files with sizes up to 7; every graph of 3 vertices and up to 3 edges, every range | 40,466 | good files accepted, bad ones refused, every vertex has one worker; the index is the range's part of the graph |
| query | 2 partitions of 1 vertex, 1 iteration, or 2 for statistics and counts; 2 connections at a time, used again, fair | 367,156 | answers are fresh, not older than the statistics of their partition, inside the result, correctly numbered; the iteration sent is the least unless one was overtaken; who asks is answered unless there is a cause |
| console | viewer: 3 iterations, 2 starts, 2 requests in flight, 1 fault, staying in one of 2 environments; or 1 start and 1 request, changing between them; settings: 2 files, 3 requests, 1 failure | 584,919 | only an interval the page knows runs; polling ends; the charts agree and show the run; files hold what was saved |
| libraries | one part per behaviour; 4 to 6 calls each | 865,768 | ten properties of callback lists, deferreds, events and Bootstrap's components |
| effects | 2 elements, 3 calls of any kind, or 2 fades and 2 stops, 1 promise; 2 requests; 2 ready functions, 2 holds | 382,867 | six properties of fx queues, requests and ready(), three of them liveness |
| sync_stranded, round_labels, query_unfilled | | | each a disagreement, see below |

**Bounds.** *Processes*: 3 in the barrier, so that one can be fast, one slow and one dead or
not started; 2 elsewhere (an owner and a reader; a master and another). *Launches*: 2 show
what a launch leaves for the next; with kills 3, so that a launch follows one that itself
started from leftovers. *Iterations*: 3 for two processes, as a reader can then be an
iteration behind, level, or ahead; 5 with interval 2, so that two samples are taken and the
remainder and the counter drift past each other once. *Workers*: 2 differ and one is last; 3
in WorkPartition, with sizes up to 7 so that each remainder of the division and a size below
the number of workers occur. *Graph*: three vertices and three edges, so that a vertex has
none, one, several or repeated edges, is the first or second end of them, and a range has
vertices of other processes before and behind it. *Query*: 2 partitions, because every
boundary the query code can get wrong is between partitions; one iteration to publish, with
one vertex rising over the threshold and one falling below; two for the queries that only read
the statistics and count, so that the engine can publish twice between the two loads of one
iteration (search.h:206-207). *Connections*: two, one to do
harm and one to be harmed; they are used again without bound, so the run has no last
request. What these bounds leave open, the theorems close: they hold for all N, T, S, Iters,
Interval, MaxSize, NumVertices, MaxEdges, any environments, datasets, files, requests,
positions and callbacks, and any number of calls, where a theorem states the property. *Viewer*: two starts, so that one can overtake,
overlap with or follow the other; three iterations, so that a bar can be missing between two
and the first can be repeated; two requests in flight, the least that can be out of order;
two environments, for a user who turns to another while the first one's job is polled (by
themselves, with one start and one request in flight and no faults: together with the rest they
would be millions of states).
*Settings*: a save, a second one and a load, of two files. *Libraries*: MaxOps and its like
count calls of users: enough to begin something, to countermand it while it runs, to ask
again, and to look at what is left; two callbacks tell the running one from another, three
panels or items the neighbours of one that moves. *Effects*: three calls reach each of the
methods with one before and one behind it; a stop() that runs callbacks which stop again needs
two fades and two stops, hence a part of its own. Ancestry is an element and one around it.

**Fairness.** FairSpec: weak fairness of each process's steps; they are ordinary processes
that never block except in loops that poll. LonelySpec: weak fairness of the threads of
process 0 alone; the others may be slow or dead, so that FinishesAlone says that no
process depends on another. Nothing is assumed of Launch, Kill, or write-backs.
ServerFairness: the service's threads run, and a client that has asked reads; that anybody
connects, asks, stops the service or starts it again is not assumed.
ViewerFairness: the browser fires timers and ticks and delivers the oldest answer, the
service handles the oldest request, a job goes on; users need do nothing and younger
answers may overtake for ever. FxFairness, AjaxFairness: code that runs comes to its end
and the browser's timers fire; that a server answers is not assumed, so TimedRequestsEnd is
about the timeout alone. ReadyFairness: a document gets loaded and who holds ready releases
it. No fairness is stated for the safety-only parts in MCLibraries.

**Deadlock.** Not checked in the runs of processes and rounds, where everything stops when
the last launch or iteration is over, nor in partition, a sequence that ends. It is checked
in the query runs: the service takes queries and connections for ever. The console and the libraries stop
when the calls the bounds allow have been made.

**Parts in one run.** MCWorkPartition, MCQueries, MCWebConsole, MCLibraries and MCEffects
choose a part in Init; the others stay in an initial state in which nothing is pending, so
that no fairness asks anything of them. A behaviour is one of the part's own, and each
property says of its part what a run of its own would.

## The proofs

| Module | Theorems (all for every value of the constants) |
|---|---|
| Startup_proofs | of ProcessSync: TypeCorrect, Invariance, CleanLaunchesAreSafe, PagesStay, CountersOwned (with kills); EveryLaunchIsClean, BarriersHold, Implementation (without); of EngineStartup: StartupIsSync, StartupInvariance, StartupCorrect, StartupNoTruncation (with kills); StartupMapsThisLaunch (without) |
| InferenceRound_proofs | RoundInvariance, MarksAreSafe, MarksAreNear, StatsFollowMarks, RemoteStates, LastIteration, PullsExcludeSampling, FilesImplementation, SamplesAreTaken, SamplesFitTheArray, FilesAreInOrder, SamplesAreWhole |
| Graph_proofs | of WorkPartition: RangesInvariance, VerticesHaveOneWorker, VerticesHaveAWorker, SizesAreRead, FilesAreJudged, VerticesAreShared; of TopologyIndex: GraphInvariance, IndexIsGraph |
| QueryService_proofs | of QueryService: QueryInvariance, AnswersAreFresh, NothingOlderThanStatistics, SearchStaysInResult; of QueryServer: ServerInvariance, AskersAreOwed, AnswersStayOwed |
| Console_proofs | of SettingsPage: SettingsInvariance, FilesHold; of LSGiViewer: ViewerInvariance, KnownIntervalRuns, ChartsShow |
| JQuery_proofs | AjaxInvariance, RequestsAreOverOnce; CallbacksInvariance, CallbacksCalledAsPromised |
| Events_proofs | EventsInvariance, EventsHandledOnce |
| Bootstrap_proofs | TipsBeside; CarouselInvariance, CarouselSlidesAsAsked; ModalInvariance, ModalFits; SpyInvariance, SpyLightsWhereOneIs; TabInvariance, TabShowsPane; TipInvariance, TipIsAsWanted; CollapseInvariance, AccordionOpensOne |

**Assumptions**: only those on the constants, which TLC evaluates in the runs: N, T, S
positive, at least one iteration and one launch, an interval of at least 2, at least one
vertex, at most 1000000 iterations for the query; for the console that every environment offers a
dataset and a graph has a vertex; for the libraries a carousel of at least two
items, finitely many sections, panes and panels, of which panes and panels are numbered in
the order of the document, an ancestry that is a sequence of different elements, and a geometry in even numbers (see TipPlacement below). The two theorems about convergence samples also assume
`Statistics`: see the divergences below.

**ProcessSync.** BarrierSafety alone is not inductive: a scan that has half a sum in hand
must be known not to have counted too much. SyncInv adds that a counter never exceeds its
owner's phase, and `ScanCountsArrivals`: while somebody has not announced the phase p waits
for, what p has read is at most phase[p] for each counter read, and is all of that only if
everybody it has read has announced. So the sum can reach N * phase only when all have
announced (lemma ReachedMeansAnnounced), however the reads and the stores interleave. The
argument needs that counters start at 0, hence `clean`; EveryLaunchIsClean shows that
launches nobody kills always do, by StoppedCleared. Implementation maps `phase` to the
arrivals of PhaseBarrier and `left` to itself; the poll is stuttering.

**EngineStartup.** Barrier 1 vouches for the array files, barrier 2 for the labels: the
invariant says so for each process that has announced (ArraysMade, PrimedByPhase), and
BarrierSafety turns it into a statement about all processes for the one that has left.

**InferenceRound.** RoundInv ties the program counters of a process together (Phases), and
gives for each location how far the states, the distribution, the mark and the statistics
have got, in the process's own view and in FAM (SegmentProgress, FileProgress). What a
reader may conclude follows by arithmetic. FilesImplementation: each step changes at most
one partition's files in FAM, forward, and RoundInv' gives the promise afterwards.

**QueryService.** The invariant says from which iteration on everything the query can
still load is: `StatisticsHold` for threshold queries (what has been dropped from the
cache after the statistics were read can only come back newer), `VertexIsFresh` for
findState; and where the loops are (`LoopsInStep`), from which the numbering of vertices
and the size of the result follow. The iteration that is sent is one of a partition and not
later than those of the partitions behind it, whatever is published between its two loads;
for those before it a publication in between is harmless, since the first load was less than
the minimum so far and one publication brings it to that at most (IterationOf). One lemma per
action.

**WorkPartition.** ReadInv (the sizes read are lines of the file) and RangesInRow; then
lemmas on integer division: parts of a range do not meet and leave nothing out.
FilesAreJudged: reading never gets ahead of the file's lines, so that no assert has failed on
a file that is as it should be (NoneRefused).

**TopologyIndex.** Both passes count the same set, the edges at a vertex (`Counted`): the
first makes room for as many blocks as it has elements, and in the second an edge's block
has the number of smaller elements (RankOrder), so it lies inside the vertex's place.
`PlacesInRow` keeps the places apart; `BlocksHold`, that what has been filled is right,
then survives every later write (Written, HoldsStays). IndexIsGraph is the last instance.

**QueryServer.** ConnectionInv says of each connection where its one request is: in the
inbox until the thread reads it, and from then on `Pieces` (what the client has read, what
is on its way, what is still to be written, in a row) is one answer to it. So no step loses
or doubles a piece, the thread is there as long as something is unread, and the causes of
an end, a stop request or a client that has died, are the only ones (EndsForACause).
AnswersStayOwed is an action property: who is owed an answer is owed it after every step,
unless the step gives it, kills the client or ends the service for a cause. It is the
safety half of AskedIsAnswered; that the threads then run is fairness.

**SettingsPage.** FilesHoldWhatWasSaved speaks of a file at rest; SettingsInv says what each
request in flight has made of it by then. `SavesInTurn`: of a file whose saves were never
in flight together there is at most one, it is the last one sent, and the file is as that
one's stage says. `TextIsOpened`: a file that is no JSON has been opened by a save that is
still to write. `OwnContents`: nothing of another file is on the page or on its way until
another file is selected with a load in flight.

**LSGiViewer.** Behind OnlyKnownIntervalRuns is StartsInTurn: a start is pending in one
place only, as a launch in flight or as a timer, and no interval runs while it is, so that
the one it creates is the only one. Behind ChartsShowTheRun are SearchesInOrder and
ChartsInOrder: what a search may still bring is not older than what is drawn and not newer
than the engine, along the queue in which requests were sent. The proof of the order is
what brought the history `strayed` into the model: a search asks the environment that is
selected when the interval ticks, so after another one is selected the charts mix two runs.
The sums of StackPut are a recursive function over two fields, and its values are
shown; that an axis has a top, for any number of entries, follows from the
well-foundedness of finite sets (LeastNumber, LargestNumber) rather than an induction over
sequences, which is out of reach.

**TipPlacement.** BesideAndInView is arithmetic on one geometry. The code halves what it
has measured and doubles a shift to place the arrow, in numbers that keep halves: a unit of
the model is half a pixel, measures are even, no half is rounded, and ShiftFits, that a shift brings a tip that fits into the viewport, is exact.

**Ajax.** The invariant is about the pieces of code that are still to run, per request:
ajax() has one piece at most, what done() has left comes before it (FlowPlaces), a request
is settled before it completes (SettledFirst), counted until its one "uncount" (Counting,
whose cardinality is `active`), and refused only to be an error (Refusals). User code runs
between any two pieces, so each lemma says what a turn of one request leaves of another's
pieces (TurnOf, Untouched). A request that is sent although it is over has finished before
(OverOrRevived), so that what done() does a second time finds it settled and completed; only
the counter goes down again, and what is said of it (Activity) stands under
revived = {}. The counter is only right between the pieces of code: it is exact whenever
nothing runs.

**Carousel.** CarouselInv: what was asked for last is the last position to wait, or where
the carousel is bound for, the target of the slide or the item shown. The waiting calls
are a list that the end of a slide runs through; the loop is a function over that list
(`GoneOn`), whose values at each stage the proof gets from an induction stated over a set
of numbers (lemma Induction), having first shown that such a function exists (LoopExists).

**Callbacks.** The loop of fire() is an index into an array that add(), remove() and fire()
itself change while callbacks run. `Orderly` relates it to what it means: what is left to
call is the list behind the index (LoopGoesOn), all who are subscribed are in the list
(HoldsSubscribed), and to each of them the value last fired is paid or owed (Owed). It
holds until empty() is called inside the loop, after which the index points nowhere.
remove() takes elements out by rebuilding the array (`Without`, of the function `Spared`),
and the index moves by as many as lay at or before it.

**Events.** Handlers may attach, detach, trigger and throw while a dispatch that has queued
handlers already goes on below them, to any depth. EventsInv says of each frame of the stack
(FrameSound) what the frames below it guarantee: a walk goes only to elements at which no
handler has had its event (WalkSound), a dispatch has queued handlers that have not had it
either, of an element its walk has left behind (DispatchSound), and different walks are of
different events. An id stays with one handler of one element however lists change
(IdsApart), so attaching and detaching disturb none of this (Descends, SoundDescends), and a
handler that runs disturbs only the walk on top (DoneAdded). The second half of HandledOnce
needs OnceStack: as long as no event is made in a handler there is one walk, and no handler of
one() that is queued or attached has had any event. The native event of trigger()'s default
action has its walk on top whenever it is there, so nothing is ever called under
`triggered` (DefaultOnTop). BoundSound is about the lists: the delegates are in front and
counted (ListSound), which taking some of them out keeps because as many are counted down as
lay in front (DetachCounts).

**Modal.** ModalInv names the six things a dialog can be at (IsOpen, IsOpening, IsRecalled,
IsClosing, IsUncovered, IsShut) and for each what is on the page and exactly which callbacks
wait for the end of which fade: never more than two. Each method is shown to lead from one
of these to another (ShowKeeps, HideKeeps, HideModalKeeps), and so is the end of each fade,
for which the loops over what waits are worked out for one and two entries (CallOne,
CallTwo). A closing finished before the backdrop's fade would find two callbacks of
different openings waiting; the 300 and 150 ms of the two fades exclude it, which FadeEnds
says and ElementEnds uses. A show() before a closing is finished leaves these phases, hence
`reopened`.

**ScrollSpy.** The object measures the page only when its height has changed, so what it
lights depends on what it has `seen`. SpyInv: until the first event after a change it holds
another height, so that event measures; from then on it knows the visible sections and their
tops in order (`Knows`), and process() at the next event finds the right one, since with tops
in order there is one place at most where here lies between two of them.

**Tab.** TabInv: while panes fade, every function that waits waits for the one pane that was
active when the first click came (`WaitsFor`), and the last of them brings the pane of the
active tab. So the first end of that pane's fade, the browser's or a timer's, runs all of
them in order (RunEnds, shown stage by stage), and a later end finds nothing to do.

**Tooltip.** TipPhase names what a tip can be at, from its place in the document, its class
"in" and the ends it waits for: Up, Coming, Down, Going, Dead, and relates each to what
is `wanted` and to the one timer that may be set. Several ends may wait for the same fade;
the phase says which of them is the last one, since that decides what is left of the tip.
Every handler leads from a phase to one that agrees with what was asked for, unless a call
or a second showing crosses what has yet to end, which `crossed` says.

**Collapse.** Accordion: a panel Rests, Opens or Closes, its trigger says where to, what waits
for its transition is one end, and one panel at most is open or opens. The step that is not
obvious is show() when the open panel has no object: it hides the panel by a new one and then
removes that from the data, so the end of the closing belongs to an object that nobody finds
(GivenAway). The panel closes all the same (GivenIs), and the trigger is right at the end
because no constructor runs in between, which is what `blind` leaves aside. An object without
the parent finds no active panels, so what it opens is one more than before; that is
`beside`, until which at most one panel is open, while the triggers need nothing of the kind:
each panel's trigger is set by its own object.

**Only model-checked**, and why: BarriersOpen, FinishesAlone, AskedIsAnswered, PollingEnds,
PromisesKept, TimedRequestsEnd and ReadyInTime are liveness, which is out of the prover's
reach. SettledOnce, JobsTakeTurns and LastFadeHolds (deferreds, fx queues) are safety. In
both modules callbacks run inside library loops, which run inside callbacks, as in Events; but
there the pieces of code on the stack act on lists of one another (a deferred's three lists
and those of the deferreds it is piped to, an element's queue and the timers of all), so that
an invariant has to say what every piece may still do to every list, at every depth.

## Where the code and its promises disagree

1. **sync_stranded** - a fast process clears its counter (inference.cpp:1465) while a
   slower one, between two scans, has not seen the sum of barrier 2: it polls for ever,
   although everybody has reached the barrier (comment at processSync.cpp:173). What does
   hold: all get through barrier 1 and somebody gets through barrier 2.
2. **round_labels** - labels are stored in a mapping but not persisted before barrier 2
   (inference.cpp:990); a process that is faster by one iteration pulls the zeros of the
   file over the labels it had read.
3. **query_unfilled** - a threshold query sends as many entries as it counted
   (search.h:425), although the second search may have filled fewer.

Seen while modelling, and not a run of their own:

* Counters left by a killed launch enter the sums of the next (processSync.cpp:138 clears
  only its own): a process can leave barrier 1 too early. The theorems with kills are
  therefore about launches that found all counters at 0 (`clean`).
* A process that finds the barrier file between the master's open() and ftruncate() does
  not wait for its length (processSync.cpp:88-92 is only reached if stat() failed), maps
  an empty file and stores through NULL: pmem_map_file's result is compared with
  MAP_FAILED only. FoundFileIsMapped in MCProcessSync states the contrary.
* Viewer: a second Launch or Query before the first one's delay is over leaves an interval
  that nothing can clear (LSGiViewerController.js:265 writes over intervalID):
  OnlyKnownIntervalRuns is about starts that do not overlap. An answer of the last iteration
  of the job before ends the new job's polling (line 308 and behind it), and polling asks
  the environment, about the dataset, selected when it ticks (line 297): ChartsShowTheRun
  leaves aside runs during which another environment is selected. An answer with a status
  "error" has no environments, and selectEnvironment(0) fails on it (line 47).
* Charts lay bars out from the first to the last iteration *inserted* (BarChart.js:106-108):
  out of order, widths are wrong or negative. GaugeChart's moveTo(50) is given a percentage
  where it scales from 0 to 1.
* Settings: two saves of one file at once may leave the end of the longer one behind the
  shorter (LSGiSettingsController.java:131); a load answered after another file is selected
  is saved under that one's name.
* The factors of an edge: binaryGraphReader.h:31-37 lists fromEdge, toEdge and then the
  states (0, 0), (0, 1), (1, 0), (1, 1), and data/inputGraphs/README:4 the same;
  copyFactors2 (binaryGraphReader.cpp:238-256) gives the first state to the end with the
  smaller number. The converter keeps the ends in the order it is given
  (binaryConvertor/README has them ascending), so for an edge from a larger number to a
  smaller one the code takes the factor of (1, 0) for (0, 1) and back. The converter's own
  README lists the values (0, 0), (1, 0), ... of its text format, in which the first variable
  changes first, and they are copied as they come. IndexHoldsGraph holds with the file's
  description for edges with from < to, and for the others says only that both ends agree.
* readStatistics compares one load of an iteration and keeps another (search.h:206-207). If
  the engine publishes twice in between, the iteration sent with a response may be later
  than that of a partition read before, and with it what is counted there: NothingOlder
  compares what is counted with the iteration of its own partition, and the iteration sent with
  all others except for that case.
* jQuery: a request that a handler of ajaxSend aborts is sent all the same
  (jquery-1.7.2.js:7718), and so is one that a handler of ajaxStart aborts when it has no
  beforeSend, since only with one is its state looked at (7686). done(), which is to be
  "Called once" (7456), then runs again, its timer and answer are awaited, and jQuery.active
  is counted down twice, to -1 if nothing else is under way: `OverOnce` states the counter as
  long as that has not happened (`revived`).
  A handler of one() may get a nested event of its own type as well: it takes itself off
  when it runs, but is queued already.
* jQuery: stop() in the complete callback of a fade dequeues, and so does the fade behind its
  callback (8683-8684, 8751-8752): two jobs run, and if the fade was not to be finished its
  starting value stays in the fxshow data for the next one. stop(true) during a delay
  empties the queue first (8635-8636); its dequeue takes the hook away, stop() does not find
  it, and the timeout still comes. stop(false, true) during a delay with a fade outside the
  queue stops the delay and dequeues nothing (8658-8659, 8683). The loop of stop() keeps its index
  while callbacks run: stop() in the callback of a fade that stop(.., true) finishes takes off
  another element's timer, whose queue then never goes on, or fails at 8667 when no timer is
  there any more. FxQueue does all this; the properties except the elements it happens to
  (`misused`, `lost`).
* Bootstrap: of a panel that is first used by collapse('show') or collapse('hide') the object
  has no parent, since data-parent is an attribute of the trigger and not of the panel
  (bootstrap.js:555-559, 672, 706); shown by it, also by a later click of its trigger, the panel opens
  beside the one that is open. OnePanelOpen leaves that aside (`beside`).
* Bootstrap: pause() in a handler of "slide" is lost, as slide() cycles again behind it
  (bootstrap.js:430); show() of a modal before its closing is over leaves it half open;
  a tooltip that turns round twice in one fade may be left out of the document.
* With `generate_statistics` off there is one convergence sample, yet the main thread reads
  samples by iteration all the same (inference.cpp:670-677), past the array: SamplesWhole
  holds with statistics on only.
* A partition file without a newline at its end is refused by an assert
  (binaryGraphReader.h:146), while data/inputGraphs/README:13 asks only for the number of
  lines. FileJudged is therefore about files that end with a newline.
* "Evenly partitioned" (data/config/README:22): the last worker takes the whole remainder
  of the division (inference.cpp:485), up to T - 1 vertices more than the others, and with
  fewer vertices than workers all of them.
* A process that is told a graph with fewer vertices than processes returns
  (inference.cpp:1442-1445) while others may already wait for barrier 1.
* A vertex without an edge has a place nobody fills, yet is sampled from it: its unary
  factors only come with edges (TopologyIndex; binaryGraphReader.cpp).
* The service ends for everybody when one client resets its connection (ServerSocket.h:128,
  and SIGPIPE at the writes of search.h), and a client whose connection ends early goes on
  with an empty buffer. A stop request takes effect behind the next connection, which it
  may cut off; of the clients here only the Java QueryClient sends one.
* LSGiController keeps the stream of the file it reads in a field (`in`) that requests
  share (LSGiController.java:147).
* Scrollspy measures again when the height has changed but judges by the places from before
  (bootstrap.js:1952-1973), so the link is right from the next event on; when no section is
  left, the last link stays lit. Tabs clicked faster than a pane fades leave two panes
  active, and a function that may take away a later one (bootstrap.js:2117).
* Workers seed their generators with ITER, which the main thread sets after creating them
  (inference.cpp:537): the seed is not certain from run to run.

## What is not modelled

* **Gibbs kernel**: floating-point products and random numbers; when it runs and on which
  versions of the states is in InferenceRound.
* **Configuration and driver**: parsing of one line; its results are constants.
* **Graph converter, deployment scripts**: sequential, no run-time state shared with
  anything. **FAM tests**: test programs.
* **Gauge and pie chart, messages, animated counters**: what they draw follows from one
  value. **Web service**: the ssh commands and encodings; what it answers is an input.
* **The libraries' sequential parts**: selectors, DOM, attributes, CSS, headers and
  conversions of requests, special and inline events; Bootstrap's Alert, Button, Dropdown
  and Affix, and the focus of a modal. Functions of a document that TLC would
  need character by character. **The minified libraries** (AngularJS, D3, TweenLite,
  Underscore, jQuery 2.0.1): third parties' code in a form nobody reads.
* **Host lists and ssh** of the launch and kill scripts: Launch starts all processes,
  Kill ends any.
* **What clients print, the Java client's conversions from bytes**; labels that are only
  set for vertices the labels file names (inference.cpp:876).

## Plan

Done: PhaseBarrier, ProcessSync, EngineStartup, PublishedFiles, InferenceRound,
WorkPartition, TopologyIndex, QueryService, QueryServer, LSGiViewer, Charts, SettingsPage,
TipPlacement, Ajax, Events, Carousel, CallbackLists, Callbacks, Modal, Tooltip, Collapse,
ScrollSpy and Tab, with their proofs; Deferred, FxQueue and Ready, model-checked. In order of
what they would tell next:

1. **Proofs for the rest of jQuery**: Deferred on top of the callback lists (SettledOnce),
   then FxQueue.
2. **Composition**: EngineStartup with InferenceRound's first iteration, so that the labels'
   way from readPriors to FAM is in one module.
3. **More proofs**: QueryService for partitions of different sizes; the PublishedFiles
   promise strengthened by the states files.
4. **Bootstrap's Affix and Dropdown**, the last of its components that keep something
   between two events.

The runs are kept few, so that the whole suite takes minutes: a new module gets a passing
run of its own, and a disagreement that is understood and described above gives up its run
to a new one.
