--------------------------------- MODULE Ajax ---------------------------------
(* jQuery.ajax of jQuery 1.7.2 over its XMLHttpRequest transport: requests    *)
(* that are refused by beforeSend, answered, timed out and aborted, and the   *)
(* global counter of those that are active.                                   *)
(*                                                                            *)
(* A request is over when done() is called, by the answer, by the timeout, by *)
(* abort() or by a failure to send, whichever comes first.  Code of the user  *)
(* runs in between: prefilters, beforeSend, the handlers of the global events *)
(* and the callbacks may start requests and abort any of them.  ajaxCode is   *)
(* what the running functions have still to do, as in FxQueue; callbacks that *)
(* are called one after the other with nothing between them share one turn.   *)
(*                                                                            *)
(* Left out: headers, caching, the conversion of the data, whose failure is   *)
(* an answer that is no success.                                              *)
EXTENDS Integers, Sequences, FiniteSets

CONSTANTS
    Requests,
    Watched     \* the requests that get callbacks for their status

ASSUME AjaxAssumption == Watched \subseteq Requests

VARIABLES
    options,   \* options[r]: [global, timeout]
    xstate,    \* xstate[r]: the jqXHR's state 0, 1, 2; -1 before the call of ajax()
    transport, \* transport[r] is set
    xhr,       \* xhr[r]: its callback is "unset", waiting ("open") or "called"
    timeout,   \* timeout[r]: timeoutTimer is pending in the browser
    globals,   \* globals[r]: fireGlobals
    active,    \* jQuery.active
    outcome,   \* outcome[r]: of the deferred
    coded,     \* coded[r]: of the callbacks for its status: "none" given, "held" or "run"
    collects,  \* collects[r]: the statusCode map that holds them is there
    completed, \* completed[r]: how often the complete callbacks were run
    ajaxCode,
    begun,     \* history: ajaxStart events without an ajaxStop
    refused,   \* history: requests aborted before they were over
    revived    \* history: requests that were sent although they were over

requestVars == <<options, xstate, transport, xhr, timeout, globals>>
codeVars    == <<coded, collects>>
ajaxVars    == <<requestVars, codeVars, active, outcome, completed, ajaxCode, begun, refused, revived>>

AjaxUser == <<"user">>

AjaxInit ==
    /\ options \in [Requests -> [global : BOOLEAN, timeout : BOOLEAN]]
    /\ xstate = [r \in Requests |-> -1]
    /\ transport = [r \in Requests |-> FALSE] /\ xhr = [r \in Requests |-> "unset"]
    /\ timeout = [r \in Requests |-> FALSE] /\ globals = [r \in Requests |-> FALSE]
    /\ active = 0
    /\ outcome = [r \in Requests |-> "pending"] /\ completed = [r \in Requests |-> 0]
    /\ coded = [r \in Requests |-> "none"] /\ collects = [r \in Requests |-> TRUE]
    /\ ajaxCode = << >> /\ begun = 0 /\ refused = {} /\ revived = {}

AjaxGoes(next) == ajaxCode' = next \o Tail(ajaxCode)

-----------------------------------------------------------------------------
(* done().                                                                   *)

Finished(r, ok) ==
    IF xstate[r] = 2 THEN << >>
    ELSE << <<"settle", r, ok>>, AjaxUser, <<"codes", r>>, <<"complete", r>>, AjaxUser, <<"uncount", r>> >>

\* Mutant: the timer goes on.
DoneTicking(r) ==
    /\ xstate'    = [xstate EXCEPT ![r] = 2]
    /\ transport' = [transport EXCEPT ![r] = IF xstate[r] = 2 THEN @ ELSE FALSE]
    /\ UNCHANGED timeout

\* Its first lines: the state, the timer and the transport.
Done(r) ==
    /\ xstate'    = [xstate EXCEPT ![r] = 2]
    /\ timeout'   = [timeout EXCEPT ![r] = IF xstate[r] = 2 THEN @ ELSE FALSE]
    /\ transport' = [transport EXCEPT ![r] = IF xstate[r] = 2 THEN @ ELSE FALSE]

\* The deferred takes the first outcome.
SettleRequest(r, ok) ==
    /\ outcome' = [outcome EXCEPT ![r] = IF @ # "pending" THEN @
                                         ELSE IF ok THEN "success" ELSE "error"]
    /\ AjaxGoes(<< >>)
    /\ UNCHANGED <<requestVars, active, completed, begun>>

\* The held callbacks for the status are added to the deferred, which runs them.
\* They share the turn of the complete callbacks; the map is dropped.
RunCodes(r) ==
    /\ coded'    = [coded EXCEPT ![r] = IF @ = "held" /\ collects[r] THEN "run" ELSE @]
    /\ collects' = [collects EXCEPT ![r] = FALSE]
    /\ AjaxGoes(<< >>)
    /\ UNCHANGED <<requestVars, active, outcome, completed, begun>>

\* completeDeferred fires once.
CompleteRequest(r) ==
    /\ completed' = [completed EXCEPT ![r] = IF @ = 0 THEN 1 ELSE @]
    /\ AjaxGoes(<< >>)
    /\ UNCHANGED <<requestVars, active, outcome, begun>>

Uncount(r) ==
    /\ IF globals[r]
       THEN /\ active' = active - 1
            /\ begun' = IF active' = 0 THEN begun - 1 ELSE begun
            /\ AjaxGoes(IF active' = 0 THEN <<AjaxUser>> ELSE << >>)
       ELSE /\ AjaxGoes(<< >>)
            /\ UNCHANGED <<active, begun>>
    /\ UNCHANGED <<requestVars, outcome, completed>>

-----------------------------------------------------------------------------
(* ajax().                                                                   *)

\* After the prefilters: nothing more of a request that they aborted; the first
\* active one is announced.
Open(r) ==
    /\ IF xstate[r] = 2
       THEN AjaxGoes(<< >>) /\ UNCHANGED <<globals, active, begun>>
       ELSE /\ globals' = [globals EXCEPT ![r] = options[r].global]
            /\ active' = IF options[r].global THEN active + 1 ELSE active
            /\ begun'  = IF options[r].global /\ active = 0 THEN begun + 1 ELSE begun
            /\ AjaxGoes(<<AjaxUser, <<"sendable", r, options[r].global /\ active = 0>> >>)
    /\ UNCHANGED <<options, xstate, transport, xhr, timeout, outcome, completed>>

\* beforeSend has answered false, or the request is over: nothing more than that.
\* Otherwise the transport is looked for, and without one the request is over.
\* Without a beforeSend nobody asks whether a handler of ajaxStart, if there was that
\* event (started), has aborted it: it goes on, and the callbacks of its options,
\* which are added here, are called at once.  ajaxSend is an event of global ones.
Sendable(r, started) ==
    /\ \/ /\ Done(r)
          /\ AjaxGoes(Finished(r, FALSE))
          /\ UNCHANGED <<options, xhr, globals>>
       \/ /\ xstate[r] = 2 => started
          /\ transport' = [transport EXCEPT ![r] = TRUE]
          /\ AjaxGoes(IF xstate[r] = 2 THEN <<AjaxUser, <<"ajaxSend", r>>, <<"send", r>> >>
                      ELSE IF globals[r] THEN << <<"ajaxSend", r>>, <<"send", r>> >>
                      ELSE << <<"send", r>> >>)
          /\ UNCHANGED <<options, xstate, xhr, timeout, globals>>
    /\ UNCHANGED <<active, outcome, completed, begun>>

\* Mutant: no timer is started.
NoTimer(r) == UNCHANGED timeout

StartTimer(r) == timeout' = [timeout EXCEPT ![r] = options[r].timeout]

\* The transport's send(): the callback waits for the answer, or is called here for
\* one that is there already, from the cache; or the browser throws.
TransportSend(r) ==
    \/ /\ xhr' = [xhr EXCEPT ![r] = "open"]
       /\ AjaxGoes(<< >>)
    \/ /\ xhr' = [xhr EXCEPT ![r] = "called"]
       /\ \E ok \in BOOLEAN : AjaxGoes(<< <<"done", r, ok>> >>)
    \/ /\ AjaxGoes(<< <<"done", r, FALSE>> >>)
       /\ UNCHANGED xhr

\* The handlers of ajaxSend have had their turn: the timer is started, the state
\* set and the transport used, whatever they have done: one that was over is under
\* way again.  It fails when there is no transport any more.
Send(r) ==
    /\ StartTimer(r)
    /\ revived' = IF xstate[r] = 2 THEN revived \union {r} ELSE revived
    /\ xstate' = [xstate EXCEPT ![r] = 1]
    /\ \/ transport[r] /\ TransportSend(r)
       \/ ~transport[r] /\ AjaxGoes(<< <<"done", r, FALSE>> >>) /\ UNCHANGED xhr
    /\ UNCHANGED <<options, transport, globals, active, outcome, completed, begun>>

DoneWith(r, ok) ==
    /\ Done(r) /\ AjaxGoes(Finished(r, ok))
    /\ UNCHANGED <<options, xhr, globals, active, outcome, completed, begun>>

\* A turn of the user, or of the handlers of ajaxSend, is over.
TurnOver == AjaxGoes(<< >>) /\ UNCHANGED <<requestVars, active, outcome, completed, begun>>

RunAjax ==
    /\ ajaxCode # << >>
    /\ LET op == Head(ajaxCode)
       IN  \/ op[1] \in {"user", "ajaxSend"} /\ TurnOver
           \/ op[1] = "open"     /\ Open(op[2])
           \/ op[1] = "sendable" /\ Sendable(op[2], op[3])
           \/ op[1] = "send"     /\ Send(op[2])
           \/ op[1] = "done"     /\ DoneWith(op[2], op[3])
           \/ op[1] = "settle"   /\ SettleRequest(op[2], op[3])
           \/ op[1] = "codes"    /\ RunCodes(op[2])
           \/ op[1] = "complete" /\ CompleteRequest(op[2])
           \/ op[1] = "uncount"  /\ Uncount(op[2])
    /\ Head(ajaxCode)[1] # "codes" => UNCHANGED codeVars
    /\ Head(ajaxCode)[1] # "send" => UNCHANGED revived
    /\ UNCHANGED refused

-----------------------------------------------------------------------------
(* What starts code: users, the browser's timers, the server's answers.      *)

AjaxTurn == IF ajaxCode = << >> THEN TRUE ELSE Head(ajaxCode)[1] \in {"user", "ajaxSend"}

\* The prefilters have the first turn.
Request(r) ==
    /\ AjaxTurn /\ xstate[r] = -1
    /\ xstate' = [xstate EXCEPT ![r] = 0]
    /\ ajaxCode' = <<AjaxUser, <<"open", r>> >> \o ajaxCode
    /\ UNCHANGED <<options, transport, xhr, timeout, globals, active, outcome, completed,
                   codeVars, begun, refused, revived>>

\* statusCode(map), for the status the request will have or has: held until it is
\* over and run at once after that.  Of a request that is under way again the map is
\* gone, and the call fails.
StatusCode(r) ==
    /\ AjaxTurn /\ r \in Watched /\ xstate[r] # -1 /\ coded[r] = "none"
    /\ xstate[r] = 1 => collects[r]
    /\ coded' = [coded EXCEPT ![r] = IF xstate[r] < 2 THEN "held" ELSE "run"]
    /\ UNCHANGED <<requestVars, collects, active, outcome, completed, ajaxCode, begun, refused,
                   revived>>

\* abort(): the transport's callback is told, and done() called.
AbortRequest(r) ==
    /\ xhr' = [xhr EXCEPT ![r] = IF transport[r] /\ @ = "open" THEN "called" ELSE @]
    /\ Done(r)
    /\ ajaxCode' = Finished(r, FALSE) \o ajaxCode
    /\ UNCHANGED <<options, globals, codeVars, active, outcome, completed, begun>>

Abort(r) ==
    /\ AjaxTurn /\ xstate[r] # -1 /\ xstate[r] # 2
    /\ AbortRequest(r)
    /\ refused' = refused \union {r}
    /\ UNCHANGED revived

TimedOut(r) ==
    /\ ajaxCode = << >> /\ timeout[r]
    /\ xhr' = [xhr EXCEPT ![r] = IF transport[r] /\ @ = "open" THEN "called" ELSE @]
    /\ xstate'    = [xstate EXCEPT ![r] = 2]
    /\ timeout'   = [timeout EXCEPT ![r] = FALSE]
    /\ transport' = [transport EXCEPT ![r] = FALSE]
    /\ ajaxCode' = Finished(r, FALSE)
    /\ refused' = IF xstate[r] = 2 THEN refused ELSE refused \union {r}
    /\ UNCHANGED <<options, globals, codeVars, active, outcome, completed, begun, revived>>

Answered(r) ==
    /\ ajaxCode = << >> /\ xhr[r] = "open"
    /\ xhr' = [xhr EXCEPT ![r] = "called"]
    /\ \E ok \in BOOLEAN : ajaxCode' = << <<"done", r, ok>> >>
    /\ UNCHANGED <<options, xstate, transport, timeout, globals, active, outcome, completed,
                   codeVars, begun, refused, revived>>

AjaxNext == \/ RunAjax
            \/ \E r \in Requests : Request(r) \/ StatusCode(r) \/ Abort(r)
            \/ \E r \in Requests : TimedOut(r) \/ Answered(r)

\* Running code comes to its end and the timers fire; answers may never come.
AjaxFairness == /\ WF_ajaxVars(RunAjax)
                /\ \A r \in Requests : WF_ajaxVars(TimedOut(r))

AjaxSpec == AjaxInit /\ [][AjaxNext]_ajaxVars /\ AjaxFairness

-----------------------------------------------------------------------------
(* Properties.                                                               *)

\* A request that was aborted or timed out first is no success any more, its
\* complete callbacks run once and those for its status have run, and when no code is
\* running a request that is over has no timer left to abort it again.  jQuery.active
\* then counts the requests that fire global events and are not over, and ajaxStart
\* and ajaxStop take turns, so that an indicator of activity is right.  That holds
\* until one is sent that was aborted before, by a handler of ajaxSend (line 7718) or,
\* without a beforeSend, of ajaxStart (7686): done() then runs for it again, although
\* it is to be "called once" (7456), and counts it down a second time.
OverOnce ==
    /\ \A r \in Requests :
         /\ outcome[r] = "success" => r \notin refused
         /\ completed[r] = 1 => outcome[r] # "pending"
    /\ ajaxCode = << >> =>
         \A r \in Requests :
            /\ xstate[r] = 2 => completed[r] = 1
            /\ completed[r] = 1 => xstate[r] = 2 \/ r \in revived
            /\ xstate[r] = 2 => coded[r] # "held"
            /\ xstate[r] = 2 => ~timeout[r] /\ xhr[r] # "open"
    /\ revived = {} =>
         /\ begun \in {0, 1}
         /\ begun = 1 <=> active > 0
    /\ revived = {} /\ ajaxCode = << >> =>
         active = Cardinality({r \in Requests : globals[r] /\ xstate[r] = 1})

\* A request with a timeout is over some time, whether an answer comes or not.
TimedRequestsEnd ==
    \A r \in Requests : xstate[r] = 1 /\ options[r].timeout ~> xstate[r] = 2
=============================================================================
