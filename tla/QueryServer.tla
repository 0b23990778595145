------------------------------ MODULE QueryServer ------------------------------
(***************************************************************************)
(* The connections of the query service: StartServer and doQuery of        *)
(* ServerSocket.h, and its clients (clientSocket.h, and ClientSocket.java, *)
(* which reads the same pieces).  The main thread accepts connections and  *)
(* starts a detached thread for each.  A client that goes away, a failing  *)
(* read or a stop request may end the whole process; clients take the end  *)
(* of a connection for an answer.  What is answered is in QueryService.    *)
(*                                                                         *)
(* A request, and each piece of an answer but the entries, is smaller than *)
(* a segment and read whole.  The entries go out in one write, which is    *)
(* not signalled once it has begun, and a client may take a part of them.  *)
(***************************************************************************)
EXTENDS Naturals, Sequences

CONSTANT Conn    \* bound: the sockets open at a time; newsockfd is one of them

Types == {"vid", "threshold", "stats", "stop", "other"}
Nothing == "nothing"   \* what a read at the end of a connection leaves in the buffer
NoRequest == "none"

VARIABLES
  at,           \* the main thread: "loop", "accept", or "ended" with the process
  runningFlag,
  newsockfd,
  backlog,      \* connections not accepted yet, the oldest first
  thread,       \* of each connection: "none", "started", "read", "write"
  socketFd,     \* doQuery's socketFd
  todo,         \* what doQuery has still to write
  open,         \* the service's end of the connection is open
  inbox,        \* the request, until it is read
  outbox,       \* what has been written and not been read
  client,       \* "connected", "asking", "done", "dead" or "reset"
  asked,        \* request.type of the client
  took,         \* what the client has read of the answer
  lost          \* history: a client has died since the service was started

mainVars == <<at, runningFlag, newsockfd, backlog>>
threadVars == <<thread, socketFd, todo>>
wireVars == <<open, inbox, outbox>>
clientVars == <<client, asked, took>>
serverVars == <<mainVars, threadVars, wireVars, clientVars, lost>>

ServerInit ==
  /\ at = "loop" /\ runningFlag = TRUE /\ newsockfd \in Conn /\ backlog = << >>
  /\ thread = [c \in Conn |-> "none"]
  /\ socketFd = [c \in Conn |-> c] /\ todo = [c \in Conn |-> << >>]
  /\ open = [c \in Conn |-> FALSE]
  /\ inbox = [c \in Conn |-> NoRequest] /\ outbox = [c \in Conn |-> << >>]
  /\ client = [c \in Conn |-> "done"]
  /\ asked = [c \in Conn |-> "other"] /\ took = [c \in Conn |-> << >>]
  /\ lost = FALSE

-----------------------------------------------------------------------------
(* The process *)

\* exit() or the return of main: all threads are gone.  What has been written may
\* still arrive, or be dropped by a reset.
EndService ==
  /\ at' = "ended" /\ backlog' = << >>
  /\ thread' = [c \in Conn |-> "none"] /\ todo' = [c \in Conn |-> << >>]
  /\ open' = [c \in Conn |-> FALSE] /\ inbox' = [c \in Conn |-> NoRequest]
  /\ \E kept \in SUBSET Conn :
       outbox' = [c \in Conn |-> IF c \in kept THEN outbox[c] ELSE << >>]
  /\ UNCHANGED <<runningFlag, newsockfd, socketFd, clientVars, lost>>

TestFlag ==
  /\ at = "loop"
  /\ \/ /\ runningFlag
        /\ at' = "accept"
        /\ UNCHANGED <<runningFlag, newsockfd, backlog, threadVars, wireVars, clientVars, lost>>
     \/ ~runningFlag /\ EndService

Accept ==
  /\ at = "accept" /\ backlog # << >>
  /\ newsockfd' = Head(backlog) /\ backlog' = Tail(backlog)
  /\ thread' = [thread EXCEPT ![newsockfd'] = "started"]
  /\ at' = "loop"
  /\ UNCHANGED <<runningFlag, socketFd, todo, wireVars, clientVars, lost>>

\* The next launch starts a service again.
Restart ==
  /\ at = "ended"
  /\ at' = "loop" /\ runningFlag' = TRUE /\ lost' = FALSE
  /\ UNCHANGED <<newsockfd, backlog, threadVars, wireVars, clientVars>>

-----------------------------------------------------------------------------
(* A thread, in doQuery *)

\* Mutant: the thread is given the address of newsockfd.
SharedSocket(c) == newsockfd

\* What arg points to: a cell of the thread's own.
SocketOf(c) == c

TakeSocket(c) ==
  /\ thread[c] = "started"
  /\ socketFd' = [socketFd EXCEPT ![c] = SocketOf(c)]
  /\ thread' = [thread EXCEPT ![c] = "read"]
  /\ UNCHANGED <<mainVars, todo, wireVars, clientVars, lost>>

\* What is written for a request.  The number found decides between two answers.
Replies(t) ==
  CASE t = "vid" -> {<<"state", "stats">>}
    [] t = "stats" -> {<<"stats">>}
    [] t = "threshold" -> {<<"stats", "zero">>, <<"stats", "counter", "entries">>}
    [] OTHER -> {<< >>}

\* At the end of a connection read() returns 0, and the request is the type 0 it
\* was cleared to.
ReadRequest(c) ==
  LET s == socketFd[c] IN
  /\ thread[c] = "read"
  /\ inbox[s] # NoRequest \/ client[s] \in {"done", "dead"}
  /\ \E r \in Replies(inbox[s]) : todo' = [todo EXCEPT ![c] = r]
  /\ runningFlag' = (runningFlag /\ inbox[s] # "stop")
  /\ inbox' = [inbox EXCEPT ![s] = NoRequest]
  /\ thread' = [thread EXCEPT ![c] = "write"]
  /\ UNCHANGED <<at, newsockfd, backlog, socketFd, open, outbox, clientVars, lost>>

\* error("ERROR reading from socket") ends the process.
FailToRead(c) ==
  LET s == socketFd[c] IN
  /\ thread[c] = "read" /\ inbox[s] = NoRequest /\ client[s] = "reset"
  /\ EndService

Writing(c) == thread[c] = "write" /\ todo[c] # << >>

WritePiece(c) ==
  LET s == socketFd[c] IN
  /\ Writing(c)
  /\ todo' = [todo EXCEPT ![c] = Tail(@)]
  /\ \/ /\ client[s] \in {"connected", "asking"}
        /\ outbox' = [outbox EXCEPT ![s] = Append(@, Head(todo[c]))]
        /\ UNCHANGED client
     \/ \* The peer has gone; write's result is not looked at, and a reset comes back.
        /\ client[s] \in {"done", "dead", "reset"}
        /\ client' = [client EXCEPT ![s] = "reset"]
        /\ UNCHANGED outbox
  /\ UNCHANGED <<mainVars, thread, socketFd, open, inbox, asked, took, lost>>

\* SIGPIPE, which nobody handles.
WriteToReset(c) == Writing(c) /\ client[socketFd[c]] = "reset" /\ EndService

CloseSocket(c) ==
  /\ thread[c] = "write" /\ todo[c] = << >>
  /\ open' = [open EXCEPT ![socketFd[c]] = FALSE]
  /\ thread' = [thread EXCEPT ![c] = "none"]
  /\ UNCHANGED <<mainVars, socketFd, todo, inbox, outbox, clientVars, lost>>

ThreadStep(c) == TakeSocket(c) \/ ReadRequest(c) \/ FailToRead(c)
                   \/ WritePiece(c) \/ WriteToReset(c) \/ CloseSocket(c)

-----------------------------------------------------------------------------
(* Clients *)

\* The service listens.  A socket is used again when both ends are closed.
Connect(c) ==
  /\ at # "ended" /\ ~open[c] /\ thread[c] = "none"
  /\ client[c] \in {"done", "dead", "reset"}
  /\ client' = [client EXCEPT ![c] = "connected"]
  /\ open' = [open EXCEPT ![c] = TRUE]
  /\ inbox' = [inbox EXCEPT ![c] = NoRequest] /\ outbox' = [outbox EXCEPT ![c] = << >>]
  /\ asked' = [asked EXCEPT ![c] = "other"] /\ took' = [took EXCEPT ![c] = << >>]
  /\ backlog' = Append(backlog, c)
  /\ UNCHANGED <<at, runningFlag, newsockfd, threadVars, lost>>

\* doQuery of the client: has it read all that it reads for a request of type t?
Finished(t, pieces) ==
  CASE t = "vid" -> Len(pieces) = 2
    [] t = "stats" -> Len(pieces) = 1
    [] t = "threshold" -> \/ Len(pieces) = 3
                          \/ Len(pieces) = 2 /\ pieces[2] \in {"zero", Nothing}
    [] OTHER -> TRUE

\* A client that has finished closes its socket.
Proceed(c, t, pieces) ==
  client' = [client EXCEPT ![c] = IF Finished(t, pieces) THEN "done" ELSE "asking"]

Send(c) ==
  /\ client[c] = "connected"
  /\ \E t \in Types :
       /\ asked' = [asked EXCEPT ![c] = t]
       /\ inbox' = [inbox EXCEPT ![c] = IF open[c] THEN t ELSE NoRequest]
       /\ Proceed(c, t, << >>)
  /\ UNCHANGED <<mainVars, threadVars, open, outbox, took, lost>>

Take(c, piece) ==
  /\ took' = [took EXCEPT ![c] = Append(@, piece)]
  /\ Proceed(c, asked[c], took'[c])
  /\ UNCHANGED <<mainVars, threadVars, open, inbox, asked, lost>>

ReadAnswer(c) ==
  /\ client[c] = "asking" /\ outbox[c] # << >>
  /\ Take(c, Head(outbox[c]))
  /\ outbox' = [outbox EXCEPT ![c] = Tail(@)]

\* read() returns 0, which no client tells from an answer.
ReadEnd(c) ==
  /\ client[c] = "asking" /\ outbox[c] = << >> /\ ~open[c]
  /\ Take(c, Nothing)
  /\ UNCHANGED outbox

\* A client is killed, or its host is.
Die(c) ==
  /\ client[c] \in {"connected", "asking"}
  /\ \E how \in {"dead", "reset"} : client' = [client EXCEPT ![c] = how]
  /\ outbox' = [outbox EXCEPT ![c] = << >>]
  /\ asked' = [asked EXCEPT ![c] = "other"] /\ took' = [took EXCEPT ![c] = << >>]
  /\ lost' = TRUE
  /\ UNCHANGED <<mainVars, threadVars, open, inbox>>

ClientRead(c) == ReadAnswer(c) \/ ReadEnd(c)

MainStep == TestFlag \/ Accept

ServerNext ==
  \/ MainStep \/ Restart
  \/ \E c \in Conn : ThreadStep(c) \/ ClientRead(c) \/ Connect(c) \/ Send(c) \/ Die(c)

\* The service's threads run, and a client that has asked reads.  Users may leave
\* a client connected without a request for ever.
ServerFairness ==
  /\ WF_serverVars(MainStep)
  /\ \A c \in Conn : WF_serverVars(ThreadStep(c)) /\ WF_serverVars(ClientRead(c))

ServerSpec == ServerInit /\ [][ServerNext]_serverVars /\ ServerFairness

-----------------------------------------------------------------------------
(***************************************************************************)
(* Properties                                                              *)
(***************************************************************************)
Answered(c) == client[c] = "done" /\ took[c] \in Replies(asked[c])

\* Whoever has sent a request gets the whole answer to it, whatever the other clients
\* do: connect and say nothing, or ask while the answer is being written.  Only its own
\* death and the end of the service are in its way, and the service does not end
\* unless it was told to or a client has died.
AskedIsAnswered ==
  \A c \in Conn :
    client[c] = "asking" /\ open[c]
      ~> \/ Answered(c)
         \/ client[c] \in {"dead", "reset"}
         \/ at = "ended" /\ (~runningFlag \/ lost)
=============================================================================
