------------------------------- MODULE MCQueries -------------------------------
(* The query service for TLC: queries against files the engine publishes, and *)
(* the connections they come by.  A thread of QueryServer runs one query; the *)
(* two share no state, so a behaviour follows one part.                       *)
(*                                                                            *)
(* Queries of every kind, while the engine is in its first iterations; and    *)
(* those for the statistics and the count alone, of which a partition may get *)
(* two iterations on between two loads.  What others do between two queries   *)
(* they may as well do before the first of them: nothing is left of a query   *)
(* when the next one is received.  What is loaded only once, as by a count,   *)
(* may as well be fetched late as be dropped and fetched again; the mark is   *)
(* not loaded at all by one.                                                  *)
EXTENDS MCQueryService, QueryServer

VARIABLE half

SearchIters == 1     \* bound: iterations of the engine when there are searches

QueriesInit ==
  /\ half \in {"answers", "counts", "connections"}
  /\ Init
  /\ ServerInit /\ (half # "connections" => \A c \in Conn : newsockfd <= c)

UnderWay == pc # "idle" \/ minIter = LargeIter

Early == \A p \in Proc : mark'[p] <= SearchIters /\ \A i \in Index : dist'[p][i] <= SearchIters

QueriesNext ==
  /\ UNCHANGED half
  /\ \/ half = "answers"     /\ QueryStep                   /\ UNCHANGED serverVars
     \/ half = "counts"      /\ QueryStep /\ type' = "stats" /\ UNCHANGED serverVars
     \/ half = "answers"     /\ UnderWay /\ Evict           /\ UNCHANGED serverVars
     \/ half # "connections" /\ UnderWay /\ Fetch /\ (half = "counts" => UNCHANGED cachedMark)
                                                            /\ UNCHANGED serverVars
     \/ half # "connections" /\ UnderWay /\ Publish /\ (half = "answers" => Early)
                                                            /\ UNCHANGED serverVars
     \/ half = "connections" /\ ServerNext                  /\ UNCHANGED vars

\* The fairness is of the connections: what is checked of the answers are invariants.
QueriesSpec == QueriesInit /\ [][QueriesNext]_<<half, vars, serverVars>> /\ ServerFairness
=============================================================================
