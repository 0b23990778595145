---------------------------- MODULE PublishedFiles ----------------------------
(***************************************************************************)
(* What the engine promises to those who read its files in FAM while it    *)
(* samples: how far the probabilities of the segments of a partition, the  *)
(* mark behind them (the .pdist file) and the iteration in the .stats file *)
(* may be apart.  Nothing goes back, and nothing is ahead of what it is    *)
(* about.                                                                  *)
(***************************************************************************)
EXTENDS Integers

CONSTANTS Proc,      \* the partitions
          Segment,   \* the parts of a partition
          Iters      \* the last iteration

VARIABLES dist,      \* dist[q][w]: the iteration of the probabilities of segment w
          mark,      \* mark[q]: the iteration at the end of the .pdist file
          stat       \* stat[q]: the iteration in the .stats file

vars == <<dist, mark, stat>>

Version == 0 .. Iters

Init ==
  /\ dist = [q \in Proc |-> [w \in Segment |-> 0]]
  /\ mark = [q \in Proc |-> 0]
  /\ stat = [q \in Proc |-> 0]

\* The mark is at most one iteration away from any of the probabilities; the
\* statistics are not ahead of the mark, nor of any of the probabilities.
Promise(d, m, s) ==
  /\ s <= m
  /\ \A w \in Segment : s <= d[w] /\ d[w] \in m - 1 .. m + 1

Publish(q) ==
  \E d \in [Segment -> Version], m, s \in Version :
    /\ \A w \in Segment : dist[q][w] <= d[w]
    /\ mark[q] <= m
    /\ stat[q] <= s
    /\ Promise(d, m, s)
    /\ dist' = [dist EXCEPT ![q] = d]
    /\ mark' = [mark EXCEPT ![q] = m]
    /\ stat' = [stat EXCEPT ![q] = s]

Next == \E q \in Proc : Publish(q)

Spec == Init /\ [][Next]_vars

=============================================================================
