----------------------------- MODULE TopologyIndex -----------------------------
(***************************************************************************)
(* The topology index a process samples from (getEdgeNeigbornsCounter,     *)
(* getNeigborns and copyFactors2 of binaryGraphReader.cpp; buildTopology   *)
(* and get_sample of inference.cpp).  The edges are read twice: once to    *)
(* count the neighbours of every vertex, which gives each vertex of the    *)
(* process its place in one array, and once to fill the array.  A place is *)
(* the vertex's unary factors and then one block per edge: the factors     *)
(* with the vertex's own state first, and the neighbour.                   *)
(*                                                                         *)
(* Nothing marks the end of a place: one entry too many would overwrite    *)
(* the next vertex, one too few would leave malloc's bytes to be sampled.  *)
(***************************************************************************)
EXTENDS Integers, Sequences, FiniteSets

CONSTANTS NumVertices,   \* num_of_nodes
          MaxEdges       \* bound: edges in the graph file

ASSUME GraphAssumption == NumVertices \in Nat \ {0} /\ MaxEdges \in Nat

Node == 0 .. NumVertices - 1
States == {0, 1}

\* A vertex has two states, an edge a factor for each pair of states.
numVars == 2
numEdgeFactors == numVars * numVars
topologySizeByVertex == numEdgeFactors + 1

VARIABLES
  edges,         \* the graph file: pairs of vertices
  from, to,      \* startThreadIndex and endThreadIndex of this process
  phase,         \* "count", "layout", "fill", or "built"
  iEdge,         \* iEdgeCounter: the edges read so far
  side,          \* i of getNeigborns: the end of the edge it is at, from 1 here
  factorCount,   \* factor_count_arr
  iVertex,       \* i of buildTopology
  firstOffset,   \* first_factor_offset; 0 for vertices of other processes
  localSize,     \* localTopologySize
  startIndexes,  \* start_indexes: the blocks of a vertex filled so far
  topology       \* topology_array

fileVars == <<edges, from, to>>
layoutVars == <<factorCount, iVertex, firstOffset, localSize>>
graphVars == <<fileVars, phase, iEdge, side, layoutVars, startIndexes, topology>>

\* What a slot of the array holds: factor f of edge e, a vertex, or what malloc left.
Unary(e, f) == <<"unary", e, f>>
Factor(e, f) == <<"edge", e, f>>
Id(v) == <<"vertex", v>>
Unwritten == <<"unwritten">>

Content == {Unary(e, f) : e \in 1 .. MaxEdges, f \in States}
             \cup {Factor(e, f) : e \in 1 .. MaxEdges, f \in 0 .. numEdgeFactors - 1}
             \cup {Id(v) : v \in Node} \cup {Unwritten}

\* An edge joins two vertices.  The same two may be joined again.
Edge == {e \in Node \X Node : e[1] # e[2]}

Own == {v \in Node : from <= v /\ v < to}

GraphType ==
  /\ edges \in Seq(Edge) /\ Len(edges) <= MaxEdges
  /\ from \in Nat /\ to \in from .. NumVertices
  /\ phase \in {"count", "layout", "fill", "built"}
  /\ iEdge \in 0 .. Len(edges) /\ side \in {1, 2}
  /\ factorCount \in [Node -> Nat]
  /\ iVertex \in 0 .. NumVertices
  /\ firstOffset \in [Node -> Nat] /\ localSize \in Nat
  /\ startIndexes \in [Node -> Nat]
  /\ topology \in [DOMAIN topology -> Content] /\ DOMAIN topology \subseteq Nat

GraphInit ==
  /\ edges \in UNION {[1 .. n -> Edge] : n \in 0 .. MaxEdges}
  /\ from \in 0 .. NumVertices /\ to \in from .. NumVertices
  /\ phase = "count" /\ iEdge = 0 /\ side = 1
  /\ factorCount = [v \in Node |-> 0]
  /\ iVertex = 0 /\ firstOffset = [v \in Node |-> 0] /\ localSize = 0
  /\ startIndexes = [v \in Node |-> 0]
  /\ topology = << >>

-----------------------------------------------------------------------------
Ends(e) == {edges[e][1], edges[e][2]}

CountEdge ==
  /\ phase = "count" /\ iEdge < Len(edges)
  /\ factorCount' = [v \in Node |-> factorCount[v] +
                       (IF v \in Ends(iEdge + 1) THEN topologySizeByVertex ELSE 0)]
  /\ iEdge' = iEdge + 1
  /\ UNCHANGED <<fileVars, phase, side, iVertex, firstOffset, localSize, startIndexes, topology>>

\* vertex_array[v].length
Length(v) == factorCount[v] + numVars

EdgesCounted ==
  /\ phase = "count" /\ iEdge = Len(edges)
  /\ phase' = "layout" /\ iVertex' = from
  /\ UNCHANGED <<fileVars, iEdge, side, factorCount, firstOffset, localSize, startIndexes, topology>>

LayOut ==
  /\ phase = "layout" /\ iVertex < to
  /\ firstOffset' = [firstOffset EXCEPT ![iVertex] = localSize]
  /\ localSize' = localSize + Length(iVertex)
  /\ iVertex' = iVertex + 1
  /\ UNCHANGED <<fileVars, phase, iEdge, side, factorCount, startIndexes, topology>>

Allocate ==
  /\ phase = "layout" /\ iVertex = to
  /\ topology' = [s \in 0 .. localSize - 1 |-> Unwritten]
  /\ phase' = "fill" /\ iEdge' = 0
  /\ UNCHANGED <<fileVars, side, layoutVars, startIndexes>>

(***************************************************************************)
(* One end of one edge.  copyFactors2 puts a factor for own state x and    *)
(* neighbour's state y at numVars * x + y, taking that of 2 * x + y for    *)
(* the vertex of the smaller number, and that of 2 * y + x for the other.  *)
(***************************************************************************)
\* Mutant: the factors are copied as the file has them.
CopyAsInFile(v, u, f) == f

CopyFactors2(v, u, f) ==
  IF v < u THEN f ELSE f \div numVars + (f % numVars) * 2

\* Where the next block of v begins.
Block(v) == firstOffset[v] + numVars + startIndexes[v] * topologySizeByVertex

Put(v, u, e) ==
  LET unary == IF startIndexes[v] = 0 THEN firstOffset[v] .. firstOffset[v] + 1 ELSE {}
      block == Block(v) .. Block(v) + numEdgeFactors
  IN  [s \in DOMAIN topology \cup unary \cup block |->
         CASE s \in unary -> Unary(e, s - firstOffset[v])
           [] s = Block(v) + numEdgeFactors -> Id(u)
           [] s \in block \ {Block(v) + numEdgeFactors} ->
                Factor(e, CopyFactors2(v, u, s - Block(v)))
           [] OTHER -> topology[s]]

FillEnd ==
  /\ phase = "fill" /\ iEdge < Len(edges)
  /\ LET e == iEdge + 1
         v == edges[e][side]
         u == edges[e][3 - side]
     IN  IF v \in Own
           THEN /\ topology' = Put(v, u, e)
                /\ startIndexes' = [startIndexes EXCEPT ![v] = @ + 1]
           ELSE UNCHANGED <<topology, startIndexes>>
  /\ side' = 3 - side
  /\ iEdge' = iEdge + (IF side = 2 THEN 1 ELSE 0)
  /\ UNCHANGED <<fileVars, phase, layoutVars>>

EdgesFilled ==
  /\ phase = "fill" /\ iEdge = Len(edges)
  /\ phase' = "built"
  /\ UNCHANGED <<fileVars, iEdge, side, layoutVars, startIndexes, topology>>

GraphNext == CountEdge \/ EdgesCounted \/ LayOut \/ Allocate \/ FillEnd \/ EdgesFilled

GraphSpec == GraphInit /\ [][GraphNext]_graphVars

-----------------------------------------------------------------------------
(***************************************************************************)
(* What get_sample reads for v: the unary factor of each of v's states,    *)
(* and from block after block the neighbour and, its state being y, the    *)
(* factor of each of v's states x.                                         *)
(***************************************************************************)
UnaryRead(v, x) == topology[firstOffset[v] + x]
NumBlocks(v) == (Length(v) - numVars + topologySizeByVertex - 1) \div topologySizeByVertex
BlockRead(v, k) == firstOffset[v] + numVars + k * topologySizeByVertex
NeighborRead(v, k) == topology[BlockRead(v, k) + 4]
FactorRead(v, k, x, y) == topology[BlockRead(v, k) + 2 * x + y]

-----------------------------------------------------------------------------
(***************************************************************************)
(* Properties                                                              *)
(***************************************************************************)
Incident(v) == {e \in 1 .. Len(edges) : v \in Ends(e)}

\* The edges of v before e in the file: the number of e's block.
Rank(v, e) == Cardinality({d \in Incident(v) : d < e})

\* The factor the file has for the edge e when its end v is in state x and the other
\* in y: those of (0, 0), (0, 1), (1, 0), (1, 1), the state of "from" first (the
\* description of the file in binaryGraphReader.h:31-37).
FactorOf(e, v, x, y) == Factor(e, IF v = edges[e][1] THEN 2 * x + y ELSE 2 * y + x)

\* The index of a process is its part of the graph: each of its vertices has one
\* block per edge, in the order of the file, with the neighbour and each of the edge's
\* factors once, and the unary factors of its first edge; the factors are those the
\* file has for the states of the two ends; two ends of the same process take the same
\* factor for the same states; and nothing was written beside the array.
\* The code goes by the numbers of the ends and not by their order in the file, and the
\* converter keeps the order it is given: of an edge from a larger number to a smaller
\* one the code takes the factor of (1, 0) for (0, 1) and back, so nothing is said of
\* which factor it takes there, but that both ends do so.
\* (A vertex without an edge has a place whose two unary slots nobody writes.)
IndexHoldsGraph ==
  phase = "built" =>
    /\ DOMAIN topology = 0 .. localSize - 1
    /\ \A v \in Own :
         /\ NumBlocks(v) = Cardinality(Incident(v))
         /\ \A e \in Incident(v), x \in States :
              LET k == Rank(v, e)
                  u == CHOOSE w \in Ends(e) : w # v
              IN  /\ NeighborRead(v, k) = Id(u)
                  /\ k = 0 => UnaryRead(v, x) = Unary(e, x)
                  /\ edges[e][1] < edges[e][2] =>
                       \A y \in States : FactorRead(v, k, x, y) = FactorOf(e, v, x, y)
                  /\ u \in Own =>
                       \A y \in States : FactorRead(v, k, x, y) = FactorRead(u, Rank(u, e), y, x)
                  /\ {FactorRead(v, k, z[1], z[2]) : z \in States \X States} =
                       {Factor(e, f) : f \in 0 .. numEdgeFactors - 1}

=============================================================================
