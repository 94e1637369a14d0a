-------------------------------- MODULE Dag --------------------------------
(***************************************************************************)
(* The DAG of contexide-core (workflow/dag.rs) and the profiles that build *)
(* one: topo_order reads the edges into an adjacency list and indegrees    *)
(* and runs Kahn's algorithm with a FIFO queue; validate does the same and *)
(* counts the nodes instead of listing them, so here it is the verdict     *)
(* without the order. A node is its key; kind, label, name and version of  *)
(* the graph are left out.                                                 *)
(***************************************************************************)
EXTENDS Integers, Sequences, FiniteSets

CONSTANTS
  NodeLists,  \* node lists of the graphs that no profile builds
  EndPoints,  \* ends of their edges
  MaxEdges,   \* bound on the number of their edges
  Assets,     \* assets of a profile
  MaxAssets   \* bound on how many a profile is given

VARIABLES
  input,     \* what the graph is made from, see Graphs and ProfileInputs
  nodes,     \* the keys of the nodes
  edges,     \* the edges, [from, to]
  phase,     \* "build", "index", "edges", "queue", "sort" or "done"
  adj,       \* adj[u]: the targets of the edges of node u
  indegree,  \* edges into a node whose source is not sorted yet
  q,         \* nodes without such edges, first in first out
  scan,      \* what is left of adj[u] for the node u sorted last
  order,     \* the nodes sorted so far
  read,      \* edges, then nodes, the loop has gone over so far
  verdict    \* Ok, or the error returned

vars == <<input, nodes, edges, phase, adj, indegree, q, scan, order, read, verdict>>

Seqs(S, n) == UNION {[1..k -> S] : k \in 0..n}

Graphs ==
  [profile : {"none"}, nodes : NodeLists, edges : Seqs([from : EndPoints, to : EndPoints], MaxEdges)]

ProfileInputs ==
  [profile : {"ingest_only", "full_rag_index"}, assets : Seqs(Assets, MaxAssets), hasDoc : BOOLEAN]

-----------------------------------------------------------------------------
(* The profiles: a chain of stages per asset.                              *)

ProfileStages(p) ==
  IF p = "ingest_only" THEN <<"extract", "normalize", "chunk">>
  ELSE <<"extract", "normalize", "chunk", "embed", "index">>

\* Entry i of the concatenation of the chains of the assets, of length n each.
InChain(i, n) == ((i - 1) % n) + 1
OfAsset(i, n, assets) == assets[((i - 1) \div n) + 1]

ChainNodes(stages, assets) ==
  LET n == Len(stages) IN
  [i \in 1..(n * Len(assets)) |-> <<stages[InChain(i, n)], OfAsset(i, n, assets)>>]

\* Mutation of ChainEdges: the last stage of a chain is not tied to the one before.
ChainEdgesLoose(stages, assets) ==
  LET n == Len(stages) - 2 IN
  [i \in 1..(n * Len(assets)) |->
     [from |-> <<stages[InChain(i, n)], OfAsset(i, n, assets)>>,
      to   |-> <<stages[InChain(i, n) + 1], OfAsset(i, n, assets)>>]]

ChainEdges(stages, assets) ==
  LET n == Len(stages) - 1 IN
  [i \in 1..(n * Len(assets)) |->
     [from |-> <<stages[InChain(i, n)], OfAsset(i, n, assets)>>,
      to   |-> <<stages[InChain(i, n) + 1], OfAsset(i, n, assets)>>]]

Stop(v) ==
  /\ phase' = "done"
  /\ verdict' = v

\* The checks of the input come before anything is built.
RejectInput ==
  /\ phase = "build" /\ input.profile # "none"
  /\ input.assets = <<>> \/ ~input.hasDoc
  /\ Stop(IF input.assets = <<>> THEN "NoAssets" ELSE "MissingDocumentId")
  /\ UNCHANGED <<input, nodes, edges, adj, indegree, q, scan, order, read>>

BuildDag ==
  /\ phase = "build" /\ input.profile # "none"
  /\ input.assets # <<>> /\ input.hasDoc
  /\ nodes' = ChainNodes(ProfileStages(input.profile), input.assets)
  /\ edges' = ChainEdges(ProfileStages(input.profile), input.assets)
  /\ phase' = "index"
  /\ UNCHANGED <<input, adj, indegree, q, scan, order, read, verdict>>

\* A graph that a caller has put together.
TakeGraph ==
  /\ phase = "build" /\ input.profile = "none"
  /\ nodes' = input.nodes
  /\ edges' = input.edges
  /\ phase' = "index"
  /\ UNCHANGED <<input, adj, indegree, q, scan, order, read, verdict>>

-----------------------------------------------------------------------------
(* topo_order and validate.                                                *)

Distinct(s) == \A i, j \in DOMAIN s : s[i] = s[j] => i = j
Present(k)  == \E i \in DOMAIN nodes : nodes[i] = k
IndexOf(k)  == CHOOSE i \in DOMAIN nodes : nodes[i] = k

\* No node: an empty order, whatever the edges.
Empty ==
  /\ phase = "index" /\ nodes = <<>>
  /\ Stop("Ok")
  /\ UNCHANGED <<input, nodes, edges, adj, indegree, q, scan, order, read>>

BuildIndex ==
  /\ phase = "index" /\ nodes # <<>>
  /\ IF Distinct(nodes)
     THEN phase' = "edges" /\ UNCHANGED verdict
     ELSE Stop("DuplicateNodeKey")
  /\ adj' = [i \in DOMAIN nodes |-> <<>>]
  /\ indegree' = [i \in DOMAIN nodes |-> 0]
  /\ UNCHANGED <<input, nodes, edges, q, scan, order, read>>

\* An edge to or from a key that is no node ends it.
ReadEdge ==
  /\ phase = "edges" /\ read < Len(edges)
  /\ LET e == edges[read + 1] u == IndexOf(e.from) v == IndexOf(e.to) IN
     IF Present(e.from) /\ Present(e.to)
     THEN /\ adj' = [adj EXCEPT ![u] = Append(@, v)]
          /\ indegree' = [indegree EXCEPT ![v] = @ + 1]
          /\ UNCHANGED <<phase, verdict>>
     ELSE Stop("MissingNode") /\ UNCHANGED <<adj, indegree>>
  /\ read' = read + 1
  /\ UNCHANGED <<input, nodes, edges, q, scan, order>>

EdgesRead ==
  /\ phase = "edges" /\ read = Len(edges)
  /\ phase' = "queue"
  /\ read' = 0
  /\ UNCHANGED <<input, nodes, edges, adj, indegree, q, scan, order, verdict>>

QueueNode ==
  /\ phase = "queue" /\ read < Len(nodes)
  /\ q' = IF indegree[read + 1] = 0 THEN Append(q, read + 1) ELSE q
  /\ read' = read + 1
  /\ UNCHANGED <<input, nodes, edges, phase, adj, indegree, scan, order, verdict>>

Start ==
  /\ phase = "queue" /\ read = Len(nodes)
  /\ phase' = "sort"
  /\ UNCHANGED <<input, nodes, edges, adj, indegree, q, scan, order, read, verdict>>

Pop ==
  /\ phase = "sort" /\ scan = <<>> /\ q # <<>>
  /\ order' = Append(order, nodes[Head(q)])
  /\ scan' = adj[Head(q)]
  /\ q' = Tail(q)
  /\ UNCHANGED <<input, nodes, edges, phase, adj, indegree, read, verdict>>

\* Mutation of Relax: the node is queued at its first edge.
RelaxEarly ==
  /\ phase = "sort" /\ scan # <<>>
  /\ LET v == Head(scan) IN
       /\ indegree' = [indegree EXCEPT ![v] = @ - 1]
       /\ q' = IF \E i \in DOMAIN q : q[i] = v THEN q ELSE Append(q, v)
  /\ scan' = Tail(scan)
  /\ UNCHANGED <<input, nodes, edges, phase, adj, order, read, verdict>>

Relax ==
  /\ phase = "sort" /\ scan # <<>>
  /\ LET v == Head(scan) IN
       /\ indegree' = [indegree EXCEPT ![v] = @ - 1]
       /\ q' = IF indegree'[v] = 0 THEN Append(q, v) ELSE q
  /\ scan' = Tail(scan)
  /\ UNCHANGED <<input, nodes, edges, phase, adj, order, read, verdict>>

Finish ==
  /\ phase = "sort" /\ scan = <<>> /\ q = <<>>
  /\ Stop(IF Len(order) = Len(nodes) THEN "Ok" ELSE "Cycle")
  /\ UNCHANGED <<input, nodes, edges, adj, indegree, q, scan, order, read>>

NodeSet == {nodes[i] : i \in DOMAIN nodes}

\* roots: the nodes no edge goes to, which it lists in the order of nodes; none when
\* two nodes have the same key.
Roots ==
  IF Distinct(nodes)
  THEN {k \in NodeSet : \A i \in DOMAIN edges : edges[i].to # k}
  ELSE {}

Init ==
  /\ input \in Graphs \cup ProfileInputs
  /\ nodes = <<>> /\ edges = <<>>
  /\ phase = "build"
  /\ adj = <<>> /\ indegree = <<>>
  /\ q = <<>> /\ scan = <<>> /\ order = <<>>
  /\ read = 0
  /\ verdict = "none"

Next ==
  \/ RejectInput \/ BuildDag \/ TakeGraph
  \/ Empty \/ BuildIndex \/ ReadEdge \/ EdgesRead \/ QueueNode \/ Start \/ Pop \/ Relax \/ Finish

Spec == Init /\ [][Next]_vars /\ WF_vars(Next)

-----------------------------------------------------------------------------

EdgeOf(j, k) == \E i \in DOMAIN edges : edges[i] = [from |-> j, to |-> k]
\* Whatever part of the graph one takes, it has a node no edge of that part goes to.
Acyclic == \A S \in (SUBSET NodeSet) \ {{}} : \E k \in S : \A j \in S : ~EdgeOf(j, k)

WellFormed ==
  /\ Distinct(nodes)
  /\ \A i \in DOMAIN edges : edges[i].from \in NodeSet /\ edges[i].to \in NodeSet

Before(j, k) == \E a, b \in DOMAIN order : a < b /\ order[a] = j /\ order[b] = k

\* A graph is accepted exactly when its keys are distinct, its edges are between
\* nodes and it has no cycle (parallel edges and self-loops included), and then
\* the order lists every node once, each after all that it depends on, and
\* begins with the roots, in the order of the nodes. A graph without nodes is
\* accepted before its edges are looked at, even if it has some.
OrderIsTopological ==
  phase = "done" /\ verdict \notin {"NoAssets", "MissingDocumentId"} =>
    /\ (verdict = "Ok") <=> nodes = <<>> \/ (WellFormed /\ Acyclic)
    /\ verdict = "Ok" /\ nodes # <<>> =>
         /\ Len(order) = Len(nodes) /\ Distinct(order)
         /\ \A j, k \in NodeSet : EdgeOf(j, k) => Before(j, k)
         /\ \A j \in Roots : \A k \in NodeSet \ {j} :
              k \notin Roots \/ IndexOf(j) < IndexOf(k) => Before(j, k)

\* A profile given a document and distinct assets, at least one, always yields a
\* graph; its order takes the stages of an asset in the order of the pipeline,
\* and takes all assets through a stage before any goes on to the next.
ProfilesRunInStages ==
  phase = "done" /\ input.profile # "none" =>
    LET stages == ProfileStages(input.profile) n == Len(input.assets) IN
    /\ (verdict = "Ok") <=> n > 0 /\ input.hasDoc /\ Distinct(input.assets)
    /\ verdict = "Ok" =>
         order = [i \in 1..(n * Len(stages)) |->
                    <<stages[((i - 1) \div n) + 1], input.assets[((i - 1) % n) + 1]>>]
=============================================================================
