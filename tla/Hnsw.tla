-------------------------------- MODULE Hnsw --------------------------------
(***************************************************************************)
(* The proximity graph of an indexed segment (index/hnsw.py): insertion of *)
(* the points in the order of their ids, each linked to its neighbours in  *)
(* every layer up to its level, and the search for a query.                *)
(*                                                                         *)
(* Each turn of a loop is a step.  Only the order of a set decides in      *)
(* which order neighbours are looked at, so any order is possible.  A      *)
(* vector is whatever Score compares; a level is a hash of the id, so any  *)
(* level is possible.  No point is linked before its insertion, so the     *)
(* points still to come are not in the state.                              *)
(***************************************************************************)
EXTENDS Integers, FiniteSets, Sequences

CONSTANTS Vectors,
          Score(_, _),   \* score(): the higher, the closer
          M,             \* HnswConfig.m
          EfConstruct,   \* HnswConfig.ef_construct
          Breadths,      \* max(limit, ef_search) of the searches
          MaxLevel,      \* bound: levels (16 in the code)
          MaxPoints      \* bound: points in a segment

ASSUME HnswAssumption ==
  /\ \A x, y \in Vectors : Score(x, y) \in Int
  /\ M \in Nat /\ M >= 2
  /\ EfConstruct \in Nat /\ EfConstruct >= M
  /\ Breadths \subseteq Nat \ {0}
  /\ MaxLevel \in Nat
  /\ MaxPoints \in Nat

Places == 1 .. MaxPoints
Layers == 0 .. MaxLevel
None == 0

VARIABLES
  vectors,      \* the vectors of the points inserted so far; a point is its index
  levels,       \* _levels
  links,        \* _layers: the neighbours of each point in each layer
  entryPoint,   \* _entry_point
  maxLevel,     \* _max_level
  op,           \* "insert" or "search", or "idle"
  step,         \* the loop it is in: "descend", "explore", "connect" or "answer"
  query,        \* the vector it looks for
  layer,        \* the layer it is in
  entry,        \* the point it has reached
  breadth,      \* the width of the window in _search_layer
  seen,         \* visited, in _search_layer
  best,         \* the ids of the window
  frontier,     \* the ids still to expand
  current,      \* the id being expanded, or None
  todo,         \* the neighbours still to connect
  visited,      \* visited, in search
  scores,       \* the ids of scores, in search
  passed        \* history: what the descent of a search has looked at

graph == <<vectors, levels, links, entryPoint, maxLevel>>
window == <<seen, best, frontier, current>>
graphVars == <<graph, op, step, query, layer, entry, breadth, window, todo,
               visited, passed, scores>>

Nodes == DOMAIN vectors

\* The points that a layer holds.
Members(l) == {p \in Nodes : levels[p] >= l}

GraphInit ==
  /\ vectors = <<>>
  /\ levels = <<>>
  /\ links = [l \in Layers |-> [p \in Places |-> {}]]
  /\ entryPoint = None
  /\ maxLevel = -1
  /\ op = "idle"
  /\ step = "idle"
  /\ query \in Vectors
  /\ layer = 0
  /\ entry = None
  /\ breadth = EfConstruct
  /\ seen = {} /\ best = {} /\ frontier = {} /\ current = None
  /\ todo = {}
  /\ visited = {}
  /\ passed = {}
  /\ scores = {}

-----------------------------------------------------------------------------
(***************************************************************************)
(* The order of candidates: by score, and the smaller id between equal     *)
(* scores.                                                                 *)
(***************************************************************************)
ScoreOf(x, p) == Score(x, vectors[p])

Closer(x, p, q) ==
  \/ ScoreOf(x, p) > ScoreOf(x, q)
  \/ ScoreOf(x, p) = ScoreOf(x, q) /\ p < q

\* The first k of S, sorted.
Best(x, S, k) == {p \in S : Cardinality({q \in S : Closer(x, q, p)}) < k}

First(x, S) == CHOOSE p \in S : \A q \in S \ {p} : Closer(x, p, q)

-----------------------------------------------------------------------------
(***************************************************************************)
(* _search_layer, from one entry.                                          *)
(***************************************************************************)
StartLayer(e) ==
  /\ step' = "explore"
  /\ entry' = e
  /\ seen' = {e} /\ best' = {e} /\ frontier' = {e} /\ current' = None

Neighbours == IF current = None THEN {} ELSE links[layer][current]

\* Mutant: a candidate as good as the worst of the window stops the search.
StopsEarly(p) ==
  Cardinality(best) >= breadth /\ \E b \in best : ScoreOf(query, p) <= ScoreOf(query, b)

\* Once the window is full and the next candidate is worse than all of it.
Stops(p) ==
  /\ Cardinality(best) >= breadth
  /\ \A b \in best : ScoreOf(query, p) < ScoreOf(query, b)

Expanded == step = "explore" /\ Neighbours \subseteq seen

Expand ==
  /\ Expanded
  /\ frontier # {}
  /\ LET next == First(query, frontier)
     IN  /\ ~Stops(next)
         /\ current' = next
         /\ frontier' = frontier \ {next}
  /\ UNCHANGED <<graph, op, step, query, layer, entry, breadth, seen, best, todo,
                 visited, passed, scores>>

\* A neighbour that makes it into the window will be expanded.
Look ==
  /\ step = "explore"
  /\ \E n \in Neighbours \ seen :
       /\ seen' = seen \cup {n}
       /\ best' = Best(query, best \cup {n}, breadth)
       /\ frontier' = IF n \in best' THEN frontier \cup {n} ELSE frontier
  /\ UNCHANGED <<graph, op, step, query, layer, entry, breadth, current, todo,
                 visited, passed, scores>>

LayerDone == Expanded /\ (frontier # {} => Stops(First(query, frontier)))

-----------------------------------------------------------------------------
(***************************************************************************)
(* _greedy: in a layer above, move to the best neighbour while there is a  *)
(* better one.  An insertion descends to the layer below its own; a search *)
(* to layer 0, and remembers what it passed.                               *)
(***************************************************************************)
\* The last layer that is only passed through.
Floor == IF op = "insert" THEN levels[Len(vectors)] ELSE 0

Remembered(known, S) == IF op = "search" THEN known \cup S ELSE known

\* From the entry point, down to a layer.
Descend(x, floor) ==
  /\ query' = x
  /\ layer' = maxLevel
  /\ IF maxLevel > floor
     THEN step' = "descend" /\ entry' = entryPoint /\ UNCHANGED window
     ELSE StartLayer(entryPoint)

Greedy ==
  /\ step = "descend"
  /\ LET around == {entry} \cup links[layer][entry]
         next   == First(query, around)
     IN  /\ visited' = Remembered(visited, around)
         /\ passed' = Remembered(passed, around)
         /\ IF next # entry
            THEN entry' = next /\ UNCHANGED <<step, layer, window>>
            ELSE /\ layer' = layer - 1
                 /\ IF layer - 1 > Floor
                    THEN UNCHANGED <<step, entry, window>>
                    ELSE StartLayer(entry)
  /\ UNCHANGED <<graph, op, query, breadth, todo, scores>>

-----------------------------------------------------------------------------
(***************************************************************************)
(* _insert.                                                                *)
(***************************************************************************)
\* The first point becomes the entry point of all its layers.
InsertFirst ==
  /\ vectors = <<>> /\ MaxPoints > 0
  /\ \E x \in Vectors, l \in Layers :
       /\ vectors' = <<x>>
       /\ levels' = <<l>>
       /\ maxLevel' = l
  /\ entryPoint' = 1
  /\ UNCHANGED <<links, op, step, query, layer, entry, breadth, window, todo,
                 visited, passed, scores>>

\* Points without links join their layers; then comes the way down.
Insert ==
  /\ op = "idle" /\ vectors # <<>> /\ Len(vectors) < MaxPoints
  /\ \E x \in Vectors, l \in Layers :
       /\ vectors' = Append(vectors, x)
       /\ levels' = Append(levels, l)
       /\ op' = "insert"
       /\ breadth' = EfConstruct
       /\ Descend(x, l)
  /\ UNCHANGED <<links, entryPoint, maxLevel, todo, visited, passed, scores>>

New == Len(vectors)

\* The closest M of the window are to be connected.
Choose ==
  /\ op = "insert" /\ LayerDone
  /\ step' = "connect"
  /\ todo' = Best(query, best \ {New}, M)
  /\ entry' = IF best \ {New} = {} THEN entry ELSE First(query, best \ {New})
  /\ UNCHANGED <<graph, op, query, layer, breadth, window, visited, passed, scores>>

\* Links in both directions.
Linked(p, q) ==
  [links EXCEPT ![layer][p] = @ \cup {q}, ![layer][q] = @ \cup {p}]

\* Mutant: the reverse links of what is pruned stay.
PrunedOneWay(L, p) ==
  IF Cardinality(L[p]) <= M THEN L
  ELSE [L EXCEPT ![p] = Best(vectors[p], L[p], M)]

\* _prune in one layer: p keeps its M closest, and the others lose their link to p.
Pruned(L, p) ==
  IF Cardinality(L[p]) <= M THEN L
  ELSE LET retained == Best(vectors[p], L[p], M)
       IN  [q \in Places |-> IF q = p THEN retained
                          ELSE IF q \in L[p] \ retained THEN L[q] \ {p}
                          ELSE L[q]]

\* One neighbour: link it, prune it.
Connect ==
  /\ step = "connect"
  /\ todo # {}
  /\ LET n == First(query, todo)
     IN  /\ links' = [links EXCEPT ![layer] = Pruned(Linked(New, n)[layer], n)]
         /\ todo' = todo \ {n}
  /\ UNCHANGED <<vectors, levels, entryPoint, maxLevel, op, step, query, layer, entry, breadth,
                 window, visited, passed, scores>>

\* All are connected: prune the new point and go on in the layer below.
NextLayer ==
  /\ step = "connect"
  /\ todo = {} /\ layer > 0
  /\ links' = [links EXCEPT ![layer] = Pruned(links[layer], New)]
  /\ layer' = layer - 1
  /\ StartLayer(entry)
  /\ UNCHANGED <<vectors, levels, entryPoint, maxLevel, op, query, breadth, todo,
                 visited, passed, scores>>

Rest ==
  /\ op' = "idle" /\ step' = "idle"
  /\ layer' = 0 /\ entry' = None /\ breadth' = EfConstruct
  /\ seen' = {} /\ best' = {} /\ frontier' = {} /\ current' = None
  /\ todo' = {} /\ visited' = {} /\ passed' = {} /\ scores' = {}

NewIsHighest == levels[New] > maxLevel

Inserted ==
  /\ step = "connect"
  /\ todo = {} /\ layer = 0
  /\ links' = [links EXCEPT ![0] = Pruned(links[0], New)]
  /\ IF NewIsHighest
     THEN entryPoint' = New /\ maxLevel' = levels[New]
     ELSE UNCHANGED <<entryPoint, maxLevel>>
  /\ Rest
  /\ UNCHANGED <<vectors, levels, query>>

-----------------------------------------------------------------------------
(***************************************************************************)
(* search.                                                                 *)
(***************************************************************************)
Search ==
  /\ op = "idle" /\ vectors # <<>>
  /\ op' = "search"
  /\ \E x \in Vectors, b \in Breadths :
       /\ breadth' = b
       /\ Descend(x, 0)
  /\ visited' = {entryPoint}
  /\ passed' = {}
  /\ scores' = {}
  /\ UNCHANGED <<graph, todo>>

\* Mutant: what this component visited is forgotten.
Forgotten == visited

NextVisited == visited \cup seen

NextScores == scores \cup best

\* Mutant: one component is enough.
NoRestart == FALSE

Incomplete ==
  Cardinality(NextScores) < breadth /\ Cardinality(NextVisited) < Len(vectors)

\* Restart from the smallest id that was not visited.
Restart ==
  /\ op = "search" /\ LayerDone
  /\ Incomplete
  /\ visited' = NextVisited
  /\ scores' = NextScores
  /\ StartLayer(CHOOSE p \in Nodes \ NextVisited :
                  \A q \in Nodes \ NextVisited : p <= q)
  /\ UNCHANGED <<graph, op, query, layer, breadth, todo, passed>>

Answer ==
  /\ op = "search" /\ LayerDone
  /\ ~Incomplete
  /\ visited' = NextVisited
  /\ scores' = NextScores
  /\ step' = "answer"
  /\ UNCHANGED <<graph, op, query, layer, entry, breadth, window, todo, passed>>

\* The best of `scores` are returned, without the deleted and the rejected ones.
Return ==
  /\ step = "answer"
  /\ Rest
  /\ UNCHANGED <<graph, query>>

-----------------------------------------------------------------------------
Step ==
  \/ Greedy \/ Expand \/ Look
  \/ Choose \/ Connect \/ NextLayer \/ Inserted
  \/ Restart \/ Answer \/ Return

GraphNext == InsertFirst \/ Insert \/ Search \/ Step

GraphSpec == GraphInit /\ [][GraphNext]_graphVars

\* A constructor or a search that has begun runs on.
FairGraphSpec == GraphSpec /\ WF_graphVars(Step)

-----------------------------------------------------------------------------
\* Every variable has its type.
GraphTypeOK ==
  /\ vectors \in Seq(Vectors) /\ Len(vectors) <= MaxPoints
  /\ levels \in Seq(Layers) /\ Len(levels) = Len(vectors)
  /\ links \in [Layers -> [Places -> SUBSET Places]]
  /\ entryPoint \in Places \cup {None}
  /\ maxLevel \in Layers \cup {-1}
  /\ op \in {"idle", "insert", "search"}
  /\ step \in {"idle", "descend", "explore", "connect", "answer"}
  /\ query \in Vectors
  /\ layer \in Layers
  /\ entry \in Places \cup {None}
  /\ breadth \in Nat \ {0}
  /\ seen \in SUBSET Nodes
  /\ best \in SUBSET Nodes
  /\ frontier \in SUBSET Nodes
  /\ current \in Nodes \cup {None}
  /\ todo \in SUBSET Nodes
  /\ visited \in SUBSET Nodes
  /\ passed \in SUBSET Nodes
  /\ scores \in SUBSET Nodes

\* Links go both ways, between two points of the layer.
Symmetric ==
  \A l \in Layers, p \in Places : \A q \in links[l][p] :
    p # q /\ p \in links[l][q] /\ {p, q} \subseteq Members(l)

\* No point has more than m neighbours in a layer.
Bounded ==
  \A l \in Layers, p \in Places : Cardinality(links[l][p]) <= M

\* The search starts in the highest layer there is, at a point of it: the new
\* point takes over only once it is linked.
EntryOnTop ==
  vectors # <<>> =>
    /\ entryPoint \in Nodes /\ levels[entryPoint] = maxLevel
    /\ \A p \in Nodes : levels[p] <= maxLevel \/ (op = "insert" /\ p = New)

\* "graph invariants" (test_hnsw_graph.py): whatever is inserted, linked and
\* pruned, and after every step of it, links are symmetric and join points of the
\* layer, no point has more than m of them, and the entry point is on top.
GraphSound == GraphTypeOK /\ Symmetric /\ Bounded /\ EntryOnTop

\* "no queued expansion can improve the set" (hnsw.py:195): when the search of a
\* layer stops, in whatever order it looked at neighbours, its window holds the
\* best of all it has seen, and every neighbour of the window has been seen.
Converged ==
  LayerDone =>
    /\ best = Best(query, seen, breadth)
    /\ \A p \in best : links[layer][p] \subseteq seen

\* Restarts go on "until `breadth` candidates exist" (hnsw.py:121): a search that
\* ends with fewer has scored every point but some that its descent looked at in the
\* layers above, which count as visited although they were not scored (README,
\* section 4).  No other point is left out, whatever its level.
FillsWindow ==
  step = "answer" /\ Cardinality(scores) < breadth => Nodes \ scores \subseteq passed

\* Every insertion and every search ends: the descent does not go in circles and
\* the restarts run out of points.
Ends == op # "idle" ~> op = "idle"
=============================================================================
