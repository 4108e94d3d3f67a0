--------------------------- MODULE WorkflowGraph ---------------------------
(***************************************************************************)
(* The pure part of running a workflow definition: what the compiler       *)
(* accepts (backend/app/engine/compiler.py) and in which order the         *)
(* executor visits the nodes (backend/app/engine/executor.py).             *)
(*                                                                         *)
(* A definition is a record                                                *)
(*   nodes   sequence of node ids                                          *)
(*   edges   sequence of [source, target, condition], "" for no condition  *)
(*   kind    [node id -> "agent" or "connector"]                           *)
(*   configs the node ids with an agent_configs row                        *)
(*   cyclic  workflow.execution_pattern = "cyclic"                         *)
(* An agent's result always has action "llm_call" and no reasoning, a      *)
(* connector's has action "connector_call", so that a condition is matched *)
(* against the action alone.                                               *)
(*                                                                         *)
(* Loops are recursive functions of the number of rounds, and filters are  *)
(* Keep instead of SelectSeq, so that theorems can be proved of them.      *)
(***************************************************************************)
EXTENDS Naturals, Sequences, SequencesExt, FiniteSets, FiniteSetsExt

CONSTANTS
    NoNode,     \* None, as the target of a node without an edge
    MaxNodes,   \* MAX_NODES (200 in the code)
    MaxEdges    \* MAX_EDGES (400 in the code)

Ids(d) == ToSet(d.nodes)
Targets(d) == {e.target : e \in ToSet(d.edges)}
Touched(d) == {e.source : e \in ToSet(d.edges)} \cup Targets(d)

(* validate_definition: the size limits, known ends, and no orphan.        *)
ValidDefinition(d) ==
    /\ Len(d.nodes) \in 1..MaxNodes
    /\ Len(d.edges) <= MaxEdges
    /\ Touched(d) \subseteq Ids(d)
    /\ Len(d.nodes) > 1 => d.edges # <<>> /\ Ids(d) \subseteq Touched(d)

(* compile_graph: every agent node has its configuration, and LangGraph's  *)
(* add_node has refused no second node of the same name.                   *)
Compiles(d) ==
    /\ ValidDefinition(d)
    /\ {n \in Ids(d) : d.kind[n] = "agent"} \subseteq d.configs
    /\ \A i, j \in DOMAIN d.nodes : d.nodes[i] = d.nodes[j] => i = j

(* _build_entry_node_queue: the first node nothing points to, or else the  *)
(* first node.                                                             *)
Entry(d) ==
    LET free == {i \in DOMAIN d.nodes : d.nodes[i] \notin Targets(d)}
    IN  d.nodes[IF free = {} THEN 1 ELSE Min(free)]

(* The edges of a node, by their places in the definition.                 *)
Outgoing(d, n) == {i \in DOMAIN d.edges : d.edges[i].source = n}

(* _resolve_next_node: the only edge; else the first edge whose condition  *)
(* is the action, then the last "default" edge, then the first edge.  The  *)
(* only edge is the first, whatever its condition.                         *)
NextNode(d, n, action) ==
    LET out     == Outgoing(d, n)
        With(c) == {i \in out : d.edges[i].condition = c}
        choice  == CASE With(action) # {} -> Min(With(action))
                     [] With(action) = {} /\ With("default") # {} -> Max(With("default"))
                     [] OTHER -> Min(out)
    IN  IF out = {} THEN NoNode ELSE d.edges[choice].target

(* The elements of a sequence that are in S, in their order.               *)
Keep(seq, S) ==
    LET kept[i \in 0..Len(seq)] ==
            IF i = 0 THEN <<>>
            ELSE IF seq[i] \in S THEN Append(kept[i - 1], seq[i]) ELSE kept[i - 1]
    IN  kept[Len(seq)]

(* _topological_sort, Kahn's algorithm: a round takes the head of the      *)
(* queue and appends those of its neighbours, edge by edge, whose last     *)
(* open edge this was.                                                     *)
Relax(s, e) ==
    LET left == s.degree[e.target] - 1
    IN  [s EXCEPT !.degree[e.target] = left,
                  !.queue = IF left = 0 THEN Append(@, e.target) ELSE @]

Taken(s) == [s EXCEPT !.queue = Tail(@), !.result = Append(@, Head(s.queue))]

Round(d, s) ==
    LET relaxed[i \in 0..Len(d.edges)] ==
            IF i = 0 THEN Taken(s)
            ELSE IF i \in Outgoing(d, Head(s.queue))
            THEN Relax(relaxed[i - 1], d.edges[i])
            ELSE relaxed[i - 1]
    IN  IF s.queue = <<>> THEN s ELSE relaxed[Len(d.edges)]

Incoming(d, n) == {i \in DOMAIN d.edges : d.edges[i].target = n}

KahnStart(d) ==
    [queue  |-> Keep(d.nodes, {n \in Ids(d) : Incoming(d, n) = {}}),
     degree |-> [n \in Ids(d) |-> Cardinality(Incoming(d, n))],
     result |-> <<>>]

(* Every round takes a node, so there are no more rounds than nodes.       *)
Kahn(d) ==
    LET after[k \in 0..Len(d.nodes)] ==
            IF k = 0 THEN KahnStart(d) ELSE Round(d, after[k - 1])
    IN  after[Len(d.nodes)].result

(* What a cycle keeps out of Kahn's result follows in definition order.    *)
TopologicalSort(d) == Kahn(d) \o Keep(d.nodes, Ids(d) \ ToSet(Kahn(d)))

(* The queue the executor starts with.                                     *)
FirstQueue(d) == IF d.cyclic THEN <<Entry(d)>> ELSE TopologicalSort(d)

----------------------------------------------------------------------------
(* The reference for the order.  A set of nodes each of which has a        *)
(* predecessor inside the set can never be sorted; Stuck is the largest.   *)
Stuck(d) ==
    UNION {S \in SUBSET Ids(d) :
              \A n \in S : \E e \in ToSet(d.edges) : e.target = n /\ e.source \in S}

(* The nodes of a sequence come once each, after their predecessors, those *)
(* behind a cycle excepted.                                                *)
InOrder(d, seq) ==
    \A i \in DOMAIN seq :
        /\ \A j \in 1..(i - 1) : seq[j] # seq[i]
        /\ seq[i] \notin Stuck(d) =>
             \A e \in ToSet(d.edges) :
                 e.target = seq[i] => \E j \in 1..(i - 1) : seq[j] = e.source

(* A path from the entry along edges.                                      *)
IsPath(d, seq) ==
    /\ seq # <<>> => seq[1] = Entry(d)
    /\ \A i \in 1..(Len(seq) - 1) :
           \E e \in ToSet(d.edges) : e.source = seq[i] /\ e.target = seq[i + 1]
============================================================================
