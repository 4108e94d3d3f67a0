--------------------------- MODULE MCWorkflowWalk ---------------------------
(* Runs of small workflows: three nodes, an agent, a connector and an      *)
(* agent, under every short list of edges.                                 *)
EXTENDS WorkflowWalk

Edge(from, to, condition) == [source |-> from, target |-> to, condition |-> condition]

Plain(pairs) == {Edge(p[1], p[2], "") : p \in pairs}

Definition(edges, cyclic) ==
    [nodes |-> <<1, 2, 3>>, edges |-> edges, cyclic |-> cyclic,
     kind |-> <<"agent", "connector", "agent">>, configs |-> {1, 3}]

Ring == <<Edge(1, 2, ""), Edge(2, 3, ""), Edge(3, 1, "")>>
Conditions(action) == {"", "default", action}

\* One node; a missing configuration; a node given twice; linear workflows, with double edges,
\* loops and cycles; cyclic ones, where an agent or a connector chooses.
MCDefinitions ==
    {[Definition(<<>>, FALSE) EXCEPT !.nodes = <<2>>],
     [Definition(<<>>, FALSE) EXCEPT !.nodes = <<1>>, !.configs = {}],
     [Definition(<<Edge(1, 1, "")>>, FALSE) EXCEPT !.nodes = <<1, 1>>],
     Definition(Ring, FALSE), Definition(Ring, TRUE)}
    \cup {Definition(l, FALSE) :
            l \in [1..2 -> Plain({<<1, 2>>, <<1, 3>>, <<2, 2>>, <<3, 1>>})]}
    \cup {Definition(<<Edge(2, 3, ""), Edge(1, 2, ""), e>>, FALSE) :
            e \in Plain({<<1, 2>>, <<2, 3>>})}
    \cup {Definition(<<Edge(1, 3, ""), Edge(1, 2, ""), Edge(2, 3, "")>>, FALSE)}
    \cup {Definition(<<Edge(1, 2, c[1]), Edge(1, 3, c[2])>>, TRUE) :
            c \in Conditions("llm_call") \X Conditions("llm_call")}
    \cup {Definition(<<Edge(1, 2, ""), Edge(2, 2, c[1]), Edge(2, 3, c[2])>>, TRUE) :
            c \in Conditions("connector_call") \X Conditions("connector_call")}
=============================================================================
