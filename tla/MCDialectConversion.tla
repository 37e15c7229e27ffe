------------------------ MODULE MCDialectConversion ------------------------
EXTENDS DialectConversion

CONSTANTS o1, o2, o3, n1, b1, b2

\* Three operations, each using results of those before it, walked in some order:
\* blocks need not be listed in dominance order.  In a graph region, o2 also uses
\* its own result.
MCInputs ==
    {[walk |-> w, wanted |-> c, graph |-> g, blocks |-> {b1},
      defs |-> [o \in OpKey |-> CASE o = o2 -> {o1} \cup g [] o = o3 -> {o1, o2} [] OTHER -> {}]] :
       w \in {<<o1, o2, o3>>, <<o3, o2, o1>>},
       c \in {{o1, o2, o3}}, g \in {{}, {o2}}}
=============================================================================
