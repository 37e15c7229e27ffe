----------------------------- MODULE MCDrivers -----------------------------
(***************************************************************************)
(* The rewriter, the match-rewrite driver, and the pass manager: a         *)
(* behaviour is one of one of them.                                        *)
(***************************************************************************)
EXTENDS Rewriter, MatchRewrite, PassManager, TLC

CONSTANTS top, a, c, d, b1, b2, b3, n1, r1, r2, \* for the rewriter
          o1, o2, o3, o4,                       \* for the driver
          m, f, g, dom, loops                   \* for the pass manager

VARIABLE part

\* An operation top with two regions, holding the blocks b1, b2 and b3; the last
\* one is in the second region or in the first.  The operations a and c may use
\* each other's result and the arguments of b1, and branch to b1 and b2.
Program(layout, sharesRegion, usesA, usesC, succA, succC) ==
    [live |-> {top, b1, b2, b3, r1, r2} \cup UNION {Elems(layout[i]) : i \in 1..3},
     operands |-> [o \in Op |-> CASE o = a -> usesA [] o = c -> usesC [] OTHER -> <<>>],
     successors |-> [o \in Op |-> CASE o = a -> succA [] o = c -> succC [] OTHER -> <<>>],
     regions |-> [o \in Op |-> IF o = top THEN <<r1, r2>> ELSE <<>>],
     parent_op |-> [r \in Region |-> {top}],
     ops |-> [b \in Block |-> CASE b = b1 -> layout[1] [] b = b2 -> layout[2]
                                [] b = b3 -> layout[3] [] OTHER -> <<>>],
     blocks |-> [r \in Region |-> CASE sharesRegion -> IF r = r1 THEN <<b1, b2, b3>> ELSE <<>>
                                    [] OTHER -> IF r = r1 THEN <<b1, b2>> ELSE <<b3>>],
     some_region |-> r1]

\* How a and c use each other, in the same block, in two blocks and in two regions.
UsePrograms ==
    {Program(l, FALSE, ua, uc, sa, sc) :
       l \in {<<<<a, c>>, <<>>, <<>>>>, <<<<a>>, <<c>>, <<>>>>, <<<<c>>, <<>>, <<a>>>>},
       ua \in {<<>>, <<c>>}, uc \in {<<>>, <<a>>, <<b1>>},
       sa \in {<<>>, <<b2>>}, sc \in {<<>>, <<b1>>}}

\* Longer lists: three operations in a block, three blocks in a region.
ListPrograms ==
    {Program(l, TRUE, <<>>, <<>>, <<>>, <<>>) :
       l \in {<<<<a, c, d>>, <<>>, <<>>>>, <<<<a>>, <<>>, <<c, d>>>>}}

MCPrograms == UsePrograms \cup ListPrograms

\* Programs in SSA form: c uses the result of a and follows it, in the same block
\* or in the block that the first one branches to.
SsaPrograms ==
    {Program(p[1], FALSE, <<>>, uc, p[2], <<>>) :
       p \in {<<<<<<a, c>>, <<>>, <<>>>>, <<>>>>, <<<<<<a>>, <<c>>, <<>>>>, <<b2>>>>},
       uc \in {<<>>, <<a>>, <<b1>>}}

\* Three operations, each using results of those before it, walked forward and backward.
Matching ==
    {[walk |-> w, wanted |-> ws,
      defs |-> [o \in OpKey |-> CASE o = o2 -> {o1} [] o = o3 -> {o1, o2} [] OTHER -> {}]] :
       w \in {<<o1, o2, o3>>, <<o3, o2, o1>>}, ws \in {{o1, o2}, {o1, o2, o3}}}

(***************************************************************************)
(* A module m with functions f and g, and pipelines of passes on it.       *)
(***************************************************************************)
MCAncestors == [o \in PassOp |-> {o, m}]
MCReads == [t \in Type |-> IF t = dom THEN {"cfg"} ELSE {"cfg", "insts"}]
MCNeeds == [t \in Type |-> IF t = loops THEN {dom} ELSE {}]

LeafPass(name) == [kind |-> "Leaf", name |-> name]
PassList(passes) == [kind |-> "Passes", passes |-> passes]
Nested(pass) == [kind |-> "NestedOps", pass |-> pass]
Guarded(allowed, pass) == [kind |-> "Guarded", allowed |-> allowed, pass |-> pass]

\* A pass on each function between two on the module, a guarded list of passes on
\* each function, and a guard that allows one function or nothing.
MCPipelines ==
    {PassList(<<LeafPass("p"), Nested(LeafPass("q")), LeafPass("r")>>),
     Nested(Guarded({f}, PassList(<<LeafPass("p"), LeafPass("q")>>))),
     PassList(<<Guarded({f}, LeafPass("p")), Guarded({m}, Nested(LeafPass("p")))>>)}

MCPasses == MCPipelines \cup {LeafPass(n) : n \in {"p", "q", "r"}}
            \cup {PassList(<<LeafPass("p"), LeafPass("q")>>), Nested(LeafPass("p")), Nested(LeafPass("q"))}
            \cup {Guarded({f}, PassList(<<LeafPass("p"), LeafPass("q")>>)),
                  Guarded({f}, LeafPass("p")), Guarded({m}, Nested(LeafPass("p")))}

RECURSIVE DepthOf(_)
DepthOf(p) == CASE p.kind = "Leaf" -> 0
                [] p.kind = "Passes" -> 1 + Max({DepthOf(p.passes[i]) : i \in DOMAIN p.passes})
                [] OTHER -> 1 + DepthOf(p.pass)
MCDepth == [p \in MCPasses |-> DepthOf(p)]

driversVars == <<part, allVars, mrVars, pmVars>>

NoRewriter == /\ IRInit /\ agenda = <<>> /\ call = <<>> /\ op_insertion_point = Unset
              /\ modified = FALSE /\ events = <<>> /\ panicked = FALSE /\ before = IRNow
NoMatch == /\ known = {} /\ gone = {} /\ defs = {} /\ wanted = {} /\ rewritten = {} /\ failed = FALSE
           /\ to_rewrite = <<>> /\ enque = "EnqueBack" /\ erased_ops = {} /\ stale = FALSE
NoPass == /\ pipeline = LeafPass("p") /\ config = 0 /\ frames = <<>> /\ returned = {} /\ analyses = {} /\ kids = 0
          /\ bad = {} /\ outdated = {} /\ ir_changed = FALSE /\ trace = <<>> /\ aborted = FALSE

DriversInit ==
    \/ part = "rewriter" /\ RwInit /\ NoMatch /\ NoPass
    \/ part = "match" /\ MRInit /\ NoRewriter /\ NoPass
    \/ part = "passes" /\ PMInit /\ NoRewriter /\ NoMatch

DriversNext ==
    /\ \/ part = "rewriter" /\ RwNext /\ UNCHANGED <<mrVars, pmVars>>
       \/ part = "match" /\ MRNext /\ UNCHANGED <<allVars, pmVars>>
       \/ part = "passes" /\ PMNext /\ UNCHANGED <<allVars, mrVars>>
    /\ UNCHANGED part

DriversSpec == DriversInit /\ [][DriversNext]_driversVars

\* The rewriter alone.
RewriterSpec == RwInit /\ NoMatch /\ NoPass /\ part = "rewriter" /\ [][DriversNext]_driversVars
============================================================================
