SPECIFICATION RewriterSpec
CONSTANTS
    top = top a = a c = c d = d b1 = b1 b2 = b2 b3 = b3 n1 = n1 r1 = r1 r2 = r2
    Op = {top, a, c, d}
    Block = {b1, b2, b3, n1}
    Region = {r1, r2}
    MaxOperands = 1
    StrictErase = FALSE
    Programs <- SsaPrograms
    o1 = o1 o2 = o2 o3 = o3 o4 = o4
    OpKey = {o1, o2, o3, o4}
    MaxErased = 1
    m = m f = f g = g dom = dom loops = loops
    PassOp = {m, f, g}
    Root = m
    Type = {dom, loops}
    Aspect = {"cfg", "insts"}
    Inputs <- Matching
    Ancestors <- MCAncestors
    Reads <- MCReads
    Needs <- MCNeeds
    Passes <- MCPasses
    Depth <- MCDepth
    MaxDepth = 4
    Pipelines <- MCPipelines
INVARIANT UsesErasedBeforeDefs
CHECK_DEADLOCK FALSE
