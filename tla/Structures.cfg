SPECIFICATION StructuresSpec
CONSTANTS
    Node = {n1, n2, n3, n4}
    Container = {c1, c2}
    None = None
    Op = {o1, o2}
    Block = {b1, b2}
    Region = {r1, r2}
    MaxOperands = 1
    StrictErase = TRUE
    Val = {v1, v2, v3}
    Name = {f, g}
    Identifier = {f, g}
    Holder = {h1, h2}
    Unnamed = Unnamed
    SymbolOp = {o1, o2}
    Table = {t1, t2}
    Nowhere = Nowhere
    Unbuilt = Unbuilt
    Erased = Erased
    Type = {T1, T2}
    Datum = {d1, d2}
    HashValue = {x1, x2}
    Elem = {e1, e2, e3, e4}
    Id = {i1, i2}
    Entity = {v4, v5, v6, v7}
    UseSite = {u1, u2}
    MaxRegions = 3
SYMMETRY Symmetry
INVARIANTS Coupled InternalAsserts NestingSound NamesFollow SymbolsAgree UniqueInv NamesResolve
PROPERTIES ImplementsLists ImplementsPartition
CHECK_DEADLOCK FALSE
