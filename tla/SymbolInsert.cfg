SPECIFICATION SymbolSpec
CONSTANTS
    SymbolOp = {o1, o2}
    Table = {t1, t2}
    Name = {f, g}
    Nowhere = Nowhere
    Unbuilt = Unbuilt
    Erased = Erased
INVARIANT InsertsIntoBoth
CHECK_DEADLOCK FALSE
