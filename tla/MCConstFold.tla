---------------------------- MODULE MCConstFold ----------------------------
(* Every fold of ConstFold on integers of a few bits, against the meaning  *)
(* that the LLVM language reference gives the instruction.                 *)
EXTENDS ConstFold

CONSTANT MaxWidth

VARIABLES case, folded

cfVars == <<case, folded>>

\* LLVM's undefined behaviour.
UB == -4

InSigned(w, n) == n \in (- imin(w))..(imin(w) - 1)
Wrap(w, n) == n % 2^w
Ones(w, a) == {i \in 0..(w - 1) : Bit(a, i) = 1}
FromOnes(s) == MapThenSumSet(LAMBDA i : 2^i, s)
Quotient(a, b) == LET q == (IF a < 0 THEN - a ELSE a) \div (IF b < 0 THEN - b ELSE b)
                  IN  IF (a < 0) # (b < 0) THEN - q ELSE q

\* The result of add, sub, mul or shl from its value u over the unsigned
\* and s over the signed operands.
Wrapping(op, u, s) ==
    IF \/ "nuw" \in op.flags /\ u \notin Patterns(op.w)
       \/ "nsw" \in op.flags /\ ~ InSigned(op.w, s)
    THEN Poison ELSE Wrap(op.w, u)

LLVMInt(op, a, b) ==
    LET w == op.w
        sa == Signed(w, a)
        sb == Signed(w, b)
    IN  CASE op.k = "add" -> Wrapping(op, a + b, sa + sb)
          [] op.k = "sub" -> Wrapping(op, a - b, sa - sb)
          [] op.k = "mul" -> Wrapping(op, a * b, sa * sb)
          [] op.k = "shl" -> IF b >= w THEN Poison ELSE Wrapping(op, a * 2^b, sa * 2^b)
          [] op.k = "lshr" -> IF b >= w THEN Poison ELSE a \div 2^b
          [] op.k = "ashr" -> IF b >= w THEN Poison ELSE Wrap(w, sa \div 2^b)
          [] op.k = "udiv" -> IF b = 0 THEN UB ELSE a \div b
          [] op.k = "urem" -> IF b = 0 THEN UB ELSE a % b
          [] op.k = "sdiv" -> IF b = 0 \/ ~ InSigned(w, Quotient(sa, sb)) THEN UB ELSE Wrap(w, Quotient(sa, sb))
          [] op.k = "srem" -> IF b = 0 \/ ~ InSigned(w, Quotient(sa, sb)) THEN UB ELSE Wrap(w, sa - sb * Quotient(sa, sb))
          [] op.k = "and" -> FromOnes(Ones(w, a) \cap Ones(w, b))
          [] op.k = "or" -> FromOnes(Ones(w, a) \cup Ones(w, b))
          [] op.k = "xor" -> FromOnes((Ones(w, a) \cup Ones(w, b)) \ (Ones(w, a) \cap Ones(w, b)))
          [] op.k = "icmp" ->
                IF CASE op.pred = "eq" -> a = b [] op.pred = "ne" -> a # b
                     [] op.pred = "ult" -> a < b [] op.pred = "ule" -> a <= b
                     [] op.pred = "ugt" -> a > b [] op.pred = "uge" -> a >= b
                     [] op.pred = "slt" -> sa < sb [] op.pred = "sle" -> sa <= sb
                     [] op.pred = "sgt" -> sa > sb [] op.pred = "sge" -> sa >= sb
                THEN 1 ELSE 0

\* What the instruction may give on the operands args.
LLVMResults(op, args) ==
    CASE op.k = "select" -> {IF args[1] = Poison THEN Poison ELSE IF args[1] = 0 THEN args[3] ELSE args[2]}
      [] op.k = "freeze" -> IF args[1] = Poison THEN Patterns(op.w) ELSE {args[1]}
      [] op.k = "sext" -> {IF args[1] = Poison THEN Poison ELSE Wrap(op.to, Signed(op.w, args[1]))}
      [] op.k = "trunc" -> {IF args[1] = Poison THEN Poison ELSE Wrap(op.to, args[1])}
      [] op.k = "zext" -> {IF args[1] = Poison \/ ("nneg" \in op.flags /\ Signed(op.w, args[1]) < 0) THEN Poison ELSE args[1]}
      [] OTHER -> {IF Poison \in ToSet(args) THEN Poison ELSE LLVMInt(op, args[1], args[2])}

IntOp(k, w, flags) == [k |-> k, w |-> w, flags |-> flags, to |-> w, pred |-> "eq"]
IntOps(w) ==
    {IntOp(k, w, f) : k \in {"add", "sub", "mul", "shl"}, f \in SUBSET {"nuw", "nsw"}}
    \cup {IntOp(k, w, {}) : k \in {"lshr", "ashr", "udiv", "urem", "sdiv", "srem", "and", "or", "xor", "select", "freeze"}}
    \cup {[IntOp("icmp", w, {}) EXCEPT !.pred = p] : p \in {"eq", "ne", "ult", "ule", "ugt", "uge", "slt", "sle", "sgt", "sge"}}
    \cup {[IntOp("trunc", w, {}) EXCEPT !.to = t] : t \in 1..w}
    \cup {[IntOp("sext", w, {}) EXCEPT !.to = t] : t \in w..MaxWidth}
    \cup {[IntOp("zext", w, f) EXCEPT !.to = t] : t \in w..MaxWidth, f \in SUBSET {"nneg"}}

Attrs(w) == Patterns(w) \cup {None, Poison, Undef}
Operands(op) ==
    CASE op.k = "select" -> {<<c, t, f>> : c \in Attrs(1), t \in Attrs(op.w), f \in Attrs(op.w)}
      [] op.k \in {"freeze", "sext", "zext", "trunc"} -> {<<a>> : a \in Attrs(op.w)}
      [] OTHER -> {<<a, b>> : a \in Attrs(op.w), b \in Attrs(op.w)}

\* The values an operand may have at run time when its attribute is attr.
Runtime(attr, w) ==
    CASE IsInt(attr) -> {attr} [] attr = Poison -> {Poison}
      [] attr = Undef -> Patterns(w) [] attr = None -> Patterns(w) \cup {Poison}
RunArgs(op, ops) ==
    {args \in [DOMAIN ops -> Patterns(op.w) \cup {Poison}] :
        \A i \in DOMAIN ops :
            IF op.k = "freeze" /\ ops[i] = Undef THEN args[i] = Poison  \* freeze treats them alike
            ELSE args[i] \in Runtime(ops[i], IF op.k = "select" /\ i = 1 THEN 1 ELSE op.w)}

Floats == (-5..5) \cup {NaN, PInf, NInf}
FPreds == {"ord", "uno", "oeq", "one", "ogt", "oge", "olt", "ole", "ueq", "une", "ugt", "uge", "ult", "ule"}

Cases ==
    {[part |-> "int", op |-> op, ops |-> ops] : <<op, ops>> \in
        UNION {UNION {{<<op, ops>> : ops \in Operands(op)} : op \in IntOps(w)} : w \in 1..MaxWidth}}
    \cup {[part |-> "fcmp", op |-> [k |-> "fcmp", pred |-> p, flags |-> f], ops |-> <<a, b>>] :
            p \in FPreds, f \in SUBSET {"nnan", "ninf"}, a \in Floats, b \in Floats}
    \cup {[part |-> "ftoi", op |-> [k |-> "ftoi", signed |-> s, to |-> t], ops |-> <<a>>] :
            s \in BOOLEAN, t \in 1..MaxWidth, a \in Floats}
    \cup UNION {{[part |-> "itof", op |-> [k |-> "itof", signed |-> s, nneg |-> ~ s /\ n, w |-> w], ops |-> <<a>>] :
            s \in BOOLEAN, n \in BOOLEAN, a \in Patterns(w)} : w \in 1..MaxWidth}

Init == case \in Cases /\ folded = {}

Fold ==
    /\ folded = {}
    /\ folded' = {CASE case.part = "int" -> fold_in_place(case.op, case.ops)
                    [] case.part = "fcmp" -> fold_fcmp(case.op, case.ops[1], case.ops[2])
                    [] case.part = "ftoi" -> check_fold_float_to_int(case.op.signed, case.op.to, case.ops[1])
                    [] case.part = "itof" -> check_fold_int_to_float(case.op.w, case.op.signed, case.op.nneg, case.ops[1])}
    /\ UNCHANGED case

Next == Fold
Spec == Init /\ [][Next]_cfVars

IntFoldCorrect(r) ==
    LET op == case.op
        ops == case.ops
        Known == \A i \in DOMAIN ops : IsInt(ops[i])
    IN  /\ r # None => \A args \in RunArgs(op, ops) :
              \/ r \in LLVMResults(op, args)
              \/ r = Undef /\ op.k = "select"
              \/ {Poison, UB} \cap LLVMResults(op, args) # {}
        /\ Known /\ {Poison, UB} \cap LLVMResults(op, ops) = {} => r # None

\* An ordered predicate is false on NaN, an unordered one true; otherwise they compare.
FCmpCorrect(r) ==
    LET a == case.ops[1]
        b == case.ops[2]
        p == case.op.pred
        forbidden == \/ "nnan" \in case.op.flags /\ NaN \in {a, b}
                     \/ "ninf" \in case.op.flags /\ {PInf, NInf} \cap {a, b} # {}
        holds == IF NaN \in {a, b} THEN p \in {"uno", "ueq", "une", "ugt", "uge", "ult", "ule"}
                 ELSE \/ p = "ord"
                      \/ p \in {"oeq", "ueq", "oge", "uge", "ole", "ule"} /\ a = b
                      \/ p \in {"ogt", "ugt", "oge", "uge", "one", "une"} /\ a > b
                      \/ p \in {"olt", "ult", "ole", "ule", "one", "une"} /\ a < b
    IN  r = IF forbidden THEN None ELSE IF holds THEN 1 ELSE 0

\* A conversion that does not fit is poison and is not folded.
FToICorrect(r) ==
    LET a == case.ops[1]
        to == case.op.to
        fits == a \notin {NaN, PInf, NInf}
                /\ IF case.op.signed THEN InSigned(to, TowardZero(a)) ELSE TowardZero(a) \in Patterns(to)
    IN  r = IF fits THEN Wrap(to, TowardZero(a)) ELSE None

IToFCorrect(r) ==
    LET a == case.ops[1]
        n == IF case.op.signed THEN Signed(case.op.w, a) ELSE a
    IN  r = IF case.op.nneg /\ Signed(case.op.w, a) < 0 THEN NoFloat ELSE 2 * n

\* A fold gives what the instruction gives whatever the operands that are not
\* known turn out to be, unless that is poison or undefined behaviour; and
\* operands that are all known are folded, except to poison
\* (src/pliron-llvm/src/interface_impls.rs, src/src/utils/apint.rs).
FoldsAreRight ==
    \A r \in folded :
        CASE case.part = "int" -> IntFoldCorrect(r) [] case.part = "fcmp" -> FCmpCorrect(r)
          [] case.part = "ftoi" -> FToICorrect(r) [] case.part = "itof" -> IToFCorrect(r)
============================================================================
