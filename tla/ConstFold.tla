----------------------------- MODULE ConstFold -----------------------------
(***************************************************************************)
(* ConstFoldInterface::check_fold of the operations of the LLVM dialect    *)
(* (src/pliron-llvm/src/interface_impls.rs) and the constness of operands  *)
(* it starts from.  An attribute is a bit pattern of IntegerAttr, Poison   *)
(* or Undef; None stands for an operand that is not known to be constant,  *)
(* and for a fold that does not succeed.  A float is the number of halves  *)
(* it is worth, or one of NaN, PInf, NInf and NoFloat (no fold): what the  *)
(* apfloat crate rounds is external, and exact on these.                   *)
(***************************************************************************)
EXTENDS APInt, SequencesExt

None == -1
Poison == -2
Undef == -3
IsInt(a) == a >= 0

NaN == 1000
PInf == 100
NInf == -100
NoFloat == 2000

BothInts(ops) == IsInt(ops[1]) /\ IsInt(ops[2])

\* An op is [k, w, flags, to]: flags is a set, to the width of a cast's result.
combine_with_overflow(op, lhs, rhs) ==
    CASE op.k = "add" -> add_overflow(op.w, lhs, rhs)
      [] op.k = "sub" -> sub_overflow(op.w, lhs, rhs)
      [] op.k = "mul" -> mul_overflow(op.w, lhs, rhs)
      [] op.k = "shl" -> shl_overflow(op.w, lhs, rhs)
combine(op, lhs, rhs) ==
    CASE op.k = "lshr" -> lshr(op.w, lhs, rhs)
      [] op.k = "ashr" -> ashr(op.w, lhs, rhs)
      [] op.k = "udiv" -> udiv(op.w, lhs, rhs)
      [] op.k = "urem" -> urem(op.w, lhs, rhs)
      [] op.k = "sdiv" -> sdiv(op.w, lhs, rhs)
      [] op.k = "srem" -> srem(op.w, lhs, rhs)
      [] op.k = "and" -> and(op.w, lhs, rhs)
      [] op.k = "or" -> or(op.w, lhs, rhs)
      [] op.k = "xor" -> xor(op.w, lhs, rhs)

check_fold_int_bin_op_with_overflow(op, ops) ==
    IF ~ BothInts(ops) THEN None
    ELSE LET r == combine_with_overflow(op, ops[1], ops[2])
         IN  IF ("nsw" \in op.flags /\ r[3]) \/ ("nuw" \in op.flags /\ r[2]) THEN None ELSE r[1]

check_fold_int_bin_op(op, ops) ==
    IF BothInts(ops) THEN combine(op, ops[1], ops[2]) ELSE None

\* The amount is compared with the width as an integer of that width.
InShiftRange(w, b) == ult(w, b, w % 2^w)

is_signed_div_ub(w, a, b) == is_zero(b) \/ (a = imin(w) /\ b = umax(w))

\* What the shifts and divisions test before they fold.
HasUB(op, a, b) ==
    \/ op.k \in {"shl", "lshr", "ashr"} /\ ~ InShiftRange(op.w, b)
    \/ op.k \in {"udiv", "urem"} /\ is_zero(b)
    \/ op.k \in {"sdiv", "srem"} /\ is_signed_div_ub(op.w, a, b)

\* AndOp and OrOp look for an operand that decides the result alone.
absorbing(op) == IF op.k = "and" THEN 0 ELSE umax(op.w)
Absorber(op, ops) == SelectInSeq(ops, LAMBDA a : a \in {Undef, absorbing(op)})

eval_icmp(w, pred, a, b) ==
    CASE pred = "eq" -> a = b
      [] pred = "ne" -> a # b
      [] pred = "ult" -> ult(w, a, b)
      [] pred = "ule" -> ~ ult(w, b, a)
      [] pred = "ugt" -> ult(w, b, a)
      [] pred = "uge" -> ~ ult(w, a, b)
      [] pred = "slt" -> slt(w, a, b)
      [] pred = "sle" -> ~ slt(w, b, a)
      [] pred = "sgt" -> slt(w, b, a)
      [] pred = "sge" -> ~ slt(w, a, b)
bool_attr(b) == IF b THEN 1 ELSE 0

fold_int(op, ops) ==
    CASE op.k = "icmp" -> IF BothInts(ops) THEN bool_attr(eval_icmp(op.w, op.pred, ops[1], ops[2])) ELSE None
      [] BothInts(ops) /\ HasUB(op, ops[1], ops[2]) -> None
      [] op.k \in {"and", "or"} /\ Absorber(op, ops) # 0 ->
            IF ops[Absorber(op, ops)] = absorbing(op) THEN absorbing(op) ELSE None
      [] op.k \in {"add", "sub", "mul", "shl"} -> check_fold_int_bin_op_with_overflow(op, ops)
      [] OTHER -> check_fold_int_bin_op(op, ops)

Casts == {"sext", "zext", "trunc"}
check_fold_int_cast(op, ops) ==
    CASE ~ IsInt(ops[1]) -> None
      [] IsInt(ops[1]) /\ op.k = "sext" -> sext(op.w, ops[1], op.to)
      [] IsInt(ops[1]) /\ op.k = "zext" -> zext(op.w, ops[1], op.to)
      [] IsInt(ops[1]) /\ op.k = "trunc" -> trunc(op.w, ops[1], op.to)
fold_cast(op, ops) ==
    IF op.k = "zext" /\ "nneg" \in op.flags /\ IsInt(ops[1]) /\ is_negative(op.w, ops[1])
    THEN None ELSE check_fold_int_cast(op, ops)

\* An op that is poison when an operand is, unless the fold does not depend on it.
check_fold_poison_propagating_op(op, ops) ==
    LET known == [i \in DOMAIN ops |-> IF ops[i] = Poison THEN None ELSE ops[i]]
        folded == IF op.k \in Casts THEN fold_cast(op, known) ELSE fold_int(op, known)
    IN  IF folded = None /\ Poison \in ToSet(ops) THEN Poison ELSE folded

fold_select(ops) ==
    IF ops[1] # None
    THEN IF IsInt(ops[1]) THEN (IF is_zero(ops[1]) THEN ops[3] ELSE ops[2]) ELSE None
    ELSE IF ops[2] # None /\ ops[2] = ops[3] THEN ops[2] ELSE None

fold_freeze(ops) == IF ops[1] \in {Undef, Poison} THEN None ELSE ops[1]

check_fold(op, ops) ==
    CASE op.k = "const" -> op.val
      [] op.k = "select" -> fold_select(ops)
      [] op.k = "freeze" -> fold_freeze(ops)
      [] OTHER -> check_fold_poison_propagating_op(op, ops)

\* What fold_in_place puts in the place of the result: all uses of a frozen undef or
\* poison see zero.
fold_in_place(op, ops) ==
    IF op.k = "freeze" /\ ops[1] \in {Undef, Poison} THEN 0 ELSE check_fold(op, ops)

\* The constant that decides a branch: the indices of the successors it leaves.
possible_successor_indices(cond) ==
    IF cond \in {Undef, Poison} THEN {} ELSE IF cond = None THEN {1, 2} ELSE {IF is_zero(cond) THEN 2 ELSE 1}

(***************************************************************************)
(* Floats.                                                                 *)
(***************************************************************************)
partial_cmp(a, b) ==
    CASE NaN \in {a, b} -> "none" [] NaN \notin {a, b} /\ a < b -> "less"
      [] NaN \notin {a, b} /\ a = b -> "equal" [] NaN \notin {a, b} /\ a > b -> "greater"
eval_fcmp(pred, a, b) ==
    LET ord == partial_cmp(a, b) IN
    CASE pred = "ord" -> ord # "none" [] pred = "uno" -> ord = "none"
      [] pred = "oeq" -> ord = "equal" [] pred = "one" -> ord \in {"less", "greater"}
      [] pred = "ogt" -> ord = "greater" [] pred = "oge" -> ord \in {"greater", "equal"}
      [] pred = "olt" -> ord = "less" [] pred = "ole" -> ord \in {"less", "equal"}
      [] pred = "ueq" -> ord \notin {"less", "greater"} [] pred = "une" -> ord # "equal"
      [] pred = "ugt" -> ord \notin {"less", "equal"} [] pred = "uge" -> ord # "less"
      [] pred = "ult" -> ord \notin {"greater", "equal"} [] pred = "ule" -> ord # "greater"

fast_math_forbids_fold(flags, values) ==
    \/ "nnan" \in flags /\ NaN \in values
    \/ "ninf" \in flags /\ {PInf, NInf} \cap values # {}

TowardZero(a) == IF a >= 0 THEN a \div 2 ELSE - ((- a) \div 2)
\* apfloat: INVALID_OP for NaN, the infinities and values outside the integers of the width.
Converts(a, lo, hi) == a \notin {NaN, PInf, NInf} /\ TowardZero(a) \in lo..hi

check_fold_float_to_int(signed, to, a) ==
    IF signed
    THEN LET cw == IF to < 2 THEN 2 ELSE to
         IN  IF ~ Converts(a, - imin(cw), imin(cw) - 1) \/ (to = 1 /\ TowardZero(a) \notin {-1, 0})
             THEN None ELSE TowardZero(a) % 2^to
    ELSE IF Converts(a, 0, umax(to)) THEN TowardZero(a) ELSE None

check_fold_int_to_float(w, signed, nneg, a) ==
    IF nneg /\ is_negative(w, a) THEN NoFloat
    ELSE 2 * (IF signed THEN Signed(w, a) ELSE a)

fold_fcmp(op, a, b) ==
    IF fast_math_forbids_fold(op.flags, {a, b}) THEN None ELSE bool_attr(eval_fcmp(op.pred, a, b))
============================================================================
