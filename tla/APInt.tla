------------------------------- MODULE APInt -------------------------------
(***************************************************************************)
(* APInt (src/src/utils/apint.rs): integers of a bit width w, kept as the  *)
(* bit patterns 0..2^w-1.  The awint crate below it is external: what its  *)
(* operations do is stated on the bits.                                    *)
(***************************************************************************)
EXTENDS Integers, FiniteSetsExt

umax(w) == 2^w - 1
imin(w) == 2^(w - 1)
Patterns(w) == 0..umax(w)

Bit(a, i) == (a \div 2^i) % 2
FromBits(w, bit(_)) == MapThenSumSet(LAMBDA i : bit(i) * 2^i, 0..(w - 1))

is_zero(a) == a = 0
is_negative(w, a) == Bit(a, w - 1) = 1
Signed(w, a) == IF is_negative(w, a) THEN a - 2^w ELSE a

\* awint's full adder and resizes.
cin_sum(w, cin, a, b) ==
    LET sum == (a + b + cin) % 2^w
    IN  [value |-> sum,
         carry |-> a + b + cin >= 2^w,
         signed |-> is_negative(w, a) = is_negative(w, b) /\ is_negative(w, sum) # is_negative(w, a)]
Not(w, a) == umax(w) - a
sext(w, a, to) == FromBits(to, LAMBDA i : Bit(a, IF i < w THEN i ELSE w - 1))
zext(w, a, to) == a % 2^to
trunc(w, a, to) == zext(w, a, to)

add(w, a, b) == cin_sum(w, 0, a, b).value
sub(w, a, b) == (a + Not(w, b) + 1) % 2^w
mul(w, a, b) == (a * b) % 2^w

\* Mutant: the carry of the sum is taken for the borrow of the difference.
sub_overflow_Carry(w, a, b) ==
    LET s == cin_sum(w, 1, a, Not(w, b)) IN <<s.value, s.carry, s.signed>>

\* <<result, unsigned overflow, signed overflow>>
add_overflow(w, a, b) ==
    LET s == cin_sum(w, 0, a, b) IN <<s.value, s.carry, s.signed>>
sub_overflow(w, a, b) ==
    LET s == cin_sum(w, 1, a, Not(w, b)) IN <<s.value, ~ s.carry, s.signed>>
mul_overflow(w, a, b) ==
    LET uprod == (a * b) % 2^(2 * w)
        sprod == (sext(w, a, 2 * w) * sext(w, b, 2 * w)) % 2^(2 * w)
    IN  <<mul(w, a, b), zext(w, zext(2 * w, uprod, w), 2 * w) # uprod,
          sext(w, zext(2 * w, sprod, w), 2 * w) # sprod>>

shl(w, a, b) == IF b < w THEN (a * 2^b) % 2^w ELSE 0
lshr(w, a, b) == IF b < w THEN a \div 2^b ELSE 0
ashr(w, a, b) ==
    LET n == IF b < w - 1 THEN b ELSE w - 1
    IN  FromBits(w, LAMBDA i : Bit(a, IF i + n < w THEN i + n ELSE w - 1))
shl_overflow(w, a, b) ==
    LET r == shl(w, a, b) IN <<r, lshr(w, r, b) # a, ashr(w, r, b) # a>>

udiv(w, a, b) == a \div b
urem(w, a, b) == a % b

\* awint divides the absolute values and gives the quotient and the remainder their signs.
Magnitude(w, a) == IF is_negative(w, a) THEN 2^w - a ELSE a
Negate(w, a) == (2^w - a) % 2^w
sdiv(w, a, b) ==
    LET q == Magnitude(w, a) \div Magnitude(w, b)
    IN  IF is_negative(w, a) # is_negative(w, b) THEN Negate(w, q) ELSE q % 2^w
srem(w, a, b) ==
    LET r == Magnitude(w, a) % Magnitude(w, b)
    IN  IF is_negative(w, a) THEN Negate(w, r) ELSE r

and(w, a, b) == FromBits(w, LAMBDA i : Bit(a, i) * Bit(b, i))
or(w, a, b) == FromBits(w, LAMBDA i : Bit(a, i) + Bit(b, i) - Bit(a, i) * Bit(b, i))
xor(w, a, b) == FromBits(w, LAMBDA i : (Bit(a, i) + Bit(b, i)) % 2)

ult(w, a, b) == a < b
slt(w, a, b) ==
    IF is_negative(w, a) # is_negative(w, b) THEN is_negative(w, a) ELSE a < b
============================================================================
