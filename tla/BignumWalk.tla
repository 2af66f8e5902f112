---------------------------- MODULE BignumWalk ----------------------------
(***************************************************************************)
(* Two counters walk through the numbers of Bignum by incrementing, and    *)
(* the operators are compared with integer arithmetic on every pair.       *)
(***************************************************************************)
EXTENDS Bignum

CONSTANTS XTop, YTop,  \* bounds: the counters stop at these values
          YStep        \* bound: the second counter's stride, in units of a word

VARIABLES x, y

Init == x = Zero /\ y = Zero

XNext == /\ Value(x) < XTop
         /\ x' = Inc(x)
         /\ UNCHANGED y

YNext == /\ Value(y) < YTop
         /\ y' = Add(y, Lshift(FromInt(YStep), WordBits))
         /\ UNCHANGED x

Next == XNext \/ YNext

Spec == Init /\ [][Next]_<<x, y>>

(***************************************************************************)
(* Properties                                                              *)
(***************************************************************************)
X == Value(x)
Y == Value(y)

\* Numbers keep their width.
TypeOK == x \in Bn /\ y \in Bn

\* Sums and differences are exact up to the width of the array, whatever
\* carries run through full or empty words.
SumsExact == /\ Value(Add(x, y)) = (X + Y) % Modulus
             /\ Value(Sub(x, y)) = (X - Y) % Modulus

\* Incrementing and decrementing undo one another, and count.
CountsByOne == Dec(Inc(x)) = x /\ Value(Inc(x)) = (X + 1) % Modulus

\* The row-by-row product is exact up to the width.
ProductExact == Value(Mul(x, y)) = (X * Y) % Modulus

\* Shift-and-subtract division is exact, also when the divisor reaches the top
\* bit of the array.
QuotientExact == Y > 0 => /\ Value(Div(x, y)) = X \div Y
                          /\ Value(Mod(x, y)) = X % Y

\* Left shifts over any number of words are exact, right shifts of less than a
\* word too.
ShiftsExact ==
    /\ \A k \in 0 .. MaxBits - 1 : Value(Lshift(x, k)) = (X * 2 ^ k) % Modulus
    /\ \A k \in 0 .. WordBits - 1 : Value(Rshift(x, k)) = X \div 2 ^ k

\* Comparing words from the top orders the numbers.
CompareOrders == Larger(x, y) <=> X > Y

\* bignum_numbits counts the bits of everything above 1.
BitsCounted == X > 1 => X < 2 ^ NumBits(x) /\ 2 ^ NumBits(x) <= 2 * X

\* The last n binary digits of a value.
Digits(v, n) == [d \in 1 .. n |-> (v \div 2 ^ (n - d)) % 2]

\* A string of whole words of digits reads as its value.
DigitsExact == \A w \in 1 .. Words :
    Value(FromDigits(Digits(X, w * WordBits), 1)) = X % 2 ^ (w * WordBits)

\* bignum.c:91 asks for an even number of digits, "string format must be in hex ->
\* equal number of bytes": any such string reads as its value.
EvenDigitsExact == \A n \in 1 .. MaxBits : n % 2 = 0 =>
    Value(FromDigits(Digits(X, n), 1)) = X % 2 ^ n

\* bignum.h:80 "b = a >> nbits", by whole words too.
RightShiftsExact == \A k \in 0 .. MaxBits - 1 : Value(Rshift(x, k)) = X \div 2 ^ k

\* The original bignum_numbits, kept in a comment, counts the one bit of 1.
OneHasABit == X = 1 => NumBits(x) = 1
=============================================================================
