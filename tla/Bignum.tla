------------------------------ MODULE Bignum ------------------------------
(***************************************************************************)
(* The multi-word numbers of the RSA signer (s4/bignum.c): fixed arrays of *)
(* words, least significant first, whose operations lose what does not     *)
(* fit.  A number is a function from word indices to words; every operator *)
(* works word by word, as its loop does.                                   *)
(*                                                                         *)
(* The loops that are unrolled four times cover every word because         *)
(* BN_ARRAY_SIZE is one more than a multiple of four.  "z - z" of an       *)
(* uninitialised z is 0 in every build.                                    *)
(***************************************************************************)
EXTENDS Integers, Sequences, FiniteSetsExt

CONSTANTS WordBits,  \* 8 * WORD_SIZE
          Words      \* BN_ARRAY_SIZE

BignumAssumption ==
    /\ WordBits \in Nat \ {0}
    /\ Words \in Nat \ {0, 1} /\ Words % 4 = 1

Index == 0 .. Words - 1
MaxBits == WordBits * Words
Base == 2 ^ WordBits
Bn == [Index -> 0 .. Base - 1]

\* What a number stands for, and the number of a value that fits.
Value(n) ==
    LET upTo[i \in 0 .. Words] ==
            IF i = 0 THEN 0 ELSE upTo[i - 1] + n[i - 1] * Base ^ (i - 1)
    IN  upTo[Words]
Number(v) == [i \in Index |-> (v \div Base ^ i) % Base]
Modulus == 2 ^ MaxBits

Zero == [i \in Index |-> 0]  \* bignum_init
FromInt(v) ==                \* bignum_from_int, of a double word
    [Zero EXCEPT ![0] = v % Base, ![1] = (v \div Base) % Base]
One == FromInt(1)

\* n itself; TLC computes its words here once and not wherever they are used.
Computed(n) == CHOOSE a \in {n} : a = n

(***************************************************************************)
(* Addition, subtraction, comparison.                                      *)
(***************************************************************************)
\* Mutant: a carry into a full word is lost.
Add_LostCarry(a, b) ==
    LET carry[i \in Index] ==
            IF i = 0 THEN 0 ELSE IF a[i - 1] + b[i - 1] >= Base THEN 1 ELSE 0
    IN  [i \in Index |-> (a[i] + b[i] + carry[i]) % Base]

Add(a, b) ==
    LET carry[i \in Index] ==
            IF i = 0 THEN 0 ELSE (a[i - 1] + b[i - 1] + carry[i - 1]) \div Base
    IN  Computed([i \in Index |-> (a[i] + b[i] + carry[i]) % Base])

Sub(a, b) ==
    LET borrow[i \in Index] ==
            IF i = 0 THEN 0
            ELSE IF Base + a[i - 1] - b[i - 1] - borrow[i - 1] < Base THEN 1 ELSE 0
    IN  Computed([i \in Index |-> (a[i] - b[i] - borrow[i]) % Base])

\* Mutant: the increment stops at the first word.
Inc_FirstWord(n) == [n EXCEPT ![0] = (@ + 1) % Base]

\* Mutant: the increment does not wrap.
Inc_NoWrap(n) == [n EXCEPT ![0] = @ + 1]

\* bignum_inc and bignum_dec stop at the first word that does not wrap.
Inc(n) ==
    [i \in Index |-> IF \A j \in Index : j < i => n[j] = Base - 1
                     THEN (n[i] + 1) % Base ELSE n[i]]
Dec(n) ==
    [i \in Index |-> IF \A j \in Index : j < i => n[j] = 0
                     THEN (n[i] - 1) % Base ELSE n[i]]

\* bignum_cmp: the most significant word that differs decides.
Differ(a, b) == {i \in Index : a[i] # b[i]}

\* Mutant: the least significant difference decides.
Larger_Low(a, b) == Differ(a, b) # {} /\ LET i == Min(Differ(a, b)) IN a[i] > b[i]

Larger(a, b) == Differ(a, b) # {} /\ LET i == Max(Differ(a, b)) IN a[i] > b[i]
IsZero(n) == \A i \in Index : n[i] = 0

(***************************************************************************)
(* Shifts and bits.                                                        *)
(***************************************************************************)
LshiftWord(n, k) == [i \in Index |-> IF i >= k THEN n[i - k] ELSE 0]

\* _rshift_word moves the lowest words by one and clears the rest.
RshiftWord(n, k) == [i \in Index |-> IF i < k THEN n[i + 1] ELSE 0]

LshiftBits(n, k) ==
    [i \in Index |-> ((n[i] * 2 ^ k) % Base)
                     + IF i > 0 THEN n[i - 1] \div 2 ^ (WordBits - k) ELSE 0]
RshiftBits(n, k) ==
    [i \in Index |-> (n[i] \div 2 ^ k)
                     + IF i < Words - 1 THEN (n[i + 1] * 2 ^ (WordBits - k)) % Base
                       ELSE 0]

\* bignum_lshift, bignum_rshift (which leaves its result in its argument)
Lshift(n, k) ==
    LET whole == LshiftWord(n, k \div WordBits) IN
    Computed(IF k % WordBits = 0 THEN whole ELSE LshiftBits(whole, k % WordBits))

\* Mutant: the bits of the next word are not moved down.
Rshift_OneWord(n, k) == [i \in Index |-> n[i] \div 2 ^ k]

Rshift(n, k) ==
    LET whole == IF k < WordBits THEN n ELSE RshiftWord(n, k \div WordBits) IN
    IF k % WordBits = 0 THEN whole ELSE RshiftBits(whole, k % WordBits)

GetBit(n, k) == (n[k \div WordBits] \div 2 ^ (k % WordBits)) % 2

\* Mutant: the loop ends one bit early.
NumBits_Early(n) ==
    LET set == {k \in 2 .. MaxBits - 1 : GetBit(n, k) = 1} IN
    IF set = {} THEN 0 ELSE Max(set) + 1

\* bignum_numbits never looks at bit 0.
NumBits(n) ==
    LET set == {k \in 1 .. MaxBits - 1 : GetBit(n, k) = 1} IN
    IF set = {} THEN 0 ELSE Max(set) + 1

(***************************************************************************)
(* Multiplication and division.                                            *)
(***************************************************************************)
\* Mutant: the high word of a product is lost.
Mul_LowWord(a, b) ==
    LET row(i) ==
            LET sum[j \in 0 .. Words] ==
                    IF j = 0 THEN Zero
                    ELSE IF i + j - 1 >= Words THEN sum[j - 1]
                    ELSE Add(LshiftWord(FromInt((a[i] * b[j - 1]) % Base), i + j - 1),
                             sum[j - 1])
            IN  sum[Words]
        rows[i \in 0 .. Words] == IF i = 0 THEN Zero ELSE Add(rows[i - 1], row(i - 1))
    IN  rows[Words]

Mul(a, b) ==
    LET row(i) ==
            LET sum[j \in 0 .. Words] ==
                    IF j = 0 THEN Zero
                    ELSE IF i + j - 1 >= Words THEN sum[j - 1]
                    ELSE Add(LshiftWord(FromInt(a[i] * b[j - 1]), i + j - 1), sum[j - 1])
            IN  sum[Words]
        rows[i \in 0 .. Words] == IF i = 0 THEN Zero ELSE Add(rows[i - 1], row(i - 1))
    IN  rows[Words]

\* The number with these bits set.
OfBits(bits) ==
    [i \in Index |-> LET mine == {k \in bits : k \div WordBits = i} IN
                     MapThenSumSet(LAMBDA k : 2 ^ (k % WordBits), mine)]

\* Mutant: the divisor is shifted out of the top word.
Doublings_NoTop(a, b) ==
    LET denom[k \in 0 .. MaxBits] == IF k = 0 THEN b ELSE LshiftBits(denom[k - 1], 1) IN
    CHOOSE k \in 0 .. MaxBits :
        /\ Larger(denom[k], a) \/ k = MaxBits
        /\ \A j \in 0 .. k - 1 : ~Larger(denom[j], a)

\* The first loop of bignum_div: b is doubled until it is larger than a or its
\* top bit is set (which never happens for 0).
Doublings(a, b) ==
    LET denom[k \in 0 .. MaxBits] == IF k = 0 THEN b ELSE LshiftBits(denom[k - 1], 1)
        stops(k) == Larger(denom[k], a) \/ denom[k][Words - 1] >= Base \div 2
    IN  CHOOSE k \in 0 .. MaxBits : stops(k) /\ \A j \in 0 .. k - 1 : ~stops(j)

Div(a, b) ==
    LET denom[k \in 0 .. MaxBits] == IF k = 0 THEN b ELSE LshiftBits(denom[k - 1], 1)
        last == Doublings(a, b)
        first == IF Larger(denom[last], a) THEN last - 1 ELSE last
        left[k \in 0 .. first + 1] ==
            IF k = first + 1 THEN a
            ELSE LET before == left[k + 1] IN
                 IF Larger(denom[k], before) THEN before ELSE Sub(before, denom[k])
    IN  OfBits({k \in 0 .. first : ~Larger(denom[k], left[k + 1])})

\* bignum_divmod multiplies the quotient again.
Mod(a, b) == Sub(a, Mul(Div(a, b), b))

(***************************************************************************)
(* Numbers from strings of hexadecimal digits: a string is the sequence of *)
(* its digits, the most significant first, and DigitBits a digit's width.  *)
(***************************************************************************)
\* Mutant: the first word of the string is the lowest.
FromDigits_Forward(digits, digitBits) ==
    LET perWord == WordBits \div digitBits
        word(i) ==
            LET value[d \in 0 .. perWord] ==
                    IF d = 0 THEN 0
                    ELSE value[d - 1] * 2 ^ digitBits + digits[i * perWord + d]
            IN  IF (i + 1) * perWord > Len(digits) THEN 0 ELSE value[perWord]
    IN  [i \in Index |-> word(i)]

\* bignum_from_string reads whole words from the end; digits that do not fill a
\* word are left out.
FromDigits(digits, digitBits) ==
    LET perWord == WordBits \div digitBits
        word(i) ==
            LET from == Len(digits) - (i + 1) * perWord
                value[d \in 0 .. perWord] ==
                    IF d = 0 THEN 0 ELSE value[d - 1] * 2 ^ digitBits + digits[from + d]
            IN  IF from < 0 THEN 0 ELSE value[perWord]
    IN  [i \in Index |-> word(i)]
=============================================================================
