------------------------------ MODULE RsaSign ------------------------------
(***************************************************************************)
(* The RSA signature with Chinese remaindering of s4/sign_main.c:          *)
(* rsa_sign, init_lut, modExpLUT and montMult, on the multi-word numbers   *)
(* of Bignum.  One step is one round of montMult's loop, or what the       *)
(* caller does with its result.  The hash is any message the key allows.   *)
(***************************************************************************)
EXTENDS Bignum

CONSTANTS Keys,      \* records [p, q, e]: primes p > q and a public exponent
          Messages   \* values of the hash

\* p and q fill half of the modulus' words, as 1536 of 3072 bits do, and the hash
\* is smaller than both.
KeysAssumption ==
    \A key \in Keys : /\ key.p > key.q /\ key.q > 2
                      /\ key.p ^ 2 < 2 ^ (MaxBits - WordBits)
                      /\ \A m \in Messages : m \in Nat /\ m < key.q

VARIABLES
    key,        \* the key in use
    parm,       \* its parameters as numbers, with R^2 for both primes
    m,          \* the message
    pc,         \* what montMult's result is for: "lut", "one", "exp", "out"; "crt", "done"
    prime,      \* the half of the work: "p" or "q"
    i,          \* the loop of init_lut or modExpLUT
    lut,        \* the static table of squares
    z,          \* zarr[1]
    m1, m2,     \* the two halves of the signature
    s,          \* the signature
    mont        \* montMult's arguments, its running sum t and the bits done

vars == <<key, parm, m, pc, prime, i, lut, z, m1, m2, s, mont>>

\* The least x for which d * x is 1 modulo n.
InverseMod(d, n) == CHOOSE x \in 1 .. n : (d * x) % n = 1 % n

D(k) == InverseMod(k.e, (k.p - 1) * (k.q - 1))

\* What rsa_sign computes for one prime first: bignum_numbits, and the square of
\* R modulo the prime.
R2(modulus, bits) == LET R == Lshift(One, bits) IN Mod(Mul(R, R), modulus)
Half(p, d) == [modulus |-> Number(p), exponent |-> Number(d % (p - 1)),
               bits |-> NumBits(Number(p)), r2 |-> R2(Number(p), NumBits(Number(p)))]
Parameters(k) == [p |-> Half(k.p, D(k)), q |-> Half(k.q, D(k)),
                  qinv |-> Number(InverseMod(k.q, k.p))]

\* LUT_SIZE: a half has at most as many bits.
LutSize == (WordBits * (Words - 1)) \div 2 + 1

\* The call montMult(x, y, m, mBits, ...).
Call(x, y) == [x |-> x, y |-> y, t |-> Zero, k |-> 0]

TypeOK ==
    /\ key \in Keys /\ m \in Bn
    /\ pc \in {"lut", "one", "exp", "out", "crt", "done"} /\ prime \in {"p", "q"}
    /\ i \in 0 .. LutSize - 1
    /\ lut \in [0 .. LutSize - 1 -> Bn]
    /\ {z, m1, m2, s} \subseteq Bn
    /\ mont \in [x : Bn, y : Bn, t : Bn, k : 0 .. MaxBits]

\* rsa_sign begins with the table for p.
Init ==
    /\ key \in Keys
    /\ parm = Parameters(key)
    /\ \E v \in Messages : m = Number(v)
    /\ pc = "lut" /\ prime = "p" /\ i = 0
    /\ lut = [k \in 0 .. LutSize - 1 |-> Zero]
    /\ z = Zero /\ m1 = Zero /\ m2 = Zero /\ s = Zero
    /\ mont = Call(m, parm.p.r2)

(***************************************************************************)
(* montMult                                                                *)
(***************************************************************************)
\* Mutant: whether the sum is odd is decided before y is added.
Round_EarlyParity(call, modulus) ==
    LET xi == GetBit(call.x, call.k)
        t0 == GetBit(call.t, 0)
        added == IF xi = 1 THEN Add(call.t, call.y) ELSE call.t
    IN  Rshift(IF t0 = 1 THEN Add(added, modulus) ELSE added, 1)

Round(call, modulus) ==
    LET xi == GetBit(call.x, call.k)
        y0 == GetBit(call.y, 0)
        t0 == GetBit(call.t, 0)
        added == IF xi = 1 THEN Add(call.t, call.y) ELSE call.t
        odd == (t0 + xi * y0) % 2 = 1
    IN  Rshift(IF odd THEN Add(added, modulus) ELSE added, 1)

MontRound ==
    /\ pc \in {"lut", "one", "exp", "out"}
    /\ mont.k < parm[prime].bits
    /\ mont' = [mont EXCEPT !.t = Round(mont, parm[prime].modulus), !.k = @ + 1]
    /\ UNCHANGED <<key, parm, m, pc, prime, i, lut, z, m1, m2, s>>

Finished == mont.k = parm[prime].bits

\* Mutant: the result is not reduced.
Reduced_Never(t, modulus) == t

Reduced(t, modulus) == IF Larger(modulus, t) THEN t ELSE Sub(t, modulus)

Result == Reduced(mont.t, parm[prime].modulus)

(***************************************************************************)
(* init_lut and modExpLUT: m^(2^i) in lut[i], then the product of those    *)
(* the exponent selects.                                                   *)
(***************************************************************************)
\* Mutant: the table ends one square early.
LutDone_Early == /\ pc = "lut" /\ Finished /\ i >= parm[prime].bits - 2
                 /\ lut' = [lut EXCEPT ![i] = Result]
                 /\ pc' = "one"
                 /\ mont' = Call(One, parm[prime].r2)
                 /\ UNCHANGED <<key, parm, m, prime, i, z, m1, m2, s>>

\* Mutant: one square too many.
LutNext_Over == /\ pc = "lut" /\ Finished /\ i <= parm[prime].bits
                /\ lut' = [lut EXCEPT ![i] = Result]
                /\ i' = i + 1
                /\ mont' = Call(Result, Result)
                /\ UNCHANGED <<key, parm, m, pc, prime, z, m1, m2, s>>

LutNext == /\ pc = "lut" /\ Finished /\ i < parm[prime].bits
           /\ lut' = [lut EXCEPT ![i] = Result]
           /\ i' = i + 1
           /\ mont' = Call(Result, Result)
           /\ UNCHANGED <<key, parm, m, pc, prime, z, m1, m2, s>>

LutDone == /\ pc = "lut" /\ Finished /\ i = parm[prime].bits
           /\ lut' = [lut EXCEPT ![i] = Result]
           /\ pc' = "one"
           /\ mont' = Call(One, parm[prime].r2)
           /\ UNCHANGED <<key, parm, m, prime, i, z, m1, m2, s>>

\* Mutant: the exponent's top bit is not looked at.
ExpGo_Early(from, value) ==
    LET bits == {k \in from .. parm[prime].bits - 2 : GetBit(parm[prime].exponent, k) = 1} IN
    IF bits = {}
    THEN pc' = "out" /\ i' = parm[prime].bits /\ mont' = Call(value, One)
    ELSE /\ pc' = "exp" /\ i' = Min(bits)
         /\ mont' = Call(value, lut[Min(bits)])

\* The next bit of the exponent that is set, or the way out of Montgomery's form.
ExpGo(from, value) ==
    LET bits == {k \in from .. parm[prime].bits - 1 : GetBit(parm[prime].exponent, k) = 1} IN
    IF bits = {}
    THEN pc' = "out" /\ i' = parm[prime].bits /\ mont' = Call(value, One)
    ELSE /\ pc' = "exp" /\ i' = Min(bits)
         /\ mont' = Call(value, lut[Min(bits)])

ExpStart == /\ pc = "one" /\ Finished
            /\ z' = Result
            /\ ExpGo(0, Result)
            /\ UNCHANGED <<key, parm, m, prime, lut, m1, m2, s>>

ExpNext == /\ pc = "exp" /\ Finished
           /\ z' = Result
           /\ ExpGo(i + 1, Result)
           /\ UNCHANGED <<key, parm, m, prime, lut, m1, m2, s>>

\* The second half starts with its own table, over the first one's.
OutP == /\ pc = "out" /\ Finished /\ prime = "p"
        /\ m1' = Result
        /\ pc' = "lut" /\ prime' = "q" /\ i' = 0
        /\ mont' = Call(m, parm.q.r2)
        /\ UNCHANGED <<key, parm, m, lut, z, m2, s>>

OutQ == /\ pc = "out" /\ Finished /\ prime = "q"
        /\ m2' = Result
        /\ pc' = "crt"
        /\ UNCHANGED <<key, parm, m, prime, i, lut, z, m1, s, mont>>

\* Mutant: the difference of the halves may wrap.
Difference_Wraps == Sub(m1, m2)

\* h = (m1 - m2) mod p
Difference == IF Larger(m2, m1) THEN Sub(Add(m1, parm.p.modulus), m2) ELSE Sub(m1, m2)

Crt == /\ pc = "crt"
       /\ LET h == Mod(Mul(Difference, parm.qinv), parm.p.modulus)
          IN  s' = Add(m2, Mul(h, parm.q.modulus))
       /\ pc' = "done"
       /\ UNCHANGED <<key, parm, m, prime, i, lut, z, m1, m2, mont>>

\* The signer stops here and nowhere else (TLC checks for deadlocks).
Done == pc = "done" /\ UNCHANGED vars

Next == MontRound \/ LutNext \/ LutDone \/ ExpStart \/ ExpNext \/ OutP \/ OutQ \/ Crt \/ Done

Spec == Init /\ [][Next]_vars

(***************************************************************************)
(* Properties                                                              *)
(***************************************************************************)
PowerMod(b, e, n) ==
    LET power[k \in 0 .. e] ==
            IF k = 0 THEN 1 % n
            ELSE LET half == power[k \div 2]
                 IN  (((half * half) % n) * (IF k % 2 = 1 THEN b ELSE 1)) % n
    IN  power[e]

Running == pc \in {"lut", "one", "exp", "out"}
V == Value(parm[prime].modulus)

\* Montgomery's loop invariant: after k rounds the sum, times 2^k, is the product
\* of the low k bits of x with y.
MontgomeryHolds == Running =>
    LET low == Value(mont.x) % 2 ^ mont.k IN
    (Value(mont.t) * 2 ^ mont.k) % V = (low * Value(mont.y)) % V

\* The sum stays below y + modulus, so that one subtraction reduces it and the
\* additions of a round do not run out of the array.
OneSubtraction == Running => Value(mont.t) < Value(mont.y) + V /\ Value(mont.y) <= V

\* The table that modExpLUT reads was built for this message and this prime: every
\* entry it uses is a power of the message in Montgomery's form.
TableIsCurrent == pc \in {"one", "exp", "out"} =>
    \A k \in 0 .. parm[prime].bits - 1 :
        Value(lut[k]) = (PowerMod(Value(m), 2 ^ k, V) * 2 ^ parm[prime].bits) % V

\* The signature is the message to the private exponent, and raising it to the
\* public one gives the message back.
SignatureVerifies == pc = "done" =>
    LET n == key.p * key.q IN
    /\ Value(s) = PowerMod(Value(m), D(key), n)
    /\ PowerMod(Value(s), key.e, n) = Value(m)
=============================================================================
