--------------------------- MODULE MCGuestModules ---------------------------
(***************************************************************************)
(* Instances for TLC of the kernel modules the guests of the TDX tree      *)
(* load: the ring two guests share (TdRing), the dump device and the page  *)
(* it shares with its host (TdiDump), the hypercall that replaces a page   *)
(* (EptReplace), and the signer (RsaSign) with its numbers (Bignum), which *)
(* BignumWalk compares with integers.  They share no state: setting says   *)
(* which a behaviour is about, the others stay in one initial state.       *)
(***************************************************************************)
EXTENDS TdRing, FiniteSetsExt

CONSTANTS w1, c1, td, other, g1, g2, h1, h2

VARIABLES setting,
          page, in, tdProc, runs, stored, mail, mapped_page, mappings, hc,
          mapped, ept, tlb, replaced,
          x, y,
          key, parm, m, spc, prime, i, lut, z, m1, m2, s, mont

Dump == INSTANCE TdiDump WITH
    Callers <- {c1}, TdPage <- td, Pages <- {td, other}, Gvas <- {g1, g2},
    Sizes <- {1, 3, 6}, PAGE_HALVES <- 6, MAX_RUNS <- 3, MAX_HYPERCALLS <- 2,
    td <- tdProc

\* Pages under one entry of the root, or under both.
Ept == INSTANCE EptReplace WITH
    Index <- {0, 1}, Hpas <- {h1, h2},
    Backings <- {{<<0, 0, 0, 1>>, <<0, 0, 1, 0>>},
                 {<<0, 1, 0, 0>>, <<1, 0, 1, 1>>, <<1, 1, 0, 1>>}}

\* Five words of two bits: every first operand, every 20th second one.
Numbers == INSTANCE BignumWalk WITH
    WordBits <- 2, Words <- 5, XTop <- 1023, YTop <- 1000, YStep <- 5

\* Keys: every public exponent up to a bound for the given primes.
Gcd(a, b) == Max({d \in 1 .. a : a % d = 0 /\ b % d = 0})
KeysOf(p, q, top) ==
    {[p |-> p, q |-> q, e |-> e] :
        e \in {e \in 3 .. top : Gcd(e, (p - 1) * (q - 1)) = 1}}

\* Primes of four bits in words of two, every message.
Small == INSTANCE RsaSign WITH
    WordBits <- 2, Words <- 5, Keys <- KeysOf(13, 11, 23), Messages <- 0 .. 10,
    pc <- spc

\* Primes of six bits in words of three.
Large == INSTANCE RsaSign WITH
    WordBits <- 3, Words <- 5, Keys <- KeysOf(61, 41, 13),
    Messages <- {0, 1, 2, 7, 31, 40}, pc <- spc

\* One key and message, for the settings that do not sign.
Unused == INSTANCE RsaSign WITH
    WordBits <- 2, Words <- 5, Keys <- KeysOf(13, 11, 7), Messages <- {2}, pc <- spc

ASSUME Dump!DumpAssumption /\ Ept!BackingAssumption
ASSUME Numbers!BignumAssumption /\ Small!BignumAssumption /\ Large!BignumAssumption
ASSUME Small!KeysAssumption /\ Large!KeysAssumption

dumpVars == <<page, in, tdProc, runs, stored, mail, mapped_page, mappings, hc>>
eptVars == <<mapped, ept, tlb, replaced>>
numberVars == <<x, y>>
signVars == <<key, parm, m, spc, prime, i, lut, z, m1, m2, s, mont>>
guestVars == <<setting, vars, dumpVars, eptVars, numberVars, signVars>>

GuestInit ==
    /\ setting \in {"ring", "writers", "dump", "ept", "numbers", "small", "large"}
    /\ Init /\ Dump!Init /\ Ept!Init /\ Numbers!Init
    /\ setting # "ept" => <<0, 0, 0, 1>> \in mapped
    /\ CASE setting = "small" -> Small!Init
         [] setting = "large" -> Large!Init
         [] OTHER -> Unused!Init

\* Two processes write at once only when each makes one call.
OneWrites == \A w \in Writers \ {w1} : calls'[w] = 0
OneCallEach == \A p \in Procs : calls'[p] <= 1

GuestNext ==
    /\ UNCHANGED setting
    /\ \/ setting = "ring" /\ Next /\ OneWrites
          /\ UNCHANGED <<dumpVars, eptVars, numberVars, signVars>>
       \/ setting = "writers" /\ Next /\ OneCallEach
          /\ UNCHANGED <<dumpVars, eptVars, numberVars, signVars>>
       \/ setting = "dump" /\ Dump!Next
          /\ UNCHANGED <<vars, eptVars, numberVars, signVars>>
       \/ setting = "ept" /\ Ept!Next
          /\ UNCHANGED <<vars, dumpVars, numberVars, signVars>>
       \/ setting = "numbers" /\ Numbers!Next
          /\ UNCHANGED <<vars, dumpVars, eptVars, signVars>>
       \/ setting = "small" /\ Small!Next
          /\ UNCHANGED <<vars, dumpVars, eptVars, numberVars>>
       \/ setting = "large" /\ Large!Next
          /\ UNCHANGED <<vars, dumpVars, eptVars, numberVars>>

GuestSpec == GuestInit /\ [][GuestNext]_guestVars

\* The first piece of a run is stored, the FIFO has a beginning of what the run dumped
\* and the pieces cover the data; a hypercall works on its own mapping, leaves none
\* behind, and reads a target address that stays whole.
DumpIsPrefix ==
    setting = "dump" =>
        /\ Dump!TypeOK /\ Dump!FirstPieceStored /\ Dump!StoredIsPrefix
        /\ Dump!PiecesCoverData
        /\ Dump!FreshMailRead /\ Dump!OwnMapping /\ Dump!NoMappingLeft

\* What replacing a page damages is under one entry of the root.
DamageConfined == [][setting = "ept" => Ept!DamageIsThere]_guestVars

\* Sums, differences, products, quotients, remainders, shifts, comparisons, bit counts
\* and readings of a string are those of the numbers, modulo the width.
NumbersExact ==
    setting = "numbers" =>
        /\ Numbers!TypeOK /\ Numbers!SumsExact /\ Numbers!CountsByOne
        /\ Numbers!ProductExact /\ Numbers!QuotientExact /\ Numbers!ShiftsExact
        /\ Numbers!CompareOrders /\ Numbers!BitsCounted /\ Numbers!DigitsExact

\* A signature is the message to the private exponent, and verifies: Montgomery's loop
\* keeps its invariant, one subtraction reduces a product, and the table of squares is
\* that of the current message and prime.
SignatureVerifies ==
    /\ setting = "small" =>
        /\ Small!TypeOK /\ Small!MontgomeryHolds /\ Small!OneSubtraction
        /\ Small!TableIsCurrent /\ Small!SignatureVerifies
    /\ setting = "large" =>
        Large!MontgomeryHolds /\ Large!OneSubtraction /\ Large!SignatureVerifies
=============================================================================
