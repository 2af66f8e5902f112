----------------------------- MODULE EptReplace -----------------------------
(***************************************************************************)
(* replace_gpa_with_hpa and get_ept_pte of                                 *)
(* src/tetd_x86/tetd_h_g/host/kvm/x86.c: a hypercall of a guest puts the   *)
(* host page it names behind a guest page of its own, by writing an entry  *)
(* of the guest's extended page table.                                     *)
(*                                                                         *)
(* A guest page is the tuple of its four indices <<pml4, pdpt, pd, pt>>.   *)
(* A table is named by the indices that lead to it, the root by <<>>, as   *)
(* KVM builds it; an entry has its permission bits as one, bit 7 (set only *)
(* where a large page is mapped) and the frame it names.  The guest's      *)
(* memory is mapped with small pages; it names pages it has touched        *)
(* (readgpa_dev.c of the guest clears its page before it calls).           *)
(***************************************************************************)
EXTENDS Integers, Sequences

CONSTANTS
    Index,       \* indices of a table
    Hpas,        \* host pages a caller may name
    Backings     \* the sets of guest pages KVM may have mapped before

Gpas == [1 .. 4 -> Index]
BackingAssumption == Backings \subseteq SUBSET Gpas

Tables == UNION {[1 .. n -> Index] : n \in 0 .. 3}
TableFrame(t) == [holds |-> "table", path |-> t]
HomePage(gpa) == [holds |-> "data", path |-> gpa]
Frames == {TableFrame(t) : t \in Tables} \cup {HomePage(g) : g \in Gpas} \cup Hpas
IsTable(frame) == frame \notin Hpas /\ frame.holds = "table"
Fault == [holds |-> "fault", path |-> <<>>]
Unknown == [holds |-> "unknown", path |-> <<>>]
Root == TableFrame(<<>>)
None == [rwx |-> FALSE, bit7 |-> FALSE, to |-> Root]

VARIABLES
    mapped,      \* the guest pages KVM has mapped; it maps no more
    ept,         \* [Tables -> [Index -> entry]]
    tlb,         \* the translations the guest's VCPU has cached
    replaced     \* the call that is being answered: its gpa and hpa, or none

vars == <<mapped, ept, tlb, replaced>>

Prefix(gpa, n) == SubSeq(gpa, 1, n)

\* The tables KVM's own fault handler has built for the guest pages in S.
Built(S) ==
    [t \in Tables |-> [i \in Index |->
        IF \E g \in S : Prefix(g, Len(t) + 1) = Append(t, i)
        THEN [rwx |-> TRUE, bit7 |-> FALSE,
              to |-> IF Len(t) < 3 THEN TableFrame(Append(t, i))
                     ELSE HomePage(Append(t, i))]
        ELSE None]]

NoCall == [gpa |-> <<>>, hpa |-> <<>>]

Init ==
    /\ mapped \in Backings
    /\ ept = Built(mapped)
    /\ tlb = {}
    /\ replaced = NoCall

(* What the processor does: four tables, one index each.  A frame that is  *)
(* no table is read as one all the same, and nothing is known of it.       *)
Translate(gpa) ==
    LET walk[n \in 0 .. 4, frame \in Frames] ==
            IF n = 4 THEN frame
            ELSE IF ~IsTable(frame) THEN Unknown
            ELSE LET entry == ept[frame.path][gpa[n + 1]]
                 IN  IF ~entry.rwx THEN Fault ELSE walk[n + 1, entry.to]
    IN  walk[0, Root]

\* Mutant: the root is indexed with the index that belongs to it.
IndexAt_Pml4(gpa, level) == gpa[4 - level]

\* (gpa >> (EPT_PT_SHIFT + (level - 1) * 9)) & 0x1FF
IndexAt(gpa, level) == gpa[5 - level]

(* get_ept_pte: from the root at level 3 down to level 1; an entry without *)
(* bit 7 ends the walk.  The result is the table and index of the entry,   *)
(* or <<>> for NULL.                                                       *)
GetEptPte(gpa) ==
    LET walk[level \in 1 .. 3, table \in Tables] ==
            LET i == IndexAt(gpa, level)
                entry == ept[table][i]
            IN  IF ~entry.rwx THEN <<>>
                ELSE IF ~entry.bit7 \/ level = 1 THEN <<table, i>>
                ELSE walk[level - 1, entry.to.path]
    IN  walk[3, <<>>]

\* The guest reads a page: through its TLB or, on a miss, through the tables.
GuestAccess(gpa) ==
    /\ \A x \in tlb : x.gpa # gpa
    /\ Translate(gpa) \notin {Fault, Unknown}
    /\ tlb' = tlb \cup {[gpa |-> gpa, frame |-> Translate(gpa)]}
    /\ UNCHANGED <<mapped, ept, replaced>>

\* The processor may drop a cached translation at any time.
Evict ==
    /\ \E x \in tlb : tlb' = tlb \ {x}
    /\ UNCHANGED <<mapped, ept, replaced>>

(* replace_gpa_with_hpa: the entry found is overwritten; the flush after   *)
(* it is commented out.                                                    *)
Replace(gpa, hpa) ==
    LET at == GetEptPte(gpa)
    IN  /\ replaced = NoCall
        /\ at # <<>>
        /\ ept' = [ept EXCEPT ![at[1]][at[2]] =
                      [rwx |-> TRUE, bit7 |-> FALSE, to |-> hpa]]
        /\ replaced' = [gpa |-> gpa, hpa |-> hpa]
        /\ UNCHANGED <<mapped, tlb>>

\* The guest goes on after its hypercall.
Return ==
    /\ replaced # NoCall
    /\ replaced' = NoCall
    /\ UNCHANGED <<mapped, ept, tlb>>

Next ==
    \/ \E g \in Gpas : GuestAccess(g)
    \/ Evict
    \/ \E g \in mapped, h \in Hpas : Replace(g, h)
    \/ Return

Spec == Init /\ [][Next]_vars

-----------------------------------------------------------------------------
(* The page named in the hypercall is behind the guest page when the call  *)
(* returns ("EPT: Replaced GPA 0x%llx with HPA 0x%llx").                   *)
ReplacedIsMapped ==
    replaced # NoCall => Translate(replaced.gpa) = replaced.hpa

(* No cached translation outlives the entry it came from: the comment      *)
(* above the flush says that it makes the change take effect.              *)
TlbFollowsTables ==
    replaced # NoCall => \A x \in tlb : x.frame = Translate(x.gpa)

(* What a call changes is confined to the guest pages whose first index    *)
(* is the second one of the page it names: the walk indexes the root with  *)
(* the directory pointer's index and stops there.                          *)
DamageIsThere ==
    \A g \in Gpas : Translate(g)' # Translate(g) => g[1] = replaced'.gpa[2]
DamageConfined == [][DamageIsThere]_vars

=============================================================================
