------------------------------- MODULE RmmRtt -------------------------------
(***************************************************************************)
(* The stage 2 translation tables (RTTs) of the Realm Management Monitor:  *)
(* tetd_cca/rmm/runtime/rmi/rtt.c.                                         *)
(*                                                                         *)
(* The host asks the RMM to build and take apart the tables of a realm,    *)
(* one RMI command at a time.  Every command works under the lock of the   *)
(* table it changes, so here a command is one step; RttLocking.tla shows   *)
(* why that is sound.  A command that the code rejects changes nothing and *)
(* is not a step of this module.  An operator named ...At is the part of a *)
(* command after the table walk, which ends at w.                          *)
(*                                                                         *)
(* Addresses count granules: an IPA is a page number of the realm, a PA is *)
(* a granule number.                                                       *)
(***************************************************************************)
EXTENDS Integers, FiniteSets

CONSTANTS
    Rds,              \* the realms, named by their realm descriptors
    Granules,         \* the physical granules the host can delegate
    RootOf,           \* RootOf[rd] is the granule of rd's starting-level RTT
    HostPas,          \* physical addresses the host maps as unprotected memory
    S2TTES_PER_S2TT,  \* entries of one table
    StartLevel,       \* realm_rtt_starting_level
    RipasRequests,    \* the RSI_IPA_STATE_SET requests realms make
    TlbMax            \* bound: cached translations kept at a time

RTT_PAGE_LEVEL == 3
RTT_MIN_BLOCK_LEVEL == 2

ASSUME ConstantsAssumption ==
    /\ S2TTES_PER_S2TT \in Nat \ {0}
    /\ StartLevel \in 0 .. RTT_MIN_BLOCK_LEVEL
    /\ Granules \subseteq Nat
    /\ HostPas \subseteq Nat
    /\ TlbMax \in Nat
    /\ RipasRequests \subseteq
         [addr : Nat, top : Nat, ripas : {"empty", "ram"}, change : BOOLEAN]
    /\ RootOf \in [Rds -> Granules]
    /\ \A r1, r2 \in Rds : RootOf[r1] = RootOf[r2] => r1 = r2

\* A table is one granule of eight-byte entries: an even number of them, so that
\* no entry spans both halves of the IPA space.
ASSUME EvenTable == S2TTES_PER_S2TT % 2 = 0

VARIABLES
    gstate,    \* granule -> GRANULE_STATE_*
    refcount,  \* granule -> reference count
    s2tt,      \* granule -> its contents read as a table
    secret,    \* granules holding bytes copied in for, or written by, a realm
    rdState,   \* realm -> REALM_STATE_*
    measured,  \* realm -> pages that entered its initial measurement
    setRipas,  \* realm -> the set_ripas request of its REC
    tlb,       \* cached translations
    lvl        \* auxiliary: the level at which an RTT granule is linked

vars == <<gstate, refcount, s2tt, secret, rdState, measured, setRipas, tlb, lvl>>

-----------------------------------------------------------------------------
(* Addresses.                                                              *)

Idx == 0 .. S2TTES_PER_S2TT - 1
Levels == StartLevel .. RTT_PAGE_LEVEL

\* s2tte_map_size: the granules one entry of a level translates.
MapSize(level) ==
    CASE level = 3 -> 1
      [] level = 2 -> S2TTES_PER_S2TT
      [] level = 1 -> S2TTES_PER_S2TT * S2TTES_PER_S2TT
      [] OTHER -> S2TTES_PER_S2TT * S2TTES_PER_S2TT * S2TTES_PER_S2TT

IpaSize == S2TTES_PER_S2TT * MapSize(StartLevel)
Ipas == 0 .. IpaSize - 1
Par == {a \in Ipas : 2 * a < IpaSize}            \* addr_in_par
Index(addr, level) == (addr \div MapSize(level)) % S2TTES_PER_S2TT
Aligned(addr, level) == addr % MapSize(level) = 0

\* validate_map_addr and the level checks built on it.
ValidMapAddr(addr, level) == addr \in Ipas /\ Aligned(addr, level)
ValidStructureCmd(addr, level) ==
    /\ level \in (StartLevel + 1) .. RTT_PAGE_LEVEL
    /\ ValidMapAddr(addr, level - 1)
ValidMapCmd(addr, level) ==
    /\ level \in RTT_MIN_BLOCK_LEVEL .. RTT_PAGE_LEVEL
    /\ ValidMapAddr(addr, level)

-----------------------------------------------------------------------------
(* Table entries: a HIPAS, a RIPAS (empty outside the protected range and  *)
(* for tables, as RTT_READ_ENTRY reports it) and an output address.  The   *)
(* RMM changes the permissions of assigned RAM only: blocked stands for    *)
(* AP = 0b00 with XN set.                                                  *)

Hipas == {"unassigned", "assigned", "unassigned_ns", "assigned_ns", "table"}
Ripas == {"empty", "ram", "destroyed"}
Entry == [hipas : Hipas, ripas : Ripas, pa : Nat, blocked : BOOLEAN]

MkEntry(hipas, ripas, pa) ==
    [hipas |-> hipas, ripas |-> ripas, pa |-> pa, blocked |-> FALSE]
Unassigned(ripas) == MkEntry("unassigned", ripas, 0)
Assigned(ripas, pa) == MkEntry("assigned", ripas, pa)
UnassignedNs == MkEntry("unassigned_ns", "empty", 0)
AssignedNs(pa) == MkEntry("assigned_ns", "empty", pa)
TableEntry(pa) == MkEntry("table", "empty", pa)

IsTable(e) == e.hipas = "table"
IsUnassigned(e) == e.hipas \in {"unassigned", "unassigned_ns"}
HoldsData(e) == e.hipas = "assigned"
HasOutput(e) == e.hipas \in {"assigned", "assigned_ns"}
\* s2tte_has_ripas: entries of the protected range other than tables.
HasRipas(e) == e.hipas \in {"unassigned", "assigned"}
IsAssignedRam(e) == HoldsData(e) /\ e.ripas = "ram"
\* Entries the hardware walks to the end: they may be cached in a TLB.
IsValid(e) == IsAssignedRam(e) \/ e.hipas = "assigned_ns"
\* Entries that hold a reference on their table.  NS mappings do not.
IsLive(e) == HoldsData(e) \/ IsTable(e)

\* A zeroed granule reads as a table of unassigned entries with RIPAS empty.
ZeroTable == [k \in Idx |-> Unassigned("empty")]

-----------------------------------------------------------------------------
(* The table walk: from the root towards level t, stopping at the first    *)
(* entry that is not a table.  There are at most three steps.              *)

EntryAt(w, addr) == s2tt[w.g][Index(addr, w.level)]

WalkStep(w, addr, t) ==
    LET e == EntryAt(w, addr)
    IN IF w.level < t /\ IsTable(e) THEN [g |-> e.pa, level |-> w.level + 1] ELSE w

Walk(rd, addr, t) ==
    WalkStep(WalkStep(WalkStep([g |-> RootOf[rd], level |-> StartLevel],
                               addr, t), addr, t), addr, t)

Leaf(rd, addr) == EntryAt(Walk(rd, addr, RTT_PAGE_LEVEL), addr)

-----------------------------------------------------------------------------
(* TLB maintenance.  A cached translation covers the range of its entry.   *)

Covers(t, addr) == t.base <= addr /\ addr < t.base + MapSize(t.level)

\* invalidate_page, invalidate_block: one invalidation by IPA for each address.
InvalidateAt(rd, addrs) ==
    {t \in tlb : ~(t.rd = rd /\ \E a \in addrs : Covers(t, a))}
\* Mutant: one invalidation for the whole range.
InvalidateRange_OneAddress(rd, addr, level) == InvalidateAt(rd, {addr})

\* invalidate_pages_in_block: every page the entry at `level` translates.
InvalidateRange(rd, addr, level) ==
    {t \in tlb : ~(/\ t.rd = rd
                   /\ t.base < addr + MapSize(level)
                   /\ addr < t.base + MapSize(t.level))}

-----------------------------------------------------------------------------
(* Granules.                                                               *)

GranuleStates == {"NS", "DELEGATED", "RTT", "DATA"}

\* The host hands a granule to the RMM, which wipes it, or takes it back.
GranuleDelegate(g) ==
    /\ gstate[g] = "NS"
    /\ gstate' = [gstate EXCEPT ![g] = "DELEGATED"]
    /\ secret' = secret \ {g}
    /\ UNCHANGED <<refcount, s2tt, rdState, measured, setRipas, tlb, lvl>>

GranuleUndelegate(g) ==
    /\ gstate[g] = "DELEGATED"
    /\ gstate' = [gstate EXCEPT ![g] = "NS"]
    /\ UNCHANGED <<refcount, s2tt, secret, rdState, measured, setRipas, tlb, lvl>>

-----------------------------------------------------------------------------
(* RMI_RTT_CREATE: a new table below the entry for addr, initialised to    *)
(* mean what the entry meant.  Unfolding a block moves its references to   *)
(* the new table; any other entry becomes live in its own table.           *)

UnfoldEntry(e, level) ==
    [k \in Idx |-> IF HasOutput(e)
                   THEN MkEntry(e.hipas, e.ripas, e.pa + k * MapSize(level))
                   ELSE e]

\* Mutants: unfolding a block forgets the references of the new table; an NS
\* block is counted like a block of data.
RefcountAfterCreate_NoBlockInc(e, g, llt) ==
    IF HoldsData(e) THEN refcount ELSE [refcount EXCEPT ![llt] = @ + 1]
RefcountAfterCreate_NsAsData(e, g, llt) ==
    IF HasOutput(e) THEN [refcount EXCEPT ![g] = @ + S2TTES_PER_S2TT]
                    ELSE [refcount EXCEPT ![llt] = @ + 1]

RefcountAfterCreate(e, g, llt) ==
    IF HoldsData(e) THEN [refcount EXCEPT ![g] = @ + S2TTES_PER_S2TT]
                    ELSE [refcount EXCEPT ![llt] = @ + 1]

RttCreateAt(w, rd, g, addr, level) ==
    /\ LET i == Index(addr, level - 1)
           e == s2tt[w.g][i]
       IN /\ w.level = level - 1
          /\ ~IsTable(e)
          /\ s2tt' = [s2tt EXCEPT ![g] = UnfoldEntry(e, level),
                                  ![w.g] = [@ EXCEPT ![i] = TableEntry(g)]]
          /\ refcount' = RefcountAfterCreate(e, g, w.g)
          /\ tlb' = IF IsValid(e) THEN InvalidateAt(rd, {addr}) ELSE tlb
    /\ gstate' = [gstate EXCEPT ![g] = "RTT"]
    /\ lvl' = [lvl EXCEPT ![g] = level]
    /\ UNCHANGED <<secret, rdState, measured, setRipas>>

RttCreate(rd, g, addr, level) ==
    /\ gstate[g] = "DELEGATED"
    /\ ValidStructureCmd(addr, level)
    /\ RttCreateAt(Walk(rd, addr, level - 1), rd, g, addr, level)

-----------------------------------------------------------------------------
(* RMI_RTT_FOLD and RMI_RTT_DESTROY take the table out again.              *)

\* Mutant: only the first entry's alignment is looked at.
MapsBlock_AnyOrder(tbl, level) == Aligned(tbl[0].pa, level - 1)

\* The table maps one aligned block of the level above, entry after entry.
MapsBlock(tbl, level) ==
    /\ \A k \in Idx : tbl[k].pa = tbl[0].pa + k * MapSize(level)
    /\ Aligned(tbl[0].pa, level - 1)

Homogeneous(tbl) ==
    \A k \in Idx : tbl[k].hipas = tbl[0].hipas /\ tbl[k].ripas = tbl[0].ripas

\* The tables RTT_FOLD accepts, by their reference count.
Foldable(tbl, rc, level) ==
    /\ Homogeneous(tbl)
    /\ \/ /\ rc = 0
          /\ IsUnassigned(tbl[0])
       \/ /\ rc = 0
          /\ tbl[0].hipas = "assigned_ns"
          /\ MapsBlock(tbl, level)
       \/ /\ rc = S2TTES_PER_S2TT
          /\ level > RTT_MIN_BLOCK_LEVEL
          /\ HoldsData(tbl[0])
          /\ MapsBlock(tbl, level)

\* s2tte_create_*: the entry that stands for the table, with default permissions.
FoldedEntry(tbl) == MkEntry(tbl[0].hipas, tbl[0].ripas, tbl[0].pa)

RttFoldAt(w, rd, addr, level) ==
    /\ LET i == Index(addr, level - 1)
           c == s2tt[w.g][i].pa
           new == FoldedEntry(s2tt[c])
       IN /\ w.level = level - 1
          /\ IsTable(s2tt[w.g][i])
          /\ Foldable(s2tt[c], refcount[c], level)
          /\ s2tt' = [s2tt EXCEPT ![w.g] = [@ EXCEPT ![i] = new], ![c] = ZeroTable]
          /\ refcount' = IF refcount[c] = 0
                         THEN [refcount EXCEPT ![w.g] = @ - 1]
                         ELSE [refcount EXCEPT ![c] = @ - S2TTES_PER_S2TT]
          /\ tlb' = IF IsValid(new)
                    THEN InvalidateRange(rd, addr, level - 1)
                    ELSE InvalidateAt(rd, {addr})
          /\ gstate' = [gstate EXCEPT ![c] = "DELEGATED"]
    /\ UNCHANGED <<secret, rdState, measured, setRipas, lvl>>

RttFold(rd, addr, level) ==
    /\ ValidStructureCmd(addr, level)
    /\ RttFoldAt(Walk(rd, addr, level - 1), rd, addr, level)

\* Mutant: the reference count of the table is not looked at.
Destroyable_Always(c) == TRUE

Destroyable(c) == refcount[c] = 0

\* Mutant: both halves of the address space are treated alike.
DestroyFlush_OneAddress(rd, addr, level) == InvalidateAt(rd, {addr})

\* No entry of a destroyed protected table is valid; those of an unprotected one
\* may be.
DestroyFlush(rd, addr, level) ==
    IF addr \in Par THEN InvalidateAt(rd, {addr}) ELSE InvalidateRange(rd, addr, level - 1)

RttDestroyAt(w, rd, addr, level) ==
    /\ LET i == Index(addr, level - 1)
           c == s2tt[w.g][i].pa
           new == IF addr \in Par THEN Unassigned("destroyed") ELSE UnassignedNs
       IN /\ w.level = level - 1
          /\ IsTable(s2tt[w.g][i])
          /\ Destroyable(c)
          /\ s2tt' = [s2tt EXCEPT ![w.g] = [@ EXCEPT ![i] = new], ![c] = ZeroTable]
          /\ refcount' = [refcount EXCEPT ![w.g] = @ - 1]
          /\ tlb' = DestroyFlush(rd, addr, level)
          /\ gstate' = [gstate EXCEPT ![c] = "DELEGATED"]
    /\ UNCHANGED <<secret, rdState, measured, setRipas, lvl>>

RttDestroy(rd, addr, level) ==
    /\ ValidStructureCmd(addr, level)
    /\ RttDestroyAt(Walk(rd, addr, level - 1), rd, addr, level)

-----------------------------------------------------------------------------
(* RMI_RTT_MAP_UNPROTECTED, RMI_RTT_UNMAP_UNPROTECTED: host memory, outside *)
(* the protected range, without a reference on the memory or the table.    *)

RttMapUnprotectedAt(w, rd, addr, level, pa) ==
    LET i == Index(addr, level)
    IN /\ w.level = level
       /\ s2tt[w.g][i].hipas = "unassigned_ns"
       /\ s2tt' = [s2tt EXCEPT ![w.g] = [@ EXCEPT ![i] = AssignedNs(pa)]]
       /\ UNCHANGED <<gstate, refcount, secret, rdState, measured, setRipas, tlb, lvl>>

RttMapUnprotected(rd, addr, level, pa) ==
    /\ ValidMapCmd(addr, level)
    /\ Aligned(pa, level)                       \* host_ns_s2tte_is_valid
    /\ addr \notin Par
    /\ RttMapUnprotectedAt(Walk(rd, addr, level), rd, addr, level, pa)

RttUnmapUnprotectedAt(w, rd, addr, level) ==
    LET i == Index(addr, level)
    IN /\ w.level = level
       /\ s2tt[w.g][i].hipas = "assigned_ns"
       /\ s2tt' = [s2tt EXCEPT ![w.g] = [@ EXCEPT ![i] = UnassignedNs]]
       /\ tlb' = InvalidateAt(rd, {addr})
       /\ UNCHANGED <<gstate, refcount, secret, rdState, measured, setRipas, lvl>>

RttUnmapUnprotected(rd, addr, level) ==
    /\ ValidMapCmd(addr, level)
    /\ addr \notin Par
    /\ RttUnmapUnprotectedAt(Walk(rd, addr, level), rd, addr, level)

-----------------------------------------------------------------------------
(* RMI_DATA_CREATE, RMI_DATA_CREATE_UNKNOWN and RMI_DATA_DESTROY.          *)

\* Mutant: the granule's state is not looked at.
DataGranule_Any(g) == gstate[g] \in {"DELEGATED", "DATA"}

\* find_lock_two_granules: what data_create expects of the granule.
DataGranule(g) == gstate[g] = "DELEGATED"

\* data_create's effect on the table at the end of the walk, with the RIPAS the
\* new entry gets, and on the granule it fills.
MapData(w, g, addr, ripas) ==
    LET i == Index(addr, RTT_PAGE_LEVEL)
    IN /\ w.level = RTT_PAGE_LEVEL
       /\ IsUnassigned(s2tt[w.g][i])
       /\ s2tt' = [s2tt EXCEPT ![w.g] = [@ EXCEPT ![i] = Assigned(ripas, g)]]
       /\ refcount' = [refcount EXCEPT ![w.g] = @ + 1]
       /\ secret' = secret \cup {g}

BecomesData(g) == gstate' = [gstate EXCEPT ![g] = "DATA"]

\* The contents come from the host and are measured: only before activation.
DataCreateAt(w, rd, g, addr) ==
    /\ MapData(w, g, addr, "ram")
    /\ measured' = [measured EXCEPT ![rd] = @ \cup {addr}]
    /\ UNCHANGED <<rdState, setRipas, tlb, lvl>>

DataCreate(rd, g, addr) ==
    /\ rdState[rd] = "NEW"
    /\ DataGranule(g)
    /\ addr \in Par
    /\ DataCreateAt(Walk(rd, addr, RTT_PAGE_LEVEL), rd, g, addr)
    /\ BecomesData(g)

\* Mutant: nothing is wiped.
Wipe_Skipped(bytes, g) == bytes

\* granule_memzero, and the memset after a failed copy.
Wipe(bytes, g) == bytes \ {g}

\* The source left the non-secure world during the copy: ns_buffer_read fails,
\* and what was copied is wiped.
DataCreateFault(rd, g, addr) ==
    /\ rdState[rd] = "NEW"
    /\ DataGranule(g)
    /\ addr \in Par
    /\ Walk(rd, addr, RTT_PAGE_LEVEL).level = RTT_PAGE_LEVEL
    /\ IsUnassigned(Leaf(rd, addr))
    /\ secret' = Wipe(secret \cup {g}, g)
    /\ UNCHANGED <<gstate, refcount, s2tt, rdState, measured, setRipas, tlb, lvl>>

\* The contents are unknown to the realm, and the page keeps its RIPAS.
DataCreateUnknownAt(w, rd, g, addr) ==
    /\ MapData(w, g, addr, EntryAt(w, addr).ripas)
    /\ UNCHANGED <<rdState, measured, setRipas, tlb, lvl>>

DataCreateUnknown(rd, g, addr) ==
    /\ DataGranule(g)
    /\ addr \in Par
    /\ DataCreateUnknownAt(Walk(rd, addr, RTT_PAGE_LEVEL), rd, g, addr)
    /\ BecomesData(g)

\* Mutant: the page stays RAM.
RipasAfterDestroy_Kept(e) == e.ripas

\* A page that held RAM is destroyed for the realm; one it had given up is not.
RipasAfterDestroy(e) == IF e.ripas = "empty" THEN "empty" ELSE "destroyed"

\* smc_data_destroy takes the entry out, then wipes and frees the granule.
UnmapData(w, rd, addr) ==
    LET i == Index(addr, RTT_PAGE_LEVEL)
        e == s2tt[w.g][i]
    IN /\ w.level = RTT_PAGE_LEVEL
       /\ HoldsData(e)
       /\ s2tt' = [s2tt EXCEPT ![w.g] = [@ EXCEPT ![i] = Unassigned(RipasAfterDestroy(e))]]
       /\ refcount' = [refcount EXCEPT ![w.g] = @ - 1]
       /\ tlb' = IF IsAssignedRam(e) THEN InvalidateAt(rd, {addr}) ELSE tlb
       /\ UNCHANGED <<rdState, measured, setRipas, lvl>>

FreeData(g) ==
    /\ gstate' = [gstate EXCEPT ![g] = "DELEGATED"]
    /\ secret' = Wipe(secret, g)

DataDestroy(rd, addr) ==
    /\ addr \in Par
    /\ UnmapData(Walk(rd, addr, RTT_PAGE_LEVEL), rd, addr)
    /\ FreeData(Leaf(rd, addr).pa)

-----------------------------------------------------------------------------
(* RIPAS.  Both commands walk to the deepest table for base and go through *)
(* its entries until one lies beyond top or refuses the change.            *)

\* The entries from i on that are wholly below top and all satisfy Ok.
Run(w, base, top, Ok(_)) ==
    LET i == Index(base, w.level)
        End(k) == base + (k - i + 1) * MapSize(w.level)
    IN {k \in Idx : k >= i /\ \A j \in i .. k : End(j) <= top /\ Ok(s2tt[w.g][j])}

\* Mutant: the first page of every entry.
PagesOf_FirstPage(w, base, ks) ==
    {a \in Ipas : \E k \in ks : a = base + (k - Index(base, w.level)) * MapSize(w.level)}

\* The pages below the entries ks of the table that translates base.
PagesOf(w, base, ks) ==
    LET first(k) == base + (k - Index(base, w.level)) * MapSize(w.level)
    IN {a \in Ipas : \E k \in ks : first(k) <= a /\ a < first(k) + MapSize(w.level)}

RttInitRipasAt(w, rd, base, top) ==
    /\ LET Initial(e) == e.hipas = "unassigned" /\ e.ripas \in {"empty", "ram"}
           ks == Run(w, base, top, Initial)
       IN /\ Aligned(base, w.level)
          /\ ks # {}
          /\ s2tt' = [s2tt EXCEPT ![w.g] =
                        [k \in Idx |-> IF k \in ks THEN Unassigned("ram") ELSE @[k]]]
          /\ measured' = [measured EXCEPT ![rd] = @ \cup PagesOf(w, base, ks)]
    /\ UNCHANGED <<gstate, refcount, secret, rdState, setRipas, tlb, lvl>>

RttInitRipas(rd, base, top) ==
    /\ base < top
    /\ base \in Par /\ top - 1 \in Par
    /\ rdState[rd] = "NEW"
    /\ RttInitRipasAt(Walk(rd, base, RTT_PAGE_LEVEL), rd, base, top)

NoRequest == [addr |-> 0, top |-> 0, ripas |-> "empty", change |-> FALSE]

\* update_ripas: which entries it takes, and what it makes of them.
CanUpdateRipas(e, change) ==
    HasRipas(e) /\ (e.ripas = "destroyed" => change)
UpdateRipas(e, ripas) ==
    IF e.ripas = ripas THEN e ELSE MkEntry(e.hipas, ripas, e.pa)
\* Mutant: taking RAM away leaves the TLB alone.
NeedsTlbi_Never(e, ripas) == FALSE

NeedsTlbi(e, ripas) == HoldsData(e) /\ ripas = "empty" /\ e.ripas # "empty"

RttSetRipasAt(w, rd, top) ==
    LET req == setRipas[rd]
        base == req.addr
        CanUpdate(e) == CanUpdateRipas(e, req.change)
        ks == Run(w, base, top, CanUpdate)
        flushed == {k \in ks : NeedsTlbi(s2tt[w.g][k], req.ripas)}
    IN /\ Aligned(base, w.level)
       /\ ks # {}
       /\ s2tt' = [s2tt EXCEPT ![w.g] =
                     [k \in Idx |-> IF k \in ks THEN UpdateRipas(@[k], req.ripas) ELSE @[k]]]
       /\ tlb' = InvalidateAt(rd, {base + (k - Index(base, w.level)) * MapSize(w.level) :
                                      k \in flushed})
       /\ setRipas' = [setRipas EXCEPT ![rd].addr =
                         base + Cardinality(ks) * MapSize(w.level)]
       /\ UNCHANGED <<gstate, refcount, secret, rdState, measured, lvl>>

RttSetRipas(rd, top) ==
    /\ setRipas[rd].addr < top
    /\ top <= setRipas[rd].top
    /\ RttSetRipasAt(Walk(rd, setRipas[rd].addr, RTT_PAGE_LEVEL), rd, top)

-----------------------------------------------------------------------------
(* RMI_IPA_BLOCK and RMI_IPA_UNBLOCK, this repository's additions: take    *)
(* away and give back the realm's access to an assigned RAM page.          *)

SetBlockedAt(w, rd, addr, blocked) ==
    LET i == Index(addr, RTT_PAGE_LEVEL)
        e == s2tt[w.g][i]
    IN /\ w.level = RTT_PAGE_LEVEL
       /\ IsAssignedRam(e)
       /\ s2tt' = [s2tt EXCEPT ![w.g] = [@ EXCEPT ![i] = [e EXCEPT !.blocked = blocked]]]
       /\ tlb' = InvalidateAt(rd, {addr})
       /\ UNCHANGED <<gstate, refcount, secret, rdState, measured, setRipas, lvl>>

SetBlocked(rd, addr, blocked) ==
    SetBlockedAt(Walk(rd, addr, RTT_PAGE_LEVEL), rd, addr, blocked)
IpaBlock(rd, addr) == SetBlocked(rd, addr, TRUE)
IpaUnblock(rd, addr) == SetBlocked(rd, addr, FALSE)

-----------------------------------------------------------------------------
(* Around rtt.c: activation, the realm itself and its REC.                 *)

RealmActivate(rd) ==
    /\ rdState[rd] = "NEW"
    /\ rdState' = [rdState EXCEPT ![rd] = "ACTIVE"]
    /\ UNCHANGED <<gstate, refcount, s2tt, secret, measured, setRipas, tlb, lvl>>

\* A realm access that misses the TLB walks the tables and caches the result,
\* evicting what it likes.
RealmAccess(rd, addr) ==
    /\ rdState[rd] = "ACTIVE"
    /\ LET w == Walk(rd, addr, RTT_PAGE_LEVEL)
           e == Leaf(rd, addr)
           entry == [rd |-> rd, level |-> w.level, blocked |-> e.blocked, pa |-> e.pa,
                     base |-> addr - (addr % MapSize(w.level))]
       IN /\ IsValid(e)
          /\ \E kept \in SUBSET tlb :
               /\ Cardinality(kept \cup {entry}) <= TlbMax
               /\ tlb' = kept \cup {entry}
    /\ UNCHANGED <<gstate, refcount, s2tt, secret, rdState, measured, setRipas, lvl>>

\* RSI_IPA_STATE_SET leaves the realm with a request for the host to carry out.
RsiIpaStateSet(rd, req) ==
    /\ rdState[rd] = "ACTIVE"
    /\ setRipas[rd] = NoRequest
    /\ req.addr < req.top
    /\ req.addr \in Par /\ req.top - 1 \in Par
    /\ setRipas' = [setRipas EXCEPT ![rd] = req]
    /\ UNCHANGED <<gstate, refcount, s2tt, secret, rdState, measured, tlb, lvl>>

\* The next RMI_REC_ENTER reports how far the host came and ends the request.
RecEnter(rd) ==
    /\ setRipas[rd] # NoRequest
    /\ setRipas' = [setRipas EXCEPT ![rd] = NoRequest]
    /\ UNCHANGED <<gstate, refcount, s2tt, secret, rdState, measured, tlb, lvl>>

-----------------------------------------------------------------------------
RootTable ==
    [k \in Idx |-> IF k * MapSize(StartLevel) \in Par
                   THEN Unassigned("empty") ELSE UnassignedNs]

Roots == {RootOf[rd] : rd \in Rds}

\* RMI_REALM_CREATE has just made every realm; the other granules are delegated.
Init ==
    /\ gstate = [g \in Granules |-> IF g \in Roots THEN "RTT" ELSE "DELEGATED"]
    /\ refcount = [g \in Granules |-> 0]
    /\ s2tt = [g \in Granules |-> IF g \in Roots THEN RootTable ELSE ZeroTable]
    /\ secret = {}
    /\ rdState = [rd \in Rds |-> "NEW"]
    /\ measured = [rd \in Rds |-> {}]
    /\ setRipas = [rd \in Rds |-> NoRequest]
    /\ tlb = {}
    /\ lvl = [g \in Granules |-> StartLevel]

RttCommand(rd) ==
    \/ \E g \in Granules, addr \in Ipas, level \in Levels : RttCreate(rd, g, addr, level)
    \/ \E addr \in Ipas, level \in Levels :
         \/ RttFold(rd, addr, level)
         \/ RttDestroy(rd, addr, level)
         \/ \E pa \in HostPas : RttMapUnprotected(rd, addr, level, pa)
         \/ RttUnmapUnprotected(rd, addr, level)

DataCommand(rd) ==
    \E addr \in Ipas :
        \/ \E g \in Granules :
             \/ DataCreate(rd, g, addr)
             \/ DataCreateFault(rd, g, addr)
             \/ DataCreateUnknown(rd, g, addr)
        \/ DataDestroy(rd, addr)
        \/ IpaBlock(rd, addr)
        \/ IpaUnblock(rd, addr)

RipasCommand(rd) ==
    \/ \E base, last \in Ipas : RttInitRipas(rd, base, last + 1)
    \/ \E last \in Ipas : RttSetRipas(rd, last + 1)

RealmStep(rd) ==
    \/ RealmActivate(rd)
    \/ \E addr \in Ipas : RealmAccess(rd, addr)
    \/ \E req \in RipasRequests : RsiIpaStateSet(rd, req)
    \/ RecEnter(rd)

Next ==
    \/ \E g \in Granules : GranuleDelegate(g) \/ GranuleUndelegate(g)
    \/ \E rd \in Rds : RttCommand(rd) \/ DataCommand(rd) \/ RipasCommand(rd) \/ RealmStep(rd)

Spec == Init /\ [][Next]_vars
-----------------------------------------------------------------------------
(* Properties.                                                             *)

Requests == [addr : Nat, top : Nat, ripas : {"empty", "ram"}, change : BOOLEAN]
Translations ==
    [rd : Rds, level : Levels, base : Ipas, pa : Nat, blocked : BOOLEAN]

\* The variables have their types (struct granule, the table granules, struct
\* rd, the set_ripas fields of struct rec).
TypeOK ==
    /\ gstate \in [Granules -> GranuleStates]
    /\ refcount \in [Granules -> Nat]
    /\ s2tt \in [Granules -> [Idx -> Entry]]
    /\ secret \subseteq Granules
    /\ rdState \in [Rds -> {"NEW", "ACTIVE"}]
    /\ measured \in [Rds -> SUBSET Ipas]
    /\ setRipas \in [Rds -> Requests]
    /\ tlb \subseteq Translations
    /\ lvl \in [Granules -> Levels]

Rtts == {g \in Granules : gstate[g] = "RTT"}
LiveIn(g) == {k \in Idx : IsLive(s2tt[g][k])}

\* The reference count of a table counts its live entries, and nothing else is
\* counted: RTT_FOLD and RTT_DESTROY decide by this number alone whether the
\* table still holds data or tables.
RefcountCountsLive ==
    \A g \in Granules :
        refcount[g] = IF gstate[g] = "RTT" THEN Cardinality(LiveIn(g)) ELSE 0

\* Entry k of table g points to granule x: x is the child table, or lies in the
\* page or block that the entry assigns.
PointsTo(g, k, x) ==
    LET e == s2tt[g][k] IN
    \/ IsTable(e) /\ x = e.pa
    \/ HoldsData(e) /\ e.pa <= x /\ x < e.pa + MapSize(lvl[g])

\* Every granule a live entry points to has the state the code asserts when it
\* locks it (find_lock_granule(.., GRANULE_STATE_RTT / DATA) != NULL in fold,
\* destroy and data_destroy), and a child table is one level down.
PointsToOwned ==
    \A g \in Rtts, k \in Idx :
        LET e == s2tt[g][k] IN
        /\ IsTable(e) => /\ e.pa \in Rtts \ Roots
                         /\ lvl[e.pa] = lvl[g] + 1
        /\ HoldsData(e) =>
             /\ lvl[g] >= RTT_MIN_BLOCK_LEVEL
             /\ \A x \in e.pa .. e.pa + MapSize(lvl[g]) - 1 :
                  x \in Granules /\ gstate[x] = "DATA"

\* No granule is reachable twice: across all tables of all realms, a data or
\* table granule is behind one entry.
NoSharing ==
    \A g, h \in Rtts, j, k \in Idx, x \in Granules :
        PointsTo(g, j, x) /\ PointsTo(h, k, x) => g = h /\ j = k

\* No granule is lost: the host can get back every data and table granule,
\* because an entry still points to it.
NoLeak ==
    \A x \in Granules \ Roots :
        gstate[x] \in {"DATA", "RTT"} => \E g \in Rtts, k \in Idx : PointsTo(g, k, x)

\* What the host gets back is wiped: outside DATA and RTT a granule holds no
\* bytes of a realm and no table entries (granule_memzero in data_destroy and
\* after a failed copy, granule_memzero_mapped in fold and destroy).
ScrubbedOnReturn ==
    \A g \in Granules :
        /\ gstate[g] \in {"NS", "DELEGATED"} => g \notin secret
        /\ gstate[g] # "RTT" => s2tt[g] = ZeroTable

\* A cached translation is what the tables say now: every command that changes
\* or removes a valid entry invalidates enough (break before make).
TlbCoherent ==
    \A t \in tlb :
        LET e == Leaf(t.rd, t.base) IN
        /\ Walk(t.rd, t.base, RTT_PAGE_LEVEL).level = t.level
        /\ IsValid(e)
        /\ e.pa = t.pa
        /\ e.blocked = t.blocked

\* Until activation every page that is RAM to the realm went into its initial
\* measurement, at whatever level it was made RAM and however the tables were
\* folded and rebuilt since.
RamIsMeasured ==
    \A rd \in Rds : rdState[rd] = "NEW" =>
        \A a \in Par : Leaf(rd, a).ripas = "ram" => a \in measured[rd]

\* RTT_FOLD, "The RMM specification does not allow creating block entries less
\* than RTT_MIN_BLOCK_LEVEL": output entries sit at block or page level, which
\* is also what the assertions of RTT_CREATE rely on.
NoBlockBelowMinLevel ==
    \A g \in Rtts, k \in Idx :
        HasOutput(s2tt[g][k]) => lvl[g] >= RTT_MIN_BLOCK_LEVEL

\* RMI_IPA_BLOCK, "Block access to a specified IPA range": only RMI_IPA_UNBLOCK,
\* or an end of the page's life as assigned RAM, gives access back.
BlockIsKept ==
    \A rd \in Rds, a \in Par :
        LET e == Leaf(rd, a) IN
        e.blocked /\ IsAssignedRam(e') => e'.blocked \/ IpaUnblock(rd, a)
BlockHolds == [][BlockIsKept]_vars
=============================================================================
