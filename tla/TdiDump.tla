------------------------------ MODULE TdiDump ------------------------------
(***************************************************************************)
(* The page a TDX guest and its host talk through.  The guest's device     *)
(* (src/tetd_x86/tetd_i/tdi.c, tdi_dev.c) dumps a buffer into it through a *)
(* kfifo that nobody drains, and reads a target address out of its first   *)
(* eight bytes; the host's unknown-hypercall branch                        *)
(* (tetd_h_g/host/kvm/x86.c) maps the page a caller names, and writes the  *)
(* target address into it or prints its first DUMP_SIZE bytes.  The two    *)
(* sides share no lock, and the host keeps its mapping in a static         *)
(* variable.                                                               *)
(*                                                                         *)
(* The FIFO has room for two pieces of DUMP_SIZE bytes.  Of the first the  *)
(* two words of the target address are kept apart: a page is the four      *)
(* parts below.  Lengths count half pieces, so that a length need not be   *)
(* a multiple of a piece.                                                  *)
(***************************************************************************)
EXTENDS Integers, Sequences

CONSTANTS
    Callers,       \* virtual CPUs that make the hypercall
    TdPage,        \* the page at guest address 0x1000
    Pages,         \* host pages a caller may name
    Gvas,          \* target addresses
    Sizes,         \* data_size of the writes, in half pieces
    PAGE_HALVES,   \* PAGE_SIZE of gva_page, in half pieces
    MAX_RUNS,      \* bound on write() and read() calls of the device
    MAX_HYPERCALLS \* bound on the hypercalls of each caller

DumpAssumption ==
    /\ TdPage \in Pages
    /\ PAGE_HALVES \in Nat /\ Sizes \subseteq 0 .. PAGE_HALVES
    /\ MAX_RUNS \in Nat /\ MAX_HYPERCALLS \in Nat

DUMP_SIZE == 2
FIFO_SIZE == 4
Parts == {"low", "high", "rest", "second"}
Zero == <<"zero">>
Content ==
    {Zero} \cup ({"low of", "high of"} \X Gvas)
           \cup ({"piece"} \X (1 .. MAX_RUNS) \X (0 .. PAGE_HALVES))

VARIABLES
    page,          \* [Pages -> [Parts -> Content]]
    in,            \* bytes the kfifo has taken since its reset
    td,            \* the guest process in the device file
    runs,          \* calls it has made
    stored,        \* indices of the pieces of this run the kfifo took
    mail,          \* the target address written whole and not yet overwritten
    mapped_page,   \* the host's static mapping, or none
    mappings,      \* the mappings that ioremap made and iounmap did not undo
    hc             \* where each caller is in its hypercall

guest == <<in, td, runs, stored>>
host == <<mapped_page, mappings, hc>>
vars == <<page, in, td, runs, stored, mail, mapped_page, mappings, hc>>

NoGva == <<>>
Idle == [pc |-> "idle"]
NoMapping == [by |-> "nobody", page |-> "NULL"]

Init ==
    /\ page = [p \in Pages |-> [x \in Parts |-> Zero]]
    /\ in = 0
    /\ td = Idle
    /\ runs = 0
    /\ stored = {}
    /\ mail = NoGva
    /\ mapped_page = NoMapping
    /\ mappings = {}
    /\ hc = [c \in Callers |-> [pc |-> "idle", calls |-> 0]]

-----------------------------------------------------------------------------
(* The guest: tdi_dev_write, tdi_run, set_clean_env, dump, kfifo_in.       *)

WriteCall ==
    /\ td.pc = "idle"
    /\ runs < MAX_RUNS
    /\ runs' = runs + 1
    /\ stored' = {}
    /\ \E size \in Sizes : td' = [pc |-> "check", size |-> size]
    /\ UNCHANGED <<page, in, mail, host>>

\* Mutant: the room for a piece is not looked at.
NeedsClean_Never == FALSE

NeedsClean == in + DUMP_SIZE > FIFO_SIZE

Dumping(size) == [pc |-> "dump", size |-> size, i |-> 0, todo |-> <<>>]

CheckRoom ==
    /\ td.pc = "check"
    /\ td' = IF NeedsClean
             THEN [pc |-> "clean", size |-> td.size,
                   todo |-> <<"low", "high", "rest", "second">>]
             ELSE Dumping(td.size)
    /\ UNCHANGED <<page, in, runs, stored, mail, host>>

\* Mutant: read_func takes the low word twice.
HighWord_Low == page[TdPage].low

HighWord == page[TdPage].high

\* A store into the guest's page; it undoes a target address.
Store(part, value) ==
    /\ page' = [page EXCEPT ![TdPage][part] = value]
    /\ mail' = IF part \in {"low", "high"} THEN NoGva ELSE mail

CleanPart ==
    /\ td.pc = "clean" /\ td.todo # <<>>
    /\ Store(Head(td.todo), Zero)
    /\ td' = [td EXCEPT !.todo = Tail(@)]
    /\ UNCHANGED <<in, runs, stored, host>>

\* kfifo_reset
CleanDone ==
    /\ td.pc = "clean" /\ td.todo = <<>>
    /\ in' = 0
    /\ td' = Dumping(td.size)
    /\ UNCHANGED <<page, runs, stored, mail, host>>

\* Mutant: the loop stops before the piece the length ends in.
MoreToDump_Exclusive(t) == t.i < t.size \div DUMP_SIZE

\* The loop runs from 0 to data_size / DUMP_SIZE inclusive.
MoreToDump(t) == t.i <= t.size \div DUMP_SIZE

PartsAt(offset) == IF offset = 0 THEN <<"low", "high", "rest">> ELSE <<"second">>

\* Mutant: kfifo_in overwrites when full.
RoomForPiece_Always == TRUE

RoomForPiece == in + DUMP_SIZE <= FIFO_SIZE

\* kfifo_in of a piece: all of it or, in a full FIFO, nothing.
DumpPiece ==
    /\ td.pc = "dump" /\ MoreToDump(td)
    /\ td' = IF RoomForPiece
             THEN [td EXCEPT !.pc = "copy", !.todo = PartsAt(in % FIFO_SIZE)]
             ELSE [td EXCEPT !.i = @ + 1]
    /\ UNCHANGED <<page, in, runs, stored, mail, host>>

CopyPart ==
    /\ td.pc = "copy" /\ td.todo # <<>>
    /\ Store(Head(td.todo), <<"piece", runs, td.i>>)
    /\ td' = [td EXCEPT !.todo = Tail(@)]
    /\ UNCHANGED <<in, runs, stored, host>>

\* Mutant: the kfifo's in is not moved, so that pieces land on each other.
CopyDone_NoAdvance ==
    /\ td.pc = "copy" /\ td.todo = <<>>
    /\ stored' = stored \cup {td.i}
    /\ td' = [td EXCEPT !.pc = "dump", !.i = @ + 1]
    /\ UNCHANGED <<page, in, runs, mail, host>>

CopyDone ==
    /\ td.pc = "copy" /\ td.todo = <<>>
    /\ in' = in + DUMP_SIZE
    /\ stored' = stored \cup {td.i}
    /\ td' = [td EXCEPT !.pc = "dump", !.i = @ + 1]
    /\ UNCHANGED <<page, runs, mail, host>>

\* private2share asks for the page to be shared, as it already is.
RunDone ==
    /\ td.pc = "dump" /\ ~MoreToDump(td)
    /\ td' = Idle
    /\ UNCHANGED <<page, in, runs, stored, mail, host>>

(* The guest: tdi_dev_read, read_func and its two ioread32.                *)
ReadCall ==
    /\ td.pc = "idle"
    /\ runs < MAX_RUNS
    /\ runs' = runs + 1
    /\ stored' = {}
    /\ td' = [pc |-> "read_high", low |-> page[TdPage].low, fresh |-> mail]
    /\ UNCHANGED <<page, in, mail, host>>

ReadHigh ==
    /\ td.pc = "read_high"
    /\ td' = [pc |-> "read", low |-> td.low, high |-> HighWord,
              fresh |-> IF mail = td.fresh THEN mail ELSE NoGva]
    /\ UNCHANGED <<page, in, runs, stored, mail, host>>

ReadDone ==
    /\ td.pc = "read"
    /\ td' = Idle
    /\ UNCHANGED <<page, in, runs, stored, mail, host>>

-----------------------------------------------------------------------------
(* The host: the default branch of __kvm_emulate_hypercall.                *)

Step(c, pc) == hc' = [hc EXCEPT ![c].pc = pc]
Mapping(c, p) == [by |-> c, page |-> p]

\* Mutant: a mapping the static variable already holds is kept.
Hypercall_KeepsOld(c) ==
    /\ hc[c].pc = "idle" /\ hc[c].calls < MAX_HYPERCALLS
    /\ \E p \in Pages, g \in Gvas, pc \in {"write_low", "print", "unmap"} :
          /\ mapped_page' = IF mapped_page = NoMapping THEN Mapping(c, p)
                            ELSE mapped_page
          /\ mappings' = mappings \cup {mapped_page'}
          /\ hc' = [hc EXCEPT ![c] = [pc |-> pc, calls |-> @.calls + 1,
                                      page |-> p, gva |-> g]]
    /\ UNCHANGED <<page, guest, mail>>

\* ioremap(map_hpa), kept in a static variable.
Hypercall(c) ==
    /\ hc[c].pc = "idle" /\ hc[c].calls < MAX_HYPERCALLS
    /\ \E p \in Pages, g \in Gvas, pc \in {"write_low", "print", "unmap"} :
          /\ mapped_page' = Mapping(c, p)
          /\ mappings' = mappings \cup {Mapping(c, p)}
          /\ hc' = [hc EXCEPT ![c] = [pc |-> pc, calls |-> @.calls + 1,
                                      page |-> p, gva |-> g]]
    /\ UNCHANGED <<page, guest, mail>>

\* ioremap fails: the call returns before anything else.
HypercallNoMemory(c) ==
    /\ hc[c].pc = "idle" /\ hc[c].calls < MAX_HYPERCALLS
    /\ mapped_page' = NoMapping
    /\ hc' = [hc EXCEPT ![c].calls = @ + 1]
    /\ UNCHANGED <<page, guest, mail, mappings>>

\* An access through a mapping that is gone, or NULL, goes no further.
Mapped == mapped_page \in mappings

\* target_flag = 0: the target address in two stores.
WriteLow(c) ==
    /\ hc[c].pc = "write_low" /\ Mapped
    /\ page' = [page EXCEPT ![mapped_page.page].low = <<"low of", hc[c].gva>>]
    /\ mail' = IF mapped_page.page = TdPage THEN NoGva ELSE mail
    /\ Step(c, "write_high")
    /\ UNCHANGED <<guest, mapped_page, mappings>>

WriteHigh(c) ==
    /\ hc[c].pc = "write_high" /\ Mapped
    /\ page' = [page EXCEPT ![mapped_page.page].high = <<"high of", hc[c].gva>>]
    /\ mail' = IF mapped_page.page # TdPage THEN mail
               ELSE IF page[TdPage].low = <<"low of", hc[c].gva>>
                    THEN <<hc[c].gva>> ELSE NoGva
    /\ Step(c, "unmap")
    /\ UNCHANGED <<guest, mapped_page, mappings>>

\* target_flag = 1: the page is printed; nothing changes.
PrintPage(c) ==
    /\ hc[c].pc = "print" /\ Mapped
    /\ Step(c, "unmap")
    /\ UNCHANGED <<page, guest, mail, mapped_page, mappings>>

\* Mutant: the call returns without iounmap.
Unmap_Skipped(c) ==
    /\ hc[c].pc = "unmap"
    /\ Step(c, "idle")
    /\ UNCHANGED <<page, guest, mail, mapped_page, mappings>>

\* iounmap of whatever the static variable names by now.
Unmap(c) ==
    /\ hc[c].pc = "unmap"
    /\ mappings' = mappings \ {mapped_page}
    /\ Step(c, "idle")
    /\ UNCHANGED <<page, guest, mail, mapped_page>>

-----------------------------------------------------------------------------
TdNext ==
    \/ WriteCall \/ CheckRoom \/ CleanPart \/ CleanDone
    \/ DumpPiece \/ CopyPart \/ CopyDone \/ RunDone
    \/ ReadCall \/ ReadHigh \/ ReadDone

HostNext(c) ==
    \/ Hypercall(c) \/ HypercallNoMemory(c)
    \/ WriteLow(c) \/ WriteHigh(c) \/ PrintPage(c) \/ Unmap(c)

Next == TdNext \/ \E c \in Callers : HostNext(c)

Spec == Init /\ [][Next]_vars

-----------------------------------------------------------------------------
TypeOK ==
    /\ page \in [Pages -> [Parts -> Content]]
    /\ in \in {0, DUMP_SIZE, FIFO_SIZE}
    /\ runs \in 0 .. MAX_RUNS
    /\ stored \subseteq 0 .. PAGE_HALVES
    /\ mail \in {NoGva} \cup {<<g>> : g \in Gvas}
    /\ td.pc \in {"idle", "check", "clean", "dump", "copy", "read_high", "read"}
    /\ mappings \subseteq [by : Callers, page : Pages]
    /\ \A c \in Callers : hc[c].pc \in
          {"idle", "write_low", "write_high", "print", "unmap"}

(* Whatever the FIFO holds when a run starts, the run's first piece goes   *)
(* in: tdi_run cleans when one piece would not fit, although it may be     *)
(* about to dump several.                                                  *)
FirstPieceStored ==
    td.pc = "dump" /\ td.i > 0 => 0 \in stored

(* Pieces that no longer fit are dropped silently by kfifo_in; what the    *)
(* FIFO took of a run is then its beginning, with no piece missing in      *)
(* between, and each piece is where the FIFO's count says it is.           *)
StoredIsPrefix ==
    td.pc = "dump" /\ stored # {} =>
        LET last == CHOOSE i \in stored : stored \subseteq 0 .. i
            part == IF in = DUMP_SIZE THEN "rest" ELSE "second"
        IN  /\ stored = 0 .. last
            /\ page[TdPage][part] = <<"piece", runs, last>>

(* The inclusive loop covers every byte of the data, also when the length  *)
(* is no multiple of a piece; what of it the FIFO lacks at the end is      *)
(* missing because the FIFO is full.                                       *)
PiecesCoverData ==
    td.pc = "dump" /\ ~MoreToDump(td) =>
        /\ td.i * DUMP_SIZE >= td.size
        /\ \/ in = FIFO_SIZE
           \/ stored = 0 .. td.size \div DUMP_SIZE

(* A target address that stays in the page while read_func makes its two   *)
(* loads is what the device returns: the halves of two different stores    *)
(* are never joined then.                                                  *)
FreshMailRead ==
    td.pc = "read" /\ td.fresh # NoGva =>
        td.low = <<"low of", td.fresh[1]>> /\ td.high = <<"high of", td.fresh[1]>>

(* The hypercall stores into, prints and unmaps the page its own caller    *)
(* named ("Writing target gva 0x%llx to td").                              *)
OwnMapping ==
    \A c \in Callers : hc[c].pc # "idle" =>
        /\ mapped_page.page = hc[c].page
        /\ Mapping(c, hc[c].page) \in mappings

(* A caller that is back in its guest has left no mapping behind.          *)
NoMappingLeft ==
    \A x \in mappings : hc[x.by].pc # "idle"

=============================================================================
