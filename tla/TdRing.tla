------------------------------- MODULE TdRing -------------------------------
(***************************************************************************)
(* The ring of pages two TDX guests share through an ivshmem BAR           *)
(* (src/tetd_x86/tetd_view/td_rw): write.c publishes pages at byte offset  *)
(* head, read.c takes them at byte offset tail, and both are called from   *)
(* the device file of tdi_dev.c, which takes no lock.  head and tail are   *)
(* plain words both sides load and store, so every load, every store and   *)
(* each half of a memcpy is a step of its own: a page is seen whole or     *)
(* torn in the middle.  x86 keeps the order of the stores, and memcpy,     *)
(* cpu_relax and printk are calls a compiler does not move them across.    *)
(*                                                                         *)
(* A page is the pair of the writer that published it and its number in    *)
(* that writer's stream.  sent, got and lapped are history variables.      *)
(***************************************************************************)
EXTENDS Integers, Sequences

CONSTANTS
    PAGE_SIZE,     \* bytes of a page
    RING_PAGES,    \* RING_BUFFER_SIZE / PAGE_SIZE
    DATA_PAGES,    \* DATA_SIZE / PAGE_SIZE, the pages of one call
    Writers,       \* processes in write() of the device file
    Readers,       \* processes in read() of the device file
    MAX_CALLS      \* bound on the calls of each process

ASSUME PageAssumption == PAGE_SIZE \in Nat /\ PAGE_SIZE > 1
ASSUME RingAssumption == RING_PAGES \in Nat \ {0}
ASSUME DataAssumption == DATA_PAGES \in Nat \ {0}
ASSUME CallsAssumption == MAX_CALLS \in Nat
ASSUME RoleAssumption == Writers \cap Readers = {}

RING_BUFFER_SIZE == RING_PAGES * PAGE_SIZE
Offsets == {k * PAGE_SIZE : k \in 0 .. RING_PAGES - 1}
NoPage == <<>>
Page == {NoPage} \cup (Writers \X Nat)
Procs == Writers \cup Readers
Halves == {"first", "second"}

VARIABLES
    head, tail,    \* the two exported words
    mem,           \* [Offsets -> [Halves -> Page]]: the shared pages
    pc,            \* where each process is in its call
    at,            \* the offset its memcpy was given, or the one it loaded
    pages,         \* bytes_written or bytes_readed, in pages
    buffer,        \* print_buffer of each reader
    calls,         \* the calls each process has made
    sent,          \* pages each writer has published
    got,           \* pages each reader has taken, in its order
    lapped         \* of each reader: a writer once was RING_PAGES pages ahead of it

cursors == <<head, tail>>
history == <<sent, got, lapped>>
vars == <<head, tail, mem, pc, at, pages, buffer, calls, sent, got, lapped>>

Blank == [h \in Halves |-> NoPage]

Init ==
    /\ head = 0 /\ tail = 0
    /\ mem = [o \in Offsets |-> Blank]
    /\ pc = [p \in Procs |-> "idle"]
    /\ at = [p \in Procs |-> 0]
    /\ pages = [p \in Procs |-> 0]
    /\ buffer = [r \in Readers |-> Blank]
    /\ calls = [p \in Procs |-> 0]
    /\ sent = [w \in Writers |-> 0]
    /\ got = [r \in Readers |-> <<>>]
    /\ lapped = [r \in Readers |-> FALSE]

\* Mutant: the offset is never wrapped.
Advance_NoWrap(o) == o + PAGE_SIZE

\* (o + PAGE_SIZE) % RING_BUFFER_SIZE, for head and for tail.
Advance(o) == (o + PAGE_SIZE) % RING_BUFFER_SIZE

\* Mutant: the writer compares whole pages, as it moves.
FullTest_ByPage == (head + PAGE_SIZE) % RING_BUFFER_SIZE = tail

\* The loop condition the writer spins on.
FullTest == (head + 1) % RING_BUFFER_SIZE = tail

\* Mutant: the reader tests the page before the one it takes.
EmptyTest_Behind == tail = Advance(head)

\* The loop condition the reader spins on.
EmptyTest == tail = head

GoTo(p, label) == pc' = [pc EXCEPT ![p] = label]

\* tdi_dev_write and tdi_dev_read: a call enters its loop at once.
Call(p) ==
    /\ pc[p] = "idle"
    /\ calls[p] < MAX_CALLS
    /\ GoTo(p, "test")
    /\ pages' = [pages EXCEPT ![p] = 0]
    /\ calls' = [calls EXCEPT ![p] = @ + 1]
    /\ UNCHANGED <<cursors, mem, at, buffer, history>>

Return(p) ==
    /\ pc[p] = "test"
    /\ pages[p] >= DATA_PAGES
    /\ GoTo(p, "idle")
    /\ UNCHANGED <<cursors, mem, at, pages, buffer, calls, history>>

(* write_to_buffer: leave the spin, copy a page to ivshmem_base + head,    *)
(* load head and store it advanced.                                        *)
WriteTest(w) ==
    /\ pc[w] = "test"
    /\ pages[w] < DATA_PAGES
    /\ ~FullTest
    /\ GoTo(w, "copy")
    /\ at' = [at EXCEPT ![w] = head]
    /\ UNCHANGED <<cursors, mem, pages, buffer, calls, history>>

PutHalf(w, h) == mem' = [mem EXCEPT ![at[w]][h] = <<w, sent[w] + 1>>]

\* Mutant: memcpy of half a page.
WriteFirst_Only(w) ==
    /\ pc[w] = "copy"
    /\ PutHalf(w, "first")
    /\ GoTo(w, "copied")
    /\ UNCHANGED <<cursors, at, pages, buffer, calls, history>>

WriteFirst(w) ==
    /\ pc[w] = "copy"
    /\ PutHalf(w, "first")
    /\ GoTo(w, "copied_half")
    /\ UNCHANGED <<cursors, at, pages, buffer, calls, history>>

WriteSecond(w) ==
    /\ pc[w] = "copied_half"
    /\ PutHalf(w, "second")
    /\ GoTo(w, "copied")
    /\ UNCHANGED <<cursors, at, pages, buffer, calls, history>>

LoadHead(w) ==
    /\ pc[w] = "copied"
    /\ at' = [at EXCEPT ![w] = head]
    /\ GoTo(w, "publish")
    /\ UNCHANGED <<cursors, mem, pages, buffer, calls, history>>

\* The pages published and not yet taken, when one process is on each side.
Lag(w, r) == sent[w] - Len(got[r])

StoreHead(w) ==
    /\ pc[w] = "publish"
    /\ head' = Advance(at[w])
    /\ pages' = [pages EXCEPT ![w] = @ + 1]
    /\ sent' = [sent EXCEPT ![w] = @ + 1]
    /\ lapped' = [r \in Readers |-> lapped[r] \/ Lag(w, r) + 1 >= RING_PAGES]
    /\ GoTo(w, "test")
    /\ UNCHANGED <<tail, mem, at, buffer, calls, got>>

(* read_from_buffer: leave the spin, copy the page at ivshmem_base + tail, *)
(* load tail and store it advanced.                                        *)
ReadTest(r) ==
    /\ pc[r] = "test"
    /\ pages[r] < DATA_PAGES
    /\ ~EmptyTest
    /\ GoTo(r, "copy")
    /\ at' = [at EXCEPT ![r] = tail]
    /\ UNCHANGED <<cursors, mem, pages, buffer, calls, history>>

TakeHalf(r, h) == buffer' = [buffer EXCEPT ![r][h] = mem[at[r]][h]]

ReadFirst(r) ==
    /\ pc[r] = "copy"
    /\ TakeHalf(r, "first")
    /\ GoTo(r, "copied_half")
    /\ UNCHANGED <<cursors, mem, at, pages, calls, history>>

ReadSecond(r) ==
    /\ pc[r] = "copied_half"
    /\ TakeHalf(r, "second")
    /\ GoTo(r, "copied")
    /\ UNCHANGED <<cursors, mem, at, pages, calls, history>>

LoadTail(r) ==
    /\ pc[r] = "copied"
    /\ at' = [at EXCEPT ![r] = tail]
    /\ GoTo(r, "publish")
    /\ UNCHANGED <<cursors, mem, pages, buffer, calls, history>>

\* Mutant: the reader catches up with the writer instead of moving one page.
StoreTail_ToHead(r) ==
    /\ pc[r] = "publish"
    /\ tail' = head
    /\ pages' = [pages EXCEPT ![r] = @ + 1]
    /\ got' = [got EXCEPT ![r] = Append(@, buffer[r])]
    /\ GoTo(r, "test")
    /\ UNCHANGED <<head, mem, at, buffer, calls, sent, lapped>>

StoreTail(r) ==
    /\ pc[r] = "publish"
    /\ tail' = Advance(at[r])
    /\ pages' = [pages EXCEPT ![r] = @ + 1]
    /\ got' = [got EXCEPT ![r] = Append(@, buffer[r])]
    /\ GoTo(r, "test")
    /\ UNCHANGED <<head, mem, at, buffer, calls, sent, lapped>>

WriteStep(w) ==
    \/ WriteTest(w) \/ WriteFirst(w) \/ WriteSecond(w)
    \/ LoadHead(w) \/ StoreHead(w) \/ Return(w)

ReadStep(r) ==
    \/ ReadTest(r) \/ ReadFirst(r) \/ ReadSecond(r)
    \/ LoadTail(r) \/ StoreTail(r) \/ Return(r)

Next ==
    \/ \E p \in Procs : Call(p)
    \/ \E w \in Writers : WriteStep(w)
    \/ \E r \in Readers : ReadStep(r)

Spec == Init /\ [][Next]_vars

\* A process inside the call is scheduled; nothing makes one call again.
FairSpec ==
    /\ Spec
    /\ \A w \in Writers : WF_vars(WriteStep(w))
    /\ \A r \in Readers : WF_vars(ReadStep(r))

-----------------------------------------------------------------------------
Labels == {"idle", "test", "copy", "copied_half", "copied", "publish"}
HalfPages == [Halves -> Page]

(* Type correctness; head and tail are page offsets inside the ring, which *)
(* every memcpy of write_to_buffer and read_from_buffer relies on.         *)
TypeOK ==
    /\ head \in Offsets /\ tail \in Offsets
    /\ mem \in [Offsets -> HalfPages]
    /\ pc \in [Procs -> Labels]
    /\ at \in [Procs -> Offsets]
    /\ pages \in [Procs -> 0 .. DATA_PAGES]
    /\ buffer \in [Readers -> HalfPages]
    /\ calls \in [Procs -> 0 .. MAX_CALLS]
    /\ sent \in [Writers -> Nat]
    /\ got \in [Readers -> Seq(HalfPages)]
    /\ lapped \in [Readers -> BOOLEAN]

(* The full test of write_to_buffer compares head + 1 byte with tail while *)
(* both move by whole pages, so it holds back no writer, whatever the      *)
(* number of processes: the ring has no back-pressure.                     *)
WriterNeverHeld == \A w \in Writers : pc[w] = "test" => ~FullTest

\* One process alone has called write(), or read(), so far.
OnlyWriter(w) == \A v \in Writers \ {w} : calls[v] = 0
OnlyReader(r) == \A q \in Readers \ {r} : calls[q] = 0
OnePair(w, r) == OnlyWriter(w) /\ OnlyReader(r)

(* With one process on each side, the distance the two offsets show is the *)
(* number of pages not yet taken modulo the ring: a reader that the writer *)
(* has lapped exactly is told the ring is empty.                           *)
DistanceIsLagModuloRing ==
    \A w \in Writers, r \in Readers :
        OnePair(w, r) => (head - tail) % RING_BUFFER_SIZE
                             = (Lag(w, r) * PAGE_SIZE) % RING_BUFFER_SIZE

Whole(w, n) == [h \in Halves |-> <<w, n>>]

(* With one process on each side, until the writer fills the ring with     *)
(* pages not yet taken the reader gets every page once, whole and in       *)
(* order, although the two sides share no lock.                            *)
ReaderGetsTheStream ==
    \A w \in Writers, r \in Readers :
        OnePair(w, r) /\ ~lapped[r] =>
            \A n \in DOMAIN got[r] : got[r][n] = Whole(w, n)

(* With one writer, the last RING_PAGES - 1 pages it published stay whole  *)
(* in the ring while it copies the next one.                               *)
RecentPagesWhole ==
    \A w \in Writers : OnlyWriter(w) =>
        \A n \in 1 .. sent[w] :
            sent[w] - n < RING_PAGES - 1
                => mem[((n - 1) * PAGE_SIZE) % RING_BUFFER_SIZE] = Whole(w, n)

(* What one writer and one reader may rely on although write.c and read.c  *)
(* take no lock, and as long as nobody else opens the device.              *)
StreamArrives == DistanceIsLagModuloRing /\ ReaderGetsTheStream /\ RecentPagesWhole

(* write() of the device file has to return, whether or not anybody reads: *)
(* the other face of WriterNeverHeld.                                      *)
InWrite(w) == pc[w] # "idle"

=============================================================================
