--------------------------- MODULE TdRing_proofs ---------------------------
(***************************************************************************)
(* For every page size above one byte, every ring, every length of a call  *)
(* and any number of processes: the offsets of TdRing stay page offsets of *)
(* the ring, the full test of write_to_buffer never holds, and while one   *)
(* process writes and one reads, the reader gets the writer's pages, whole *)
(* and in order, up to where it is lapped.                                 *)
(***************************************************************************)
EXTENDS TdRing, TLAPS

\* A process past the test has pages of its call left.
InLoop ==
    \A p \in Procs :
        pc[p] \notin {"idle", "test"} => pages[p] < DATA_PAGES

IInv == TypeOK /\ InLoop

-----------------------------------------------------------------------------
(* What TLC cannot enumerate: the arithmetic of page offsets.              *)

\* Multiples of the page size are ordered like their factors.
LEMMA ProductsOrdered ==
    ASSUME NEW i \in Nat, NEW j \in Nat, i < j
    PROVE  i * PAGE_SIZE + PAGE_SIZE <= j * PAGE_SIZE
<1>1. PICK d \in Nat : j = i + 1 + d
    <2>1. j - i - 1 \in Nat  OBVIOUS
    <2> QED  BY <2>1
<1>2. (i + 1 + d) * PAGE_SIZE = i * PAGE_SIZE + PAGE_SIZE + d * PAGE_SIZE
    BY PageAssumption
<1>3. d * PAGE_SIZE \in Nat  BY PageAssumption
<1>4. i * PAGE_SIZE \in Nat  BY PageAssumption
<1> QED  BY <1>1, <1>2, <1>3, <1>4, PageAssumption

\* The ring has a positive size.
LEMMA RingSize == /\ RING_BUFFER_SIZE \in Nat /\ RING_BUFFER_SIZE > 0
                  /\ Offsets \subseteq Nat
<1>1. RING_BUFFER_SIZE \in Nat
    BY PageAssumption, RingAssumption DEF RING_BUFFER_SIZE
<1>2. 0 * PAGE_SIZE + PAGE_SIZE <= RING_PAGES * PAGE_SIZE
    BY ProductsOrdered, RingAssumption
<1>3. 0 * PAGE_SIZE = 0  BY PageAssumption
<1>4. Offsets \subseteq Nat  BY PageAssumption, RingAssumption DEF Offsets
<1> QED  BY <1>1, <1>2, <1>3, <1>4, PageAssumption DEF RING_BUFFER_SIZE

\* Every page of the ring ends inside it.
LEMMA PageFits ==
    ASSUME NEW o \in Offsets
    PROVE  o + PAGE_SIZE <= RING_BUFFER_SIZE
<1>1. PICK k \in 0 .. RING_PAGES - 1 : o = k * PAGE_SIZE  BY DEF Offsets
<1> QED  BY <1>1, ProductsOrdered, RingAssumption DEF RING_BUFFER_SIZE

\* The first page starts at 0.
LEMMA ZeroIsOffset == 0 \in Offsets
<1>1. 0 = 0 * PAGE_SIZE  BY PageAssumption
<1>2. 0 \in 0 .. RING_PAGES - 1  BY RingAssumption
<1> QED  BY <1>1, <1>2 DEF Offsets

\* The offset written back is again a page offset.
LEMMA AdvanceInRing ==
    ASSUME NEW o \in Offsets
    PROVE  Advance(o) \in Offsets
<1>1. PICK k \in 0 .. RING_PAGES - 1 : o = k * PAGE_SIZE  BY DEF Offsets
<1>2. o \in Nat /\ o + PAGE_SIZE <= RING_BUFFER_SIZE
    BY PageFits, RingSize
<1>3. CASE o + PAGE_SIZE = RING_BUFFER_SIZE
    <2>1. Advance(o) = 0  BY <1>3, RingSize DEF Advance
    <2> QED  BY <2>1, ZeroIsOffset
<1>4. CASE o + PAGE_SIZE < RING_BUFFER_SIZE
    <2>1. Advance(o) = o + PAGE_SIZE
        BY <1>2, <1>4, RingSize, PageAssumption DEF Advance
    <2>2. o + PAGE_SIZE = (k + 1) * PAGE_SIZE
        BY <1>1, PageAssumption, RingAssumption
    <2>3. k + 1 # RING_PAGES
        <3>1. SUFFICES ASSUME k + 1 = RING_PAGES  PROVE FALSE  OBVIOUS
        <3>2. o + PAGE_SIZE = RING_BUFFER_SIZE
            BY <2>2, <3>1 DEF RING_BUFFER_SIZE
        <3> QED  BY <1>4, <3>2, RingSize
    <2>4. k + 1 \in 0 .. RING_PAGES - 1
        BY <2>3, RingAssumption
    <2> QED  BY <2>1, <2>2, <2>4 DEF Offsets
<1> QED  BY <1>2, <1>3, <1>4, RingSize, PageAssumption

\* One byte past a page offset is no page offset.
LEMMA NextByteIsNoOffset ==
    ASSUME NEW o \in Offsets, NEW t \in Offsets
    PROVE  (o + 1) % RING_BUFFER_SIZE # t
<1>1. PICK k \in 0 .. RING_PAGES - 1 : o = k * PAGE_SIZE  BY DEF Offsets
<1>2. PICK j \in 0 .. RING_PAGES - 1 : t = j * PAGE_SIZE  BY DEF Offsets
<1>3. /\ o \in Nat /\ t \in Nat /\ RING_BUFFER_SIZE \in Nat
      /\ o + 1 < RING_BUFFER_SIZE
    BY PageFits, RingSize, PageAssumption
<1>4. (o + 1) % RING_BUFFER_SIZE = o + 1  BY <1>3
<1>5. SUFFICES ASSUME o + 1 = t  PROVE FALSE  BY <1>4
<1>6. k \in Nat /\ j \in Nat  BY RingAssumption
<1>7. k < j => o + PAGE_SIZE <= t  BY <1>1, <1>2, <1>6, ProductsOrdered
<1>8. j < k => t + PAGE_SIZE <= o  BY <1>1, <1>2, <1>6, ProductsOrdered
<1>9. k = j => o = t  BY <1>1, <1>2
<1> QED  BY <1>3, <1>5, <1>6, <1>7, <1>8, <1>9, PageAssumption
-----------------------------------------------------------------------------
\* A page of the freshly allocated ring.
LEMMA BlankIsPage == Blank \in HalfPages
BY DEF Blank, HalfPages, Page

\* At first both offsets are 0 and nobody writes or reads.
LEMMA InitIInv == Init => IInv
<1> SUFFICES ASSUME Init  PROVE IInv  OBVIOUS
<1> USE DEF Init
<1>1. /\ head \in Offsets /\ tail \in Offsets
      /\ at \in [Procs -> Offsets]
    BY ZeroIsOffset
<1>2. mem \in [Offsets -> HalfPages] /\ buffer \in [Readers -> HalfPages]
    BY BlankIsPage
<1>3. pc \in [Procs -> Labels]  BY DEF Labels
<1>4. /\ pages \in [Procs -> 0 .. DATA_PAGES]
      /\ calls \in [Procs -> 0 .. MAX_CALLS]
    BY DataAssumption, CallsAssumption
<1>5. sent \in [Writers -> Nat] /\ lapped \in [Readers -> BOOLEAN]  OBVIOUS
<1>6. got \in [Readers -> Seq(HalfPages)]
    <2>1. <<>> \in Seq(HalfPages)  OBVIOUS
    <2> QED  BY <2>1
<1>7. InLoop  BY DEF InLoop
<1> QED  BY <1>1, <1>2, <1>3, <1>4, <1>5, <1>6, <1>7 DEF IInv, TypeOK

\* Every step of a writer or reader keeps the invariant.
LEMMA NextIInv == IInv /\ [Next]_vars => IInv'
<1> SUFFICES ASSUME IInv, [Next]_vars  PROVE IInv'  OBVIOUS
<1> USE DEF IInv, TypeOK, InLoop, Labels, cursors, history, GoTo
<1>1. ASSUME NEW p \in Procs, Call(p)  PROVE IInv'
    BY <1>1, DataAssumption, CallsAssumption DEF Call
<1>2. ASSUME NEW p \in Procs, Return(p)  PROVE IInv'
    BY <1>2 DEF Return
<1>3. ASSUME NEW w \in Writers, WriteTest(w)  PROVE IInv'
    BY <1>3 DEF WriteTest, Procs
<1>4. ASSUME NEW w \in Writers, NEW h \in Halves, PutHalf(w, h)
      PROVE  mem' \in [Offsets -> HalfPages]
    <2>1. <<w, sent[w] + 1>> \in Page  BY DEF Page
    <2>2. at[w] \in Offsets  BY DEF Procs
    <2>3. [mem[at[w]] EXCEPT ![h] = <<w, sent[w] + 1>>] \in HalfPages
        BY <2>1, <2>2 DEF HalfPages
    <2> QED  BY <1>4, <2>2, <2>3 DEF PutHalf
<1>5. ASSUME NEW w \in Writers, WriteFirst(w)  PROVE IInv'
    <2>1. mem' \in [Offsets -> HalfPages]
        BY <1>4, <1>5 DEF WriteFirst, Halves
    <2> QED  BY <1>5, <2>1 DEF WriteFirst, Procs
<1>6. ASSUME NEW w \in Writers, WriteSecond(w)  PROVE IInv'
    <2>1. mem' \in [Offsets -> HalfPages]
        BY <1>4, <1>6 DEF WriteSecond, Halves
    <2> QED  BY <1>6, <2>1 DEF WriteSecond, Procs
<1>7. ASSUME NEW w \in Writers, LoadHead(w)  PROVE IInv'
    BY <1>7 DEF LoadHead, Procs
<1>8. ASSUME NEW w \in Writers, StoreHead(w)  PROVE IInv'
    <2>1. w \in Procs  BY DEF Procs
    <2>2. Advance(at[w]) \in Offsets  BY <2>1, AdvanceInRing
    <2>3. pages' \in [Procs -> 0 .. DATA_PAGES]
        <3>1. pages[w] < DATA_PAGES /\ pages[w] \in 0 .. DATA_PAGES
            BY <1>8, <2>1 DEF StoreHead
        <3>2. pages[w] + 1 \in 0 .. DATA_PAGES  BY <3>1, DataAssumption
        <3> QED  BY <1>8, <3>2 DEF StoreHead
    <2>4. lapped' \in [Readers -> BOOLEAN]  BY <1>8 DEF StoreHead
    <2>5. sent' \in [Writers -> Nat]  BY <1>8 DEF StoreHead
    <2>6. /\ pc' \in [Procs -> Labels] /\ head' \in Offsets
          /\ UNCHANGED <<tail, mem, at, buffer, calls, got>>
        BY <1>8, <2>1, <2>2 DEF StoreHead
    <2>7. InLoop'  BY <1>8, <2>1 DEF StoreHead
    <2> QED  BY <2>3, <2>4, <2>5, <2>6, <2>7
<1>9. ASSUME NEW r \in Readers, ReadTest(r)  PROVE IInv'
    BY <1>9 DEF ReadTest, Procs
<1>10. ASSUME NEW r \in Readers, NEW h \in Halves, TakeHalf(r, h)
       PROVE  buffer' \in [Readers -> HalfPages]
    <2>1. at[r] \in Offsets  BY DEF Procs
    <2>2. [buffer[r] EXCEPT ![h] = mem[at[r]][h]] \in HalfPages
        BY <2>1 DEF HalfPages
    <2> QED  BY <1>10, <2>2 DEF TakeHalf
<1>11. ASSUME NEW r \in Readers, ReadFirst(r)  PROVE IInv'
    <2>1. buffer' \in [Readers -> HalfPages]
        BY <1>10, <1>11 DEF ReadFirst, Halves
    <2> QED  BY <1>11, <2>1 DEF ReadFirst, Procs
<1>12. ASSUME NEW r \in Readers, ReadSecond(r)  PROVE IInv'
    <2>1. buffer' \in [Readers -> HalfPages]
        BY <1>10, <1>12 DEF ReadSecond, Halves
    <2> QED  BY <1>12, <2>1 DEF ReadSecond, Procs
<1>13. ASSUME NEW r \in Readers, LoadTail(r)  PROVE IInv'
    BY <1>13 DEF LoadTail, Procs
<1>14. ASSUME NEW r \in Readers, StoreTail(r)  PROVE IInv'
    <2>1. r \in Procs  BY DEF Procs
    <2>2. Advance(at[r]) \in Offsets  BY <2>1, AdvanceInRing
    <2>3. pages' \in [Procs -> 0 .. DATA_PAGES]
        <3>1. pages[r] < DATA_PAGES /\ pages[r] \in 0 .. DATA_PAGES
            BY <1>14, <2>1 DEF StoreTail
        <3>2. pages[r] + 1 \in 0 .. DATA_PAGES  BY <3>1, DataAssumption
        <3> QED  BY <1>14, <3>2 DEF StoreTail
    <2>4. got' \in [Readers -> Seq(HalfPages)]
        BY <1>14 DEF StoreTail
    <2>5. /\ pc' \in [Procs -> Labels] /\ tail' \in Offsets
          /\ UNCHANGED <<head, mem, at, buffer, calls, sent, lapped>>
        BY <1>14, <2>1, <2>2 DEF StoreTail
    <2>6. InLoop'  BY <1>14, <2>1 DEF StoreTail
    <2> QED  BY <2>3, <2>4, <2>5, <2>6
<1>15. CASE UNCHANGED vars
    BY <1>15 DEF vars
<1> QED
    BY <1>1, <1>2, <1>3, <1>5, <1>6, <1>7, <1>8, <1>9, <1>11, <1>12, <1>13,
       <1>14, <1>15 DEF Next, WriteStep, ReadStep, Procs

\* The inductive invariant: types, and a process inside its loop has pages left.
LEMMA Inductive == Spec => []IInv
BY InitIInv, NextIInv, PTL DEF Spec

(* Type correctness: both offsets stay page offsets inside the ring, so    *)
(* every memcpy of write_to_buffer and read_from_buffer is inside it.      *)
THEOREM TypeCorrect == Spec => []TypeOK
BY Inductive, PTL DEF IInv

(* The full test of write_to_buffer is false whenever a writer evaluates   *)
(* it, so nothing stops a writer from overwriting pages nobody has taken.  *)
THEOREM NeverHeld == Spec => []WriterNeverHeld
<1>1. IInv => WriterNeverHeld
    BY NextByteIsNoOffset DEF IInv, TypeOK, WriterNeverHeld, FullTest
<1> QED  BY Inductive, <1>1, PTL

-----------------------------------------------------------------------------
(* One writer and one reader: the arithmetic of offsets.                   *)

OffsetOf(n) == (n * PAGE_SIZE) % RING_BUFFER_SIZE

\* A remainder is determined by what is left after whole rings.
LEMMA RemainderUnique ==
    ASSUME NEW q \in Int, NEW m \in 0 .. RING_BUFFER_SIZE - 1
    PROVE  (q * RING_BUFFER_SIZE + m) % RING_BUFFER_SIZE = m
<1> DEFINE R == RING_BUFFER_SIZE
           a == q * R + m
           p == a \div R
           s == a % R
<1>1. R \in Nat /\ R > 0
    BY RingSize
<1>2. a \in Int
    BY <1>1
<1> HIDE DEF R
<1>3. a = R * p + s /\ s \in 0 .. R - 1 /\ p \in Int
    <2> HIDE DEF a
    <2> QED  BY <1>1, <1>2
<1>4. m \in 0 .. R - 1
    BY DEF R
<1>5. a = R * q + m
    BY <1>1, <1>4
<1> HIDE DEF a, p, s
<1>6. R * (p - q) = m - s
    BY <1>1, <1>3, <1>4, <1>5
<1>7. p - q >= 1 => R * (p - q) >= R
    BY <1>1, <1>3
<1>8. p - q <= -1 => R * (p - q) <= -R
    BY <1>1, <1>3
<1>9. p - q = 0
    BY <1>1, <1>3, <1>4, <1>6, <1>7, <1>8
<1>10. R * (p - q) = 0
    BY <1>1, <1>9
<1>11. s = m
    BY <1>3, <1>4, <1>6, <1>10
<1> QED
    BY <1>11 DEF s, a, R

\* Every number is so many rings and a remainder.
LEMMA Remainder ==
    ASSUME NEW a \in Int
    PROVE  /\ a % RING_BUFFER_SIZE \in 0 .. RING_BUFFER_SIZE - 1
           /\ \E q \in Int : a = q * RING_BUFFER_SIZE + (a % RING_BUFFER_SIZE)
<1> DEFINE R == RING_BUFFER_SIZE
<1>1. R \in Nat /\ R > 0
    BY RingSize
<1> HIDE DEF R
<1> DEFINE p == a \div R
           s == a % R
<1>2. a = R * p + s /\ s \in 0 .. R - 1 /\ p \in Int
    BY <1>1
<1> HIDE DEF p, s
<1>3. a = p * R + s
    BY <1>1, <1>2
<1> QED
    BY <1>2, <1>3 DEF R, s

\* Whole rings do not change a remainder.
LEMMA RemainderShift ==
    ASSUME NEW a \in Int, NEW b \in Int, NEW q \in Int, a = q * RING_BUFFER_SIZE + b
    PROVE  a % RING_BUFFER_SIZE = b % RING_BUFFER_SIZE
<1>1. RING_BUFFER_SIZE \in Int
    BY RingSize
<1>2. PICK p \in Int : b = p * RING_BUFFER_SIZE + (b % RING_BUFFER_SIZE)
    BY Remainder
<1>3. b % RING_BUFFER_SIZE \in 0 .. RING_BUFFER_SIZE - 1
    BY Remainder
<1> DEFINE m == b % RING_BUFFER_SIZE
<1> HIDE DEF m
<1>4. m \in Int /\ m \in 0 .. RING_BUFFER_SIZE - 1
    BY <1>1, <1>3 DEF m
<1>5. b = p * RING_BUFFER_SIZE + m
    BY <1>2, Zenon DEF m
<1>6. a = (q + p) * RING_BUFFER_SIZE + m /\ q + p \in Int
    BY <1>1, <1>4, <1>5
<1>7. a % RING_BUFFER_SIZE = m
    BY <1>4, <1>6, RemainderUnique
<1> QED
    BY <1>7 DEF m

\* A page's offset is in the ring, and the next one's is the advanced one.
LEMMA OffsetAdvances ==
    ASSUME NEW n \in Nat
    PROVE  OffsetOf(n + 1) = Advance(OffsetOf(n))
<1>1. RING_BUFFER_SIZE \in Int /\ n * PAGE_SIZE \in Int /\ PAGE_SIZE \in Int
    BY RingSize, PageAssumption
<1>2. PICK q \in Int :
          n * PAGE_SIZE = q * RING_BUFFER_SIZE + ((n * PAGE_SIZE) % RING_BUFFER_SIZE)
    BY <1>1, Remainder
<1>3. OffsetOf(n) \in Int
    BY <1>1, Remainder DEF OffsetOf
<1>4. n * PAGE_SIZE = q * RING_BUFFER_SIZE + OffsetOf(n)
    BY <1>2, Zenon DEF OffsetOf
<1>5. (n + 1) * PAGE_SIZE = q * RING_BUFFER_SIZE + (OffsetOf(n) + PAGE_SIZE)
    BY <1>1, <1>3, <1>4
<1>6. (n + 1) * PAGE_SIZE \in Int /\ OffsetOf(n) + PAGE_SIZE \in Int
    BY <1>1, <1>3
<1>7. ((n + 1) * PAGE_SIZE) % RING_BUFFER_SIZE
          = (OffsetOf(n) + PAGE_SIZE) % RING_BUFFER_SIZE
    BY <1>5, <1>6, RemainderShift, ZenonT(60)
<1> QED
    BY <1>7, Zenon DEF OffsetOf, Advance

\* Pages less than a ring apart are at different offsets.
LEMMA OffsetsDiffer ==
    ASSUME NEW i \in Nat, NEW j \in Nat, i < j, j - i < RING_PAGES
    PROVE  OffsetOf(i) # OffsetOf(j)
<1> SUFFICES ASSUME OffsetOf(i) = OffsetOf(j)  PROVE FALSE
    OBVIOUS
<1>1. /\ RING_BUFFER_SIZE \in Int /\ i * PAGE_SIZE \in Int /\ j * PAGE_SIZE \in Int
      /\ PAGE_SIZE \in Nat /\ PAGE_SIZE > 1 /\ RING_PAGES \in Nat
    BY RingSize, PageAssumption, RingAssumption
<1>2. PICK p \in Int : i * PAGE_SIZE = p * RING_BUFFER_SIZE + OffsetOf(i)
    BY <1>1, Remainder DEF OffsetOf
<1>3. PICK q \in Int : j * PAGE_SIZE = q * RING_BUFFER_SIZE + OffsetOf(j)
    BY <1>1, Remainder DEF OffsetOf
<1>4. OffsetOf(i) \in Int /\ OffsetOf(j) \in Int
    BY <1>1, Remainder DEF OffsetOf
<1>5. (j - i) * PAGE_SIZE = (q - p) * RING_BUFFER_SIZE
    BY <1>1, <1>2, <1>3, <1>4
<1> DEFINE d == (q - p) * RING_PAGES
<1>6. d \in Int /\ d * PAGE_SIZE = (q - p) * RING_BUFFER_SIZE
    BY <1>1 DEF RING_BUFFER_SIZE
<1>7. q - p >= 1 => d >= RING_PAGES
    BY <1>1
<1>8. q - p <= 0 => d <= 0
    BY <1>1
<1> HIDE DEF d
<1>9. d >= RING_PAGES \/ d <= 0
    BY <1>7, <1>8
<1>10. (j - i - d) * PAGE_SIZE = 0
    BY <1>1, <1>5, <1>6
<1>11. j - i - d > 0 => (j - i - d) * PAGE_SIZE > 0
    BY <1>1, <1>6
<1>12. j - i - d < 0 => (j - i - d) * PAGE_SIZE < 0
    BY <1>1, <1>6
<1> QED
    BY <1>1, <1>6, <1>9, <1>10, <1>11, <1>12

\* The distance of two offsets is the distance of the pages, modulo the ring.
LEMMA OffsetDistance ==
    ASSUME NEW i \in Nat, NEW j \in Nat
    PROVE  (OffsetOf(j) - OffsetOf(i)) % RING_BUFFER_SIZE
               = ((j - i) * PAGE_SIZE) % RING_BUFFER_SIZE
<1>1. /\ RING_BUFFER_SIZE \in Int /\ i * PAGE_SIZE \in Int /\ j * PAGE_SIZE \in Int
      /\ PAGE_SIZE \in Nat
    BY RingSize, PageAssumption
<1>2. PICK p \in Int : i * PAGE_SIZE = p * RING_BUFFER_SIZE + OffsetOf(i)
    BY <1>1, Remainder DEF OffsetOf
<1>3. PICK q \in Int : j * PAGE_SIZE = q * RING_BUFFER_SIZE + OffsetOf(j)
    BY <1>1, Remainder DEF OffsetOf
<1>4. OffsetOf(i) \in Int /\ OffsetOf(j) \in Int
    BY <1>1, Remainder DEF OffsetOf
<1>5. (j - i) * PAGE_SIZE = (q - p) * RING_BUFFER_SIZE + (OffsetOf(j) - OffsetOf(i))
    BY <1>1, <1>2, <1>3, <1>4
<1>6. /\ (j - i) * PAGE_SIZE \in Int /\ OffsetOf(j) - OffsetOf(i) \in Int
      /\ q - p \in Int
    BY <1>1, <1>4
<1> QED
    BY <1>5, <1>6, RemainderShift, ZenonT(60)

\* A page's offset is one of the ring's.
LEMMA OffsetIsOffset ==
    ASSUME NEW n \in Nat
    PROVE  OffsetOf(n) \in Offsets
<1>1. n \div RING_PAGES \in Nat /\ n % RING_PAGES \in 0 .. RING_PAGES - 1
      /\ n = RING_PAGES * (n \div RING_PAGES) + (n % RING_PAGES)
    BY RingAssumption
<1> DEFINE q == n \div RING_PAGES
           k == n % RING_PAGES
<1>2. q \in Nat /\ k \in 0 .. RING_PAGES - 1 /\ n = RING_PAGES * q + k
    BY <1>1
<1> HIDE DEF q, k
<1>3. k * PAGE_SIZE \in Offsets
    BY <1>2 DEF Offsets
<1>4. /\ PAGE_SIZE \in Nat /\ PAGE_SIZE > 1 /\ RING_PAGES \in Nat
      /\ RING_BUFFER_SIZE \in Nat
    BY RingSize, PageAssumption, RingAssumption
<1>5. k * PAGE_SIZE \in 0 .. RING_BUFFER_SIZE - 1
    <2> DEFINE o == k * PAGE_SIZE
    <2>1. o \in Offsets
        BY <1>3
    <2> HIDE DEF o
    <2>2. o \in Nat /\ o + PAGE_SIZE <= RING_BUFFER_SIZE
        BY <2>1, PageFits, RingSize
    <2>3. o \in 0 .. RING_BUFFER_SIZE - 1
        BY <1>4, <2>2
    <2> QED
        BY <2>3 DEF o
<1>6. n * PAGE_SIZE = q * RING_BUFFER_SIZE + k * PAGE_SIZE
    BY <1>2, <1>4 DEF RING_BUFFER_SIZE
<1>7. OffsetOf(n) = k * PAGE_SIZE
    BY <1>2, <1>5, <1>6, RemainderUnique DEF OffsetOf
<1> QED
    BY <1>3, <1>7

-----------------------------------------------------------------------------
(* One writer and one reader: what each step keeps.                        *)

Copying == {"copy", "copied_half", "copied", "publish"}

\* A process that has not called is idle.
NotStarted == \A p \in Procs : calls[p] = 0 => pc[p] = "idle"

\* The only writer: head counts its pages, the last ones are whole, and so is what it
\* has copied of the next one.
WriterOK(w) ==
    /\ head = OffsetOf(sent[w])
    /\ pc[w] \in Copying => at[w] = head
    /\ \A n \in 1 .. sent[w] :
           sent[w] - n < RING_PAGES - 1 => mem[OffsetOf(n - 1)] = Whole(w, n)
    /\ pc[w] = "copied_half" => mem[head]["first"] = <<w, sent[w] + 1>>
    /\ pc[w] \in {"copied", "publish"} => mem[head] = Whole(w, sent[w] + 1)

\* The only reader: tail counts its pages.
ReaderOK(r) ==
    /\ tail = OffsetOf(Len(got[r]))
    /\ pc[r] \in Copying => at[r] = tail

\* The two of them: the reader does not overtake, and until it is lapped it has the
\* writer's pages, and so is what it has copied of the next one.
NotLapped(w, r) ==
    /\ Lag(w, r) <= RING_PAGES - 1
    /\ pc[r] = "copied_half" => buffer[r]["first"] = <<w, Len(got[r]) + 1>>
    /\ pc[r] \in {"copied", "publish"} => buffer[r] = Whole(w, Len(got[r]) + 1)
    /\ \A n \in 1 .. Len(got[r]) : got[r][n] = Whole(w, n)
PairOK(w, r) ==
    /\ Lag(w, r) >= 0
    /\ pc[r] \in Copying => Lag(w, r) >= 1
    /\ ~lapped[r] => NotLapped(w, r)

StreamInv ==
    /\ IInv /\ NotStarted
    /\ \A w \in Writers : OnlyWriter(w) => WriterOK(w)
    /\ \A r \in Readers : OnlyReader(r) => ReaderOK(r)
    /\ \A w \in Writers, r \in Readers : OnePair(w, r) => PairOK(w, r)

\* Nothing has been written or read at first.
LEMMA StreamInit == Init => StreamInv
<1> SUFFICES ASSUME Init  PROVE StreamInv
    OBVIOUS
<1>1. IInv
    BY InitIInv
<1>2. NotStarted
    BY DEF Init, NotStarted
<1>3. OffsetOf(0) = 0
    <2>1. 0 * PAGE_SIZE = 0
        BY PageAssumption
    <2>2. 0 % RING_BUFFER_SIZE = 0
        BY RingSize
    <2> QED
        BY <2>1, <2>2 DEF OffsetOf
<1>4. \A w \in Writers : WriterOK(w)
    BY <1>3 DEF Init, WriterOK, Copying, Procs
<1>5. \A r \in Readers : ReaderOK(r) /\ Len(got[r]) = 0
    BY <1>3 DEF Init, ReaderOK, Copying, Procs
<1>6. \A w \in Writers, r \in Readers : PairOK(w, r)
    BY <1>5, RingAssumption DEF Init, PairOK, NotLapped, Lag, Copying, Procs
<1> QED
    BY <1>1, <1>2, <1>4, <1>5, <1>6 DEF StreamInv

\* A process that is not in a call makes no step but Call, and calls are counted.
LEMMA StartKept == IInv /\ NotStarted /\ [Next]_vars => NotStarted'
<1> SUFFICES ASSUME IInv, NotStarted, [Next]_vars  PROVE NotStarted'
    OBVIOUS
<1> USE DEF IInv, TypeOK, NotStarted
<1>1. ASSUME NEW p \in Procs, Call(p)  PROVE NotStarted'
    <2>1. calls'[p] # 0
        BY <1>1, CallsAssumption DEF Call
    <2> QED
        BY <1>1, <2>1 DEF Call, GoTo
<1>2. ASSUME NEW w \in Writers, WriteStep(w)  PROVE NotStarted'
    <2>1. w \in Procs /\ calls[w] # 0 /\ calls' = calls
        BY <1>2 DEF WriteStep, WriteTest, WriteFirst, WriteSecond, LoadHead, StoreHead,
           Return, Procs
    <2>2. \A p \in Procs \ {w} : pc'[p] = pc[p]
        BY <1>2 DEF WriteStep, WriteTest, WriteFirst, WriteSecond, LoadHead, StoreHead,
           Return, GoTo
    <2> QED
        BY <2>1, <2>2
<1>3. ASSUME NEW r \in Readers, ReadStep(r)  PROVE NotStarted'
    <2>1. r \in Procs /\ calls[r] # 0 /\ calls' = calls
        BY <1>3 DEF ReadStep, ReadTest, ReadFirst, ReadSecond, LoadTail, StoreTail,
           Return, Procs
    <2>2. \A p \in Procs \ {r} : pc'[p] = pc[p]
        BY <1>3 DEF ReadStep, ReadTest, ReadFirst, ReadSecond, LoadTail, StoreTail,
           Return, GoTo
    <2> QED
        BY <2>1, <2>2
<1>4. CASE UNCHANGED vars
    BY <1>4 DEF vars
<1> QED
    BY <1>1, <1>2, <1>3, <1>4 DEF Next

\* What a step does that is not the only writer's: nothing to the writer's side, but
\* that the writer may call.
WriterQuiet(w) ==
    /\ UNCHANGED <<head, mem, sent, lapped>> /\ at'[w] = at[w]
    /\ pc'[w] = pc[w] \/ pc'[w] = "test"
ReaderQuiet(r) ==
    /\ UNCHANGED <<tail, buffer, got>> /\ at'[r] = at[r]
    /\ pc'[r] = pc[r] \/ pc'[r] = "test"

LEMMA QuietForWriter ==
    ASSUME IInv, NotStarted, [Next]_vars, NEW w \in Writers, OnlyWriter(w)'
    PROVE  OnlyWriter(w) /\ (WriteStep(w) \/ WriterQuiet(w))
<1> USE DEF IInv, TypeOK
<1>1. ASSUME NEW p \in Procs, Call(p)  PROVE OnlyWriter(w) /\ WriterQuiet(w)
    <2>1. p \notin Writers \ {w}
        BY <1>1, CallsAssumption DEF Call, OnlyWriter
    <2>2. OnlyWriter(w)
        BY <1>1, <2>1 DEF Call, OnlyWriter
    <2>3. WriterQuiet(w)
        BY <1>1 DEF Call, WriterQuiet, GoTo, Procs, cursors, history
    <2> QED
        BY <2>2, <2>3
<1>2. ASSUME NEW v \in Writers, WriteStep(v)  PROVE OnlyWriter(w) /\ v = w
    <2>1. v \in Procs /\ pc[v] # "idle" /\ calls' = calls
        BY <1>2 DEF WriteStep, WriteTest, WriteFirst, WriteSecond, LoadHead, StoreHead,
           Return, Procs
    <2> QED
        BY <2>1 DEF NotStarted, OnlyWriter
<1>3. ASSUME NEW r \in Readers, ReadStep(r)  PROVE OnlyWriter(w) /\ WriterQuiet(w)
    <2>1. r # w /\ r \in Procs /\ w \in Procs
        BY RoleAssumption DEF Procs
    <2>2. OnlyWriter(w)
        BY <1>3 DEF OnlyWriter, ReadStep, ReadTest, ReadFirst, ReadSecond, LoadTail,
           StoreTail, Return
    <2>3. WriterQuiet(w)
        BY <1>3, <2>1 DEF WriterQuiet, ReadStep, ReadTest, ReadFirst, ReadSecond, LoadTail,
           StoreTail, Return, GoTo, cursors, history
    <2> QED
        BY <2>2, <2>3
<1>4. CASE UNCHANGED vars
    BY <1>4 DEF vars, OnlyWriter, WriterQuiet
<1> QED
    BY <1>1, <1>2, <1>3, <1>4 DEF Next

\* The same for the only reader.
LEMMA QuietForReader ==
    ASSUME IInv, NotStarted, [Next]_vars, NEW r \in Readers, OnlyReader(r)'
    PROVE  OnlyReader(r) /\ (ReadStep(r) \/ ReaderQuiet(r))
<1> USE DEF IInv, TypeOK
<1>1. ASSUME NEW p \in Procs, Call(p)  PROVE OnlyReader(r) /\ ReaderQuiet(r)
    <2>1. p \notin Readers \ {r}
        BY <1>1, CallsAssumption DEF Call, OnlyReader
    <2>2. OnlyReader(r)
        BY <1>1, <2>1 DEF Call, OnlyReader
    <2>3. ReaderQuiet(r)
        BY <1>1 DEF Call, ReaderQuiet, GoTo, Procs, cursors, history
    <2> QED
        BY <2>2, <2>3
<1>2. ASSUME NEW q \in Readers, ReadStep(q)  PROVE OnlyReader(r) /\ q = r
    <2>1. q \in Procs /\ pc[q] # "idle" /\ calls' = calls
        BY <1>2 DEF ReadStep, ReadTest, ReadFirst, ReadSecond, LoadTail, StoreTail,
           Return, Procs
    <2> QED
        BY <2>1 DEF NotStarted, OnlyReader
<1>3. ASSUME NEW w \in Writers, WriteStep(w)  PROVE OnlyReader(r) /\ ReaderQuiet(r)
    <2>1. r # w /\ r \in Procs /\ w \in Procs
        BY RoleAssumption DEF Procs
    <2>2. OnlyReader(r)
        BY <1>3 DEF OnlyReader, WriteStep, WriteTest, WriteFirst, WriteSecond, LoadHead,
           StoreHead, Return
    <2>3. ReaderQuiet(r)
        BY <1>3, <2>1 DEF ReaderQuiet, WriteStep, WriteTest, WriteFirst, WriteSecond,
           LoadHead, StoreHead, Return, GoTo, cursors, history
    <2> QED
        BY <2>2, <2>3
<1>4. CASE UNCHANGED vars
    BY <1>4 DEF vars, OnlyReader, ReaderQuiet
<1> QED
    BY <1>1, <1>2, <1>3, <1>4 DEF Next

\* A page that is still in the ring is not where the next one goes.
LEMMA RecentIsElsewhere ==
    ASSUME NEW s \in Nat, NEW n \in 1 .. s, s - n < RING_PAGES - 1
    PROVE  OffsetOf(n - 1) # OffsetOf(s)
<1>1. n - 1 \in Nat /\ n - 1 < s /\ s - (n - 1) < RING_PAGES
    BY RingAssumption
<1> QED
    BY <1>1, OffsetsDiffer

\* The only writer keeps WriterOK.
LEMMA WriteStepOK ==
    ASSUME IInv, NEW w \in Writers, WriterOK(w), WriteStep(w)
    PROVE  WriterOK(w)'
<1>0. /\ w \in Procs /\ sent[w] \in Nat /\ head \in Offsets /\ at[w] \in Offsets
      /\ mem \in [Offsets -> HalfPages] /\ pc \in [Procs -> Labels]
      /\ at \in [Procs -> Offsets] /\ sent \in [Writers -> Nat]
    BY DEF IInv, TypeOK, Procs
<1>1. CASE WriteTest(w) \/ LoadHead(w) \/ Return(w)
    BY <1>0, <1>1 DEF WriteTest, LoadHead, Return, WriterOK, Copying, GoTo, cursors, history
<1>2. ASSUME NEW h \in Halves, PutHalf(w, h), pc[w] \in Copying
      PROVE  /\ \A n \in 1 .. sent[w] :
                    sent[w] - n < RING_PAGES - 1 => mem'[OffsetOf(n - 1)] = Whole(w, n)
             /\ mem'[head] = [mem[head] EXCEPT ![h] = <<w, sent[w] + 1>>]
    <2>1. at[w] = head /\ head = OffsetOf(sent[w])
        BY <1>2 DEF WriterOK
    <2>2. mem'[head] = [mem[head] EXCEPT ![h] = <<w, sent[w] + 1>>]
        BY <1>0, <1>2, <2>1 DEF PutHalf
    <2>3. ASSUME NEW n \in 1 .. sent[w], sent[w] - n < RING_PAGES - 1
          PROVE  mem'[OffsetOf(n - 1)] = Whole(w, n)
        <3>1. OffsetOf(n - 1) # at[w]
            BY <1>0, <2>1, <2>3, RecentIsElsewhere
        <3>2. mem[OffsetOf(n - 1)] = Whole(w, n)
            BY <2>3 DEF WriterOK
        <3>3. mem'[OffsetOf(n - 1)] = mem[OffsetOf(n - 1)] \/ OffsetOf(n - 1) \notin Offsets
            BY <1>0, <1>2, <3>1 DEF PutHalf
        <3>4. OffsetOf(n - 1) \in Offsets
            BY <1>0, OffsetIsOffset
        <3> QED
            BY <3>2, <3>3, <3>4
    <2> QED
        BY <2>2, <2>3
<1>3. CASE WriteFirst(w)
    <2>1. PutHalf(w, "first") /\ pc[w] = "copy" /\ pc'[w] = "copied_half"
        BY <1>0, <1>3 DEF WriteFirst, GoTo
    <2>2. UNCHANGED <<head, sent, at>>
        BY <1>3 DEF WriteFirst, cursors, history
    <2>3. "first" \in Halves /\ pc[w] \in Copying /\ head = at[w]
        BY <2>1 DEF Halves, Copying, WriterOK
    <2>4. mem[head] \in HalfPages
        BY <1>0
    <2>5. mem'[head]["first"] = <<w, sent[w] + 1>>
        BY <1>2, <2>1, <2>3, <2>4 DEF HalfPages
    <2> QED
        BY <1>2, <2>1, <2>2, <2>3, <2>5 DEF WriterOK
<1>4. CASE WriteSecond(w)
    <2>1. PutHalf(w, "second") /\ pc[w] = "copied_half" /\ pc'[w] = "copied"
        BY <1>0, <1>4 DEF WriteSecond, GoTo
    <2>2. UNCHANGED <<head, sent, at>>
        BY <1>4 DEF WriteSecond, cursors, history
    <2>3. /\ "second" \in Halves /\ pc[w] \in Copying /\ head = at[w]
          /\ mem[head]["first"] = <<w, sent[w] + 1>>
        BY <2>1 DEF Halves, Copying, WriterOK
    <2>4. mem[head] \in HalfPages
        BY <1>0
    <2>5. mem'[head] = Whole(w, sent[w] + 1)
        BY <1>2, <2>1, <2>3, <2>4 DEF HalfPages, Halves, Whole
    <2> QED
        BY <1>2, <2>1, <2>2, <2>3, <2>5 DEF WriterOK
<1>5. CASE StoreHead(w)
    <2>1. /\ pc[w] = "publish" /\ pc'[w] = "test" /\ mem' = mem
          /\ sent'[w] = sent[w] + 1 /\ head' = Advance(at[w])
        BY <1>0, <1>5 DEF StoreHead, GoTo
    <2>2. /\ at[w] = head /\ head = OffsetOf(sent[w])
          /\ mem[OffsetOf(sent[w])] = Whole(w, sent[w] + 1)
        BY <2>1 DEF WriterOK, Copying
    <2>3. head' = OffsetOf(sent'[w])
        BY <1>0, <2>1, <2>2, OffsetAdvances
    <2>4. ASSUME NEW n \in 1 .. sent'[w], sent'[w] - n < RING_PAGES - 1
          PROVE  mem'[OffsetOf(n - 1)] = Whole(w, n)
        <3>1. CASE n = sent[w] + 1
            <4>1. n - 1 = sent[w]
                BY <1>0, <3>1
            <4> QED
                BY <2>1, <2>2, <3>1, <4>1
        <3>2. CASE n # sent[w] + 1
            <4>1. n \in 1 .. sent[w] /\ sent[w] - n < RING_PAGES - 1
                BY <1>0, <2>1, <2>4, <3>2, RingAssumption
            <4> QED
                BY <2>1, <4>1 DEF WriterOK
        <3> QED
            BY <3>1, <3>2
    <2> QED
        BY <2>1, <2>3, <2>4 DEF WriterOK, Copying
<1> QED
    BY <1>1, <1>3, <1>4, <1>5 DEF WriteStep

\* The only reader keeps ReaderOK.
LEMMA ReadStepOK ==
    ASSUME IInv, NEW r \in Readers, ReaderOK(r), ReadStep(r)
    PROVE  ReaderOK(r)'
<1>0. /\ r \in Procs /\ got[r] \in Seq(HalfPages) /\ pc \in [Procs -> Labels]
      /\ at \in [Procs -> Offsets] /\ got \in [Readers -> Seq(HalfPages)]
    BY DEF IInv, TypeOK, Procs
<1>1. CASE ReadTest(r) \/ LoadTail(r) \/ Return(r)
    BY <1>0, <1>1 DEF ReadTest, LoadTail, Return, ReaderOK, Copying, GoTo, cursors, history
<1>2. CASE ReadFirst(r) \/ ReadSecond(r)
    BY <1>0, <1>2 DEF ReadFirst, ReadSecond, ReaderOK, Copying, GoTo, cursors, history
<1>3. CASE StoreTail(r)
    <2>1. /\ pc[r] = "publish" /\ pc'[r] = "test" /\ tail' = Advance(at[r])
          /\ got'[r] = Append(got[r], buffer[r])
        BY <1>0, <1>3 DEF StoreTail, GoTo
    <2>2. at[r] = OffsetOf(Len(got[r])) /\ Len(got[r]) \in Nat
        BY <1>0, <2>1 DEF ReaderOK, Copying
    <2>3. Len(got'[r]) = Len(got[r]) + 1
        BY <1>0, <2>1
    <2>4. tail' = OffsetOf(Len(got'[r]))
        BY <2>1, <2>2, <2>3, OffsetAdvances
    <2> QED
        BY <2>1, <2>4 DEF ReaderOK, Copying
<1> QED
    BY <1>1, <1>2, <1>3 DEF ReadStep

\* A step of the writer adds at most a page, and notices where it laps the reader.
LEMMA WriteStepKeepsPair ==
    ASSUME IInv, NEW w \in Writers, NEW r \in Readers, PairOK(w, r), WriteStep(w),
           ReaderQuiet(r)
    PROVE  PairOK(w, r)'
<1>0. /\ sent \in [Writers -> Nat] /\ sent[w] \in Nat /\ Len(got[r]) \in Nat
      /\ lapped \in [Readers -> BOOLEAN]
    BY DEF IInv, TypeOK
<1>1. /\ buffer' = buffer /\ got' = got /\ pc'[r] \in {pc[r], "test"}
    BY DEF ReaderQuiet
<1>2. CASE sent' = sent /\ lapped' = lapped
    BY <1>1, <1>2 DEF PairOK, NotLapped, Lag, Copying
<1>3. CASE StoreHead(w)
    <2>1. /\ sent'[w] = sent[w] + 1
          /\ lapped'[r] = (lapped[r] \/ Lag(w, r) + 1 >= RING_PAGES)
        BY <1>0, <1>3 DEF StoreHead
    <2>2. Lag(w, r)' = Lag(w, r) + 1 /\ Lag(w, r) \in Int
        BY <1>0, <1>1, <2>1 DEF Lag
    <2>3. ~lapped'[r] => ~lapped[r] /\ ~(Lag(w, r) + 1 >= RING_PAGES)
        BY <2>1, Zenon
    <2>4. ~(Lag(w, r) + 1 >= RING_PAGES) => Lag(w, r) + 1 <= RING_PAGES - 1
        BY <2>2, RingAssumption
    <2> QED
        BY <1>1, <2>2, <2>3, <2>4 DEF PairOK, NotLapped, Copying
<1> QED
    BY <1>2, <1>3 DEF WriteStep, WriteTest, WriteFirst, WriteSecond, LoadHead, Return,
        history

\* A step of the reader takes the page the writer published.
LEMMA ReadStepKeepsPair ==
    ASSUME IInv, NEW w \in Writers, NEW r \in Readers, PairOK(w, r), WriterOK(w),
           ReaderOK(r), ReadStep(r), WriterQuiet(w)
    PROVE  PairOK(w, r)'
<1>0. /\ sent[w] \in Nat /\ Len(got[r]) \in Nat /\ Lag(w, r) \in Int /\ r \in Procs
      /\ got[r] \in Seq(HalfPages) /\ buffer \in [Readers -> HalfPages]
      /\ pc \in [Procs -> Labels] /\ got \in [Readers -> Seq(HalfPages)]
    BY DEF IInv, TypeOK, Lag, Procs
<1>1. sent' = sent /\ lapped' = lapped /\ mem' = mem
    BY DEF WriterQuiet
<1>2. CASE Return(r) \/ LoadTail(r)
    BY <1>0, <1>1, <1>2 DEF Return, LoadTail, PairOK, NotLapped, Lag, Copying, GoTo, history
<1>3. CASE ReadTest(r)
    <2>1. tail # head /\ UNCHANGED <<buffer, got>> /\ pc'[r] = "copy"
        BY <1>0, <1>3 DEF ReadTest, EmptyTest, GoTo, history
    <2>2. Lag(w, r) # 0
        BY <1>0, <2>1 DEF Lag, WriterOK, ReaderOK
    <2> QED
        BY <1>0, <1>1, <2>1, <2>2 DEF PairOK, NotLapped, Lag
<1>4. ASSUME pc[r] \in Copying, ~lapped[r]
      PROVE  mem[at[r]] = Whole(w, Len(got[r]) + 1)
    <2> DEFINE n == Len(got[r]) + 1
    <2>1. Lag(w, r) >= 1 /\ Lag(w, r) <= RING_PAGES - 1
        BY <1>4 DEF PairOK, NotLapped
    <2>2. n \in 1 .. sent[w] /\ sent[w] - n < RING_PAGES - 1 /\ n - 1 = Len(got[r])
        BY <1>0, <2>1, RingAssumption DEF Lag
    <2>3. mem[OffsetOf(n - 1)] = Whole(w, n)
        BY <2>2 DEF WriterOK
    <2> QED
        BY <1>4, <2>2, <2>3 DEF ReaderOK
<1>5. CASE ReadFirst(r)
    <2>1. /\ pc[r] = "copy" /\ pc'[r] = "copied_half" /\ got' = got
          /\ buffer'[r] = [buffer[r] EXCEPT !["first"] = mem[at[r]]["first"]]
        BY <1>0, <1>5 DEF ReadFirst, TakeHalf, GoTo, history
    <2>2. buffer'[r]["first"] = mem[at[r]]["first"]
        BY <1>0, <2>1 DEF HalfPages, Halves
    <2>3. ~lapped[r] => buffer'[r]["first"] = <<w, Len(got[r]) + 1>>
        BY <1>4, <2>1, <2>2 DEF Copying, Whole, Halves
    <2> QED
        BY <1>1, <2>1, <2>3 DEF PairOK, NotLapped, Lag, Copying
<1>6. CASE ReadSecond(r)
    <2>1. /\ pc[r] = "copied_half" /\ pc'[r] = "copied" /\ got' = got
          /\ buffer'[r] = [buffer[r] EXCEPT !["second"] = mem[at[r]]["second"]]
        BY <1>0, <1>6 DEF ReadSecond, TakeHalf, GoTo, history
    <2>2. ~lapped[r] => mem[at[r]]["second"] = <<w, Len(got[r]) + 1>>
        BY <1>4, <2>1 DEF Copying, Whole, Halves
    <2>3. ~lapped[r] => buffer[r]["first"] = <<w, Len(got[r]) + 1>>
        BY <2>1 DEF PairOK, NotLapped
    <2>4. ~lapped[r] => buffer'[r] = Whole(w, Len(got[r]) + 1)
        BY <1>0, <2>1, <2>2, <2>3 DEF HalfPages, Halves, Whole
    <2> QED
        BY <1>1, <2>1, <2>4 DEF PairOK, NotLapped, Lag, Copying
<1>7. CASE StoreTail(r)
    <2>1. /\ pc[r] = "publish" /\ pc'[r] = "test" /\ got'[r] = Append(got[r], buffer[r])
          /\ buffer' = buffer
        BY <1>0, <1>7 DEF StoreTail, GoTo
    <2>2. /\ Len(got'[r]) = Len(got[r]) + 1 /\ got'[r][Len(got[r]) + 1] = buffer[r]
          /\ \A n \in 1 .. Len(got[r]) : got'[r][n] = got[r][n]
        <3>1. buffer[r] \in HalfPages
            BY <1>0
        <3> QED
            BY <1>0, <2>1, <3>1
    <2>3. Lag(w, r)' = Lag(w, r) - 1 /\ Lag(w, r) >= 1
        BY <1>0, <1>1, <2>1, <2>2 DEF Lag, PairOK, Copying
    <2>4. ~lapped[r] => \A n \in 1 .. Len(got'[r]) : got'[r][n] = Whole(w, n)
        BY <1>0, <2>1, <2>2 DEF PairOK, NotLapped
    <2> QED
        BY <1>0, <1>1, <2>1, <2>3, <2>4, RingAssumption DEF PairOK, NotLapped, Copying
<1> QED
    BY <1>2, <1>3, <1>5, <1>6, <1>7 DEF ReadStep

\* Every step keeps StreamInv.
LEMMA StreamStep == StreamInv /\ [Next]_vars => StreamInv'
<1> SUFFICES ASSUME StreamInv, [Next]_vars  PROVE StreamInv'
    OBVIOUS
<1>1. IInv /\ NotStarted /\ IInv' /\ NotStarted'
    BY NextIInv, StartKept DEF StreamInv
<1>2. ASSUME NEW w \in Writers, OnlyWriter(w)'  PROVE WriterOK(w)'
    <2>1. OnlyWriter(w) /\ (WriteStep(w) \/ WriterQuiet(w))
        BY <1>1, <1>2, QuietForWriter
    <2>2. WriterOK(w)
        BY <2>1 DEF StreamInv
    <2>3. CASE WriteStep(w)
        BY <1>1, <2>2, <2>3, WriteStepOK
    <2>4. CASE WriterQuiet(w)
        BY <2>2, <2>4 DEF WriterQuiet, WriterOK, Copying
    <2> QED
        BY <2>1, <2>3, <2>4
<1>3. ASSUME NEW r \in Readers, OnlyReader(r)'  PROVE ReaderOK(r)'
    <2>1. OnlyReader(r) /\ (ReadStep(r) \/ ReaderQuiet(r))
        BY <1>1, <1>3, QuietForReader
    <2>2. ReaderOK(r)
        BY <2>1 DEF StreamInv
    <2>3. CASE ReadStep(r)
        BY <1>1, <2>2, <2>3, ReadStepOK
    <2>4. CASE ReaderQuiet(r)
        BY <2>2, <2>4 DEF ReaderQuiet, ReaderOK, Copying
    <2> QED
        BY <2>1, <2>3, <2>4
<1>4. ASSUME NEW w \in Writers, NEW r \in Readers, OnePair(w, r)'  PROVE PairOK(w, r)'
    <2>1. /\ OnlyWriter(w) /\ (WriteStep(w) \/ WriterQuiet(w))
          /\ OnlyReader(r) /\ (ReadStep(r) \/ ReaderQuiet(r))
        BY <1>1, <1>4, QuietForWriter, QuietForReader DEF OnePair
    <2>2. WriterOK(w) /\ ReaderOK(r) /\ PairOK(w, r)
        BY <2>1 DEF StreamInv, OnePair
    <2>3. CASE WriteStep(w) /\ ReaderQuiet(r)
        BY <1>1, <2>2, <2>3, WriteStepKeepsPair
    <2>4. CASE ReadStep(r) /\ WriterQuiet(w)
        BY <1>1, <2>2, <2>4, ReadStepKeepsPair
    <2>5. CASE WriterQuiet(w) /\ ReaderQuiet(r)
        BY <2>2, <2>5 DEF WriterQuiet, ReaderQuiet, PairOK, NotLapped, Lag, Copying
    <2>6. ~(WriteStep(w) /\ ReadStep(r))
        <3>1. w # r /\ w \in Procs /\ r \in Procs /\ pc \in [Procs -> Labels]
            BY <1>1, RoleAssumption DEF IInv, TypeOK, Procs
        <3>2. WriteStep(w) => pc'[r] = pc[r]
            BY <3>1 DEF WriteStep, WriteTest, WriteFirst, WriteSecond, LoadHead, StoreHead,
               Return, GoTo
        <3>3. ReadStep(r) => pc'[r] # pc[r]
            BY <3>1 DEF ReadStep, ReadTest, ReadFirst, ReadSecond, LoadTail, StoreTail,
               Return, GoTo
        <3> QED
            BY <3>2, <3>3
    <2> QED
        BY <2>1, <2>3, <2>4, <2>5, <2>6
<1> QED
    BY <1>1, <1>2, <1>3, <1>4 DEF StreamInv

\* The inductive invariant of the stream.
LEMMA StreamInductive == Spec => []StreamInv
BY StreamInit, StreamStep, PTL DEF Spec

(* While one process writes and one reads: the offsets show their distance *)
(* modulo the ring, the reader gets every page once, whole and in order    *)
(* until it is lapped, and the last pages published stay whole while the   *)
(* next one is copied.  For any ring and any length of the stream, and     *)
(* although neither side takes a lock or the writer ever waits.            *)
THEOREM ReaderGetsWhatWasSent == Spec => []StreamArrives
<1>1. StreamInv => StreamArrives
    <2> SUFFICES ASSUME StreamInv  PROVE StreamArrives
        OBVIOUS
    <2>1. DistanceIsLagModuloRing
        <3> SUFFICES ASSUME NEW w \in Writers, NEW r \in Readers, OnePair(w, r)
                     PROVE  (head - tail) % RING_BUFFER_SIZE
                                = (Lag(w, r) * PAGE_SIZE) % RING_BUFFER_SIZE
            BY DEF DistanceIsLagModuloRing
        <3>1. sent[w] \in Nat /\ Len(got[r]) \in Nat
            BY DEF StreamInv, IInv, TypeOK
        <3>2. head = OffsetOf(sent[w]) /\ tail = OffsetOf(Len(got[r]))
            BY DEF StreamInv, OnePair, WriterOK, ReaderOK
        <3> QED
            BY <3>1, <3>2, OffsetDistance DEF Lag
    <2>2. ReaderGetsTheStream
        <3> SUFFICES ASSUME NEW w \in Writers, NEW r \in Readers, OnePair(w, r), ~lapped[r],
                            NEW n \in DOMAIN got[r]
                     PROVE  got[r][n] = Whole(w, n)
            BY DEF ReaderGetsTheStream
        <3>1. NotLapped(w, r)
            BY DEF StreamInv, PairOK
        <3>2. n \in 1 .. Len(got[r])
            BY DEF StreamInv, IInv, TypeOK
        <3> QED
            BY <3>1, <3>2 DEF NotLapped
    <2>3. RecentPagesWhole
        BY DEF StreamInv, WriterOK, RecentPagesWhole, OffsetOf
    <2> QED
        BY <2>1, <2>2, <2>3 DEF StreamArrives
<1> QED
    BY <1>1, StreamInductive, PTL
=============================================================================
