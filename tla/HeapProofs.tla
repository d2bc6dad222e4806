----------------------------- MODULE HeapProofs -----------------------------
(***************************************************************************)
(* The heap keeps its structure under the disciplined client of SafeSpec,  *)
(* for every heap size, word size and set of requests.                     *)
(***************************************************************************)
EXTENDS Heap, TLAPS, WellFoundedInduction

-----------------------------------------------------------------------------
(* Arithmetic of the size computations                                      *)

\* Below the modulus, reduction does nothing.
LEMMA ModSmall ==
    ASSUME NEW x \in Nat, NEW w \in Nat, x < w
    PROVE  x % w = x
  OBVIOUS

\* A reduced value is a natural number below the modulus.
LEMMA ModRange ==
    ASSUME NEW x \in Int, NEW w \in Nat, w > 0
    PROVE  x % w \in Nat /\ x % w < w
  OBVIOUS

\* The rounding of kmalloc, once its overflow test has passed, yields a
\* positive size that covers the request.
LEMMA AlignedCovers ==
    ASSUME NEW n \in Requests, ~Refused(n)
    PROVE  /\ Aligned(n) \in Nat \ {0} /\ n <= Aligned(n) /\ n \in Nat
           /\ Aligned(n) % 4 = 0
<1> DEFINE m == (n + 7) % Word
<1>1. n \in Nat /\ Word \in Nat /\ Word > 0
  BY HeapBounds
<1>2. m \in Nat
  BY <1>1, ModRange
<1>3. m % 8 \in Nat /\ m % 8 <= m
  BY <1>2
<1>4. m - (m % 8) \in Nat
  BY <1>2, <1>3
<1>5. Aligned(n) \in Nat /\ Aligned(n) % 4 = 0
  BY <1>2, <1>4 DEF Aligned
<1> HIDE DEF m
<1>6. QED
  BY <1>1, <1>5 DEF Refused

\* Under NoWrap the sums kmalloc computes for the end of a block are exact.
LEMMA EndsExact ==
    ASSUME heap_end \in 0 .. (KERNEL_HEAP_END - 1),
           NEW n \in Requests, ~Refused(n), NoWrap(n)
    PROVE  /\ (heap_end + HEADER + Aligned(n)) % Word = heap_end + HEADER + Aligned(n)
           /\ AppendEnd(n) = heap_end + HEADER + Aligned(n) + TAIL
<1> DEFINE s == Aligned(n)
           room == KERNEL_HEAP_END - heap_end - HEADER - TAIL
<1>1. /\ s \in Nat /\ Word \in Nat /\ KERNEL_HEAP_END \in Nat
      /\ KERNEL_HEAP_END < Word /\ heap_end \in Nat
  BY AlignedCovers, HeapBounds
<1>2. s <= room % Word
  BY <1>1, ModRange, AlignedCovers DEF Refused, HEADER, TAIL
<1>3. heap_end + HEADER + s + TAIL < Word
  <2>1. CASE heap_end + HEADER + TAIL <= KERNEL_HEAP_END
    <3>1. room \in Nat /\ room < Word
      BY <1>1, <2>1 DEF HEADER, TAIL
    <3>2. room % Word = room
      BY <3>1, <1>1, ModSmall
    <3> HIDE DEF s
    <3>3. QED
      BY <3>2, <1>1, <1>2, <2>1 DEF HEADER, TAIL
  <2>2. QED
    BY <2>1 DEF NoWrap
<1> HIDE DEF s
<1>4. /\ heap_end + HEADER + s \in Nat /\ heap_end + HEADER + s < Word
      /\ heap_end + HEADER + s + TAIL \in Nat
  BY <1>1, <1>3 DEF HEADER, TAIL
<1>5. /\ (heap_end + HEADER + s) % Word = heap_end + HEADER + s
      /\ (heap_end + HEADER + s + TAIL) % Word = heap_end + HEADER + s + TAIL
  BY <1>1, <1>3, <1>4, ModSmall
<1>6. QED
  BY <1>5 DEF AppendEnd, s

\* A nonempty set of addresses has a least member: the search for the first
\* fit ends on a block that fits.
LEMMA FirstFitIn ==
    ASSUME Blocks \subseteq Nat, NEW size, Fits(size) # {}
    PROVE  FirstFit(size) \in Fits(size)
<1> DEFINE F == Fits(size)
<1>1. F \subseteq Nat
  BY DEF Fits
<1>2. IsWellFoundedOn(OpToRel(<, Nat), Nat)
  BY NatLessThanWellFounded
<1>3. PICK a \in F : \A b \in F : ~ (<<b, a>> \in OpToRel(<, Nat))
  BY <1>1, <1>2, WFMin
<1>4. ASSUME NEW b \in F PROVE a <= b
  <2>1. a \in Nat /\ b \in Nat
    BY <1>1
  <2>2. <<b, a>> \in Nat \X Nat /\ <<b, a>>[1] = b /\ <<b, a>>[2] = a
    BY <2>1
  <2>3. ~ (<<b, a>>[1] < <<b, a>>[2])
    BY <1>3, <2>2, Zenon DEF OpToRel
  <2>4. QED
    BY <2>1, <2>3
<1>5. QED
  BY <1>3, <1>4 DEF FirstFit

-----------------------------------------------------------------------------
(* kmalloc and heap_init preserve the invariant                             *)

\* The empty heap of power-on.
LEMMA InitIInv == Init => IInv
<1> SUFFICES ASSUME Init PROVE IInv
  OBVIOUS
<1>1. Blocks = {} /\ DOMAIN live = {}
  BY DEF Init, Blocks, NoBlocks
<1>2. hdr \in [Blocks -> Header] /\ live \in [DOMAIN live -> Nat]
  BY <1>1 DEF Init, NoBlocks
<1>3. TypeOK /\ EarlyPhase
  <2>1. heap_start = 0 /\ heap_end = 0 /\ heap_head = 0
    BY DEF Init, NULL
  <2>2. smashed \in BOOLEAN
    BY Zenon DEF Init
  <2>3. QED
    BY <2>1, <2>2, <1>1, <1>2, HeapBounds DEF TypeOK, EarlyPhase
<1>4. ListInOrder /\ WordAligned /\ NoOverlap /\ InHeap /\ NoFreeNeighbours /\ LiveBacked
  BY <1>1 DEF Init, ListInOrder, WordAligned, NoOverlap, InHeap, NoFreeNeighbours, LiveBacked
<1>5. QED
  BY <1>3, <1>4 DEF IInv, Init

\* heap_init moves heap_start above the blocks that scheduler_init allocated.
LEMMA InitStep == IInv /\ heap_init => IInv'
<1> SUFFICES ASSUME IInv, heap_init PROVE IInv'
  OBVIOUS
<1> USE HeapBounds DEF IInv, heap_init, Blocks, NULL
<1>1. TypeOK' /\ ~smashed' /\ EarlyPhase'
  BY DEF TypeOK, EarlyPhase
<1>2. ListInOrder'
  BY DEF ListInOrder
<1>3. WordAligned' /\ NoOverlap' /\ NoFreeNeighbours'
  BY DEF WordAligned, NoOverlap, NoFreeNeighbours, End, EndIn
<1>4. InHeap'
  <2> SUFFICES ASSUME NEW a \in Blocks
               PROVE  a < heap_start' /\ hdr[a].free = 0 /\ End(a) <= heap_start'
    BY DEF InHeap, End, EndIn
  <2>1. /\ a \in Nat /\ hdr[a] \in Header /\ hdr[a].free = 0
        /\ End(a) <= heap_end /\ heap_end <= KERNEL_HEAP_START
    BY DEF TypeOK, EarlyPhase, InHeap
  <2>2. QED
    BY <2>1 DEF End, EndIn, HEADER, Header, TypeOK
<1>5. LiveBacked'
  BY DEF LiveBacked, TypeOK, EarlyPhase
<1>6. QED
  BY <1>1, <1>2, <1>3, <1>4, <1>5 DEF IInv

\* The first block.
LEMMA FirstStep ==
    ASSUME IInv, NEW n \in Requests, EarlyBoot(n), NoWrap(n), KmallocFirst(n)
    PROVE  IInv'
<1> DEFINE size == Aligned(n)
<1>1. size \in Nat \ {0} /\ n <= size /\ n \in Nat
  BY AlignedCovers DEF KmallocFirst
<1>2. heap_end' = heap_end + HEADER + size /\ heap_end' < KERNEL_HEAP_END
  BY EndsExact DEF KmallocFirst, IInv, TypeOK
<1>3. size = Aligned(n)
  OBVIOUS
<1> HIDE DEF size
<1>4. Blocks = {} /\ heap_head = NULL
  BY DEF KmallocFirst, IInv, ListInOrder
<1>5. /\ heap_end = NULL => Blocks' = {}
      /\ heap_end # NULL => /\ Blocks' = {heap_end}
                            /\ hdr'[heap_end] = [size |-> size, free |-> 0,
                                                 next |-> NULL, prev |-> NULL]
  BY <1>3 DEF KmallocFirst, Blocks, NoBlocks
<1>6. /\ heap_start' = heap_start /\ heap_head' = heap_end /\ smashed' = smashed
      /\ live' = [q \in (DOMAIN live) \cup {heap_end + HEADER} |->
                    IF q = heap_end + HEADER THEN n ELSE live[q]]
  BY DEF KmallocFirst, Hand, Payload
<1>7. /\ heap_end \in Nat /\ heap_end < KERNEL_HEAP_END /\ heap_start \in {0, KERNEL_HEAP_START}
      /\ DOMAIN live \subseteq Nat /\ live \in [DOMAIN live -> Nat]
      /\ KERNEL_HEAP_END \in Nat /\ KERNEL_HEAP_START \in Nat \ {0}
  BY HeapBounds DEF IInv, TypeOK
<1>8. TypeOK' /\ ~smashed'
  <2>1. hdr' \in [Blocks' -> Header]
    BY <1>1, <1>3, <1>7 DEF KmallocFirst, Blocks, NoBlocks, Header, NULL
  <2>2. Blocks' \subseteq Nat \ {0}
    BY <1>5, <1>7 DEF NULL
  <2>3. QED
    BY <2>1, <2>2, <1>1, <1>2, <1>6, <1>7 DEF IInv, TypeOK, HEADER
<1>9. EarlyPhase'
  BY <1>1, <1>2, <1>3, <1>5, <1>6, <1>7 DEF IInv, EarlyPhase, EarlyBoot, HEADER, TAIL, NULL
<1>10. ListInOrder'
  BY <1>5, <1>6, <1>7 DEF ListInOrder, NULL
<1>11. WordAligned' /\ NoOverlap' /\ NoFreeNeighbours'
  <2>1. size % 4 = 0 /\ heap_end % 4 = 0
    BY <1>3, AlignedCovers DEF IInv, WordAligned, KmallocFirst
  <2>2. heap_end' % 4 = 0
    BY <2>1, <1>1, <1>2, <1>7 DEF HEADER
  <2>3. QED
    BY <2>1, <2>2, <1>5, <1>7 DEF WordAligned, NoOverlap, NoFreeNeighbours
<1>12. InHeap'
  BY <1>1, <1>2, <1>5, <1>6, <1>7 DEF IInv, EarlyPhase, InHeap, End, EndIn, HEADER, NULL
<1>13. LiveBacked'
  <2>1. \A p \in DOMAIN live : /\ p = HEADER
                               /\ HEADER + live[p] <= IF heap_start = 0 THEN heap_end ELSE heap_start
    BY <1>4 DEF IInv, LiveBacked
  <2>2. \A p \in DOMAIN live : live[p] \in Nat
    BY <1>7
  <2>3. heap_start # 0 => heap_end >= heap_start
    BY DEF IInv, EarlyPhase
  <2>4. heap_end = NULL => heap_start = 0
    BY <2>3, <1>7 DEF NULL
  <2>5. QED
    BY <2>1, <2>2, <2>3, <2>4, <1>1, <1>2, <1>5, <1>6, <1>7 DEF LiveBacked, Payload, HEADER, NULL
<1>14. QED
  BY <1>8, <1>9, <1>10, <1>11, <1>12, <1>13 DEF IInv

\* A free block is taken, whole or split.
LEMMA ReuseStep ==
    ASSUME IInv, NEW n \in Requests, KmallocReuse(n)
    PROVE  IInv'
<1> DEFINE size == Aligned(n)
           a == FirstFit(size)
           r == a + HEADER + size
           p == Payload(a)
<1>1. size \in Nat \ {0} /\ n <= size /\ n \in Nat
  BY AlignedCovers DEF KmallocReuse
<1>2. a \in Blocks /\ hdr[a].free # 0 /\ hdr[a].size >= size
  <2>1. a \in Fits(size)
    BY FirstFitIn DEF KmallocReuse, IInv, TypeOK
  <2>2. QED
    BY <2>1 DEF Fits
<1>3. /\ \/ /\ hdr[a].size >= size + HEADER + TAIL + MIN_BLOCK_SIZE
            /\ hdr' = Split(a, size)
         \/ hdr' = [hdr EXCEPT ![a].free = 0]
      /\ heap_start' = heap_start /\ heap_end' = heap_end
      /\ heap_head' = heap_head /\ smashed' = smashed
      /\ live' = [q \in (DOMAIN live) \cup {p} |-> IF q = p THEN n ELSE live[q]]
  BY DEF KmallocReuse, Hand
<1> HIDE DEF size, a
<1>4. /\ heap_end \in Nat /\ heap_end < KERNEL_HEAP_END /\ heap_start \in {0, KERNEL_HEAP_START}
      /\ heap_start \in Nat /\ heap_head \in Nat
      /\ DOMAIN live \subseteq Nat /\ live \in [DOMAIN live -> Nat]
      /\ KERNEL_HEAP_END \in Nat /\ KERNEL_HEAP_START \in Nat \ {0}
      /\ Blocks \subseteq Nat \ {0} /\ hdr \in [Blocks -> Header] /\ ~smashed
      /\ DOMAIN hdr = Blocks
  BY HeapBounds DEF IInv, TypeOK, Blocks
<1>5. /\ a \in Nat \ {0} /\ hdr[a] \in Header
      /\ hdr[a].size \in Nat \ {0} /\ hdr[a].next \in Nat /\ hdr[a].prev \in Nat
  BY <1>2, <1>4 DEF Header
<1>6. /\ heap_start # 0 /\ a >= heap_start /\ a < heap_end
      /\ a + HEADER + hdr[a].size <= heap_end
  BY <1>2, <1>4 DEF IInv, EarlyPhase, InHeap, End, EndIn
<1>7. EarlyPhase'
  BY <1>3, <1>4, <1>6 DEF IInv, EarlyPhase
<1>8. CASE hdr' = [hdr EXCEPT ![a].free = 0]
  <2>1. /\ Blocks' = Blocks
        /\ \A b \in Blocks : /\ hdr'[b].size = hdr[b].size /\ hdr'[b].next = hdr[b].next
                             /\ hdr'[b].prev = hdr[b].prev
                             /\ hdr'[b].free = IF b = a THEN 0 ELSE hdr[b].free
    BY <1>8, <1>4, <1>2 DEF Blocks, Header
  <2>2. TypeOK'
    <3>1. [hdr[a] EXCEPT !.free = 0] \in Header
      BY <1>5 DEF Header
    <3>2. hdr' \in [Blocks' -> Header]
      BY <1>8, <1>4, <2>1, <3>1
    <3>3. smashed' \in BOOLEAN
      BY <1>3, Zenon DEF IInv, TypeOK
    <3>4. QED
      BY <3>2, <3>3, <2>1, <1>1, <1>3, <1>4, <1>5 DEF TypeOK, Payload, HEADER
  <2>3. ListInOrder'
    <3>1. \A b \in Blocks' : b # heap_head' =>
             hdr'[b].prev \in Blocks' /\ hdr'[hdr'[b].prev].next = b
      BY <2>1, <1>3 DEF IInv, ListInOrder
    <3>2. \A b \in Blocks' : hdr'[b].next # NULL =>
             /\ hdr'[b].next \in Blocks' /\ hdr'[hdr'[b].next].prev = b
             /\ hdr'[b].next > b
      BY <2>1, <1>3 DEF IInv, ListInOrder
    <3>3. \A b \in Blocks' :
             /\ b >= heap_head'
             /\ \A c \in Blocks' : c > b => hdr'[b].next # NULL /\ c >= hdr'[b].next
      BY <2>1, <1>3 DEF IInv, ListInOrder
    <3>4. /\ heap_head' = NULL <=> Blocks' = {}
          /\ heap_head' # NULL => heap_head' \in Blocks' /\ hdr'[heap_head'].prev = NULL
          /\ Blocks' # {} => \E b \in Blocks' : hdr'[b].next = NULL
      BY <2>1, <1>3 DEF IInv, ListInOrder
    <3>5. QED
      BY <3>1, <3>2, <3>3, <3>4 DEF ListInOrder
  <2>4. WordAligned' /\ NoOverlap' /\ InHeap' /\ NoFreeNeighbours'
    <3>1. WordAligned' /\ NoOverlap'
      BY <2>1, <1>3 DEF IInv, WordAligned, NoOverlap, End, EndIn
    <3>2. InHeap'
      BY <2>1, <1>2, <1>3, <1>6 DEF IInv, InHeap, End, EndIn
    <3>3. NoFreeNeighbours'
      BY <2>1 DEF IInv, NoFreeNeighbours, ListInOrder
    <3>4. QED
      BY <3>1, <3>2, <3>3
  <2>5. LiveBacked'
    <3>1. p = a + HEADER /\ p - HEADER = a /\ p \in Nat
      BY <1>5 DEF Payload, HEADER
    <3>2. live'[p] = n /\ \A q \in DOMAIN live : q # p => live'[q] = live[q]
      BY <1>3
    <3>3. DOMAIN live' = (DOMAIN live) \cup {p}
      BY <1>3
    <3>4. \A q \in DOMAIN live : q # p => q - HEADER # a
      BY <3>1, <1>4, <1>5 DEF HEADER
    <3>5. n <= hdr'[a].size /\ hdr'[a].free = 0 /\ a \in Blocks'
      BY <2>1, <1>1, <1>2, <1>5
    <3>6. QED
      BY <3>1, <3>2, <3>3, <3>4, <3>5, <2>1, <1>3 DEF IInv, LiveBacked
  <2>6. QED
    BY <2>2, <2>3, <2>4, <2>5, <1>3, <1>4, <1>7 DEF IInv
<1>9. CASE /\ hdr[a].size >= size + HEADER + TAIL + MIN_BLOCK_SIZE
           /\ hdr' = Split(a, size)
  <2> DEFINE x == hdr[a].next
             rest == hdr[a].size - size - HEADER - TAIL
  <2>1. /\ r \in Nat \ {0} /\ r > a /\ rest \in Nat \ {0}
        /\ r + HEADER + rest + TAIL = a + HEADER + hdr[a].size
    BY <1>9, <1>1, <1>5 DEF HEADER, TAIL, MIN_BLOCK_SIZE
  <2>2. \A b \in Blocks : b > a => b >= a + HEADER + hdr[a].size /\ b > r
    BY <2>1, <1>2, <1>4, <1>5 DEF IInv, NoOverlap, End, EndIn, HEADER, TAIL
  <2>3. r \notin Blocks
    BY <2>1, <2>2
  <2>4. /\ Blocks' = Blocks \cup {r}
        /\ hdr'[r] = [size |-> rest, free |-> 1, next |-> x, prev |-> a]
        /\ hdr'[a] = [size |-> size, free |-> 0, next |-> r, prev |-> hdr[a].prev]
        /\ \A b \in Blocks : b # a =>
              hdr'[b] = IF b = x THEN [hdr[b] EXCEPT !.prev = r] ELSE hdr[b]
    BY <1>9, <2>1, <2>3, <1>2 DEF Split, Blocks
  <2>5. \A b \in Blocks : b # a =>
              /\ hdr'[b].size = hdr[b].size /\ hdr'[b].next = hdr[b].next
              /\ hdr'[b].free = hdr[b].free
              /\ hdr'[b].prev = IF b = x THEN r ELSE hdr[b].prev
              /\ hdr[b] \in Header /\ hdr'[b] \in Header
    <3> SUFFICES ASSUME NEW b \in Blocks, b # a
                 PROVE  /\ hdr'[b].size = hdr[b].size /\ hdr'[b].next = hdr[b].next
                        /\ hdr'[b].free = hdr[b].free
                        /\ hdr'[b].prev = IF b = x THEN r ELSE hdr[b].prev
                        /\ hdr[b] \in Header /\ hdr'[b] \in Header
      OBVIOUS
    <3>1. hdr[b] \in Header
      BY <1>4
    <3>2. hdr'[b] = IF b = x THEN [hdr[b] EXCEPT !.prev = r] ELSE hdr[b]
      BY <2>4
    <3>3. r \in Nat
      BY <2>1
    <3> HIDE DEF r, x
    <3>4. QED
      BY <3>1, <3>2, <3>3 DEF Header
  <2>6. TypeOK'
    <3>1. hdr' \in [Blocks' -> Header]
      <4>1. hdr'[r] \in Header /\ hdr'[a] \in Header
        BY <2>1, <2>4, <1>1, <1>5 DEF Header
      <4>2. \A b \in Blocks' : hdr'[b] \in Header
        BY <4>1, <2>4, <2>5
      <4>3. hdr' = [b \in Blocks' |-> hdr'[b]]
        BY <1>9 DEF Split, Blocks
      <4>4. QED
        BY <4>2, <4>3
    <3>2. smashed' \in BOOLEAN
      BY <1>3, Zenon DEF IInv, TypeOK
    <3>3. QED
      BY <3>1, <3>2, <2>1, <2>4, <1>1, <1>3, <1>4, <1>5 DEF TypeOK, Payload, HEADER
  <2> HIDE DEF r, rest
  <2>7. ListInOrder'
    <3>1. \A b \in Blocks : hdr[b].next = x /\ x # NULL => b = a
      BY <1>2 DEF IInv, ListInOrder
    <3>2. x # NULL => x \in Blocks /\ x > a /\ x > r /\ hdr[x].prev = a
      BY <2>2, <1>2 DEF IInv, ListInOrder
    <3>3. \A b \in Blocks' : b >= heap_head'
      BY <2>1, <2>4, <1>2, <1>3, <1>4, <1>5 DEF IInv, ListInOrder
    <3>4. /\ heap_head' = NULL <=> Blocks' = {}
          /\ heap_head' # NULL => heap_head' \in Blocks' /\ hdr'[heap_head'].prev = NULL
      BY <2>4, <2>5, <3>2, <1>2, <1>3, <1>4, <1>5 DEF IInv, ListInOrder, NULL
    <3>5. \E b \in Blocks' : hdr'[b].next = NULL
      BY <2>4, <2>5, <1>2 DEF IInv, ListInOrder
    <3>6. ASSUME NEW b \in Blocks', b # heap_head'
          PROVE  hdr'[b].prev \in Blocks' /\ hdr'[hdr'[b].prev].next = b
      <4>1. CASE b = r
        BY <4>1, <2>4, <1>2
      <4>2. CASE b # r /\ b = x
        <5>1. b \in Blocks /\ x # NULL
          BY <4>2, <2>4, <1>4 DEF NULL
        <5>2. b # a
          BY <5>1, <4>2, <3>2, <1>5
        <5>3. QED
          BY <5>1, <5>2, <4>2, <2>4, <2>5
      <4>3. CASE b = a
        <5>1. /\ hdr[a].prev \in Blocks /\ hdr[hdr[a].prev].next = a
              /\ hdr'[a].prev = hdr[a].prev
          BY <4>3, <3>6, <2>4, <1>2, <1>3 DEF IInv, ListInOrder
        <5>2. hdr[a].prev # a
          BY <5>1, <1>2, <1>5 DEF IInv, ListInOrder, NULL
        <5>3. QED
          BY <5>1, <5>2, <4>3, <2>4, <2>5
      <4>4. CASE b # r /\ b # a /\ b # x
        <5>1. /\ b \in Blocks /\ hdr[b].prev \in Blocks /\ hdr[hdr[b].prev].next = b
              /\ hdr'[b].prev = hdr[b].prev
          BY <4>4, <3>6, <2>4, <2>5, <1>3 DEF IInv, ListInOrder
        <5>2. hdr[b].prev # a
          BY <5>1, <4>4
        <5>3. QED
          BY <5>1, <5>2, <2>4, <2>5
      <4>5. QED
        BY <4>1, <4>2, <4>3, <4>4
    <3>7. ASSUME NEW b \in Blocks', hdr'[b].next # NULL
          PROVE  /\ hdr'[b].next \in Blocks' /\ hdr'[hdr'[b].next].prev = b
                 /\ hdr'[b].next > b
      <4>1. CASE b = r
        BY <4>1, <3>7, <3>2, <2>4, <2>5, <2>3, <1>2, <1>5
      <4>2. CASE b = a
        BY <4>2, <2>1, <2>3, <2>4, <1>2
      <4>3. CASE b # r /\ b # a
        <5>1. /\ b \in Blocks /\ hdr[b].next \in Blocks /\ hdr[hdr[b].next].prev = b
              /\ hdr[b].next > b /\ hdr'[b].next = hdr[b].next
          BY <4>3, <3>7, <2>4, <2>5 DEF IInv, ListInOrder
        <5>2. hdr[b].next # x
          BY <5>1, <4>3, <3>1, <3>7
        <5>3. QED
          BY <5>1, <5>2, <2>4, <2>5
      <4>4. QED
        BY <4>1, <4>2, <4>3
    <3>8. \A b, c \in Blocks' : c > b => hdr'[b].next # NULL /\ c >= hdr'[b].next
      <4> SUFFICES ASSUME NEW b \in Blocks', NEW c \in Blocks', c > b
                   PROVE  hdr'[b].next # NULL /\ c >= hdr'[b].next
        OBVIOUS
      <4>1. b \in Nat /\ c \in Nat
        BY <2>1, <2>4, <1>4
      <4>2. CASE b = r
        BY <4>1, <4>2, <2>1, <2>2, <2>4, <1>2, <1>5 DEF IInv, ListInOrder
      <4>3. CASE b = a
        BY <4>1, <4>3, <2>1, <2>2, <2>3, <2>4, <1>2, <1>5 DEF IInv, ListInOrder, NULL
      <4>4. CASE b # a /\ b # r /\ c # r
        BY <4>1, <4>4, <2>4, <2>5 DEF IInv, ListInOrder
      <4>5. CASE b # a /\ b # r /\ c = r
        <5>1. b < a
          BY <4>1, <4>5, <2>2, <2>4, <1>5
        <5>2. hdr[b].next # NULL /\ a >= hdr[b].next
          BY <5>1, <4>5, <2>4, <1>2, <1>5, <4>1 DEF IInv, ListInOrder
        <5>3. hdr[b].next \in Nat
          BY <4>5, <2>4, <1>4 DEF Header
        <5>4. QED
          BY <5>2, <5>3, <4>5, <2>1, <2>4, <2>5, <1>5
      <4>6. QED
        BY <4>2, <4>3, <4>4, <4>5
    <3>9. QED
      BY <3>3, <3>4, <3>5, <3>6, <3>7, <3>8 DEF ListInOrder
  <2>13. WordAligned'
    <3>1. /\ size % 4 = 0 /\ a % 4 = 0 /\ hdr[a].size % 4 = 0 /\ heap_end % 4 = 0
          /\ \A b \in Blocks : b % 4 = 0 /\ hdr[b].size % 4 = 0
      BY AlignedCovers, <1>2 DEF size, IInv, WordAligned, KmallocReuse
    <3>2. r % 4 = 0 /\ rest % 4 = 0
      BY <3>1, <2>1, <1>1, <1>5 DEF HEADER, TAIL, r, rest
    <3>3. QED
      BY <3>1, <3>2, <2>4, <2>5, <1>3 DEF WordAligned
  <2>8. NoOverlap'
    <3> SUFFICES ASSUME NEW b \in Blocks', NEW c \in Blocks', b < c
                 PROVE  b + HEADER + hdr'[b].size <= c
      BY DEF NoOverlap, End, EndIn
    <3>1. b \in Nat /\ c \in Nat
      BY <2>1, <2>4, <1>4
    <3>2. CASE b = r
      BY <3>1, <3>2, <2>1, <2>2, <2>4, <1>5 DEF HEADER, TAIL
    <3>3. CASE b = a
      BY <3>1, <3>3, <2>1, <2>2, <2>4, <1>1, <1>5 DEF HEADER, TAIL, r, rest
    <3>4. CASE b # a /\ b # r /\ c # r
      BY <3>4, <2>4, <2>5 DEF IInv, NoOverlap, End, EndIn
    <3>5. CASE b # a /\ b # r /\ c = r
      <4>1. b < a
        BY <3>1, <3>5, <2>2, <2>4, <1>5
      <4>2. b + HEADER + hdr[b].size <= a
        BY <4>1, <3>5, <2>4, <1>2 DEF IInv, NoOverlap, End, EndIn
      <4>3. hdr[b].size \in Nat
        BY <3>5, <2>4, <1>4 DEF Header
      <4>4. QED
        BY <4>2, <4>3, <3>1, <3>5, <2>4, <2>5, <1>1, <1>5 DEF HEADER, TAIL, r
    <3>6. QED
      BY <3>2, <3>3, <3>4, <3>5
  <2>9. InHeap'
    <3>1. \A b \in Blocks : b # a =>
             \/ b >= heap_start /\ b < heap_end /\ End(b) <= heap_end
             \/ b < heap_start /\ hdr[b].free = 0 /\ End(b) <= heap_start
      BY DEF IInv, InHeap
    <3>2. r >= heap_start /\ r < heap_end /\ r + HEADER + rest <= heap_end
      BY <2>1, <1>4, <1>5, <1>6, <1>1 DEF HEADER, TAIL
    <3>3. a + HEADER + size <= heap_end
      BY <1>9, <1>1, <1>4, <1>5, <1>6 DEF HEADER, TAIL, MIN_BLOCK_SIZE
    <3>4. QED
      BY <3>1, <3>2, <3>3, <2>4, <2>5, <1>3, <1>6 DEF InHeap, End, EndIn
  <2>10. NoFreeNeighbours'
    BY <2>3, <2>4, <2>5, <1>2 DEF IInv, NoFreeNeighbours, ListInOrder
  <2>11. LiveBacked'
    <3>1. p = a + HEADER /\ p - HEADER = a /\ p \in Nat
      BY <1>5 DEF Payload, HEADER
    <3>2. p \notin DOMAIN live
      BY <3>1, <1>2, <1>4, <1>5, <1>6 DEF IInv, LiveBacked, HEADER
    <3>3. \A q \in DOMAIN live' :
             \/ q - HEADER \in Blocks' /\ hdr'[q - HEADER].free = 0 /\ live'[q] <= hdr'[q - HEADER].size
             \/ /\ q = HEADER
                /\ HEADER + live'[q] <= IF heap_start' = 0 THEN heap_end' ELSE heap_start'
                /\ \A b \in Blocks' : HEADER + live'[q] <= b
      <4> SUFFICES ASSUME NEW q \in DOMAIN live, q # p
                   PROVE \/ q - HEADER \in Blocks' /\ hdr'[q - HEADER].free = 0 /\ live[q] <= hdr'[q - HEADER].size
                         \/ /\ q = HEADER
                            /\ HEADER + live[q] <= IF heap_start = 0 THEN heap_end ELSE heap_start
                            /\ \A b \in Blocks' : HEADER + live[q] <= b
        <5>1. p \in DOMAIN live' /\ live'[p] = n /\ n <= hdr'[a].size /\ hdr'[a].free = 0
          BY <2>4, <1>1, <1>3
        <5>2. \A q \in DOMAIN live' : q # p => q \in DOMAIN live /\ live'[q] = live[q]
          BY <1>3
        <5>3. QED
          BY <5>1, <5>2, <3>1, <2>4, <1>2, <1>3
      <4>1. q - HEADER # a /\ q \in Nat /\ live[q] \in Nat
        BY <3>1, <1>4 DEF HEADER
      <4>2. CASE q - HEADER \in Blocks /\ hdr[q - HEADER].free = 0 /\ live[q] <= hdr[q - HEADER].size
        BY <4>1, <4>2, <2>4, <2>5
      <4>3. CASE /\ q = HEADER
                 /\ HEADER + live[q] <= IF heap_start = 0 THEN heap_end ELSE heap_start
                 /\ \A b \in Blocks : HEADER + live[q] <= b
        <5>1. HEADER + live[q] <= r
          BY <4>1, <4>3, <2>1, <1>2, <1>5 DEF HEADER
        <5>2. QED
          BY <5>1, <4>3, <2>4
      <4>4. QED
        BY <4>2, <4>3 DEF IInv, LiveBacked
    <3>4. \A b \in Blocks' : hdr'[b].free = 0 => Payload(b) \in DOMAIN live'
      BY <2>4, <2>5, <1>3 DEF IInv, LiveBacked
    <3>5. QED
      BY <3>3, <3>4 DEF LiveBacked
  <2>12. QED
    BY <2>6, <2>7, <2>13, <2>8, <2>9, <2>10, <2>11, <1>3, <1>4, <1>7 DEF IInv
<1>10. QED
  BY <1>3, <1>8, <1>9

\* In a list in order the only block without a successor is the last one.
LEMMA LastIsLast ==
    ASSUME TypeOK, ListInOrder, Blocks # {}
    PROVE  /\ LastIn(hdr) \in Blocks /\ hdr[LastIn(hdr)].next = NULL
           /\ \A b \in Blocks : b <= LastIn(hdr)
<1>1. LastIn(hdr) \in Blocks /\ hdr[LastIn(hdr)].next = NULL
  BY DEF ListInOrder, LastIn, Blocks
<1>2. \A b \in Blocks : ~ (b > LastIn(hdr))
  BY <1>1 DEF ListInOrder
<1>3. QED
  BY <1>1, <1>2 DEF TypeOK

\* A block is appended at heap_end, after the last one.
LEMMA AppendStep ==
    ASSUME IInv, NEW n \in Requests, EarlyBoot(n), NoWrap(n), KmallocAppend(n)
    PROVE  IInv'
<1> DEFINE size == Aligned(n)
           l == LastIn(hdr)
           e == heap_end
           p == e + HEADER
<1>1. size \in Nat \ {0} /\ n <= size /\ n \in Nat
  BY AlignedCovers DEF KmallocAppend
<1>2. heap_end' = e + HEADER + size + TAIL /\ heap_end' < KERNEL_HEAP_END
  BY EndsExact DEF KmallocAppend, IInv, TypeOK
<1>3. /\ heap_end \in Nat /\ heap_end < KERNEL_HEAP_END /\ heap_start \in {0, KERNEL_HEAP_START}
      /\ heap_start \in Nat /\ heap_head \in Nat
      /\ DOMAIN live \subseteq Nat /\ live \in [DOMAIN live -> Nat]
      /\ KERNEL_HEAP_END \in Nat /\ KERNEL_HEAP_START \in Nat \ {0}
      /\ Blocks \subseteq Nat \ {0} /\ hdr \in [Blocks -> Header]
      /\ DOMAIN hdr = Blocks
  BY HeapBounds DEF IInv, TypeOK, Blocks
<1>4. \A b \in Blocks : hdr[b] \in Header /\ hdr[b].size \in Nat \ {0} /\ hdr[b].next \in Nat
  BY <1>3 DEF Header
<1>5. heap_head # NULL /\ Blocks # {}
  BY DEF KmallocAppend, IInv, ListInOrder
<1>6. /\ l \in Blocks /\ hdr[l].next = NULL
      /\ \A b \in Blocks : b <= l
  BY <1>5, LastIsLast DEF IInv
<1>7. \A b \in Blocks : b + HEADER + hdr[b].size <= e /\ b < e
  BY <1>3, <1>4 DEF IInv, InHeap, EarlyPhase, End, EndIn, HEADER
<1>8. e \notin Blocks /\ e # l /\ e # 0
  BY <1>3, <1>6, <1>7
<1>9. /\ heap_start' = heap_start /\ heap_head' = heap_head
      /\ live' = [q \in (DOMAIN live) \cup {p} |-> IF q = p THEN n ELSE live[q]]
  BY DEF KmallocAppend, Hand, Payload
<1>10. smashed' = FALSE
  <2>1. ~ (\E b \in Blocks : b >= heap_end \/ End(b) > heap_end)
    BY <1>3, <1>4, <1>7 DEF End, EndIn, HEADER
  <2>2. QED
    BY <2>1, Zenon DEF KmallocAppend
<1>11. hdr' = [[b \in Blocks \cup {e} |->
                  IF b = e THEN [size |-> size, free |-> 0, next |-> NULL, prev |-> l]
                  ELSE hdr[b]] EXCEPT ![l].next = e]
  BY DEF KmallocAppend
<1>12. p \in Nat /\ p - HEADER = e
  BY <1>3 DEF HEADER
<1> HIDE DEF size, l, p
<1>13. /\ Blocks' = Blocks \cup {e}
       /\ hdr'[e] = [size |-> size, free |-> 0, next |-> NULL, prev |-> l]
       /\ hdr'[l] = [hdr[l] EXCEPT !.next = e]
       /\ \A b \in Blocks : b # l => hdr'[b] = hdr[b]
       /\ hdr' = [b \in Blocks' |-> hdr'[b]]
  BY <1>6, <1>8, <1>11 DEF Blocks
<1>14. /\ hdr'[e].size = size /\ hdr'[e].free = 0 /\ hdr'[e].next = NULL /\ hdr'[e].prev = l
       /\ \A b \in Blocks : /\ hdr'[b].size = hdr[b].size /\ hdr'[b].free = hdr[b].free
                            /\ hdr'[b].prev = hdr[b].prev
                            /\ hdr'[b].next = IF b = l THEN e ELSE hdr[b].next
  BY <1>13, <1>4, <1>6 DEF Header
<1>15. TypeOK'
  <2>1. hdr'[e] \in Header /\ hdr'[l] \in Header
    BY <1>1, <1>3, <1>4, <1>6, <1>13 DEF Header, NULL
  <2>2. \A b \in Blocks' : hdr'[b] \in Header
    BY <2>1, <1>4, <1>13
  <2>3. hdr' \in [Blocks' -> Header]
    BY <2>2, <1>13
  <2>4. smashed' \in BOOLEAN
    BY <1>10
  <2>5. QED
    BY <2>3, <2>4, <1>1, <1>2, <1>3, <1>8, <1>9, <1>12, <1>13 DEF TypeOK, HEADER, TAIL
<1>16. EarlyPhase'
  BY <1>1, <1>2, <1>3, <1>9, <1>13, <1>14 DEF IInv, EarlyPhase, EarlyBoot, HEADER, TAIL, size
<1>17. ListInOrder'
  <2>1. /\ heap_head' = NULL <=> Blocks' = {}
        /\ heap_head' # NULL => heap_head' \in Blocks' /\ hdr'[heap_head'].prev = NULL
        /\ Blocks' # {} => \E b \in Blocks' : hdr'[b].next = NULL
    BY <1>5, <1>9, <1>13, <1>14 DEF IInv, ListInOrder
  <2>2. \A b \in Blocks' : b >= heap_head'
    BY <1>3, <1>5, <1>7, <1>9, <1>13 DEF IInv, ListInOrder
  <2>3. ASSUME NEW b \in Blocks', b # heap_head'
        PROVE  hdr'[b].prev \in Blocks' /\ hdr'[hdr'[b].prev].next = b
    <3>1. CASE b = e
      BY <3>1, <1>6, <1>13, <1>14
    <3>2. CASE b # e
      <4>1. /\ b \in Blocks /\ hdr[b].prev \in Blocks /\ hdr[hdr[b].prev].next = b
        BY <2>3, <3>2, <1>9, <1>13 DEF IInv, ListInOrder
      <4>2. hdr[b].prev # l
        BY <4>1, <1>3, <1>6 DEF NULL
      <4>3. QED
        BY <4>1, <4>2, <1>13, <1>14
    <3>3. QED
      BY <3>1, <3>2
  <2>4. ASSUME NEW b \in Blocks', hdr'[b].next # NULL
        PROVE  /\ hdr'[b].next \in Blocks' /\ hdr'[hdr'[b].next].prev = b
               /\ hdr'[b].next > b
    <3>1. CASE b = l
      BY <3>1, <1>3, <1>6, <1>7, <1>13, <1>14
    <3>2. CASE b # l /\ b # e
      BY <2>4, <3>2, <1>13, <1>14 DEF IInv, ListInOrder
    <3>3. QED
      BY <2>4, <3>1, <3>2, <1>14
  <2>5. ASSUME NEW b \in Blocks', NEW c \in Blocks', c > b
        PROVE  hdr'[b].next # NULL /\ c >= hdr'[b].next
    <3>1. b \in Nat /\ c \in Nat
      BY <1>3, <1>13
    <3>2. CASE b = e
      BY <2>5, <3>1, <3>2, <1>7, <1>13
    <3>3. CASE b = l
      BY <2>5, <3>1, <3>3, <1>6, <1>8, <1>13, <1>14 DEF NULL
    <3>4. CASE b # e /\ b # l /\ c # e
      BY <2>5, <3>4, <1>13, <1>14 DEF IInv, ListInOrder
    <3>5. CASE b # e /\ b # l /\ c = e
      <4>1. b \in Blocks /\ l > b
        BY <3>1, <3>5, <1>3, <1>6, <1>13
      <4>2. hdr[b].next # NULL /\ l >= hdr[b].next
        BY <4>1, <1>6 DEF IInv, ListInOrder
      <4>3. QED
        BY <4>1, <4>2, <3>5, <1>3, <1>4, <1>6, <1>7, <1>14
    <3>6. QED
      BY <3>2, <3>3, <3>4, <3>5
  <2>6. QED
    BY <2>1, <2>2, <2>3, <2>4, <2>5 DEF ListInOrder
<1>23. WordAligned'
  <2>1. /\ size % 4 = 0 /\ e % 4 = 0
        /\ \A b \in Blocks : b % 4 = 0 /\ hdr[b].size % 4 = 0
    BY AlignedCovers DEF size, IInv, WordAligned, KmallocAppend
  <2>2. heap_end' % 4 = 0
    BY <2>1, <1>1, <1>2, <1>3 DEF HEADER, TAIL
  <2>3. QED
    BY <2>1, <2>2, <1>13, <1>14 DEF WordAligned
<1>18. NoOverlap'
  <2> SUFFICES ASSUME NEW b \in Blocks', NEW c \in Blocks', b < c
               PROVE  b + HEADER + hdr'[b].size <= c
    BY DEF NoOverlap, End, EndIn
  <2>1. CASE b = e
    BY <2>1, <1>3, <1>7, <1>13
  <2>2. CASE b # e /\ c # e
    BY <2>2, <1>13, <1>14 DEF IInv, NoOverlap, End, EndIn
  <2>3. CASE b # e /\ c = e
    BY <2>3, <1>7, <1>13, <1>14
  <2>4. QED
    BY <2>1, <2>2, <2>3
<1>19. InHeap'
  <2>1. e >= heap_start /\ e < heap_end' /\ e + HEADER + size <= heap_end'
    BY <1>1, <1>2, <1>3 DEF IInv, EarlyPhase, HEADER, TAIL
  <2>2. \A b \in Blocks : b >= heap_start => b < heap_end' /\ b + HEADER + hdr[b].size <= heap_end'
    BY <1>1, <1>2, <1>3, <1>4, <1>7 DEF HEADER, TAIL
  <2>3. QED
    BY <2>1, <2>2, <1>9, <1>13, <1>14 DEF IInv, InHeap, End, EndIn
<1>20. NoFreeNeighbours'
  BY <1>8, <1>13, <1>14 DEF IInv, NoFreeNeighbours, ListInOrder
<1>21. LiveBacked'
  <2>1. /\ DOMAIN live' = (DOMAIN live) \cup {p} /\ live'[p] = n
        /\ \A q \in DOMAIN live : q # p => live'[q] = live[q]
    BY <1>9
  <2>2. ASSUME NEW q \in DOMAIN live'
        PROVE  \/ q - HEADER \in Blocks' /\ hdr'[q - HEADER].free = 0 /\ live'[q] <= hdr'[q - HEADER].size
               \/ /\ q = HEADER
                  /\ HEADER + live'[q] <= IF heap_start' = 0 THEN heap_end' ELSE heap_start'
                  /\ \A b \in Blocks' : HEADER + live'[q] <= b
    <3>1. CASE q = p
      BY <3>1, <2>1, <1>1, <1>12, <1>13, <1>14
    <3>2. CASE q # p
      <4>1. q \in DOMAIN live /\ live'[q] = live[q] /\ live[q] \in Nat /\ q \in Nat
        BY <3>2, <2>1, <1>3
      <4>2. CASE q - HEADER \in Blocks /\ hdr[q - HEADER].free = 0 /\ live[q] <= hdr[q - HEADER].size
        BY <4>1, <4>2, <1>13, <1>14
      <4>3. CASE /\ q = HEADER
                 /\ HEADER + live[q] <= IF heap_start = 0 THEN heap_end ELSE heap_start
                 /\ \A b \in Blocks : HEADER + live[q] <= b
        <5>1. HEADER + live[q] <= l
          BY <4>3, <1>6
        <5>2. HEADER + live[q] <= e
          BY <5>1, <4>1, <1>3, <1>6, <1>7 DEF HEADER
        <5>3. heap_end' \in Nat /\ e <= heap_end'
          BY <1>1, <1>2, <1>3 DEF HEADER, TAIL
        <5>4. QED
          BY <5>2, <5>3, <4>1, <4>3, <1>3, <1>9, <1>13 DEF HEADER
      <4>4. QED
        BY <4>1, <4>2, <4>3 DEF IInv, LiveBacked
    <3>3. QED
      BY <3>1, <3>2
  <2>3. \A b \in Blocks' : hdr'[b].free = 0 => Payload(b) \in DOMAIN live'
    <3>1. Payload(e) = p
      BY DEF Payload, p
    <3>2. QED
      BY <3>1, <2>1, <1>13, <1>14 DEF IInv, LiveBacked
  <2>4. QED
    BY <2>2, <2>3 DEF LiveBacked
<1>22. QED
  BY <1>10, <1>15, <1>16, <1>17, <1>23, <1>18, <1>19, <1>20, <1>21 DEF IInv

-----------------------------------------------------------------------------
(* kfree preserves the invariant                                            *)

\* What the invariant says of a header table, apart from where the heap is.
Table(h) ==
    /\ DOMAIN h \subseteq Nat \ {0}
    /\ h \in [DOMAIN h -> Header]
    /\ heap_head \in DOMAIN h
    /\ h[heap_head].prev = NULL
    /\ \E a \in DOMAIN h : h[a].next = NULL
    /\ \A a \in DOMAIN h :
        /\ a >= heap_head
        /\ a # heap_head => h[a].prev \in DOMAIN h /\ h[h[a].prev].next = a
        /\ h[a].next # NULL =>
              /\ h[a].next \in DOMAIN h /\ h[h[a].next].prev = a
              /\ h[a].next > a
        /\ \A b \in DOMAIN h : b > a => h[a].next # NULL /\ b >= h[a].next
        /\ a % 4 = 0 /\ h[a].size % 4 = 0
        /\ \A b \in DOMAIN h : a < b => EndIn(h, a) <= b

\* The components of a header of a table are numbers.
LEMMA TableTypes ==
    ASSUME NEW h, Table(h), NEW a \in DOMAIN h
    PROVE  /\ a \in Nat \ {0} /\ h[a] \in Header
           /\ h[a].size \in Nat \ {0} /\ h[a].free \in Nat
           /\ h[a].next \in Nat /\ h[a].prev \in Nat
<1>1. a \in Nat \ {0} /\ h[a] \in Header
  BY DEF Table
<1>2. QED
  BY <1>1 DEF Header

\* Table k is h with block a grown over its successor n.
Swallowed(h, a, n, k) ==
    /\ Table(k)
    /\ n \in DOMAIN h /\ n # a
    /\ DOMAIN k = (DOMAIN h) \ {n}
    /\ k[a].free = h[a].free /\ k[a].next = h[n].next
    /\ k[a].prev = h[a].prev
    /\ \A b \in DOMAIN k : b # a =>
          k[b].size = h[b].size /\ k[b].free = h[b].free /\ k[b].next = h[b].next

\* Block a swallowing its successor leaves a table, if the merged payload
\* does not run into the block after that.
LEMMA AbsorbTable ==
    ASSUME NEW h, Table(h), NEW a \in DOMAIN h, h[a].next # NULL,
           ~Smashes(Absorb(h, a), a), heap_head \in Nat
    PROVE  /\ Swallowed(h, a, h[a].next, Absorb(h, a))
           /\ Canary(Absorb(h, a), a) = Absorb(h, a)
<1> DEFINE k == Absorb(h, a)
           n == h[a].next
           m == h[n].next
<1>1. /\ n \in DOMAIN h /\ n > a /\ h[n].prev = a
      /\ m # NULL => m \in DOMAIN h /\ m > n /\ h[m].prev = n
  BY DEF Table
<1>2. /\ \A b \in DOMAIN h : /\ b \in Nat \ {0} /\ h[b] \in Header
                             /\ h[b].size \in Nat \ {0} /\ h[b].free \in Nat
                             /\ h[b].next \in Nat /\ h[b].prev \in Nat
  BY TableTypes
<1>3. n # a /\ m # a /\ m # n
  BY <1>1, <1>2 DEF NULL
<1>4. /\ DOMAIN k = (DOMAIN h) \ {n}
      /\ k[a] = [h[a] EXCEPT !.size = @ + HEADER + h[n].size + TAIL, !.next = m]
      /\ \A b \in DOMAIN k : b # a =>
            k[b] = IF b = m THEN [h[b] EXCEPT !.prev = a] ELSE h[b]
      /\ k = [b \in DOMAIN k |-> k[b]]
  BY <1>3 DEF Absorb
<1> HIDE DEF k, m, n
<1>5. /\ k[a].size = h[a].size + HEADER + h[n].size + TAIL
      /\ k[a].free = h[a].free /\ k[a].next = m /\ k[a].prev = h[a].prev
      /\ k[a] \in Header
  <2> DEFINE z == h[a].size + HEADER + h[n].size + TAIL
  <2>1. z \in Nat \ {0} /\ m \in Nat /\ h[a] \in Header
    BY <1>1, <1>2 DEF HEADER, TAIL, m
  <2>2. k[a] = [h[a] EXCEPT !.size = z, !.next = m]
    BY <1>4
  <2>3. z = h[a].size + HEADER + h[n].size + TAIL
    OBVIOUS
  <2> HIDE DEF z
  <2>4. QED
    BY <2>1, <2>2, <2>3 DEF Header
<1>6. ASSUME NEW b \in DOMAIN k, b # a
      PROVE  /\ k[b].size = h[b].size /\ k[b].free = h[b].free
             /\ k[b].next = h[b].next
             /\ k[b].prev = IF b = m THEN a ELSE h[b].prev
             /\ k[b] \in Header /\ b \in DOMAIN h /\ b # n
  <2>1. b \in DOMAIN h /\ b # n /\ h[b] \in Header /\ a \in Nat
    BY <1>2, <1>4
  <2>2. k[b] = IF b = m THEN [h[b] EXCEPT !.prev = a] ELSE h[b]
    BY <1>4, <1>6
  <2>3. QED
    BY <2>1, <2>2 DEF Header
<1>7. a \in DOMAIN k /\ heap_head \in DOMAIN k
  <2>1. heap_head # n
    BY <1>1, <1>2 DEF Table
  <2>2. QED
    BY <2>1, <1>3, <1>4 DEF Table
<1>8. \A b \in DOMAIN k : b > a => b >= EndIn(k, a)
  <2>1. \A b \in DOMAIN k : ~ (b > a /\ b < EndIn(k, a))
    BY DEF Smashes, k
  <2>2. EndIn(k, a) \in Nat
    BY <1>2, <1>1, <1>5 DEF EndIn, HEADER, TAIL
  <2>3. QED
    BY <2>1, <2>2, <1>2, <1>4
<1>9. Table(k)
  <2>1. k \in [DOMAIN k -> Header] /\ DOMAIN k \subseteq Nat \ {0}
    BY <1>2, <1>4, <1>5, <1>6
  <2>2. k[heap_head].prev = NULL
    <3>1. heap_head # m
      BY <1>1, <1>2, <1>3 DEF Table, NULL
    <3>2. QED
      BY <3>1, <1>5, <1>6, <1>7 DEF Table
  <2>3. \E b \in DOMAIN k : k[b].next = NULL
    <3>1. PICK l \in DOMAIN h : h[l].next = NULL
      BY DEF Table
    <3>2. CASE l = n
      BY <3>1, <3>2, <1>5, <1>7 DEF m
    <3>3. CASE l # n
      BY <3>1, <3>3, <1>4, <1>6 DEF n
    <3>4. QED
      BY <3>2, <3>3
  <2>4. \A b \in DOMAIN k : b >= heap_head
    BY <1>4 DEF Table
  <2>5. ASSUME NEW b \in DOMAIN k, b # heap_head
        PROVE  k[b].prev \in DOMAIN k /\ k[k[b].prev].next = b
    <3>1. b \in DOMAIN h /\ b # n /\ h[b].prev \in DOMAIN h /\ h[h[b].prev].next = b
      BY <2>5, <1>4 DEF Table
    <3>2. CASE b = m
      BY <3>2, <1>3, <1>5, <1>6, <1>7
    <3>3. CASE b # m
      <4>1. h[b].prev # n /\ h[b].prev # a
        BY <3>1, <3>3 DEF m, n
      <4>2. k[b].prev = h[b].prev
        BY <3>3, <1>5, <1>6
      <4>3. QED
        BY <4>1, <4>2, <3>1, <1>4, <1>6
    <3>4. QED
      BY <3>2, <3>3
  <2>6. ASSUME NEW b \in DOMAIN k, k[b].next # NULL
        PROVE  /\ k[b].next \in DOMAIN k /\ k[k[b].next].prev = b
               /\ k[b].next > b
    <3>1. CASE b = a
      BY <3>1, <2>6, <1>1, <1>2, <1>3, <1>4, <1>5, <1>6
    <3>2. CASE b # a
      <4>1. /\ k[b].next = h[b].next /\ h[b].next \in DOMAIN h
            /\ h[h[b].next].prev = b /\ h[b].next > b /\ b # n
        BY <2>6, <3>2, <1>6 DEF Table
      <4>2. h[b].next # n /\ h[b].next # m
        BY <4>1, <3>2, <1>1, <2>6
      <4>3. h[b].next \in DOMAIN k
        BY <4>1, <4>2, <1>4
      <4>4. CASE h[b].next = a
        BY <4>1, <4>3, <4>4, <1>5
      <4>5. CASE h[b].next # a
        BY <4>1, <4>2, <4>3, <4>5, <1>6
      <4>6. QED
        BY <4>1, <4>3, <4>4, <4>5
    <3>3. QED
      BY <3>1, <3>2
  <2>7. ASSUME NEW b \in DOMAIN k, NEW c \in DOMAIN k, c > b
        PROVE  k[b].next # NULL /\ c >= k[b].next
    <3>1. CASE b = a
      <4>1. c >= n /\ c # n /\ c \in DOMAIN h
        BY <2>7, <3>1, <1>4 DEF Table, n
      <4>2. c > n
        BY <4>1, <1>1, <1>2
      <4>3. QED
        BY <4>1, <4>2, <3>1, <1>1, <1>5 DEF Table, m
    <3>2. CASE b # a
      BY <2>7, <3>2, <1>4, <1>6 DEF Table
    <3>3. QED
      BY <3>1, <3>2
  <2>8. ASSUME NEW b \in DOMAIN k PROVE b % 4 = 0 /\ k[b].size % 4 = 0
    <3>1. CASE b = a
      <4>1. a % 4 = 0 /\ h[a].size % 4 = 0 /\ h[n].size % 4 = 0
        BY <1>1 DEF Table
      <4>2. QED
        BY <4>1, <3>1, <1>1, <1>2, <1>5 DEF HEADER, TAIL
    <3>2. CASE b # a
      BY <3>2, <1>6 DEF Table
    <3>3. QED
      BY <3>1, <3>2
  <2>9. ASSUME NEW b \in DOMAIN k, NEW c \in DOMAIN k, b < c
        PROVE  EndIn(k, b) <= c
    <3>1. CASE b = a
      <4>1. EndIn(k, a) \in Nat /\ c \in Nat /\ c > a
        BY <2>9, <3>1, <1>1, <1>2, <1>4, <1>5 DEF EndIn, HEADER, TAIL
      <4>2. QED
        BY <4>1, <3>1, <1>8
    <3>2. CASE b # a
      BY <2>9, <3>2, <1>4, <1>6 DEF Table, EndIn
    <3>3. QED
      BY <3>1, <3>2
  <2>10. QED
    BY <2>1, <2>2, <2>3, <2>4, <2>5, <2>6, <2>7, <2>8, <2>9, <1>7 DEF Table
<1>10. Canary(k, a) = k
  <2>1. ASSUME NEW b \in DOMAIN k PROVE EndIn(k, a) # b + 4 /\ EndIn(k, a) # b + 8
    <3>1. a \in Nat /\ b \in Nat /\ k[a].size \in Nat
      BY <1>1, <1>2, <1>4, <1>5 DEF HEADER, TAIL
    <3>2. CASE b > a
      <4>1. b >= EndIn(k, a)
        BY <3>2, <1>8
      <4>2. QED
        BY <3>1, <4>1 DEF EndIn, HEADER
    <3>3. CASE ~ (b > a)
      BY <3>1, <3>3 DEF EndIn, HEADER
    <3>4. QED
      BY <3>2, <3>3
  <2>2. Canary(k, a) = [b \in DOMAIN k |-> k[b]]
    BY <2>1 DEF Canary
  <2>3. QED
    BY <2>2, <1>4
<1>11. QED
  <2>1. Swallowed(h, a, n, k)
    BY <1>1, <1>3, <1>4, <1>5, <1>6, <1>9 DEF m, Swallowed
  <2>2. QED
    BY <2>1, <1>10 DEF k, n

\* The table after kfree has marked block a free and merged it with its
\* neighbours: c is the block a ended up in, the other blocks are as before,
\* and no two neighbours are free.
LEMMA JoinedTable ==
    ASSUME IInv, NEW a, Accepted(a), ~JoinSmashes(a)
    PROVE  LET j == Joined(a)
           IN  /\ Table(j)
               /\ DOMAIN j \subseteq Blocks
               /\ \A b \in Blocks : b # a /\ hdr[b].free = 0 => b \in DOMAIN j
               /\ \A b \in DOMAIN j : j[b].free # 0 /\ j[b].next # NULL =>
                     j[j[b].next].free = 0
               /\ \E c \in DOMAIN j :
                     /\ j[c].free # 0 /\ c >= heap_start /\ c <= a
                     /\ c = a \/ hdr[c].free # 0
                     /\ \A b \in DOMAIN j : b # c =>
                           b # a /\ j[b].size = hdr[b].size /\ j[b].free = hdr[b].free
<1> DEFINE h == Freed(a)
           k == JoinNext(h, a)
           j == JoinPrev(k, a)
<1>1. /\ a \in Blocks /\ a >= heap_start /\ a < heap_end /\ hdr[a].free = 0
      /\ DOMAIN hdr = Blocks
  BY DEF Accepted, InRange, Blocks
<1>2. /\ heap_head \in Nat /\ heap_end \in Nat /\ heap_start \in Nat
      /\ Blocks \subseteq Nat \ {0} /\ hdr \in [Blocks -> Header]
  BY HeapBounds DEF IInv, TypeOK
<1>3. Table(hdr)
  BY <1>1, <1>2 DEF IInv, ListInOrder, WordAligned, NoOverlap, Table, Blocks, End
<1>4. /\ DOMAIN h = Blocks
      /\ h[a] = [hdr[a] EXCEPT !.free = 1]
      /\ \A b \in Blocks : b # a => h[b] = hdr[b]
      /\ h = [b \in DOMAIN h |-> h[b]]
  BY <1>1 DEF Freed
<1> HIDE DEF h
<1>5. /\ h[a].free = 1
      /\ \A b \in Blocks : /\ h[b].size = hdr[b].size /\ h[b].next = hdr[b].next
                           /\ h[b].prev = hdr[b].prev /\ h[b] \in Header
                           /\ b # a => h[b].free = hdr[b].free
  <2>1. hdr[a] \in Header
    BY <1>1, <1>2
  <2>2. /\ h[a].free = 1 /\ h[a] \in Header /\ h[a].size = hdr[a].size
        /\ h[a].next = hdr[a].next /\ h[a].prev = hdr[a].prev
    BY <2>1, <1>4 DEF Header
  <2>3. QED
    BY <2>2, <1>2, <1>4
<1>6. Table(h)
  <2>1. h \in [DOMAIN h -> Header]
    BY <1>4, <1>5
  <2>2. \A b, c \in Blocks : b < c => EndIn(h, b) <= c
    BY <1>1, <1>3, <1>5 DEF Table, EndIn
  <2>3. \A b \in Blocks : /\ b # heap_head => h[b].prev \in Blocks /\ h[h[b].prev].next = b
                          /\ h[b].next # NULL =>
                               /\ h[b].next \in Blocks /\ h[h[b].next].prev = b
                               /\ h[b].next > b
    BY <1>1, <1>3, <1>5 DEF Table
  <2>4. \A b \in Blocks : /\ b >= heap_head
                          /\ \A c \in Blocks : c > b => h[b].next # NULL /\ c >= h[b].next
                          /\ b % 4 = 0 /\ h[b].size % 4 = 0
    BY <1>1, <1>3, <1>5 DEF Table
  <2>5. heap_head \in Blocks /\ h[heap_head].prev = NULL /\ \E b \in Blocks : h[b].next = NULL
    BY <1>1, <1>3, <1>5 DEF Table
  <2>6. QED
    BY <2>1, <2>2, <2>3, <2>4, <2>5, <1>2, <1>4 DEF Table
<1>7. \A b \in Blocks : b >= a => InRange(b)
  BY <1>1, <1>2 DEF IInv, InHeap, InRange
<1>8. \A b \in Blocks : b # a /\ h[b].free # 0 /\ h[b].next # NULL /\ h[b].next # a =>
         h[h[b].next].free = 0
  BY <1>3, <1>1, <1>5 DEF IInv, NoFreeNeighbours, Table
\* After the merge with the next block.
<1>9. /\ Table(k) /\ a \in DOMAIN k /\ k[a].free # 0 /\ k[a].prev = hdr[a].prev
      /\ DOMAIN k \subseteq Blocks
      /\ \A b \in Blocks : b # a /\ hdr[b].free = 0 => b \in DOMAIN k
      /\ \A b \in DOMAIN k : b # a => k[b].size = hdr[b].size /\ k[b].free = hdr[b].free
      /\ \A b \in DOMAIN k : k[b].free # 0 /\ k[b].next # NULL /\ k[b].next # a =>
            k[k[b].next].free = 0
  <2>1. CASE ~Mergeable(h, h[a].next)
    <3>1. k = h
      BY <2>1 DEF JoinNext
    <3>2. h[a].next # NULL => h[h[a].next].free = 0
      <4>1. h[a].next # NULL => InRange(h[a].next)
        <5> SUFFICES ASSUME h[a].next # NULL PROVE InRange(h[a].next)
          OBVIOUS
        <5>1. h[a].next \in Blocks /\ h[a].next > a
          BY <1>1, <1>4, <1>6 DEF Table
        <5>2. h[a].next >= a
          <6>1. \A b, c \in Nat : b > c => b >= c
            OBVIOUS
          <6>2. h[a].next \in Nat /\ a \in Nat
            BY <5>1, <1>1, <1>2
          <6>3. QED
            BY <5>1, <6>1, <6>2, Zenon
        <5>3. QED
          BY <5>1, <5>2, <1>7
      <4>2. QED
        BY <4>1, <2>1 DEF Mergeable
    <3>3. QED
      BY <3>1, <3>2, <1>1, <1>4, <1>5, <1>6, <1>8
  <2>2. CASE Mergeable(h, h[a].next)
    <3> DEFINE n == h[a].next
    <3>1. n # NULL /\ h[n].free # 0
      BY <2>2 DEF Mergeable
    <3>2. ~Smashes(Absorb(h, a), a)
      BY <2>2 DEF JoinSmashes, h
    <3>3. k = Canary(Absorb(h, a), a)
      BY <2>2 DEF JoinNext, Merge
    <3> HIDE DEF k
    <3>4. /\ Table(k) /\ n \in Blocks /\ n # a
          /\ DOMAIN k = Blocks \ {n}
          /\ k[a].free = h[a].free /\ k[a].next = h[n].next /\ k[a].prev = h[a].prev
          /\ \A b \in DOMAIN k : b # a =>
                /\ k[b].size = h[b].size /\ k[b].free = h[b].free
                /\ k[b].next = h[b].next
      <4>1. a \in DOMAIN h /\ h[a].next # NULL /\ heap_head \in Nat
        BY <3>1, <1>1, <1>2, <1>4
      <4>2. Swallowed(h, a, n, Absorb(h, a)) /\ Canary(Absorb(h, a), a) = Absorb(h, a)
        BY <4>1, <3>2, <1>6, AbsorbTable
      <4>3. Swallowed(h, a, n, k)
        BY <4>2, <3>3
      <4> HIDE DEF n
      <4>4. QED
        BY <4>3, <1>4 DEF Swallowed
    <3> HIDE DEF n
    <3>5. hdr[n].free # 0
      BY <3>1, <3>4, <1>5
    <3>6. ASSUME NEW b \in DOMAIN k, k[b].free # 0, k[b].next # NULL, k[b].next # a
          PROVE  k[k[b].next].free = 0
      <4>1. CASE b = a
        <5>1. h[h[n].next].free = 0 /\ h[n].next \in Blocks /\ h[n].next # n
          BY <4>1, <3>6, <3>1, <3>4, <1>4, <1>6, <1>8 DEF Table
        <5>2. QED
          BY <5>1, <4>1, <3>4, <3>6
      <4>2. CASE b # a
        <5>1. h[b].next \in DOMAIN k
          BY <3>6, <4>2, <3>4 DEF Table
        <5>2. h[h[b].next].free = 0
          BY <4>2, <3>4, <3>6, <1>8
        <5>3. QED
          BY <5>1, <5>2, <4>2, <3>4, <3>6
      <4>3. QED
        BY <4>1, <4>2
    <3>7. QED
      BY <3>4, <3>5, <3>6, <1>1, <1>5
  <2>3. QED
    BY <2>1, <2>2
<1>10. Joined(a) = j
  BY DEF Joined, h
<1>11. k[a].prev # NULL => k[a].prev \in DOMAIN k /\ k[k[a].prev].next = a
  BY <1>9 DEF Table
<1>12. CASE ~Mergeable(k, k[a].prev)
  <2>1. j = k
    BY <1>12 DEF JoinPrev
  <2>2. k[a].prev # NULL => k[k[a].prev].free = 0
    <3> SUFFICES ASSUME k[a].prev # NULL, k[k[a].prev].free # 0 PROVE FALSE
      OBVIOUS
    <3> DEFINE q == k[a].prev
    <3>1. q \in DOMAIN k /\ q \in Blocks /\ q # a /\ k[q].next = a
      BY <1>9, <1>11 DEF Table
    <3>2. hdr[q].free # 0
      BY <3>1, <1>9
    <3>3. InRange(q)
      BY <3>1, <3>2 DEF IInv, InHeap, InRange
    <3>4. QED
      BY <3>3, <1>12 DEF Mergeable
  <2>3. \A b \in DOMAIN k : k[b].next = a => b = k[a].prev
    BY <1>9, <1>2, <1>1 DEF Table, NULL
  <2>4. \A b \in DOMAIN k : k[b].free # 0 /\ k[b].next # NULL => k[k[b].next].free = 0
    <3> SUFFICES ASSUME NEW b \in DOMAIN k, k[b].free # 0, k[b].next # NULL
                 PROVE  k[k[b].next].free = 0
      OBVIOUS
    <3>1. k[b].next # a
      <4> SUFFICES ASSUME k[b].next = a PROVE FALSE
        OBVIOUS
      <4>1. b = k[a].prev /\ b # NULL
        BY <2>3, <1>9, <1>2 DEF NULL
      <4>2. QED
        BY <4>1, <2>2
    <3>2. QED
      BY <3>1, <1>9
  <2> HIDE DEF j, k
  <2>5. QED
    BY <2>1, <2>4, <1>1, <1>2, <1>9, <1>10
<1>13. CASE Mergeable(k, k[a].prev)
  <2> DEFINE q == k[a].prev
  <2>1. q # NULL /\ InRange(q) /\ k[q].free # 0
    BY <1>13 DEF Mergeable
  <2>2. /\ q \in DOMAIN k /\ k[q].next = a
    BY <2>1, <1>11
  <2>3. ~Smashes(Absorb(k, q), q)
    BY <1>13 DEF JoinSmashes, h
  <2>4. j = Canary(Absorb(k, q), q)
    BY <1>13 DEF JoinPrev, Merge
  <2> HIDE DEF k, j, q
  <2>5. a # NULL
    BY <1>1, <1>2 DEF NULL
  <2>6. /\ Table(j) /\ a # q
        /\ DOMAIN j = (DOMAIN k) \ {a}
        /\ j[q].free = k[q].free /\ j[q].next = k[a].next
        /\ \A b \in DOMAIN j : b # q =>
              /\ j[b].size = k[b].size /\ j[b].free = k[b].free
              /\ j[b].next = k[b].next
    <3>1. q \in DOMAIN k /\ k[q].next # NULL /\ heap_head \in Nat /\ Table(k)
      BY <2>2, <2>5, <1>2, <1>9
    <3>2. Swallowed(k, q, k[q].next, Absorb(k, q)) /\ Canary(Absorb(k, q), q) = Absorb(k, q)
      BY <3>1, <2>3, AbsorbTable
    <3>3. Swallowed(k, q, a, j)
      BY <3>2, <2>2, <2>4
    <3>4. QED
      BY <3>3 DEF Swallowed
  <2>7. q < a
    BY <2>2, <2>5, <1>9 DEF Table
  <2>8. ASSUME NEW b \in DOMAIN j, j[b].free # 0, j[b].next # NULL
        PROVE  j[j[b].next].free = 0
    <3>1. j[b].next \in DOMAIN j
      BY <2>6, <2>8 DEF Table
    <3>2. CASE b = q
      <4>1. k[k[a].next].free = 0
        BY <2>6, <2>8, <3>1, <3>2, <1>9
      <4>2. j[b].next # q
        BY <4>1, <3>2, <2>1, <2>6
      <4>3. QED
        BY <4>1, <4>2, <3>1, <3>2, <2>6
    <3>3. CASE b # q
      <4>1. b \in DOMAIN k /\ k[b].free # 0 /\ j[b].next = k[b].next
        BY <3>3, <2>6, <2>8
      <4>2. k[b].next # a
        BY <4>1, <3>1, <2>6
      <4>3. k[k[b].next].free = 0
        BY <4>1, <4>2, <2>8, <1>9
      <4>4. k[b].next # q
        BY <4>3, <2>1
      <4>5. QED
        BY <4>1, <4>3, <4>4, <3>1, <2>6
    <3>4. QED
      BY <3>2, <3>3
  <2>9. q \in DOMAIN j /\ j[q].free # 0 /\ q >= heap_start /\ q <= a /\ hdr[q].free # 0
    BY <2>1, <2>2, <2>6, <2>7, <1>1, <1>2, <1>9 DEF InRange
  <2>10. QED
    BY <2>6, <2>8, <2>9, <1>9, <1>10
<1>14. QED
  BY <1>12, <1>13

\* kfree under the discipline: either the heap becomes empty, or the merged
\* block lies below a block that is in use.
LEMMA KfreeStep ==
    ASSUME IInv, NEW p \in DOMAIN live, NoSmash(p), NoTrim(p), Kfree(p)
    PROVE  IInv'
<1> DEFINE a == p - HEADER
           j == Joined(a)
<1>1. CASE ~Accepted(a)
  <2>1. UNCHANGED vars
    BY <1>1 DEF Kfree
  <2>2. QED
    BY <2>1 DEF vars, IInv, TypeOK, EarlyPhase, ListInOrder, WordAligned, NoOverlap,
       InHeap, NoFreeNeighbours, LiveBacked, Blocks, End, EndIn
<1>2. CASE Accepted(a)
  <2>1. ~JoinSmashes(a)
    BY <1>2 DEF NoSmash
  <2>2. /\ live' = [q \in (DOMAIN live) \ {p} |-> live[q]]
        /\ smashed' = JoinSmashes(a) /\ heap_start' = heap_start /\ heap_start # 0
        /\ \/ /\ j[heap_head].free # 0 /\ j[heap_head].next = NULL
              /\ heap_end' = heap_start /\ heap_head' = NULL /\ hdr' = NoBlocks
           \/ /\ ~ (j[heap_head].free # 0 /\ j[heap_head].next = NULL)
              /\ heap_end' = IF j[LastIn(j)].free # 0 THEN LastIn(j) ELSE heap_end
              /\ heap_head' = heap_head /\ hdr' = j
    BY <1>2 DEF Kfree
  <2>3. smashed' = FALSE
    <3>1. JoinSmashes(a) \in BOOLEAN
      BY DEF JoinSmashes
    <3>2. QED
      BY <3>1, <2>1, <2>2
  <2>4. NoTrim(p) => (j[LastIn(j)].free # 0 => LastIn(j) = heap_head)
    BY <1>2 DEF NoTrim
  <2>5. /\ Table(j)
        /\ DOMAIN j \subseteq Blocks
        /\ \A b \in Blocks : b # a /\ hdr[b].free = 0 => b \in DOMAIN j
        /\ \A b \in DOMAIN j : j[b].free # 0 /\ j[b].next # NULL => j[j[b].next].free = 0
        /\ \E c \in DOMAIN j :
              /\ j[c].free # 0 /\ c >= heap_start /\ c <= a
              /\ c = a \/ hdr[c].free # 0
              /\ \A b \in DOMAIN j : b # c =>
                    b # a /\ j[b].size = hdr[b].size /\ j[b].free = hdr[b].free
    BY <1>2, <2>1, JoinedTable
  <2>6. a \in Blocks /\ hdr[a].free = 0
    BY <1>2 DEF Accepted
  <2> HIDE DEF j
  <2>7. PICK c \in DOMAIN j :
              /\ j[c].free # 0 /\ c >= heap_start /\ c <= a
              /\ c = a \/ hdr[c].free # 0
              /\ \A b \in DOMAIN j : b # c =>
                    b # a /\ j[b].size = hdr[b].size /\ j[b].free = hdr[b].free
    BY <2>5
  <2>8. /\ heap_head \in Nat /\ heap_end \in Nat /\ heap_start = KERNEL_HEAP_START
        /\ KERNEL_HEAP_START \in Nat \ {0} /\ KERNEL_HEAP_END \in Nat
        /\ KERNEL_HEAP_START < KERNEL_HEAP_END /\ KERNEL_HEAP_START % 4 = 0
        /\ heap_end < KERNEL_HEAP_END /\ heap_end >= heap_start
        /\ Blocks \subseteq Nat \ {0} /\ hdr \in [Blocks -> Header]
        /\ DOMAIN live \subseteq Nat /\ live \in [DOMAIN live -> Nat]
    BY <2>2, HeapBounds DEF IInv, TypeOK, EarlyPhase
  <2>9. /\ \A b \in DOMAIN j : /\ b \in Nat \ {0} /\ j[b].size \in Nat \ {0}
                               /\ j[b].free \in Nat /\ j[b].next \in Nat
        /\ \A b \in Blocks : hdr[b].size \in Nat \ {0} /\ hdr[b].free \in Nat
        /\ p \in Nat /\ a \in Nat
    BY <2>5, <2>6, <2>8, TableTypes DEF Header
  <2>10. /\ LastIn(j) \in DOMAIN j /\ j[LastIn(j)].next = NULL
         /\ \A b \in DOMAIN j : b <= LastIn(j)
    <3>1. LastIn(j) \in DOMAIN j /\ j[LastIn(j)].next = NULL
      BY <2>5 DEF Table, LastIn
    <3>2. \A b \in DOMAIN j : ~ (b > LastIn(j))
      BY <3>1, <2>5 DEF Table
    <3>3. QED
      BY <3>1, <3>2, <2>9
  <2>11. /\ DOMAIN live' = (DOMAIN live) \ {p}
         /\ \A q \in DOMAIN live' : live'[q] = live[q] /\ live'[q] \in Nat /\ q \in Nat
    BY <2>2, <2>8
  <2>12. TypeOK'
    <3>1. smashed' \in BOOLEAN
      BY <2>3
    <3>2. live' \in [DOMAIN live' -> Nat] /\ DOMAIN live' \subseteq Nat
      BY <2>2, <2>8
    <3>3. hdr' \in [Blocks' -> Header] /\ Blocks' \subseteq Nat \ {0}
      BY <2>2, <2>5 DEF Blocks, NoBlocks, Table
    <3>4. /\ heap_end' \in 0 .. (KERNEL_HEAP_END - 1) /\ heap_head' \in Nat
      BY <2>2, <2>4, <2>8, <2>10 DEF NULL
    <3>5. QED
      BY <3>1, <3>2, <3>3, <3>4, <2>2, <2>8 DEF TypeOK
  <2>13. CASE hdr' = NoBlocks /\ heap_head' = NULL /\ heap_end' = heap_start
              /\ j[heap_head].free # 0 /\ j[heap_head].next = NULL
    <3>1. Blocks' = {}
      BY <2>13 DEF Blocks, NoBlocks
    <3>2. EarlyPhase' /\ ListInOrder' /\ WordAligned' /\ NoOverlap' /\ InHeap' /\ NoFreeNeighbours'
      BY <3>1, <2>2, <2>8, <2>13 DEF EarlyPhase, ListInOrder, WordAligned, NoOverlap,
         InHeap, NoFreeNeighbours
    <3>3. DOMAIN j = {heap_head}
      <4>1. heap_head \in DOMAIN j /\ \A b \in DOMAIN j : b >= heap_head /\ ~ (b > heap_head)
        BY <2>5, <2>13 DEF Table
      <4>2. \A b \in DOMAIN j : b = heap_head
        BY <4>1, <2>8, <2>9
      <4>3. QED
        BY <4>1, <4>2
    <3>4. LiveBacked'
      <4>1. ASSUME NEW q \in DOMAIN live' PROVE q - HEADER \notin Blocks \/ hdr[q - HEADER].free # 0
        <5> SUFFICES ASSUME q - HEADER \in Blocks, hdr[q - HEADER].free = 0 PROVE FALSE
          OBVIOUS
        <5>1. q - HEADER # a
          BY <2>9, <2>11 DEF HEADER
        <5>2. q - HEADER = heap_head /\ q - HEADER \in DOMAIN j
          BY <5>1, <3>3, <2>5
        <5>3. c = heap_head
          BY <3>3
        <5>4. QED
          BY <5>1, <5>2, <5>3, <2>7
      <4>2. QED
        BY <4>1, <3>1, <2>2, <2>8, <2>11, <2>13 DEF IInv, LiveBacked
    <3>5. QED
      BY <2>3, <2>12, <3>2, <3>4 DEF IInv
  <2>14. CASE /\ ~ (j[heap_head].free # 0 /\ j[heap_head].next = NULL)
              /\ heap_end' = IF j[LastIn(j)].free # 0 THEN LastIn(j) ELSE heap_end
              /\ heap_head' = heap_head /\ hdr' = j
    <3>1. j[LastIn(j)].free = 0
      BY <2>4, <2>10, <2>14
    <3>2. heap_end' = heap_end /\ Blocks' = DOMAIN j
      BY <3>1, <2>14 DEF Blocks
    <3>3. EarlyPhase'
      BY <3>2, <2>2, <2>8 DEF EarlyPhase
    <3>4. ListInOrder'
      BY <3>2, <2>5, <2>8, <2>14 DEF ListInOrder, Table, NULL
    <3>5. WordAligned' /\ NoOverlap'
      BY <3>2, <2>5, <2>14 DEF IInv, WordAligned, NoOverlap, Table, End
    <3>6. InHeap'
      <4>1. ASSUME NEW b \in DOMAIN j, b # c
            PROVE  \/ b >= heap_start /\ b < heap_end /\ EndIn(j, b) <= heap_end
                   \/ b < heap_start /\ j[b].free = 0 /\ EndIn(j, b) <= heap_start
        <5>1. b \in Blocks /\ EndIn(j, b) = End(b) /\ j[b].free = hdr[b].free
          BY <4>1, <2>5, <2>7 DEF End, EndIn
        <5>2. QED
          BY <5>1 DEF IInv, InHeap
      <4>2. c >= heap_start /\ c < heap_end /\ EndIn(j, c) <= heap_end
        <5> DEFINE l == LastIn(j)
        <5>1. l # c /\ l \in DOMAIN j /\ c < l
          BY <3>1, <2>7, <2>9, <2>10
        <5> HIDE DEF l
        <5>2. EndIn(j, c) <= l
          BY <5>1, <2>5 DEF Table
        <5>3. l \in Blocks /\ l >= heap_start
          BY <5>1, <2>5, <2>7, <2>8, <2>9
        <5>4. l < heap_end
          BY <5>3, <2>8 DEF IInv, InHeap
        <5>5. QED
          BY <5>1, <5>2, <5>3, <5>4, <2>7, <2>8, <2>9 DEF EndIn, HEADER
      <4>3. QED
        BY <4>1, <4>2, <3>2, <2>2, <2>14 DEF InHeap, End
    <3>7. NoFreeNeighbours'
      BY <3>2, <2>5, <2>14 DEF NoFreeNeighbours
    <3>8. LiveBacked'
      <4>1. ASSUME NEW q \in DOMAIN live'
            PROVE  \/ q - HEADER \in DOMAIN j /\ j[q - HEADER].free = 0 /\ live[q] <= j[q - HEADER].size
                   \/ /\ q = HEADER
                      /\ HEADER + live[q] <= heap_start
                      /\ \A b \in DOMAIN j : HEADER + live[q] <= b
        <5>1. q \in DOMAIN live /\ q # p /\ q - HEADER # a
          BY <2>9, <2>11 DEF HEADER
        <5>2. CASE q - HEADER \in Blocks /\ hdr[q - HEADER].free = 0 /\ live[q] <= hdr[q - HEADER].size
          BY <5>1, <5>2, <2>5, <2>7
        <5>3. CASE /\ q = HEADER
                   /\ HEADER + live[q] <= IF heap_start = 0 THEN heap_end ELSE heap_start
                   /\ \A b \in Blocks : HEADER + live[q] <= b
          BY <5>3, <2>2, <2>5
        <5>4. QED
          BY <5>1, <5>2, <5>3 DEF IInv, LiveBacked
      <4>2. ASSUME NEW b \in DOMAIN j, j[b].free = 0 PROVE Payload(b) \in DOMAIN live'
        <5>1. b \in Blocks /\ b # c /\ b # a /\ hdr[b].free = 0
          BY <4>2, <2>5, <2>7
        <5>2. Payload(b) \in DOMAIN live
          BY <5>1 DEF IInv, LiveBacked
        <5>3. Payload(b) # p
          BY <5>1, <2>9 DEF Payload, HEADER
        <5>4. QED
          BY <5>2, <5>3, <2>11
      <4>3. QED
        BY <4>1, <4>2, <3>2, <2>2, <2>8, <2>11, <2>14 DEF LiveBacked
    <3>9. QED
      BY <2>3, <2>12, <3>3, <3>4, <3>5, <3>6, <3>7, <3>8 DEF IInv
  <2>15. QED
    BY <2>2, <2>13, <2>14
<1>3. QED
  BY <1>1, <1>2

-----------------------------------------------------------------------------
(* The theorems                                                             *)

\* Every disciplined step, and every stuttering step, preserves the invariant.
LEMMA StepIInv == IInv /\ [SafeNext]_vars => IInv'
<1> SUFFICES ASSUME IInv, [SafeNext]_vars PROVE IInv'
  OBVIOUS
<1>1. ASSUME UNCHANGED vars PROVE IInv'
  BY <1>1 DEF vars, IInv, TypeOK, EarlyPhase, ListInOrder, WordAligned, NoOverlap,
     InHeap, NoFreeNeighbours, LiveBacked, Blocks, End, EndIn
<1>2. CASE heap_init
  BY <1>2, InitStep
<1>3. ASSUME NEW n \in Requests, EarlyBoot(n), NoWrap(n), kmalloc(n) PROVE IInv'
  <2>1. CASE KmallocNull(n)
    BY <2>1, <1>1 DEF KmallocNull
  <2>2. QED
    BY <1>3, <2>1, FirstStep, ReuseStep, AppendStep DEF kmalloc
<1>4. ASSUME NEW p \in DOMAIN live, NoSmash(p), NoTrim(p), Kfree(p) PROVE IInv'
  BY <1>4, KfreeStep
<1>5. QED
  BY <1>1, <1>2, <1>3, <1>4 DEF SafeNext

\* The invariant holds in every reachable state of the disciplined heap.
THEOREM HeapInvariant == SafeSpec => []IInv
  BY InitIInv, StepIInv, PTL DEF SafeSpec

\* The variables of heap.c keep their types.
THEOREM HeapTypes == SafeSpec => []TypeOK
<1>1. IInv => TypeOK
  BY DEF IInv
<1>2. QED
  BY <1>1, HeapInvariant, PTL

\* kmalloc and kfree keep the block list in address order, linked both ways.
THEOREM HeapList == SafeSpec => []ListInOrder
<1>1. IInv => ListInOrder
  BY DEF IInv
<1>2. QED
  BY <1>1, HeapInvariant, PTL

\* What kmalloc has handed out never overlaps.
THEOREM HeapDisjoint == SafeSpec => []LiveDisjoint
<1>1. IInv => LiveDisjoint
  <2> SUFFICES ASSUME IInv, NEW p \in DOMAIN live, NEW q \in DOMAIN live, p < q
               PROVE  p + live[p] <= q - HEADER
    BY DEF LiveDisjoint
  <2>1. /\ p \in Nat /\ q \in Nat /\ live[p] \in Nat /\ live[q] \in Nat
        /\ Blocks \subseteq Nat \ {0} /\ hdr \in [Blocks -> Header]
    BY DEF IInv, TypeOK
  <2>2. \A b \in Blocks : hdr[b].size \in Nat /\ b \in Nat \ {0}
    BY <2>1 DEF Header
  <2>3. q # HEADER => q - HEADER \in Blocks
    BY DEF IInv, LiveBacked
  <2>4. CASE p - HEADER \in Blocks /\ hdr[p - HEADER].free = 0 /\ live[p] <= hdr[p - HEADER].size
    <3>1. q # HEADER
      BY <2>1, <2>2, <2>4 DEF HEADER
    <3>2. End(p - HEADER) <= q - HEADER
      BY <3>1, <2>1, <2>3, <2>4 DEF IInv, NoOverlap, HEADER
    <3>3. QED
      BY <3>1, <3>2, <2>1, <2>2, <2>3, <2>4 DEF End, EndIn, HEADER
  <2>5. CASE p = HEADER /\ \A b \in Blocks : HEADER + live[p] <= b
    BY <2>1, <2>3, <2>5 DEF HEADER
  <2>6. QED
    BY <2>4, <2>5 DEF IInv, LiveBacked
<1>2. QED
  BY <1>1, HeapInvariant, PTL

\* kfree accepts every pointer that kmalloc returned after heap_init.
THEOREM HeapFreeable == SafeSpec => []LiveFreeable
<1>1. IInv => LiveFreeable
  <2> SUFFICES ASSUME IInv, heap_start # 0, NEW p \in DOMAIN live, p > KERNEL_HEAP_START
               PROVE  Accepted(p - HEADER)
    BY DEF LiveFreeable
  <2>1. /\ p \in Nat /\ live[p] \in Nat /\ heap_start = KERNEL_HEAP_START
        /\ KERNEL_HEAP_START \in Nat
        /\ Blocks \subseteq Nat \ {0} /\ hdr \in [Blocks -> Header]
    BY HeapBounds DEF IInv, TypeOK
  <2>2. p - HEADER \in Blocks /\ hdr[p - HEADER].free = 0
    BY <2>1 DEF IInv, LiveBacked, HEADER
  <2>3. hdr[p - HEADER].size \in Nat \ {0}
    BY <2>1, <2>2 DEF Header
  <2>4. End(p - HEADER) = p + hdr[p - HEADER].size
    BY <2>1, <2>3 DEF End, EndIn, HEADER
  <2>5. /\ p - HEADER >= heap_start /\ p - HEADER < heap_end
        /\ End(p - HEADER) <= heap_end
    <3>1. ~ (End(p - HEADER) <= heap_start)
      BY <2>1, <2>3, <2>4
    <3>2. QED
      BY <3>1, <2>2, Zenon DEF IInv, InHeap
  <2>6. QED
    BY <2>2, <2>3, <2>5 DEF Accepted, InRange
<1>2. QED
  BY <1>1, HeapInvariant, PTL

\* A canary stays inside the heap and never damages a header.
THEOREM HeapCanaries == SafeSpec => []CanarySafe
<1>1. IInv => CanarySafe
  <2> SUFFICES ASSUME IInv, NEW a \in Blocks
               PROVE  /\ End(a) + TAIL <= KERNEL_HEAP_END
                      /\ \A b \in Blocks : a < b => End(a) = b \/ End(a) + TAIL <= b
    BY DEF CanarySafe
  <2>1. /\ a \in Nat /\ hdr[a] \in Header /\ hdr[a].size \in Nat
        /\ a % 4 = 0 /\ hdr[a].size % 4 = 0
    BY DEF IInv, TypeOK, WordAligned, Header
  <2>2. End(a) \in Nat /\ End(a) % 4 = 0
    BY <2>1 DEF End, EndIn, HEADER
  <2>3. End(a) < KERNEL_HEAP_END
    BY <2>2, HeapBounds DEF IInv, InHeap, TypeOK
  <2>4. \A b \in Blocks : a < b => b \in Nat /\ b % 4 = 0 /\ End(a) <= b
    BY DEF IInv, TypeOK, NoOverlap, WordAligned
  <2> HIDE DEF End
  <2>5. QED
    BY <2>2, <2>3, <2>4, HeapBounds DEF TAIL
<1>2. QED
  BY <1>1, HeapInvariant, PTL

=============================================================================
