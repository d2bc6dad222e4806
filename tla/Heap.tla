-------------------------------- MODULE Heap --------------------------------
(***************************************************************************)
(* The kernel heap (kernel/mm/heap.c): a list of blocks in address order,  *)
(* each a header, a payload and a tail canary word; kmalloc takes the      *)
(* first free block that is large enough (splitting it), else appends one  *)
(* at heap_end; kfree merges with free neighbours and lowers heap_end.     *)
(*                                                                         *)
(* Addresses and sizes are the code's byte counts, computed modulo Word    *)
(* (2^32 in the kernel).  A header that is in the list is an entry of hdr; *)
(* its magic word needs no field: an address is in DOMAIN hdr exactly when *)
(* it holds HEAP_MAGIC.  What a client stores in a payload is left out.    *)
(***************************************************************************)
EXTENDS Integers, FiniteSets

CONSTANTS
    Word,               \* modulus of size_t and of uint32_t
    KERNEL_HEAP_START,  \* vm.h
    KERNEL_HEAP_END,    \* vm.h
    HEAP_MAGIC,         \* value of header magic and tail canary
    Requests            \* sizes the clients ask kmalloc for

ASSUME HeapBounds ==
    /\ KERNEL_HEAP_START \in Nat \ {0}
    /\ KERNEL_HEAP_END \in Nat
    /\ KERNEL_HEAP_START < KERNEL_HEAP_END
    /\ KERNEL_HEAP_START % 4 = 0 /\ KERNEL_HEAP_END % 4 = 0
    /\ Word \in Nat
    /\ KERNEL_HEAP_END < Word
    /\ HEAP_MAGIC \in Nat \ {0}
    /\ Requests \subseteq 0 .. (Word - 1)

NULL == 0
HEADER == 20            \* sizeof(block_header_t)
TAIL == 4               \* sizeof(uint32_t), the canary after the payload
MIN_BLOCK_SIZE == 8

VARIABLES
    heap_start, heap_end, heap_head,    \* the statics of heap.c
    hdr,        \* address -> header, for the blocks in the list
    live,       \* pointer -> requested size: what kmalloc returned and the
                \* client has not given back
    smashed     \* a canary was written into another block's header

vars == <<heap_start, heap_end, heap_head, hdr, live, smashed>>

Header == [size : Nat \ {0}, free : Nat, next : Nat, prev : Nat]
Blocks == DOMAIN hdr
Payload(a) == a + HEADER
NoBlocks == [a \in {} |-> [size |-> 0, free |-> 0, next |-> NULL, prev |-> NULL]]

\* First byte after the payload of block a in the header table h: its canary.
EndIn(h, a) == a + HEADER + h[a].size
End(a) == EndIn(hdr, a)

-----------------------------------------------------------------------------
(* kmalloc                                                                  *)

\* (size + 7) & ~7 in size_t
Aligned(n) == LET m == (n + 7) % Word IN m - (m % 8)

\* The three early returns: zero, overflow of the rounding, and the test
\* against the room left, whose subtraction wraps when less than a header
\* and a canary fit below KERNEL_HEAP_END.
Refused(n) ==
    \/ n = 0
    \/ Aligned(n) < n
    \/ Aligned(n) > (KERNEL_HEAP_END - heap_end - HEADER - TAIL) % Word

\* The search stops at the first block in list order that fits; the list is
\* in address order.
Fits(size) == {a \in Blocks : hdr[a].free # 0 /\ hdr[a].size >= size}
FirstFit(size) == CHOOSE a \in Fits(size) : \A b \in Fits(size) : a <= b

\* The block the search ends on when nothing fits.
LastIn(h) == CHOOSE a \in DOMAIN h : h[a].next = NULL

Hand(p, n) ==
    live' = [q \in (DOMAIN live) \cup {p} |-> IF q = p THEN n ELSE live[q]]

\* The branch for heap_head == NULL.  A first block at address 0 leaves
\* heap_head equal to NULL, so that it is never in the list.
KmallocFirst(n) ==
    LET new_end == (heap_end + HEADER + Aligned(n)) % Word IN
    /\ ~smashed
    /\ ~Refused(n)
    /\ heap_head = NULL
    /\ new_end < KERNEL_HEAP_END
    /\ heap_head' = heap_end
    /\ hdr' = IF heap_end = NULL
              THEN NoBlocks
              ELSE [a \in {heap_end} |->
                       [size |-> Aligned(n), free |-> 0,
                        next |-> NULL, prev |-> NULL]]
    /\ heap_end' = new_end
    /\ Hand(Payload(heap_end), n)
    /\ UNCHANGED <<heap_start, smashed>>

\* Faulty variants: the remainder keeps the room its own header takes; the
\* remainder starts inside the payload.
SplitFullRest(a, size) ==
    LET r == a + HEADER + size
        old == hdr[a]
    IN  [b \in Blocks \cup {r} |->
            IF b = r THEN [size |-> old.size - size, free |-> 1, next |-> old.next, prev |-> a]
            ELSE IF b = a THEN [size |-> size, free |-> 0, next |-> r, prev |-> old.prev]
            ELSE IF b = old.next THEN [hdr[b] EXCEPT !.prev = r]
            ELSE hdr[b]]
SplitInside(a, size) ==
    LET r == a + size
        old == hdr[a]
    IN  [b \in Blocks \cup {r} |->
            IF b = r THEN [size |-> old.size - size - TAIL, free |-> 1,
                           next |-> old.next, prev |-> a]
            ELSE IF b = a THEN [size |-> size, free |-> 0, next |-> r, prev |-> old.prev]
            ELSE IF b = old.next THEN [hdr[b] EXCEPT !.prev = r]
            ELSE hdr[b]]

\* The header table after block a keeps size bytes and the rest becomes a
\* free block.  The remainder starts right after the payload: its magic is
\* the canary of a.
Split(a, size) ==
    LET r == a + HEADER + size
        old == hdr[a]
    IN  [b \in Blocks \cup {r} |->
            IF b = r THEN [size |-> old.size - size - HEADER - TAIL,
                           free |-> 1, next |-> old.next, prev |-> a]
            ELSE IF b = a THEN [size |-> size, free |-> 0,
                                next |-> r, prev |-> old.prev]
            ELSE IF b = old.next THEN [hdr[b] EXCEPT !.prev = r]
            ELSE hdr[b]]

KmallocReuse(n) ==
    LET size == Aligned(n)
        a == FirstFit(size)
    IN
    /\ ~smashed
    /\ ~Refused(n)
    /\ heap_head # NULL
    /\ Fits(size) # {}
    /\ hdr' = IF hdr[a].size >= size + HEADER + TAIL + MIN_BLOCK_SIZE
              THEN Split(a, size)
              ELSE [hdr EXCEPT ![a].free = 0]
    /\ Hand(Payload(a), n)
    /\ UNCHANGED <<heap_start, heap_end, heap_head, smashed>>

\* Faulty variant: the canary has half a word.
AppendEndHalf(n) == (heap_end + HEADER + Aligned(n) + TAIL \div 2) % Word

\* Where an appended block would end.
AppendEnd(n) == (heap_end + HEADER + Aligned(n) + TAIL) % Word

\* new_block is at heap_end; writing it over a block that is already there
\* and then setting current->next is what the code does.
KmallocAppend(n) ==
    LET size == Aligned(n)
        last == LastIn(hdr)
        h == [b \in Blocks \cup {heap_end} |->
                 IF b = heap_end
                 THEN [size |-> size, free |-> 0, next |-> NULL, prev |-> last]
                 ELSE hdr[b]]
    IN
    /\ ~smashed
    /\ ~Refused(n)
    /\ heap_head # NULL
    /\ Fits(size) = {}
    /\ AppendEnd(n) >= heap_end
    /\ AppendEnd(n) < KERNEL_HEAP_END
    /\ hdr' = [h EXCEPT ![last].next = heap_end]
    /\ heap_end' = AppendEnd(n)
    /\ Hand(Payload(heap_end), n)
    /\ smashed' = \E b \in Blocks : b >= heap_end \/ End(b) > heap_end
    /\ UNCHANGED <<heap_start, heap_head>>

\* kmalloc returns NULL and nothing changes.
KmallocNull(n) ==
    /\ ~smashed
    /\ \/ Refused(n)
       \/ /\ heap_head = NULL
          /\ (heap_end + HEADER + Aligned(n)) % Word >= KERNEL_HEAP_END
       \/ /\ heap_head # NULL
          /\ Fits(Aligned(n)) = {}
          /\ AppendEnd(n) < heap_end \/ AppendEnd(n) >= KERNEL_HEAP_END
    /\ UNCHANGED vars

-----------------------------------------------------------------------------
(* kfree                                                                    *)

InRange(a) == a >= heap_start /\ a < heap_end

\* Faulty variant: the block's canary has to lie below heap_end, too.
AcceptedWithTail(a) ==
    /\ InRange(a)
    /\ a \in Blocks
    /\ hdr[a].size # 0
    /\ End(a) + TAIL <= heap_end
    /\ hdr[a].free = 0

\* The checks kfree makes before it touches the block.
Accepted(a) ==
    /\ InRange(a)
    /\ a \in Blocks
    /\ hdr[a].size # 0
    /\ End(a) <= heap_end
    /\ hdr[a].free = 0

\* Faulty variant: the block after next keeps its prev.
AbsorbKeepsPrev(h, a) ==
    LET n == h[a].next IN
    [b \in (DOMAIN h) \ {n} |->
        IF b = a THEN [h[a] EXCEPT !.size = @ + HEADER + h[n].size + TAIL,
                                   !.next = h[n].next]
        ELSE h[b]]

\* Block a swallows the block after it.
Absorb(h, a) ==
    LET n == h[a].next IN
    [b \in (DOMAIN h) \ {n} |->
        IF b = a THEN [h[a] EXCEPT !.size = @ + HEADER + h[n].size + TAIL,
                                   !.next = h[n].next]
        ELSE IF b = h[n].next THEN [h[b] EXCEPT !.prev = a]
        ELSE h[b]]

\* The canary write after a merge.  It may land on the size or on the free
\* word of the block that follows.
Canary(h, a) ==
    [b \in DOMAIN h |->
        IF EndIn(h, a) = b + 4 THEN [h[b] EXCEPT !.size = HEAP_MAGIC]
        ELSE IF EndIn(h, a) = b + 8 THEN [h[b] EXCEPT !.free = HEAP_MAGIC]
        ELSE h[b]]
Smashes(h, a) == \E b \in DOMAIN h : b > a /\ b < EndIn(h, a)

Merge(h, a) == Canary(Absorb(h, a), a)

\* Whether kfree merges across the link to block n.
Mergeable(h, n) == n # NULL /\ InRange(n) /\ h[n].free # 0

\* The header table after block->free = 1, after the merge with the next
\* block and after the merge with the previous one.
Freed(a) == [hdr EXCEPT ![a].free = 1]
JoinNext(h, a) == IF Mergeable(h, h[a].next) THEN Merge(h, a) ELSE h
JoinPrev(h, a) == IF Mergeable(h, h[a].prev) THEN Merge(h, h[a].prev) ELSE h
Joined(a) == JoinPrev(JoinNext(Freed(a), a), a)

\* One of the two canary writes hits the header of the block that follows.
JoinSmashes(a) ==
    LET h == Freed(a)
        k == JoinNext(h, a)
    IN  \/ Mergeable(h, h[a].next) /\ Smashes(Absorb(h, a), a)
        \/ Mergeable(k, k[a].prev) /\ Smashes(Absorb(k, k[a].prev), k[a].prev)

Kfree(p) ==
    LET a == p - HEADER
        h == Joined(a)
    IN
    /\ ~smashed
    /\ heap_start # 0
    /\ IF ~Accepted(a) THEN UNCHANGED vars
       ELSE /\ live' = [q \in (DOMAIN live) \ {p} |-> live[q]]
            /\ smashed' = JoinSmashes(a)
            /\ IF h[heap_head].free # 0 /\ h[heap_head].next = NULL
               THEN /\ heap_end' = heap_start
                    /\ heap_head' = NULL
                    /\ hdr' = NoBlocks
               ELSE /\ heap_end' = IF h[LastIn(h)].free # 0 THEN LastIn(h) ELSE heap_end
                    /\ heap_head' = heap_head
                    /\ hdr' = h
            /\ UNCHANGED heap_start

-----------------------------------------------------------------------------
\* heap_init sets the bounds and leaves heap_head as it is.
heap_init ==
    /\ heap_start = 0
    /\ heap_start' = KERNEL_HEAP_START
    /\ heap_end' = KERNEL_HEAP_START
    /\ UNCHANGED <<heap_head, hdr, live, smashed>>

Init ==
    /\ heap_start = 0
    /\ heap_end = 0
    /\ heap_head = NULL
    /\ hdr = NoBlocks
    /\ live = [p \in {} |-> 0]
    /\ smashed = FALSE

kmalloc(n) == KmallocFirst(n) \/ KmallocReuse(n) \/ KmallocAppend(n) \/ KmallocNull(n)

\* scheduler_init allocates before heap_init has run, when heap_end is still
\* 0; what it asks for (two stacks and two task_t) ends far below the heap.
EarlyBoot(n) ==
    heap_start # 0 \/ heap_end + HEADER + Aligned(n) + TAIL <= KERNEL_HEAP_START

\* Any client: it frees, in any order, pointers it got and still holds.
Next ==
    \/ heap_init
    \/ \E n \in Requests : EarlyBoot(n) /\ kmalloc(n)
    \/ \E p \in DOMAIN live : Kfree(p)

Spec == Init /\ [][Next]_vars

\* The conditions under which the allocator keeps its structure.
\* The size test does not wrap, or the end of the new block does not.
NoWrap(n) ==
    \/ heap_end + HEADER + TAIL <= KERNEL_HEAP_END
    \/ heap_end + HEADER + Aligned(n) + TAIL < Word
\* Freeing p neither lowers heap_end to a block that stays in the list ...
NoTrim(p) ==
    LET h == Joined(p - HEADER) IN
    Accepted(p - HEADER) /\ h[LastIn(h)].free # 0 => LastIn(h) = heap_head
\* ... nor merges blocks that have no room for a canary between them.
NoSmash(p) == Accepted(p - HEADER) => ~JoinSmashes(p - HEADER)

SafeNext ==
    \/ heap_init
    \/ \E n \in Requests : EarlyBoot(n) /\ NoWrap(n) /\ kmalloc(n)
    \/ \E p \in DOMAIN live : NoSmash(p) /\ NoTrim(p) /\ Kfree(p)

SafeSpec == Init /\ [][SafeNext]_vars

-----------------------------------------------------------------------------
(* Properties                                                               *)

\* Types of the statics of heap.c and of the headers in memory: kmalloc never
\* makes an empty block and never lets heap_end reach KERNEL_HEAP_END.
TypeOK ==
    /\ heap_start \in {0, KERNEL_HEAP_START}
    /\ heap_end \in 0 .. (KERNEL_HEAP_END - 1)
    /\ heap_head \in Nat
    /\ Blocks \subseteq Nat \ {0}
    /\ hdr \in [Blocks -> Header]
    /\ DOMAIN live \subseteq Nat
    /\ live \in [DOMAIN live -> Nat]
    /\ smashed \in BOOLEAN

\* What scheduler_init's kmalloc calls before heap_init leave behind: until
\* heap_init the heap grows from address 0 and nothing is freed.
EarlyPhase ==
    /\ heap_start = 0 => heap_end <= KERNEL_HEAP_START /\ \A a \in Blocks : hdr[a].free = 0
    /\ heap_start # 0 => heap_end >= heap_start

\* Splits (kmalloc) and merges (kfree) keep the list whole: the links run
\* through all blocks in address order and prev inverts next.
ListInOrder ==
    /\ heap_head = NULL <=> Blocks = {}
    /\ heap_head # NULL => heap_head \in Blocks /\ hdr[heap_head].prev = NULL
    /\ Blocks # {} => \E a \in Blocks : hdr[a].next = NULL
    /\ \A a \in Blocks :
        /\ a >= heap_head
        /\ a # heap_head => hdr[a].prev \in Blocks /\ hdr[hdr[a].prev].next = a
        /\ hdr[a].next # NULL =>
              /\ hdr[a].next \in Blocks /\ hdr[hdr[a].next].prev = a
              /\ hdr[a].next > a
        /\ \A b \in Blocks : b > a => hdr[a].next # NULL /\ b >= hdr[a].next

\* Headers, sizes and heap_end are multiples of the word size, so that a
\* canary is a whole word of the heap.
WordAligned ==
    /\ heap_end % 4 = 0
    /\ \A a \in Blocks : a % 4 = 0 /\ hdr[a].size % 4 = 0

\* Neither a split nor an append lets the payload of a block reach beyond the
\* header of a later one.
NoOverlap ==
    \A a, b \in Blocks : a < b => End(a) <= b

\* After heap_init every block lies in the heap, except those scheduler_init
\* allocated before it, which are in use for ever.
InHeap ==
    \A a \in Blocks :
        \/ a >= heap_start /\ a < heap_end /\ End(a) <= heap_end
        \/ a < heap_start /\ hdr[a].free = 0 /\ End(a) <= heap_start

\* Two neighbours are never both free: kfree has merged them.
NoFreeNeighbours ==
    \A a \in Blocks : hdr[a].free # 0 /\ hdr[a].next # NULL => hdr[hdr[a].next].free = 0

\* What the client holds is what is in use: each pointer is the payload of a
\* block in use that has the bytes asked for, and no block in use is lost.
\* The exception is the block at address 0.
LiveBacked ==
    /\ \A p \in DOMAIN live :
        \/ p - HEADER \in Blocks /\ hdr[p - HEADER].free = 0 /\ live[p] <= hdr[p - HEADER].size
        \/ /\ p = HEADER
           /\ HEADER + live[p] <= IF heap_start = 0 THEN heap_end ELSE heap_start
           /\ \A b \in Blocks : HEADER + live[p] <= b
    /\ \A a \in Blocks : hdr[a].free = 0 => Payload(a) \in DOMAIN live

\* The invariant that the disciplined steps preserve.
IInv ==
    /\ TypeOK
    /\ ~smashed
    /\ EarlyPhase
    /\ ListInOrder
    /\ WordAligned
    /\ NoOverlap
    /\ InHeap
    /\ NoFreeNeighbours
    /\ LiveBacked

\* No two allocations the client holds share a byte, and no header lies
\* inside one.
LiveDisjoint ==
    \A p, q \in DOMAIN live : p < q => p + live[p] <= q - HEADER

\* A canary lies inside the heap's address range, and either in a gap of its
\* own or exactly on the magic word of the next header, which has the same
\* value; so a header is never damaged by a canary.
CanarySafe ==
    \A a \in Blocks :
        /\ End(a) + TAIL <= KERNEL_HEAP_END
        /\ \A b \in Blocks : a < b => End(a) = b \/ End(a) + TAIL <= b

\* kfree takes every pointer the client got after heap_init.
LiveFreeable ==
    heap_start # 0 =>
        \A p \in DOMAIN live : p > KERNEL_HEAP_START => Accepted(p - HEADER)

\* heap_validate walks the list and checks the links (part of ListInOrder) and
\* the bounds of each block: no block that kmalloc made in the heap lies at or
\* above heap_end ("Block outside heap range!").
NoBlockBeyondEnd == \A a \in Blocks : a >= heap_start => a < heap_end
=============================================================================
