------------------------------- MODULE Frames -------------------------------
(***************************************************************************)
(* Physical frames and virtual pages: the bitmap allocator                 *)
(* (kernel/mm/pmm.c), the page tables (kernel/mm/paging.c) and the         *)
(* page-fault handler that backs the kernel heap on demand                 *)
(* (isr_handler in kernel/core/idt.c), from boot on.                       *)
(*                                                                         *)
(* A frame or a page is its number, an address divided by FRAME_SIZE.  A   *)
(* pointer to a frame is compared with NULL in the code, so frame 0 and    *)
(* "no frame" are the same value there; page_tables keeps that.            *)
(***************************************************************************)
EXTENDS Integers, FiniteSets

CONSTANTS
    FRAME_SIZE,         \* bytes in a frame and in a page (4096)
    BITS,               \* frames in one bitmap entry (32)
    Word,               \* modulus of uint32_t
    PAGE_ENTRIES,       \* entries of a page table (1024)
    DIRS,               \* entries of the page directory (1024)
    MemoryMaps,         \* the multiboot memory maps: sets of [addr, len, type]
    KernelStart, KernelEnd,         \* linker symbols, byte addresses
    HeapFirst, HeapLimit            \* pages of KERNEL_HEAP_START and _END

Region == [addr : Nat, len : Nat, type : Nat]

ASSUME FramesConstants ==
    /\ FRAME_SIZE \in Nat \ {0} /\ BITS \in Nat \ {0} /\ Word \in Nat \ {0}
    /\ PAGE_ENTRIES \in Nat \ {0} /\ DIRS \in Nat \ {0}
    /\ MemoryMaps \subseteq SUBSET Region
    /\ KernelStart \in Nat /\ KernelEnd \in Nat
    /\ FRAME_SIZE <= KernelStart /\ FRAME_SIZE <= KernelEnd
    /\ HeapFirst \in Nat /\ HeapLimit \in Nat
    /\ PAGE_ENTRIES <= HeapFirst /\ HeapLimit <= DIRS * PAGE_ENTRIES

NULL == 0
NotPresent == -1
Pages == 0 .. (DIRS * PAGE_ENTRIES - 1)
HeapPages == {p \in Pages : HeapFirst <= p /\ p < HeapLimit}
Dir(p) == p \div PAGE_ENTRIES

VARIABLES
    mmap,           \* the memory map the boot loader passed
    phase,          \* how far kernel_boot is: "reset", "frames", "paging"
    total_frames,
    used,           \* frames whose bit is set in the bitmap
    page_directory, \* directory entry: frame of the table, or NotPresent
    page_tables,    \* pointer to the table, NULL if there is none
    entry,          \* page -> frame, or NotPresent
    panicked        \* why debug_panic stopped the machine, or "no"

vars == <<mmap, phase, total_frames, used, page_directory, page_tables, entry, panicked>>

-----------------------------------------------------------------------------
(* pmm_init                                                                 *)

CeilDiv(x, y) == (x + y - 1) \div y

\* region_end is a uint32_t: the end of a region at 4 GB is 0.
RegionEnds(m) == {(r.addr + r.len) % Word : r \in m} \cup {0}
HighestAddr(m) == CHOOSE e \in RegionEnds(m) : \A x \in RegionEnds(m) : x <= e
TotalFrames(m) == HighestAddr(m) \div FRAME_SIZE

\* The machine has at least one bitmap entry's worth of memory.
ASSUME MapsLargeEnough ==
    \A m \in MemoryMaps : TotalFrames(m) \in Nat /\ TotalFrames(m) >= BITS

\* Faulty variant: the frame a region ends in is freed as well.
RegionFramesUp(r) == (r.addr \div FRAME_SIZE) .. (CeilDiv(r.addr + r.len, FRAME_SIZE) - 1)

\* The frames that are freed: from the frame the region starts in to the last
\* one that ends in it.
RegionFrames(r) == (r.addr \div FRAME_SIZE) .. ((r.addr + r.len) \div FRAME_SIZE - 1)
UsableFrames(m) == UNION {RegionFrames(r) : r \in {x \in m : x.type = 1}}

\* The bitmap lies right after the kernel; both are reserved.
BitmapEnd(total) ==
    CeilDiv(KernelEnd + CeilDiv(total, BITS) * (BITS \div 8), FRAME_SIZE)
KernelFrames(total) ==
    ((KernelStart \div FRAME_SIZE) .. (CeilDiv(KernelEnd, FRAME_SIZE) - 1))
    \cup ((KernelEnd \div FRAME_SIZE) .. (BitmapEnd(total) - 1))

\* Faulty variant: the kernel and the bitmap are not reserved.
pmm_init_unreserved ==
    /\ phase = "reset" /\ panicked = "no"
    /\ phase' = "frames"
    /\ total_frames' = TotalFrames(mmap)
    /\ used' = (0 .. (TotalFrames(mmap) - 1)) \ UsableFrames(mmap)
    /\ UNCHANGED <<mmap, page_directory, page_tables, entry, panicked>>

pmm_init ==
    LET total == TotalFrames(mmap)
        frames == 0 .. (total - 1)
    IN
    /\ phase = "reset" /\ panicked = "no"
    /\ phase' = "frames"
    /\ total_frames' = total
    /\ used' = (frames \ UsableFrames(mmap)) \cup KernelFrames(total)
    /\ UNCHANGED <<mmap, page_directory, page_tables, entry, panicked>>

\* Bit 6 of the multiboot flags is clear: MISSING_MEMORY_MAP, and
\* kernel_boot panics.
pmm_init_fails ==
    /\ phase = "reset" /\ panicked = "no"
    /\ panicked' = "PMM failed: Missing memory map"
    /\ UNCHANGED <<mmap, phase, total_frames, used, page_directory, page_tables, entry>>

-----------------------------------------------------------------------------
(* pmm_alloc_frame                                                          *)

\* The scan covers whole bitmap entries only.
ScannedFrames == 0 .. ((total_frames \div BITS) * BITS - 1)
FreeIn(u) == ScannedFrames \ u
first_free_frame(u) == CHOOSE f \in FreeIn(u) : \A g \in FreeIn(u) : f <= g

\* The pointer pmm_alloc_frame returns when the bitmap is u, and the bitmap
\* after it.
AllocPtr(u) == IF FreeIn(u) = {} THEN NULL ELSE first_free_frame(u)
AllocUsed(u) == IF FreeIn(u) = {} THEN u ELSE u \cup {first_free_frame(u)}

\* Frames a client can get, as pmm_get_free_frames counts them.
pmm_get_free_frames == Cardinality((0 .. (total_frames - 1)) \ used)

-----------------------------------------------------------------------------
(* paging_init: the first table maps pages 1 .. PAGE_ENTRIES - 1 to         *)
(* themselves and leaves page 0 out.                                        *)

\* Faulty variant: the first table is taken without marking its frame.
paging_init_unmarked ==
    /\ phase = "frames" /\ panicked = "no"
    /\ phase' = "paging"
    /\ page_directory' = [d \in 0 .. (DIRS - 1) |-> IF d = 0 THEN AllocPtr(used) ELSE NotPresent]
    /\ page_tables' = [d \in 0 .. (DIRS - 1) |-> IF d = 0 THEN AllocPtr(used) ELSE NULL]
    /\ entry' = [p \in Pages |-> IF 1 <= p /\ p < PAGE_ENTRIES THEN p ELSE NotPresent]
    /\ UNCHANGED <<mmap, total_frames, used, panicked>>

paging_init ==
    LET first_table == AllocPtr(used) IN
    /\ phase = "frames" /\ panicked = "no"
    /\ phase' = "paging"
    /\ used' = AllocUsed(used)
    /\ page_directory' = [d \in 0 .. (DIRS - 1) |-> IF d = 0 THEN first_table ELSE NotPresent]
    /\ page_tables' = [d \in 0 .. (DIRS - 1) |-> IF d = 0 THEN first_table ELSE NULL]
    /\ entry' = [p \in Pages |-> IF 1 <= p /\ p < PAGE_ENTRIES THEN p ELSE NotPresent]
    /\ UNCHANGED <<mmap, total_frames, panicked>>

-----------------------------------------------------------------------------
(* Page faults.  All code runs in ring 0 and every page is writable, so     *)
(* the only fault is on a page that is not present.                         *)

\* Faulty variant: a page that is present faults, too.
FaultAlways(p) == phase = "paging" /\ panicked = "no"

Fault(p) ==
    /\ phase = "paging" /\ panicked = "no"
    /\ entry[p] = NotPresent

\* Faulty variants: the pointer to the new table is not kept; the table is put
\* in the frame of the page.
MapForgetsTable(p, frame, u) ==
    /\ used' = AllocUsed(u)
    /\ page_directory' = [page_directory EXCEPT ![Dir(p)] = AllocPtr(u)]
    /\ entry' = [q \in Pages |-> IF q = p THEN frame
                                 ELSE IF Dir(q) = Dir(p) THEN NotPresent ELSE entry[q]]
    /\ UNCHANGED <<page_tables, panicked>>

MapSharesFrame(p, frame, u) ==
    /\ used' = u
    /\ page_directory' = [page_directory EXCEPT ![Dir(p)] = frame]
    /\ page_tables' = [page_tables EXCEPT ![Dir(p)] = frame]
    /\ entry' = [q \in Pages |-> IF q = p THEN frame
                                 ELSE IF Dir(q) = Dir(p) THEN NotPresent ELSE entry[q]]
    /\ UNCHANGED panicked

\* map_page has to make the table first; without a frame for it the handler
\* clears "the table" at address 0, which is not mapped, and faults again.
MapWithNewTable(p, frame, u) ==
    LET d == Dir(p)
        table == AllocPtr(u)
    IN
    IF table = NULL
    THEN /\ panicked' = "Unhandled Page Fault"
         /\ used' = AllocUsed(u)
         /\ UNCHANGED <<page_directory, page_tables, entry>>
    ELSE /\ used' = AllocUsed(u)
         /\ page_directory' = [page_directory EXCEPT ![d] = table]
         /\ page_tables' = [page_tables EXCEPT ![d] = table]
         /\ entry' = [q \in Pages |-> IF q = p THEN frame
                                      ELSE IF Dir(q) = d THEN NotPresent ELSE entry[q]]
         /\ UNCHANGED panicked

HeapFault(p) ==
    LET frame == AllocPtr(used)
        u == AllocUsed(used)
    IN
    /\ Fault(p)
    /\ p \in HeapPages
    /\ IF frame = NULL
       THEN /\ panicked' = "Out of physical memory during demand paging"
            /\ used' = u
            /\ UNCHANGED <<page_directory, page_tables, entry>>
       ELSE IF page_tables[Dir(p)] = NULL
       THEN MapWithNewTable(p, frame, u)
       ELSE /\ used' = u
            /\ entry' = [entry EXCEPT ![p] = frame]
            /\ UNCHANGED <<page_directory, page_tables, panicked>>
    /\ UNCHANGED <<mmap, phase, total_frames>>

StrayFault(p) ==
    /\ Fault(p)
    /\ p \notin HeapPages
    /\ panicked' = "Unhandled Page Fault"
    /\ UNCHANGED <<mmap, phase, total_frames, used, page_directory, page_tables, entry>>

\* debug_panic disables interrupts and halts for ever.
Halted == panicked # "no" /\ UNCHANGED vars
\* Once everything it touches is mapped, the kernel faults no more.
Run == phase = "paging" /\ panicked = "no" /\ UNCHANGED vars

Init ==
    /\ mmap \in MemoryMaps
    /\ phase = "reset"
    /\ total_frames = 0
    /\ used = {}
    /\ page_directory = [d \in 0 .. (DIRS - 1) |-> NotPresent]
    /\ page_tables = [d \in 0 .. (DIRS - 1) |-> NULL]
    /\ entry = [p \in Pages |-> NotPresent]
    /\ panicked = "no"

Next ==
    \/ pmm_init
    \/ pmm_init_fails
    \/ paging_init
    \/ \E p \in Pages : HeapFault(p) \/ StrayFault(p)
    \/ Halted
    \/ Run

Spec == Init /\ [][Next]_vars

-----------------------------------------------------------------------------
(* Properties                                                               *)

\* Types of the statics of pmm.c and paging.c; a table pointer is a frame or
\* NULL, never the marker of an absent entry.
TypeOK ==
    /\ mmap \in MemoryMaps
    /\ phase \in {"reset", "frames", "paging"}
    /\ total_frames \in Nat
    /\ used \subseteq Nat
    /\ page_directory \in [0 .. (DIRS - 1) -> Nat \cup {NotPresent}]
    /\ page_tables \in [0 .. (DIRS - 1) -> Nat]
    /\ entry \in [Pages -> Nat \cup {NotPresent}]
    /\ panicked \in {"no", "PMM failed: Missing memory map", "Unhandled Page Fault",
                     "Out of physical memory during demand paging"}

BackedPages == {p \in HeapPages : entry[p] # NotPresent}
TableDirs == {d \in 0 .. (DIRS - 1) : page_directory[d] # NotPresent}

\* pmm_alloc_frame and map_page never give a frame two purposes: two heap pages never share one, and a frame
\* that backs a page is not a page table.
FramesExclusive ==
    /\ \A p, q \in BackedPages : entry[p] = entry[q] => p = q
    /\ \A p \in BackedPages : \A d \in TableDirs : entry[p] # page_directory[d]
    /\ \A c, d \in TableDirs : page_directory[c] = page_directory[d] => c = d

\* What pmm_init reserves stays reserved: neither a page nor a table lies on
\* the kernel or on the bitmap.
KernelSpared ==
    phase = "paging" =>
        /\ \A p \in BackedPages : entry[p] \notin KernelFrames(total_frames)
        /\ \A d \in TableDirs : page_directory[d] \notin KernelFrames(total_frames)

\* Every frame that paging_init and the page-fault handler use is marked in
\* the bitmap.
FramesMarked ==
    /\ \A p \in BackedPages : entry[p] \in used
    /\ \A d \in TableDirs : page_directory[d] \in used

\* map_page keeps two records of a table, page_directory for the processor and
\* page_tables for itself.  They agree above the first 4 MB, and a page is
\* present only if its directory entry is.
TablesAgree ==
    /\ \A d \in 1 .. (DIRS - 1) :
        IF page_directory[d] = NotPresent THEN page_tables[d] = NULL
        ELSE page_tables[d] = page_directory[d] /\ page_tables[d] # NULL
    /\ \A p \in Pages : entry[p] # NotPresent => Dir(p) \in TableDirs

\* The heap never gets frame 0, whose pointer is NULL; and so the handler
\* reports that memory ran out only when no bitmap entry it scans has a
\* clear bit.
NullIsExhaustion ==
    /\ \A p \in BackedPages : entry[p] # NULL
    /\ panicked = "Out of physical memory during demand paging" => FreeIn(used) = {}

\* The invariant: before paging_init nothing is mapped; after it the first
\* table exists and frame 0 is taken.
FInv ==
    /\ TypeOK
    /\ phase # "paging" => /\ TableDirs = {} /\ \A p \in Pages : entry[p] = NotPresent
                           /\ panicked # "Out of physical memory during demand paging"
    /\ phase = "frames" => total_frames >= BITS
    /\ phase = "paging" => 0 \in TableDirs /\ NULL \in used
    /\ phase # "reset" => KernelFrames(total_frames) \subseteq used
    /\ FramesExclusive
    /\ KernelSpared
    /\ FramesMarked
    /\ TablesAgree
    /\ NullIsExhaustion

\* The machine stops for lack of memory only when pmm_get_free_frames counts
\* no frame but those of a partial last bitmap entry, which first_free_frame
\* never scans.
PanicMeansFull ==
    panicked = "Out of physical memory during demand paging" =>
        pmm_get_free_frames <= total_frames % BITS

\* A heap page that the page-fault handler has backed keeps its frame, also
\* when map_page makes further tables: its contents survive.
PagesKept ==
    [][\A p \in BackedPages : entry'[p] = entry[p]]_vars

InUsable(f) ==
    \E r \in mmap : /\ r.type = 1
                    /\ r.addr <= f * FRAME_SIZE
                    /\ (f + 1) * FRAME_SIZE <= r.addr + r.len
\* Every frame pmm_alloc_frame hands to the heap is usable RAM to its last byte.
FramesUsable == \A p \in BackedPages : InUsable(entry[p])

\* What FramesUsable asks of the boot loader: pmm_init rounds the start of a
\* region down, so that a usable region has to begin with a frame.  It may end
\* anywhere and overlap others.
StartsAligned == \A m \in MemoryMaps : \A r \in m : r.type = 1 => r.addr % FRAME_SIZE = 0

\* The inductive form of FramesUsable: the frames that pmm_alloc_frame can still
\* return are among those that pmm_init freed, and so are those it has returned.
UsableInv ==
    /\ phase # "reset" => (0 .. (total_frames - 1)) \ used \subseteq UsableFrames(mmap)
    /\ \A p \in BackedPages : entry[p] \in UsableFrames(mmap)
=============================================================================
