---------------------------- MODULE FramesProofs ----------------------------
(***************************************************************************)
(* No physical frame is used twice, for every memory map, frame size and   *)
(* page-table size.                                                        *)
(***************************************************************************)
EXTENDS Frames, TLAPS, WellFoundedInduction, FiniteSetTheorems

-----------------------------------------------------------------------------
(* The frame allocator                                                      *)

\* A nonempty set of natural numbers has a least member.
LEMMA LeastOf ==
    ASSUME NEW S, S \subseteq Nat, S # {}
    PROVE  \E f \in S : \A g \in S : f <= g
<1>1. IsWellFoundedOn(OpToRel(<, Nat), Nat)
  BY NatLessThanWellFounded
<1>2. PICK f \in S : \A g \in S : ~ (<<g, f>> \in OpToRel(<, Nat))
  BY <1>1, WFMin
<1>3. ASSUME NEW g \in S PROVE f <= g
  <2>1. f \in Nat /\ g \in Nat
    OBVIOUS
  <2>2. <<g, f>> \in Nat \X Nat /\ <<g, f>>[1] = g /\ <<g, f>>[2] = f
    BY <2>1
  <2>3. ~ (<<g, f>>[1] < <<g, f>>[2])
    BY <1>2, <2>2, Zenon DEF OpToRel
  <2>4. QED
    BY <2>1, <2>3
<1>4. QED
  BY <1>2, <1>3

\* pmm_alloc_frame returns NULL with nothing changed, or a frame that was
\* free and is now marked.
LEMMA AllocFresh ==
    ASSUME NEW u
    PROVE  \/ FreeIn(u) = {} /\ AllocPtr(u) = NULL /\ AllocUsed(u) = u
           \/ /\ FreeIn(u) # {}
              /\ AllocPtr(u) \in Nat /\ AllocPtr(u) \in FreeIn(u) /\ AllocPtr(u) \notin u
              /\ AllocUsed(u) = u \cup {AllocPtr(u)}
              /\ \A g \in FreeIn(u) : AllocPtr(u) <= g
<1>1. CASE FreeIn(u) = {}
  BY <1>1 DEF AllocPtr, AllocUsed
<1>2. CASE FreeIn(u) # {}
  <2>1. FreeIn(u) \subseteq Nat
    BY DEF FreeIn, ScannedFrames
  <2>2. first_free_frame(u) \in FreeIn(u) /\ \A g \in FreeIn(u) : first_free_frame(u) <= g
    BY <1>2, <2>1, LeastOf DEF first_free_frame
  <2>3. first_free_frame(u) \in Nat /\ first_free_frame(u) \notin u
    BY <2>1, <2>2 DEF FreeIn
  <2>4. QED
    BY <1>2, <2>2, <2>3 DEF AllocPtr, AllocUsed
<1>3. QED
  BY <1>1, <1>2

\* A heap page has a directory entry of its own, above the first one.
LEMMA HeapDir ==
    ASSUME NEW p \in HeapPages
    PROVE  p \in Pages /\ Dir(p) \in 1 .. (DIRS - 1)
<1>1. /\ p \in Nat /\ PAGE_ENTRIES \in Nat \ {0} /\ DIRS \in Nat
      /\ PAGE_ENTRIES <= p /\ p < DIRS * PAGE_ENTRIES /\ p \in Pages
  BY FramesConstants DEF HeapPages, Pages
<1> DEFINE k == p \div PAGE_ENTRIES
<1>2. k \in Int /\ PAGE_ENTRIES * k <= p /\ p < PAGE_ENTRIES * (k + 1)
  BY <1>1
<1> HIDE DEF k
<1>3. k >= 1
  <2> SUFFICES ASSUME k <= 0 PROVE FALSE
    BY <1>2
  <2>1. PAGE_ENTRIES * (k + 1) <= PAGE_ENTRIES
    BY <1>1, <1>2
  <2>2. QED
    BY <2>1, <1>1, <1>2
<1>4. k < DIRS
  <2> SUFFICES ASSUME k >= DIRS PROVE FALSE
    BY <1>1, <1>2
  <2>1. DIRS * PAGE_ENTRIES <= PAGE_ENTRIES * k
    BY <1>1, <1>2
  <2>2. QED
    BY <2>1, <1>1, <1>2
<1>5. QED
  BY <1>1, <1>2, <1>3, <1>4 DEF Dir, k

-----------------------------------------------------------------------------
(* What a page fault in the heap does to the state                          *)

\* The handler stops the machine: nothing it could have mapped is mapped.
Stops(p) ==
    /\ UNCHANGED <<page_directory, page_tables, entry>>
    /\ used \subseteq used' /\ used' \subseteq Nat
    /\ \/ panicked' = "Unhandled Page Fault"
       \/ /\ panicked' = "Out of physical memory during demand paging"
          /\ used' = used /\ FreeIn(used) = {}

\* The page gets a frame that was free; its table exists.
Backs(p) ==
    \E f \in Nat \ {NULL} :
        /\ f \notin used /\ f \in FreeIn(used)
        /\ used' = used \cup {f}
        /\ entry' = [entry EXCEPT ![p] = f]
        /\ Dir(p) \in TableDirs
        /\ UNCHANGED <<page_directory, page_tables, panicked>>

\* The page and its table get two different frames that were free.
BacksWithTable(p) ==
    \E f, t \in Nat \ {NULL} :
        /\ f \notin used /\ f \in FreeIn(used) /\ t \notin used /\ f # t
        /\ used' = used \cup {f, t}
        /\ entry' = [entry EXCEPT ![p] = f]
        /\ page_directory[Dir(p)] = NotPresent
        /\ page_directory' = [page_directory EXCEPT ![Dir(p)] = t]
        /\ page_tables' = [page_tables EXCEPT ![Dir(p)] = t]
        /\ UNCHANGED panicked

\* A fault on a heap page has one of the three outcomes; in particular, the
\* clearing of a new table loses no page that was backed.
LEMMA HeapFaultOutcomes ==
    ASSUME FInv, NEW p \in Pages, HeapFault(p)
    PROVE  /\ p \in HeapPages /\ phase = "paging" /\ panicked = "no"
           /\ entry[p] = NotPresent
           /\ UNCHANGED <<mmap, phase, total_frames>>
           /\ Stops(p) \/ Backs(p) \/ BacksWithTable(p)
<1> DEFINE frame == AllocPtr(used)
           u == AllocUsed(used)
           d == Dir(p)
<1>1. /\ p \in HeapPages /\ phase = "paging" /\ panicked = "no"
      /\ entry[p] = NotPresent
      /\ UNCHANGED <<mmap, phase, total_frames>>
  BY DEF HeapFault, Fault
<1>2. /\ used \subseteq Nat /\ NULL \in used
      /\ page_directory \in [0 .. (DIRS - 1) -> Nat \cup {NotPresent}]
      /\ page_tables \in [0 .. (DIRS - 1) -> Nat]
      /\ entry \in [Pages -> Nat \cup {NotPresent}]
  BY <1>1 DEF FInv, TypeOK
<1>3. d \in 1 .. (DIRS - 1) /\ d \in 0 .. (DIRS - 1)
  BY <1>1, HeapDir, FramesConstants
<1>4. CASE frame = NULL
  <2>1. FreeIn(used) = {} /\ u = used
    BY <1>2, <1>4, AllocFresh
  <2>2. /\ panicked' = "Out of physical memory during demand paging" /\ used' = u
        /\ UNCHANGED <<page_directory, page_tables, entry>>
    BY <1>4 DEF HeapFault
  <2>3. QED
    BY <1>1, <1>2, <2>1, <2>2 DEF Stops
<1>5. CASE frame # NULL
  <2>1. frame \in Nat /\ frame \notin used /\ frame \in FreeIn(used) /\ u = used \cup {frame}
    BY <1>5, AllocFresh
  <2>2. CASE page_tables[d] # NULL
    <3>1. /\ used' = u /\ entry' = [entry EXCEPT ![p] = frame]
          /\ UNCHANGED <<page_directory, page_tables, panicked>>
      BY <1>5, <2>2 DEF HeapFault
    <3>2. d \in TableDirs
      BY <1>3, <2>2 DEF FInv, TablesAgree, TableDirs
    <3>3. Backs(p)
      BY <1>5, <2>1, <3>1, <3>2 DEF Backs
    <3>4. QED
      BY <1>1, <3>3
  <2>3. CASE page_tables[d] = NULL
    <3> DEFINE table == AllocPtr(u)
    <3>1. MapWithNewTable(p, frame, u)
      BY <1>5, <2>3 DEF HeapFault
    <3>2. CASE table = NULL
      <4>1. AllocUsed(u) = u
        BY <1>2, <2>1, <3>2, AllocFresh
      <4>2. /\ panicked' = "Unhandled Page Fault" /\ used' = u
            /\ UNCHANGED <<page_directory, page_tables, entry>>
        BY <3>1, <3>2, <4>1 DEF MapWithNewTable
      <4>3. QED
        BY <1>1, <1>2, <2>1, <4>2 DEF Stops
    <3>3. CASE table # NULL
      <4>1. table \in Nat /\ table \notin u /\ AllocUsed(u) = u \cup {table}
        BY <3>3, AllocFresh
      <4>2. /\ used' = u \cup {table}
            /\ page_directory' = [page_directory EXCEPT ![d] = table]
            /\ page_tables' = [page_tables EXCEPT ![d] = table]
            /\ entry' = [q \in Pages |-> IF q = p THEN frame
                                ELSE IF Dir(q) = d THEN NotPresent ELSE entry[q]]
            /\ UNCHANGED panicked
        BY <3>1, <3>3, <4>1 DEF MapWithNewTable
      <4>3. page_directory[d] = NotPresent
        BY <1>3, <2>3 DEF FInv, TablesAgree
      <4>4. \A q \in Pages : Dir(q) = d => entry[q] = NotPresent
        BY <4>3 DEF FInv, TablesAgree, TableDirs
      <4>5. entry' = [entry EXCEPT ![p] = frame]
        BY <1>2, <4>2, <4>4
      <4>6. /\ frame \in Nat \ {NULL} /\ table \in Nat \ {NULL}
            /\ frame \notin used /\ frame \in FreeIn(used) /\ table \notin used /\ frame # table
            /\ used' = used \cup {frame, table}
        BY <1>5, <2>1, <3>3, <4>1, <4>2
      <4>7. BacksWithTable(p)
        BY <4>2, <4>3, <4>5, <4>6 DEF BacksWithTable
      <4>8. QED
        BY <1>1, <4>7
    <3>4. QED
      BY <3>2, <3>3
  <2>4. QED
    BY <2>2, <2>3
<1>6. QED
  BY <1>4, <1>5

-----------------------------------------------------------------------------
(* The invariant is inductive                                               *)

LEMMA InitFInv == Init => FInv
<1> SUFFICES ASSUME Init PROVE FInv
  OBVIOUS
<1>1. TypeOK
  BY FramesConstants DEF Init, TypeOK, Pages, NULL, NotPresent
<1>2. TableDirs = {} /\ \A p \in Pages : entry[p] = NotPresent
  BY DEF Init, TableDirs
<1>3. BackedPages = {}
  BY <1>2 DEF BackedPages, HeapPages
<1>4. TablesAgree
  BY <1>2, FramesConstants DEF TablesAgree, Init, TableDirs
<1>5. QED
  BY <1>1, <1>2, <1>3, <1>4 DEF Init, FInv, FramesExclusive, KernelSpared, FramesMarked,
     NullIsExhaustion

\* Frames of the kernel are numbers, and frame 0 is not one of them.
LEMMA KernelFramesNat ==
    ASSUME NEW total
    PROVE  KernelFrames(total) \subseteq Nat \ {NULL}
<1>1. /\ FRAME_SIZE \in Nat \ {0} /\ KernelStart \in Nat /\ KernelEnd \in Nat
      /\ FRAME_SIZE <= KernelStart /\ FRAME_SIZE <= KernelEnd
  BY FramesConstants
<1>2. ASSUME NEW x \in Nat, FRAME_SIZE <= x PROVE x \div FRAME_SIZE \in Int /\ x \div FRAME_SIZE >= 1
  <2> DEFINE k == x \div FRAME_SIZE
  <2>1. k \in Int /\ x < FRAME_SIZE * (k + 1)
    BY <1>1
  <2> HIDE DEF k
  <2>2. k >= 1
    <3> SUFFICES ASSUME k <= 0 PROVE FALSE
      BY <2>1
    <3>1. FRAME_SIZE * (k + 1) <= FRAME_SIZE
      BY <1>1, <2>1
    <3>2. QED
      BY <3>1, <1>1, <1>2, <2>1
  <2>3. QED
    BY <2>1, <2>2 DEF k
<1>3. QED
  BY <1>1, <1>2 DEF KernelFrames, NULL

LEMMA PmmInitStep == FInv /\ pmm_init => FInv'
<1> SUFFICES ASSUME FInv, pmm_init PROVE FInv'
  OBVIOUS
<1> DEFINE total == TotalFrames(mmap)
<1>1. /\ phase = "reset" /\ phase' = "frames" /\ total_frames' = total
      /\ used' = ((0 .. (total - 1)) \ UsableFrames(mmap)) \cup KernelFrames(total)
      /\ UNCHANGED <<mmap, page_directory, page_tables, entry, panicked>>
  BY DEF pmm_init
<1>2. total \in Nat /\ total >= BITS
  BY MapsLargeEnough DEF FInv, TypeOK
<1>3. used' \subseteq Nat
  BY <1>1, <1>2, KernelFramesNat
<1>4. TypeOK'
  BY <1>1, <1>2, <1>3 DEF FInv, TypeOK
<1>5. TableDirs = {} /\ \A p \in Pages : entry[p] = NotPresent
  BY <1>1 DEF FInv
<1>6. /\ TableDirs' = {} /\ (\A p \in Pages : entry[p] = NotPresent)'
      /\ panicked' # "Out of physical memory during demand paging"
  BY <1>1, <1>5 DEF TableDirs, FInv
<1>7. FramesExclusive' /\ KernelSpared' /\ FramesMarked' /\ NullIsExhaustion'
  <2>1. BackedPages' = {}
    BY <1>6 DEF BackedPages, HeapPages
  <2>2. QED
    BY <2>1, <1>6 DEF FramesExclusive, KernelSpared, FramesMarked, NullIsExhaustion
<1>8. TablesAgree'
  BY <1>1, <1>6 DEF FInv, TablesAgree, TableDirs
<1>9. KernelFrames(total_frames)' \subseteq used'
  BY <1>1 DEF KernelFrames, BitmapEnd
<1>10. QED
  BY <1>1, <1>2, <1>4, <1>6, <1>7, <1>8, <1>9 DEF FInv

\* Steps that only stop the machine, for another reason than memory.
LEMMA PanicStep ==
    ASSUME FInv,
           panicked' \in {"PMM failed: Missing memory map", "Unhandled Page Fault"},
           UNCHANGED <<mmap, phase, total_frames, used, page_directory, page_tables, entry>>
    PROVE  FInv'
<1>1. TypeOK'
  BY DEF FInv, TypeOK
<1>2. BackedPages' = BackedPages /\ TableDirs' = TableDirs
      /\ KernelFrames(total_frames)' = KernelFrames(total_frames)
  BY DEF BackedPages, TableDirs, KernelFrames, BitmapEnd
<1>3. TablesAgree' /\ FramesExclusive' /\ KernelSpared' /\ FramesMarked' /\ NullIsExhaustion'
  BY <1>2 DEF FInv, TablesAgree, FramesExclusive, KernelSpared, FramesMarked, NullIsExhaustion
<1>4. QED
  BY <1>1, <1>2, <1>3 DEF FInv

LEMMA StutterStep == FInv /\ UNCHANGED vars => FInv'
<1> SUFFICES ASSUME FInv, UNCHANGED vars PROVE FInv'
  OBVIOUS
<1> USE DEF vars
<1>1. TypeOK'
  BY DEF FInv, TypeOK
<1>2. BackedPages' = BackedPages /\ TableDirs' = TableDirs /\ FreeIn(used)' = FreeIn(used)
      /\ KernelFrames(total_frames)' = KernelFrames(total_frames)
  BY DEF BackedPages, TableDirs, KernelFrames, BitmapEnd, FreeIn, ScannedFrames
<1>3. TablesAgree' /\ FramesExclusive' /\ KernelSpared' /\ FramesMarked' /\ NullIsExhaustion'
  BY <1>2 DEF FInv, TablesAgree, FramesExclusive, KernelSpared, FramesMarked, NullIsExhaustion
<1>4. QED
  BY <1>1, <1>2, <1>3 DEF FInv

\* The first table takes the lowest free frame; frame 0 is in the bitmap's
\* first entry, so afterwards frame 0 is taken.
LEMMA PagingInitStep == FInv /\ paging_init => FInv'
<1> SUFFICES ASSUME FInv, paging_init PROVE FInv'
  OBVIOUS
<1> DEFINE t == AllocPtr(used)
<1> USE DEF NotPresent
<1>1. /\ phase = "frames" /\ phase' = "paging" /\ used' = AllocUsed(used)
      /\ panicked = "no" /\ UNCHANGED <<mmap, total_frames, panicked>>
      /\ page_directory' = [d \in 0 .. (DIRS - 1) |-> IF d = 0 THEN t ELSE NotPresent]
      /\ page_tables' = [d \in 0 .. (DIRS - 1) |-> IF d = 0 THEN t ELSE NULL]
      /\ entry' = [p \in Pages |-> IF 1 <= p /\ p < PAGE_ENTRIES THEN p ELSE NotPresent]
  BY DEF paging_init
<1>2. /\ DIRS \in Nat \ {0} /\ PAGE_ENTRIES \in Nat \ {0} /\ BITS \in Nat \ {0}
      /\ PAGE_ENTRIES <= HeapFirst /\ HeapFirst \in Nat
      /\ used \subseteq Nat /\ total_frames \in Nat /\ total_frames >= BITS
      /\ KernelFrames(total_frames) \subseteq used
  BY <1>1, FramesConstants DEF FInv, TypeOK
<1>3. 0 \in ScannedFrames
  <2>1. total_frames \div BITS \in Nat /\ total_frames \div BITS >= 1
    BY <1>2
  <2>2. (total_frames \div BITS) * BITS >= 1
    BY <1>2, <2>1
  <2>3. QED
    BY <1>2, <2>1, <2>2 DEF ScannedFrames
<1>4. t \in Nat /\ used' \subseteq Nat /\ used \subseteq used' /\ NULL \in used' /\ t \in used'
  <2>1. CASE FreeIn(used) = {}
    <3>1. t = NULL /\ used' = used
      BY <1>1, <2>1, AllocFresh
    <3>2. 0 \in used
      BY <1>3, <2>1 DEF FreeIn
    <3>3. QED
      BY <1>2, <3>1, <3>2 DEF NULL
  <2>2. CASE FreeIn(used) # {}
    <3>1. /\ t \in Nat /\ used' = used \cup {t}
          /\ \A g \in FreeIn(used) : t <= g
      BY <1>1, <2>2, AllocFresh
    <3>2. 0 \in used \/ t = 0
      BY <1>3, <3>1 DEF FreeIn
    <3>3. QED
      BY <1>2, <3>1, <3>2 DEF NULL
  <2>3. QED
    BY <2>1, <2>2
<1>5. t \notin KernelFrames(total_frames)
  <2>1. CASE FreeIn(used) = {}
    BY <2>1, AllocFresh, KernelFramesNat
  <2>2. CASE FreeIn(used) # {}
    BY <1>2, <2>2, AllocFresh
  <2>3. QED
    BY <2>1, <2>2
<1>6. TableDirs' = {0} /\ page_directory'[0] = t
  BY <1>1, <1>2, <1>4 DEF TableDirs
<1>7. BackedPages' = {}
  BY <1>1, <1>2 DEF BackedPages, HeapPages, Pages
<1>8. KernelFrames(total_frames)' = KernelFrames(total_frames)
  BY <1>1 DEF KernelFrames, BitmapEnd
<1>9. TypeOK'
  BY <1>1, <1>2, <1>4 DEF FInv, TypeOK, Pages, NULL
<1>10. TablesAgree'
  <2>1. \A d \in 1 .. (DIRS - 1) : page_directory'[d] = NotPresent /\ page_tables'[d] = NULL
    BY <1>1, <1>2
  <2>2. ASSUME NEW p \in Pages, entry'[p] # NotPresent PROVE Dir(p) = 0
    <3>1. p \in Nat /\ p < PAGE_ENTRIES
      BY <1>1, <2>2 DEF Pages
    <3>2. QED
      BY <1>2, <3>1 DEF Dir
  <2>3. QED
    BY <1>6, <2>1, <2>2 DEF TablesAgree
<1>11. FramesExclusive' /\ KernelSpared' /\ FramesMarked' /\ NullIsExhaustion'
  BY <1>1, <1>4, <1>5, <1>6, <1>7, <1>8
  DEF FramesExclusive, KernelSpared, FramesMarked, NullIsExhaustion
<1>12. QED
  BY <1>1, <1>2, <1>4, <1>6, <1>8, <1>9, <1>10, <1>11 DEF FInv

LEMMA HeapFaultStep ==
    ASSUME FInv, NEW p \in Pages, HeapFault(p)
    PROVE  FInv'
<1> USE DEF NotPresent, NULL
<1>1. /\ p \in HeapPages /\ phase = "paging" /\ panicked = "no"
      /\ entry[p] = NotPresent
      /\ UNCHANGED <<mmap, phase, total_frames>>
      /\ Stops(p) \/ Backs(p) \/ BacksWithTable(p)
  BY HeapFaultOutcomes
<1>2. /\ used \subseteq Nat /\ NULL \in used /\ 0 \in TableDirs
      /\ KernelFrames(total_frames) \subseteq used
      /\ page_directory \in [0 .. (DIRS - 1) -> Nat \cup {NotPresent}]
      /\ page_tables \in [0 .. (DIRS - 1) -> Nat]
      /\ entry \in [Pages -> Nat \cup {NotPresent}]
  BY <1>1 DEF FInv, TypeOK
<1>3. KernelFrames(total_frames)' = KernelFrames(total_frames)
  BY <1>1 DEF KernelFrames, BitmapEnd
<1>4. Dir(p) \in 1 .. (DIRS - 1) /\ Dir(p) \in 0 .. (DIRS - 1)
  BY <1>1, HeapDir, FramesConstants
<1> FramesExclusive /\ FramesMarked /\ TablesAgree
  BY DEF FInv
<1>5. CASE Stops(p)
  <2>1. BackedPages' = BackedPages /\ TableDirs' = TableDirs
    BY <1>5 DEF Stops, BackedPages, TableDirs
  <2>2. used \subseteq used' /\ used' \subseteq Nat
    BY <1>5 DEF Stops
  <2>3. TypeOK'
    BY <1>1, <1>5 DEF Stops, FInv, TypeOK
  <2>4. FramesExclusive' /\ KernelSpared' /\ FramesMarked' /\ TablesAgree'
    BY <1>1, <1>3, <1>5, <2>1, <2>2
    DEF Stops, FInv, FramesExclusive, KernelSpared, FramesMarked, TablesAgree
  <2>5. NullIsExhaustion'
    BY <1>1, <1>5, <2>1 DEF Stops, FInv, NullIsExhaustion, FreeIn, ScannedFrames
  <2>6. QED
    BY <1>1, <1>2, <1>3, <2>1, <2>2, <2>3, <2>4, <2>5 DEF FInv
<1>6. CASE Backs(p)
  <2>1. PICK f \in Nat \ {NULL} :
        /\ f \notin used
        /\ used' = used \cup {f}
        /\ entry' = [entry EXCEPT ![p] = f]
        /\ Dir(p) \in TableDirs
        /\ UNCHANGED <<page_directory, page_tables, panicked>>
    BY <1>6 DEF Backs
  <2>2. BackedPages' = BackedPages \cup {p} /\ TableDirs' = TableDirs
    BY <1>1, <1>2, <2>1 DEF BackedPages, TableDirs, HeapPages
  <2>3. /\ p \notin BackedPages /\ entry'[p] = f
        /\ \A q \in BackedPages : q \in Pages /\ entry'[q] = entry[q]
    BY <1>1, <1>2, <2>1 DEF BackedPages, HeapPages
  <2>4. \A q \in BackedPages : entry[q] # f
    BY <2>1 DEF FramesMarked
  <2>5. \A d \in TableDirs : page_directory[d] # f
    BY <2>1 DEF FramesMarked
  <2>6. TypeOK'
    BY <1>1, <1>2, <2>1 DEF FInv, TypeOK
  <2>7. FramesExclusive'
    <3>1. ASSUME NEW q \in BackedPages', NEW r \in BackedPages', entry'[q] = entry'[r]
          PROVE  q = r
      BY <2>2, <2>3, <2>4, <3>1 DEF FramesExclusive
    <3>2. ASSUME NEW q \in BackedPages', NEW d \in TableDirs'
          PROVE  entry'[q] # page_directory'[d]
      BY <2>1, <2>2, <2>3, <2>5 DEF FramesExclusive
    <3>3. ASSUME NEW c \in TableDirs', NEW d \in TableDirs',
                 page_directory'[c] = page_directory'[d]
          PROVE  c = d
      BY <2>1, <2>2, <3>3 DEF FramesExclusive
    <3>4. QED
      BY <3>1, <3>2, <3>3 DEF FramesExclusive
  <2>8. KernelSpared'
    BY <1>1, <1>2, <1>3, <2>1, <2>2, <2>3 DEF FInv, KernelSpared
  <2>9. FramesMarked'
    BY <2>1, <2>2, <2>3 DEF FramesMarked
  <2>10. TablesAgree'
    BY <1>2, <2>1, <2>2 DEF TablesAgree
  <2>11. NullIsExhaustion'
    BY <1>1, <2>1, <2>2, <2>3 DEF FInv, NullIsExhaustion
  <2>12. QED
    BY <1>1, <1>2, <1>3, <2>1, <2>2, <2>6, <2>7, <2>8, <2>9, <2>10, <2>11 DEF FInv
<1>7. CASE BacksWithTable(p)
  <2>1. PICK f \in Nat \ {NULL}, t \in Nat \ {NULL} :
        /\ f \notin used /\ t \notin used /\ f # t
        /\ used' = used \cup {f, t}
        /\ entry' = [entry EXCEPT ![p] = f]
        /\ page_directory[Dir(p)] = NotPresent
        /\ page_directory' = [page_directory EXCEPT ![Dir(p)] = t]
        /\ page_tables' = [page_tables EXCEPT ![Dir(p)] = t]
        /\ UNCHANGED panicked
    BY <1>7 DEF BacksWithTable
  <2>2. BackedPages' = BackedPages \cup {p} /\ TableDirs' = TableDirs \cup {Dir(p)}
    BY <1>1, <1>2, <1>4, <2>1 DEF BackedPages, TableDirs, HeapPages
  <2>3. /\ p \notin BackedPages /\ entry'[p] = f
        /\ \A q \in BackedPages : q \in Pages /\ entry'[q] = entry[q]
    BY <1>1, <1>2, <2>1 DEF BackedPages, HeapPages
  <2>4. /\ Dir(p) \notin TableDirs /\ page_directory'[Dir(p)] = t
        /\ \A d \in TableDirs : page_directory'[d] = page_directory[d]
    BY <1>2, <1>4, <2>1 DEF TableDirs
  <2>5. \A q \in BackedPages : entry[q] # f /\ entry[q] # t
    BY <2>1 DEF FramesMarked
  <2>6. \A d \in TableDirs : page_directory[d] # f /\ page_directory[d] # t
    BY <2>1 DEF FramesMarked
  <2>7. TypeOK'
    BY <1>1, <1>2, <1>4, <2>1 DEF FInv, TypeOK
  <2>8. FramesExclusive'
    <3>1. ASSUME NEW q \in BackedPages', NEW r \in BackedPages', entry'[q] = entry'[r]
          PROVE  q = r
      BY <2>2, <2>3, <2>5, <3>1 DEF FramesExclusive
    <3>2. ASSUME NEW q \in BackedPages', NEW d \in TableDirs'
          PROVE  entry'[q] # page_directory'[d]
      BY <2>1, <2>2, <2>3, <2>4, <2>5, <2>6 DEF FramesExclusive
    <3>3. ASSUME NEW c \in TableDirs', NEW d \in TableDirs',
                 page_directory'[c] = page_directory'[d]
          PROVE  c = d
      BY <2>2, <2>4, <2>6, <3>3 DEF FramesExclusive
    <3>4. QED
      BY <3>1, <3>2, <3>3 DEF FramesExclusive
  <2>9. KernelSpared'
    BY <1>1, <1>2, <1>3, <2>1, <2>2, <2>3, <2>4 DEF FInv, KernelSpared
  <2>10. FramesMarked'
    BY <2>1, <2>2, <2>3, <2>4 DEF FramesMarked
  <2>11. TablesAgree'
    BY <1>2, <1>4, <2>1, <2>2, <2>4 DEF TablesAgree, TableDirs
  <2>12. NullIsExhaustion'
    BY <1>1, <2>1, <2>2, <2>3 DEF FInv, NullIsExhaustion
  <2>13. QED
    BY <1>1, <1>2, <1>3, <2>1, <2>2, <2>7, <2>8, <2>9, <2>10, <2>11, <2>12 DEF FInv
<1>8. QED
  BY <1>1, <1>5, <1>6, <1>7

LEMMA StepFInv == FInv /\ [Next]_vars => FInv'
<1> SUFFICES ASSUME FInv, [Next]_vars PROVE FInv'
  OBVIOUS
<1>1. CASE pmm_init
  BY <1>1, PmmInitStep
<1>2. CASE pmm_init_fails
  BY <1>2, PanicStep DEF pmm_init_fails
<1>3. CASE paging_init
  BY <1>3, PagingInitStep
<1>4. ASSUME NEW p \in Pages, HeapFault(p) PROVE FInv'
  BY <1>4, HeapFaultStep
<1>5. ASSUME NEW p \in Pages, StrayFault(p) PROVE FInv'
  BY <1>5, PanicStep DEF StrayFault
<1>6. CASE Halted \/ Run \/ UNCHANGED vars
  BY <1>6, StutterStep DEF Halted, Run
<1>7. QED
  BY <1>1, <1>2, <1>3, <1>4, <1>5, <1>6 DEF Next

\* pmm_init, paging_init and the page-fault handler keep the invariant.
THEOREM FramesInvariant == Spec => []FInv
<1>1. QED
  BY InitFInv, StepFInv, PTL DEF Spec

\* pmm_alloc_frame never hands a frame out twice: heap pages and page tables
\* all have frames of their own.
THEOREM FramesNeverShared == Spec => []FramesExclusive
<1>1. FInv => FramesExclusive
  BY DEF FInv
<1>2. QED
  BY <1>1, FramesInvariant, PTL

\* What pmm_init reserved is never handed out: no page and no table overlays
\* the kernel or the bitmap.
THEOREM FramesSpareKernel == Spec => []KernelSpared
<1>1. FInv => KernelSpared
  BY DEF FInv
<1>2. QED
  BY <1>1, FramesInvariant, PTL

\* The bitmap has the bit of every frame in use.
THEOREM FramesAllMarked == Spec => []FramesMarked
<1>1. FInv => FramesMarked
  BY DEF FInv
<1>2. QED
  BY <1>1, FramesInvariant, PTL

\* Comparing a frame's pointer with NULL is a test for exhaustion, because
\* paging_init has taken frame 0 before the first page fault.
THEOREM FramesNull == Spec => []NullIsExhaustion
<1>1. FInv => NullIsExhaustion
  BY DEF FInv
<1>2. QED
  BY <1>1, FramesInvariant, PTL

\* Quotient and remainder.
LEMMA Division ==
    ASSUME NEW a \in Nat, NEW b \in Nat \ {0}
    PROVE  /\ (a \div b) * b \in Nat /\ (a \div b) * b <= a
           /\ a - (a \div b) * b = a % b
<1>1. a = b * (a \div b) + (a % b)
  OBVIOUS
<1>2. a \div b \in Nat
  OBVIOUS
<1>3. a % b \in 0 .. (b - 1)
  OBVIOUS
<1>4. (a \div b) * b \in Nat
  BY <1>2
<1>5. ASSUME NEW q \in Nat, NEW r \in Nat, a = q + r PROVE q <= a /\ a - q = r
  BY <1>5
<1>6. a = (a \div b) * b + (a % b) /\ a % b \in Nat
  BY <1>1, <1>2, <1>3
<1>7. QED
  BY <1>4, <1>5, <1>6, Zenon

\* If all numbers below w are in U, t - w of the first t may be missing.
LEMMA FewAbove ==
    ASSUME NEW t \in Nat, NEW w \in Nat, w <= t, NEW U, (0 .. (w - 1)) \ U = {}
    PROVE  Cardinality((0 .. (t - 1)) \ U) <= t - w
<1>1. (0 .. (t - 1)) \ U \in SUBSET (w .. (t - 1))
  OBVIOUS
<1>2. IsFiniteSet(w .. (t - 1)) /\ Cardinality(w .. (t - 1)) = t - w
  <2>1. w \in Int /\ t - 1 \in Int
    OBVIOUS
  <2>2. /\ IsFiniteSet(w .. (t - 1))
        /\ Cardinality(w .. (t - 1)) = IF w > t - 1 THEN 0 ELSE (t - 1) - w + 1
    BY <2>1, FS_Interval
  <2>3. QED
    BY <2>2
<1>3. Cardinality((0 .. (t - 1)) \ U) <= Cardinality(w .. (t - 1))
  BY <1>1, <1>2, FS_Subset, Zenon
<1>4. QED
  BY <1>2, <1>3, Zenon

\* What first_free_frame does not scan are the frames of the last entry, if
\* that is not full.
THEOREM FramesPanicFull == Spec => []PanicMeansFull
<1>1. FInv => PanicMeansFull
  <2> SUFFICES ASSUME FInv, panicked = "Out of physical memory during demand paging"
               PROVE  pmm_get_free_frames <= total_frames % BITS
    BY DEF PanicMeansFull
  <2>1. total_frames \in Nat /\ BITS \in Nat \ {0}
    BY FramesConstants DEF FInv, TypeOK
  <2>2. (0 .. ((total_frames \div BITS) * BITS - 1)) \ used = {}
    BY DEF FInv, NullIsExhaustion, FreeIn, ScannedFrames
  <2>3. /\ (total_frames \div BITS) * BITS \in Nat
        /\ (total_frames \div BITS) * BITS <= total_frames
        /\ total_frames - (total_frames \div BITS) * BITS = total_frames % BITS
    BY <2>1, Division, Zenon
  <2>4. pmm_get_free_frames <= total_frames - (total_frames \div BITS) * BITS
    BY <2>1, <2>2, <2>3, FewAbove, Zenon DEF pmm_get_free_frames
  <2>5. QED
    BY <2>3, <2>4, Zenon
<1>2. QED
  BY <1>1, FramesInvariant, PTL

\* Once a heap page is backed, map_page never gives it another frame and no
\* new table wipes it out.
THEOREM FramesKept == Spec => PagesKept
<1>1. FInv /\ [Next]_vars => [\A p \in BackedPages : entry'[p] = entry[p]]_vars
  <2> SUFFICES ASSUME FInv, Next, NEW q \in BackedPages PROVE entry'[q] = entry[q]
    OBVIOUS
  <2>0. q \in Pages /\ entry[q] # NotPresent
    BY DEF BackedPages, HeapPages
  <2>1. CASE pmm_init
    BY <2>1 DEF pmm_init
  <2>2. CASE pmm_init_fails
    BY <2>2 DEF pmm_init_fails
  <2>3. CASE paging_init
    <3>1. entry[q] = NotPresent
      BY <2>0, <2>3 DEF FInv, paging_init
    <3>2. QED
      BY <2>0, <3>1
  <2>4. ASSUME NEW p \in Pages, HeapFault(p) PROVE entry'[q] = entry[q]
    <3>1. entry[p] = NotPresent /\ (Stops(p) \/ Backs(p) \/ BacksWithTable(p))
      BY <2>4, HeapFaultOutcomes
    <3>2. entry \in [Pages -> Nat \cup {NotPresent}]
      BY DEF FInv, TypeOK
    <3>3. QED
      BY <2>0, <3>1, <3>2 DEF Stops, Backs, BacksWithTable
  <2>5. ASSUME NEW p \in Pages, StrayFault(p) PROVE entry'[q] = entry[q]
    BY <2>5 DEF StrayFault
  <2>6. CASE Halted \/ Run
    BY <2>6 DEF Halted, Run, vars
  <2>7. QED
    BY <2>1, <2>2, <2>3, <2>4, <2>5, <2>6 DEF Next
<1>2. QED
  BY <1>1, FramesInvariant, PTL DEF Spec, PagesKept

-----------------------------------------------------------------------------
(* Frames are usable memory                                                 *)

\* A frame that pmm_init freed for a region lies in it, if the region begins
\* with a frame.
LEMMA RegionHolds ==
    ASSUME NEW r \in Region, r.addr % FRAME_SIZE = 0, NEW f \in RegionFrames(r)
    PROVE  r.addr <= f * FRAME_SIZE /\ (f + 1) * FRAME_SIZE <= r.addr + r.len
<1> DEFINE a == r.addr
           e == r.addr + r.len
           s == FRAME_SIZE
           first == a \div s
           last == e \div s
<1>1. a \in Nat /\ e \in Nat /\ s \in Nat \ {0} /\ a % s = 0
  BY FramesConstants DEF Region
<1>2. f \in first .. (last - 1)
  BY DEF RegionFrames
<1> HIDE DEF a, e, s
<1>3. first \in Nat /\ last \in Nat
  BY <1>1
<1>4. first * s \in Nat /\ a - first * s = 0
  BY <1>1, Division
<1>5. last * s \in Nat /\ last * s <= e
  BY <1>1, Division
<1> HIDE DEF first, last
<1>6. f \in Nat /\ first <= f /\ f + 1 <= last
  BY <1>2, <1>3
<1>7. \A m, n \in Nat : m <= n => m * s <= n * s
  <2>1. TAKE m, n \in Nat
  <2>2. HAVE m <= n
  <2>3. n - m \in Nat /\ (n - m) * s \in Nat /\ n * s = m * s + (n - m) * s /\ m * s \in Nat
    BY <1>1, <2>2
  <2>4. QED
    BY <2>3
<1>8. first * s <= f * s /\ (f + 1) * s <= last * s
  <2>1. f + 1 \in Nat
    BY <1>6
  <2>2. QED
    BY <1>3, <1>6, <1>7, <2>1
<1>9. f * s \in Nat /\ (f + 1) * s \in Nat
  BY <1>1, <1>6
<1>10. a <= f * s /\ (f + 1) * s <= e
  BY <1>1, <1>4, <1>5, <1>8, <1>9
<1>11. QED
  BY <1>10 DEF a, e, s

\* pmm_init frees only frames of usable regions, and the handler takes its
\* frames from the free ones.
LEMMA UsableStep == FInv /\ UsableInv /\ [Next]_vars => UsableInv'
<1> SUFFICES ASSUME FInv, UsableInv, [Next]_vars PROVE UsableInv'
  OBVIOUS
<1>1. CASE pmm_init
  <2>1. /\ total_frames' = TotalFrames(mmap) /\ mmap' = mmap /\ entry' = entry
        /\ (0 .. (TotalFrames(mmap) - 1)) \ UsableFrames(mmap) \subseteq used'
    BY <1>1 DEF pmm_init
  <2>2. UsableFrames(mmap') = UsableFrames(mmap)
    BY <2>1
  <2>3. (0 .. (total_frames' - 1)) \ used' \subseteq UsableFrames(mmap)
    BY <2>1
  <2>4. BackedPages' = BackedPages
    BY <2>1 DEF BackedPages
  <2>5. QED
    BY <2>1, <2>2, <2>3, <2>4 DEF UsableInv
<1>2. CASE paging_init
  <2>1. used \subseteq used'
    BY <1>2, AllocFresh DEF paging_init
  <2>2. /\ phase = "frames" /\ total_frames' = total_frames /\ mmap' = mmap
        /\ entry' = [p \in Pages |-> IF 1 <= p /\ p < PAGE_ENTRIES THEN p ELSE NotPresent]
    BY <1>2 DEF paging_init
  <2>3. BackedPages' = {}
    <3> SUFFICES ASSUME NEW p \in HeapPages PROVE entry'[p] = NotPresent
      BY DEF BackedPages
    <3>1. p \in Pages /\ p \in Nat /\ PAGE_ENTRIES <= p /\ PAGE_ENTRIES \in Nat
      BY FramesConstants DEF HeapPages, Pages
    <3>2. QED
      BY <2>2, <3>1
  <2>4. QED
    BY <2>1, <2>2, <2>3 DEF UsableInv
<1>3. ASSUME NEW p \in Pages, HeapFault(p) PROVE UsableInv'
  <2>1. /\ p \in HeapPages /\ phase = "paging" /\ phase' = phase
        /\ mmap' = mmap /\ total_frames' = total_frames
        /\ Stops(p) \/ Backs(p) \/ BacksWithTable(p)
    BY <1>3, HeapFaultOutcomes
  <2>2. used \subseteq used'
    BY <2>1 DEF Stops, Backs, BacksWithTable
  <2>3. total_frames \in Nat /\ entry \in [Pages -> Nat \cup {NotPresent}]
    BY DEF FInv, TypeOK
  <2>4. FreeIn(used) \subseteq UsableFrames(mmap)
    <3>1. (total_frames \div BITS) * BITS \in Nat /\ (total_frames \div BITS) * BITS <= total_frames
      BY <2>3, Division, FramesConstants
    <3>2. FreeIn(used) \subseteq (0 .. (total_frames - 1)) \ used
      BY <2>3, <3>1 DEF FreeIn, ScannedFrames
    <3>3. QED
      BY <2>1, <3>2 DEF UsableInv
  <2>5. entry' = entry \/ \E f \in FreeIn(used) : entry' = [entry EXCEPT ![p] = f]
    BY <2>1 DEF Stops, Backs, BacksWithTable
  <2>6. ASSUME NEW q \in HeapPages, entry'[q] # NotPresent PROVE entry'[q] \in UsableFrames(mmap)
    <3>1. q \in Pages
      BY DEF HeapPages
    <3>2. entry[q] # NotPresent => entry[q] \in UsableFrames(mmap)
      BY DEF UsableInv, BackedPages
    <3>3. entry'[q] = entry[q] \/ entry'[q] \in FreeIn(used)
      BY <2>3, <2>5, <3>1
    <3>4. QED
      BY <2>4, <2>6, <3>2, <3>3
  <2>7. (0 .. (total_frames - 1)) \ used' \subseteq UsableFrames(mmap)
    BY <2>1, <2>2 DEF UsableInv
  <2>8. UsableFrames(mmap') = UsableFrames(mmap)
    BY <2>1
  <2>9. QED
    BY <2>1, <2>6, <2>7, <2>8 DEF UsableInv, BackedPages
<1>4. CASE UNCHANGED <<mmap, phase, total_frames, used, entry>>
  <2>1. BackedPages' = BackedPages /\ UsableFrames(mmap') = UsableFrames(mmap)
    BY <1>4 DEF BackedPages
  <2>2. QED
    BY <1>4, <2>1 DEF UsableInv
<1>5. QED
  BY <1>1, <1>2, <1>3, <1>4 DEF Next, pmm_init_fails, StrayFault, Halted, Run, vars

\* If the boot loader's usable regions begin with a frame, every frame that
\* pmm_alloc_frame gives to the heap is usable memory to its last byte, for
\* every memory map, also when regions end within a frame, overlap, or reach
\* beyond 4 GB.
THEOREM FramesInRAM ==
    ASSUME StartsAligned
    PROVE  Spec => []FramesUsable
<1>1. Init => UsableInv
  BY DEF Init, UsableInv, BackedPages, HeapPages
<1>2. FInv /\ UsableInv => FramesUsable
  <2> SUFFICES ASSUME FInv, UsableInv, NEW p \in BackedPages PROVE InUsable(entry[p])
    BY DEF FramesUsable
  <2>1. PICK r \in {x \in mmap : x.type = 1} : entry[p] \in RegionFrames(r)
    BY DEF UsableInv, UsableFrames
  <2>2. r \in Region /\ r.addr % FRAME_SIZE = 0
    BY FramesConstants, StartsAligned DEF FInv, TypeOK, StartsAligned
  <2>3. r.addr <= entry[p] * FRAME_SIZE /\ (entry[p] + 1) * FRAME_SIZE <= r.addr + r.len
    BY <2>1, <2>2, RegionHolds
  <2>4. QED
    BY <2>1, <2>3 DEF InUsable
<1>3. QED
  BY <1>1, <1>2, UsableStep, FramesInvariant, PTL DEF Spec

=============================================================================
