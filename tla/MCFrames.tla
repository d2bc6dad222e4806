------------------------------ MODULE MCFrames ------------------------------
(***************************************************************************)
(* Frames with 18 frames of 16 bytes, 8 to a bitmap entry, page tables of  *)
(* 8 entries and a heap of 6 pages.  As on a PC, the usable memory is a    *)
(* low region from address 0 and a high one above the kernel; a reserved   *)
(* region ends at the top of the address space.  Six frames remain for     *)
(* tables and pages, so that the heap runs out of memory.                  *)
(***************************************************************************)
EXTENDS Frames

R(a, l, t) == [addr |-> a, len |-> l, type |-> t]

\* Frames 0-2, 8-12 and 16-17 are usable; the kernel is frames 4-6, the bitmap
\* 6-7.
PCMap == {R(0, 50, 1), R(50, 14, 2), R(64, 144, 1), R(208, 48, 2), R(256, 32, 1),
          R(4000, 96, 2)}
\* Two usable frames: one for the first table and one for the first page.
ScarceMap == {R(0, 32, 1), R(32, 96, 2), R(128, 48, 2)}
PCMaps == {PCMap, ScarceMap}

\* These maps meet what FramesUsable asks of the boot loader.
ASSUME MapsAligned == StartsAligned
=============================================================================
