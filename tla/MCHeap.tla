------------------------------- MODULE MCHeap -------------------------------
(***************************************************************************)
(* Heap on a small address space: the heap is 200 bytes, so that five      *)
(* blocks fit, the split threshold (32 bytes over the request) is met by   *)
(* the largest request and by merged blocks, and every early return of     *)
(* kmalloc is taken.  Word = 1024 leaves room for sizes that wrap.         *)
(***************************************************************************)
EXTENDS Heap

MCRequests == {0, 8, 13, 56, Word - 16, Word - 4}
=============================================================================
