----------------------------- MODULE FileStore -----------------------------
(***************************************************************************)
(* What the file system promises: files are byte sequences that only a     *)
(* write changes, a descriptor is a position in one file that moves by     *)
(* what was read or written through it, and descriptors do not disturb     *)
(* each other.  Bytes that were skipped over have no known value.          *)
(***************************************************************************)
EXTENDS Integers, Sequences, SequencesExt

CONSTANTS
    Handles,        \* descriptors
    Texts,          \* what clients write
    Positions,      \* where they seek to
    Sizes,          \* how much they read
    Unknown         \* a byte nobody wrote

VARIABLES
    files,          \* sequence of [dir, bytes]; directories hold no bytes
    handles,        \* descriptor -> [file, pos], file 0 when it is closed
    shown,          \* the bytes of the last read
    on              \* the machine has not stopped

vars == <<files, handles, shown, on>>

Closed == [file |-> 0, pos |-> 0]
LesserOf(m, n) == IF m < n THEN m ELSE n
GreaterOf(m, n) == IF m < n THEN n ELSE m

\* Bytes s with text laid over them from position pos on.
Overlay(s, pos, text) ==
    [i \in 1 .. GreaterOf(Len(s), pos + Len(text)) |->
        IF pos < i /\ i <= pos + Len(text) THEN text[i - pos]
        ELSE IF i <= Len(s) THEN s[i] ELSE Unknown]
\* At most n bytes of s from pos on.
Window(s, pos, n) == SubSeq(s, pos + 1, LesserOf(pos + n, Len(s)))

Create == \E d \in BOOLEAN : files' = Append(files, [dir |-> d, bytes |-> <<>>])

\* A write without a descriptor.
Put(f, pos, text) ==
    files' = [files EXCEPT ![f].bytes = IF files[f].dir THEN @ ELSE Overlay(@, pos, text)]

Open(h, f) == handles[h] = Closed /\ handles' = [handles EXCEPT ![h] = [file |-> f, pos |-> 0]]
Close(h) == handles' = [handles EXCEPT ![h] = Closed]
Seek(h, p) == handles[h] # Closed /\ handles' = [handles EXCEPT ![h].pos = p]

Write(h, text) ==
    LET f == handles[h].file IN
    /\ handles[h] # Closed
    /\ Put(f, handles[h].pos, text)
    /\ handles' = [handles EXCEPT ![h].pos = IF files[f].dir THEN @ ELSE @ + Len(text)]

Read(h, n) ==
    LET bytes == Window(files[handles[h].file].bytes, handles[h].pos, n) IN
    /\ handles[h] # Closed
    /\ shown' = bytes
    /\ handles' = [handles EXCEPT ![h].pos = @ + Len(bytes)]

Next ==
    /\ on
    /\ \/ Create /\ UNCHANGED <<handles, shown, on>>
       \/ \E f \in DOMAIN files, text \in Texts :
              Put(f, 0, text) /\ UNCHANGED <<handles, shown, on>>
       \/ \E h \in Handles, f \in DOMAIN files : Open(h, f) /\ UNCHANGED <<files, shown, on>>
       \/ \E h \in Handles : Close(h) /\ shown' = <<>> /\ UNCHANGED <<files, on>>
       \/ \E h \in Handles, p \in Positions : Seek(h, p) /\ UNCHANGED <<files, shown, on>>
       \/ \E h \in Handles, text \in Texts : Write(h, text) /\ UNCHANGED <<shown, on>>
       \/ \E h \in Handles, n \in Sizes : Read(h, n) /\ UNCHANGED <<files, on>>
       \/ on' = FALSE /\ UNCHANGED <<files, handles, shown>>

Init ==
    /\ files \in Seq([dir : {TRUE}, bytes : {<<>>}])
    /\ handles = [h \in Handles |-> Closed]
    /\ shown = <<>>
    /\ on = TRUE

Spec == Init /\ [][Next]_vars
=============================================================================
