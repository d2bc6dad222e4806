-------------------------------- MODULE Input --------------------------------
(***************************************************************************)
(* From the keyboard interrupt to a command: the ring buffer               *)
(* (kernel/drivers/keyboard.c), the line buffer (kernel/core/console.c),   *)
(* shell_update, execute_command and parse_arguments                       *)
(* (kernel/shell/shell.c) and the loop of kernel_main (kernel/kernel.c).   *)
(*                                                                         *)
(* Interrupt handlers run with interrupts disabled, so each is one step;   *)
(* the main loop is cut wherever an interrupt can change what it reads     *)
(* next.  Drawing on the screen is left out.                               *)
(***************************************************************************)
EXTENDS Integers, Sequences, SequencesExt

CONSTANTS
    KEYBOARD_BUFFER_SIZE,   \* cells of the ring (256)
    CONSOLE_BUFFER_SIZE,    \* cells of the line buffer (256)
    MAX_ARGS,               \* words of a command (8)
    Letters,                \* the printable characters other than the space
    MaxKeys                 \* bound: keys typed in a behaviour

ASSUME InputConstants ==
    /\ KEYBOARD_BUFFER_SIZE \in Nat \ {0}
    /\ CONSOLE_BUFFER_SIZE \in Nat \ {0}
    /\ MAX_ARGS \in Nat
    /\ MaxKeys \in Nat
    /\ Letters \cap {"SP", "BS", "NL", "NUL"} = {}

Space == "SP"
Backspace == "BS"
Newline == "NL"
NUL == "NUL"            \* the terminator of a C string
Keys == Letters \cup {Space, Backspace, Newline}

VARIABLES
    keyboard_buffer, buffer_head, buffer_tail,  \* statics of keyboard.c
    line_buffer, line_length,                   \* statics of console.c
    pc,         \* where the main loop is
    c,          \* the local variable of shell_update
    commands,   \* argv of every command executed so far (history)
    typed,      \* characters the interrupt handler stored so far (history)
    taken       \* characters keyboard_getchar returned so far (history)

vars == <<keyboard_buffer, buffer_head, buffer_tail, line_buffer, line_length,
          pc, c, commands, typed, taken>>
ring == <<keyboard_buffer, buffer_head, buffer_tail>>
console == <<line_buffer, line_length>>
history == <<commands, typed, taken>>

Cells == 0 .. (KEYBOARD_BUFFER_SIZE - 1)
Columns == 0 .. (CONSOLE_BUFFER_SIZE - 1)
\* Faulty variant: an index that does not wrap.
NextCellNoWrap(i) == i + 1

NextCell(i) == (i + 1) % KEYBOARD_BUFFER_SIZE

-----------------------------------------------------------------------------
(* Interrupts.  Every one of them ends a hlt.                               *)

Woken == IF pc = "halted" THEN "test" ELSE pc

\* A key that has a character.  Nothing keeps the head from passing the tail.
keyboard_irq_handler(k) ==
    /\ pc # "stopped"
    /\ typed < MaxKeys
    /\ keyboard_buffer' = [keyboard_buffer EXCEPT ![buffer_head] = k]
    /\ buffer_head' = NextCell(buffer_head)
    /\ typed' = typed + 1
    /\ pc' = Woken
    /\ UNCHANGED <<buffer_tail, console, c, commands, taken>>

\* A release, or a key that has no character, only wakes the processor.
KeyIgnored ==
    /\ pc = "halted"
    /\ pc' = Woken
    /\ UNCHANGED <<ring, console, c, history>>

\* Faulty variant: the timer is masked.
TimerMasked == pc = "halted" /\ UNCHANGED vars

\* The timer ticks 100 times a second.  While the main loop is running, a
\* tick changes nothing here.
TimerIRQ ==
    /\ pc = "halted"
    /\ pc' = Woken
    /\ UNCHANGED <<ring, console, c, history>>

-----------------------------------------------------------------------------
(* shell_update                                                             *)

keyboard_has_input == buffer_head # buffer_tail

Test ==
    /\ pc = "test"
    /\ pc' = IF keyboard_has_input THEN "getchar" ELSE "idle"
    /\ UNCHANGED <<ring, console, c, history>>

\* keyboard_getchar tests again, reads the cell and then moves the tail.
GetChar ==
    /\ pc = "getchar"
    /\ IF keyboard_has_input
       THEN c' = keyboard_buffer[buffer_tail] /\ pc' = "move"
       ELSE c' = NUL /\ pc' = "handle"
    /\ UNCHANGED <<ring, console, history>>
\* Faulty variant: reading one character empties the ring.
MoveTailToHead ==
    /\ pc = "move"
    /\ buffer_tail' = buffer_head
    /\ taken' = taken + 1
    /\ pc' = "handle"
    /\ UNCHANGED <<keyboard_buffer, buffer_head, console, c, commands, typed>>

MoveTail ==
    /\ pc = "move"
    /\ buffer_tail' = NextCell(buffer_tail)
    /\ taken' = taken + 1
    /\ pc' = "handle"
    /\ UNCHANGED <<keyboard_buffer, buffer_head, console, c, commands, typed>>

\* Faulty variant: the erased character stays in the buffer.
EraseLengthOnly ==
    IF line_length > 0 THEN line_length' = line_length - 1 /\ UNCHANGED line_buffer
    ELSE UNCHANGED console

\* Any key but Enter goes to console_handle_char.
Erase ==
    IF line_length > 0
    THEN /\ line_length' = line_length - 1
         /\ line_buffer' = [line_buffer EXCEPT ![line_length - 1] = NUL]
    ELSE UNCHANGED console
Insert ==
    IF line_length < CONSOLE_BUFFER_SIZE - 1
    THEN /\ line_buffer' = [line_buffer EXCEPT ![line_length] = c]
         /\ line_length' = line_length + 1
    ELSE UNCHANGED console
console_handle_char ==
    /\ pc = "handle"
    /\ c # Newline
    /\ IF c = Backspace THEN Erase ELSE Insert
    /\ pc' = "test"
    /\ UNCHANGED <<ring, c, history>>

-----------------------------------------------------------------------------
(* execute_command works on a copy of the C string in the line buffer.      *)

StringLength(b) ==
    CHOOSE n \in 0 .. CONSOLE_BUFFER_SIZE :
        /\ n = CONSOLE_BUFFER_SIZE \/ b[n] = NUL
        /\ \A i \in 0 .. (n - 1) : b[i] # NUL
CString(b) == [i \in 1 .. StringLength(b) |-> b[i - 1]]

\* Faulty variant: spaces are not skipped.
SkipNothing(s, i) == i

\* The two inner loops of parse_arguments: the first position at or after i
\* that is not, respectively is, a space; Len(s) + 1 at the end of s.
SkipSpaces(s, i) ==
    CHOOSE j \in i .. (Len(s) + 1) :
        /\ j = Len(s) + 1 \/ s[j] # Space
        /\ \A k \in i .. (j - 1) : s[k] = Space
SkipWord(s, i) ==
    CHOOSE j \in i .. (Len(s) + 1) :
        /\ j = Len(s) + 1 \/ s[j] = Space
        /\ \A k \in i .. (j - 1) : s[k] # Space

\* argv when the loop stands at position i with argc words found.
parse_arguments(s) ==
    LET from[i \in 1 .. (Len(s) + 2)] == [argc \in 0 .. MAX_ARGS |->
            IF i > Len(s) \/ argc = MAX_ARGS THEN <<>>
            ELSE LET start == SkipSpaces(s, i)
                     end == SkipWord(s, start)
                 IN  IF start = Len(s) + 1 THEN <<>>
                     ELSE <<SubSeq(s, start, end - 1)>> \o from[end + 1][argc + 1]]
    IN  from[1][0]

Enter ==
    /\ pc = "handle"
    /\ c = Newline
    /\ commands' = Append(commands, parse_arguments(CString(line_buffer)))
    /\ pc' = "command"
    /\ UNCHANGED <<ring, console, c, typed, taken>>

\* The command returns and console_clear_line empties the line.
CommandReturns ==
    /\ pc = "command"
    /\ line_buffer' = [i \in Columns |-> NUL]
    /\ line_length' = 0
    /\ pc' = "test"
    /\ UNCHANGED <<ring, c, history>>

\* panic, shutdown, reboot, or a command that ends in a panic; an empty line
\* runs nothing.
CommandStops ==
    /\ pc = "command"
    /\ Last(commands) # <<>>
    /\ pc' = "stopped"
    /\ UNCHANGED <<ring, console, c, history>>

-----------------------------------------------------------------------------
\* kernel_main: shell_update has returned, hlt is next.
Halt ==
    /\ pc = "idle"
    /\ pc' = "halted"
    /\ UNCHANGED <<ring, console, c, history>>

Init ==
    /\ keyboard_buffer = [i \in Cells |-> NUL]
    /\ buffer_head = 0 /\ buffer_tail = 0
    /\ line_buffer = [i \in Columns |-> NUL]
    /\ line_length = 0
    /\ pc = "test"
    /\ c = NUL
    /\ commands = <<>> /\ typed = 0 /\ taken = 0

MainLoop ==
    \/ Test \/ GetChar \/ MoveTail \/ console_handle_char
    \/ Enter \/ CommandReturns \/ Halt

Stopped == pc = "stopped" /\ UNCHANGED vars

Next ==
    \/ MainLoop
    \/ CommandStops
    \/ TimerIRQ
    \/ KeyIgnored
    \/ Stopped
    \/ \E k \in Keys : keyboard_irq_handler(k)

Spec == Init /\ [][Next]_vars

\* At most KEYBOARD_BUFFER_SIZE - 1 characters wait in the ring.
NoOverrun == typed - taken < KEYBOARD_BUFFER_SIZE - 1

PacedNext ==
    \/ MainLoop
    \/ CommandStops
    \/ TimerIRQ
    \/ KeyIgnored
    \/ Stopped
    \/ NoOverrun /\ \E k \in Keys : keyboard_irq_handler(k)

\* The processor runs the main loop between interrupts, commands return, and
\* the timer ticks.
PacedSpec == Init /\ [][PacedNext]_vars /\ WF_vars(MainLoop) /\ WF_vars(TimerIRQ)

-----------------------------------------------------------------------------
(* Properties                                                               *)

\* Types of the statics: the indices of keyboard.c stay inside the ring and
\* line_length leaves room for the terminator.
TypeOK ==
    /\ keyboard_buffer \in [Cells -> Keys \cup {NUL}]
    /\ buffer_head \in Cells /\ buffer_tail \in Cells
    /\ line_buffer \in [Columns -> Keys \cup {NUL}]
    /\ line_length \in Columns
    /\ pc \in {"test", "getchar", "move", "handle", "command", "idle", "halted", "stopped"}
    /\ c \in Keys \cup {NUL}
    /\ typed \in 0 .. MaxKeys /\ taken \in 0 .. typed

\* The line buffer always holds a string that ends in it: line_length is the
\* length of that string and no cell after it is set.  This is what the
\* strcpy into execute_command's buffer of the same size relies on.
LineTerminated ==
    \A i \in Columns : line_buffer[i] = NUL <=> i >= line_length

\* keyboard_has_input's test: head == tail only when every character that the
\* interrupt handler stored has been taken.
EmptyMeansEmpty == buffer_head = buffer_tail => typed = taken

\* The invariant: the two indices count the characters typed and taken, and
\* the cells between them hold keys, the oldest of which is c until the tail
\* moves; a command that runs has been recorded.
KInv ==
    /\ TypeOK
    /\ LineTerminated
    /\ buffer_head = typed % KEYBOARD_BUFFER_SIZE
    /\ buffer_tail = taken % KEYBOARD_BUFFER_SIZE
    /\ typed - taken < KEYBOARD_BUFFER_SIZE
    /\ \A i \in taken .. (typed - 1) : keyboard_buffer[i % KEYBOARD_BUFFER_SIZE] \in Keys
    /\ pc \in {"getchar", "move"} => taken < typed
    /\ pc \in {"move", "handle"} => c \in Keys
    /\ pc = "move" => c = keyboard_buffer[buffer_tail]
    /\ commands \in Seq(Seq(Seq(Keys))) /\ (pc = "command" => commands # <<>>)

\* What is in the ring, oldest first.
InRing == [i \in 1 .. ((buffer_head - buffer_tail) % KEYBOARD_BUFFER_SIZE) |->
              keyboard_buffer[(buffer_tail + i - 1) % KEYBOARD_BUFFER_SIZE]]

\* The refinement mapping: a character is taken when shell_update acts on it,
\* and the line is gone when its command starts.
Editor == INSTANCE LineEditor WITH
    LineLimit <- CONSOLE_BUFFER_SIZE - 1,
    WordLimit <- MAX_ARGS,
    pending <- IF pc = "handle" THEN <<c>> \o InRing ELSE InRing,
    line <- IF pc \in {"command", "stopped"} THEN <<>> ELSE CString(line_buffer),
    on <- pc # "stopped"

\* The ring, the line buffer and parse_arguments implement the line editor:
\* every command executed is the words of the line as typed and corrected.
ImplementsLineEditor == Editor!Spec

\* Every character that was typed is taken in the end, also one that arrives
\* after the last look at the ring and before the hlt, unless the machine
\* stops.
EveryKeyTaken ==
    \A n \in 1 .. MaxKeys : (typed >= n) ~> (taken >= n \/ pc = "stopped")
=============================================================================
