-------------------------------- MODULE Log --------------------------------
(***************************************************************************)
(* The kernel log (kernel/core/log.c): a ring of characters that dmesg     *)
(* prints, and the numbers that the log and the shell write as text.       *)
(* Fixed texts such as "panic: " count as one character.                   *)
(***************************************************************************)
EXTENDS Numbers

CONSTANTS
    LOG_BUFFER_SIZE,    \* characters of the ring (8192)
    Chars,              \* characters of messages and words
    Messages,           \* texts that are logged
    Values,             \* numbers that are logged and printed
    Operands, Operators,    \* what calc is given
    Commands,           \* words that panic is given
    MaxWritten          \* bound: characters logged

ASSUME LogConstants ==
    /\ LOG_BUFFER_SIZE \in Nat \ {0}
    /\ Values \subseteq Words /\ Operands \subseteq Words
    /\ Messages \subseteq Seq(Chars) /\ Commands \subseteq Seq(Seq(Chars))
    /\ MaxWritten \in Nat

NUL == "NUL"

VARIABLES
    log_buffer, log_head, log_used,
    halted,         \* debug_panic does not return
    written,        \* all characters logged (history)
    shown           \* the number that the last step wrote, and its text (history)

ring == <<log_buffer, log_head, log_used>>
vars == <<ring, halted, written, shown>>

Slots == 0 .. (LOG_BUFFER_SIZE - 1)

NextHead(h) == (h + 1) % LOG_BUFFER_SIZE

\* One character of log_write, on the record of buffer, head and used.
LogChar(r, ch) ==
    [buffer |-> [r.buffer EXCEPT ![r.head] = ch],
     head |-> NextHead(r.head),
     used |-> IF r.used < LOG_BUFFER_SIZE THEN r.used + 1 ELSE r.used]

log_write(message) ==
    LET from[k \in 0 .. Len(message)] ==
            IF k = 0 THEN [buffer |-> log_buffer, head |-> log_head, used |-> log_used]
            ELSE LogChar(from[k - 1], message[k])
        r == from[Len(message)]
    IN
    /\ Len(written) + Len(message) <= MaxWritten
    /\ log_buffer' = r.buffer /\ log_head' = r.head /\ log_used' = r.used
    /\ written' = written \o message

NothingShown == [value |-> 0, kind |-> "dec", text |-> <<"0">>]
Shown(v, kind, t) == shown' = [value |-> v, kind |-> kind, text |-> t]

log_write_hex(v) == log_write(log_write_hex_text(v)) /\ Shown(v, "hex", log_write_hex_text(v))
log_write_dec(v) == log_write(utoa(v, 10)) /\ Shown(v, "dec", utoa(v, 10))

LogMessage(m) == log_write(m) /\ shown' = NothingShown

\* The branch of syscall_handler that is not a known call: three writes, in a
\* gate that keeps interrupts off.
syscall_handler(eax) ==
    /\ log_write(<<"syscall: unknown ">> \o log_write_hex_text(eax) \o <<"\n">>)
    /\ Shown(eax, "hex", log_write_hex_text(eax))

\* The shell prints a number: alloc and memdump an address, heapinfo and
\* meminfo a count.
PrintHex(v) == Shown(v, "hex", vga_print_hex(v)) /\ UNCHANGED <<ring, written>>
PrintDec(v) == Shown(v, "dec", vga_print_dec(v)) /\ UNCHANGED <<ring, written>>

\* calc on two numbers as they were typed.  A division returns before it
\* prints, an unknown operator prints 0.
cmd_calc(a, op, b) ==
    LET x == atoi(a)
        y == atoi(b)
        result == (CASE op = "+" -> x + y [] op = "-" -> x - y [] op = "*" -> x * y
                     [] OTHER -> 0) % Word
    IN
    /\ IF op = "/" THEN shown' = NothingShown ELSE Shown(result, "dec", utoa(result, 10))
    /\ UNCHANGED <<ring, written>>

strcat(dest, src) == dest \o src

\* panic puts its words together with blanks between them; without a word it
\* has a text of its own.
cmd_panic(argv) ==
    LET buffer[k \in 0 .. Len(argv)] ==
            IF k = 0 THEN <<>>
            ELSE strcat(IF k > 1 THEN strcat(buffer[k - 1], <<" ">>) ELSE buffer[k - 1], argv[k])
    IN  IF argv = <<>> THEN <<"Manual panic triggered">> ELSE buffer[Len(argv)]

\* The message is logged in three writes; then the processor halts for ever.
debug_panic(message) ==
    /\ log_write(<<"panic: ">> \o message \o <<"\n">>)
    /\ halted' = TRUE
    /\ shown' = NothingShown
Halted == halted /\ UNCHANGED vars

\* Faulty variant: the dump starts at the first cell of the buffer.
log_start_index_zero == 0

log_start_index == IF log_used < LOG_BUFFER_SIZE THEN 0 ELSE log_head

\* What dmesg prints between its two marks.
log_dump == [i \in 1 .. log_used |-> log_buffer[(log_start_index + i - 1) % LOG_BUFFER_SIZE]]

\* log_init; its message is one of Messages.
Init ==
    /\ log_buffer = [i \in Slots |-> NUL]
    /\ log_head = 0 /\ log_used = 0
    /\ halted = FALSE
    /\ written = <<>>
    /\ shown = NothingShown

Running ==
    \/ \E m \in Messages : LogMessage(m)
    \/ \E v \in Values : log_write_hex(v) \/ log_write_dec(v) \/ PrintHex(v) \/ PrintDec(v)
    \/ \E v \in Values : syscall_handler(v)
    \/ \E v, w \in Operands, op \in Operators : cmd_calc(utoa(v, 10), op, utoa(w, 10))

Next ==
    \/ ~halted /\ Running /\ UNCHANGED halted
    \/ ~halted /\ \E argv \in Commands : debug_panic(cmd_panic(argv))
    \/ Halted

Spec == Init /\ [][Next]_vars

-----------------------------------------------------------------------------
(* Properties                                                               *)

\* dmesg prints the end of everything that was ever logged, oldest character
\* first: all of it until the ring is full, then the last LOG_BUFFER_SIZE
\* characters, also of a message that is longer than the ring.
DumpIsTail ==
    log_dump = LET n == Len(written)
               IN  IF n <= LOG_BUFFER_SIZE THEN written
                   ELSE SubSeq(written, n - LOG_BUFFER_SIZE + 1, n)

\* A number that was printed is read back by the shell: free and memdump take
\* an address as alloc printed it (atoi_hex), and every decimal number is one
\* that atoi reads.
ReadsBack ==
    shown.value = IF shown.kind = "hex" THEN atoi_hex(shown.text) ELSE atoi(shown.text)
=============================================================================
