------------------------------ MODULE Numbers ------------------------------
(***************************************************************************)
(* Numbers as text: utoa, atoi and atoi_hex (kernel/lib/string.c), the     *)
(* printing loops of vga_print_dec and vga_print_hex (kernel/video/vga.c)  *)
(* and of log_write_hex (kernel/core/log.c).  Machine words have NIBBLES   *)
(* hexadecimal digits; a text is a sequence of characters without its NUL. *)
(***************************************************************************)
EXTENDS Integers, Sequences, SequencesExt

CONSTANT NIBBLES        \* hexadecimal digits of a word (8)

ASSUME NumbersConstants == NIBBLES \in Nat \ {0}

\* How many values n hexadecimal digits have.
Power[n \in 0 .. NIBBLES] == IF n = 0 THEN 1 ELSE 16 * Power[n - 1]
Word == Power[NIBBLES]
Words == 0 .. (Word - 1)

hex_chars == <<"0", "1", "2", "3", "4", "5", "6", "7", "8", "9", "A", "B", "C", "D", "E", "F">>
small_chars == <<"a", "b", "c", "d", "e", "f">>
Digit(d) == hex_chars[d + 1]

\* The digits as utoa and vga_print_dec put them in their buffers: the last
\* digit of the number first.
LowFirst(value, base) ==
    LET from[v \in Words] == IF v = 0 THEN <<>> ELSE <<Digit(v % base)>> \o from[v \div base]
    IN  from[value]

\* Faulty variant: the digits are left as they were found.
utoa_unreversed(value, base) == IF value = 0 THEN <<"0">> ELSE LowFirst(value, base)

utoa(value, base) == IF value = 0 THEN <<"0">> ELSE Reverse(LowFirst(value, base))

vga_print_dec(num) ==
    LET buffer == LowFirst(num, 10)
    IN  IF num = 0 THEN <<"0">>
        ELSE [j \in 1 .. Len(buffer) |-> buffer[Len(buffer) - j + 1]]

\* value >> bits, for a whole number of hexadecimal digits.
ShiftRight(value, bits) == value \div Power[bits \div 4]

log_write_hex_text(value) ==
    <<"0", "x">> \o [i \in 1 .. NIBBLES |-> Digit(ShiftRight(value, (NIBBLES - i) * 4) % 16)]
vga_print_hex(value) ==
    <<"0", "x">> \o [i \in 1 .. NIBBLES |-> Digit(ShiftRight(value, (NIBBLES - 1) * 4 - (i - 1) * 4) % 16)]

\* The value of a digit, or -1.
DigitValue(c) ==
    IF c \in Range(hex_chars) THEN (CHOOSE d \in 0 .. 15 : Digit(d) = c)
    ELSE IF c \in Range(small_chars) THEN (CHOOSE d \in 10 .. 15 : small_chars[d - 9] = c)
    ELSE -1

\* The number that str starts with; the first other character ends it.  The
\* sum wraps.
ReadNumber(str, base) ==
    LET ends == {i \in 1 .. Len(str) : DigitValue(str[i]) \notin 0 .. (base - 1)}
        last == IF ends = {} THEN Len(str) ELSE (CHOOSE i \in ends : \A j \in ends : i <= j) - 1
        upto[i \in 0 .. last] ==
            IF i = 0 THEN 0 ELSE (upto[i - 1] * base + DigitValue(str[i])) % Word
    IN  upto[last]

atoi(str) == ReadNumber(str, 10)
atoi_hex(str) ==
    IF Len(str) >= 2 /\ str[1] = "0" /\ str[2] \in {"x", "X"}
    THEN ReadNumber(SubSeq(str, 3, Len(str)), 16)
    ELSE ReadNumber(str, 16)
=============================================================================
