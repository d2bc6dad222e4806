------------------------------- MODULE Screen -------------------------------
(***************************************************************************)
(* The text screen (kernel/video/vga.c) and the mouse pointer drawn on it  *)
(* from the timer interrupt (timer_tick in kernel/core/time.c,             *)
(* kernel/video/text_cursor.c), for a machine without a framebuffer.       *)
(*                                                                         *)
(* The kernel prints in the main loop, into back_buffer, and copies that   *)
(* to the video memory, terminal_buffer, cell by cell.  An interrupt may   *)
(* come between the load and the store of a cell.  Colours and the         *)
(* hardware cursor are left out.                                           *)
(***************************************************************************)
EXTENDS Mouse

CONSTANTS
    VGA_WIDTH, VGA_HEIGHT,
    Chars,              \* printable characters other than the blank
    MaxCalls            \* bound: characters printed and screens cleared

ASSUME ScreenConstants ==
    /\ VGA_WIDTH \in Nat \ {0} /\ VGA_HEIGHT \in Nat \ {0}
    /\ Chars \cap {"BLANK", "BLOCK", "NL", "NONE"} = {}
    /\ MaxCalls \in Nat

Blank == "BLANK"
Block == "BLOCK"        \* the pointer, character 0xDB
Newline == "NL"
None == "NONE"

VARIABLES
    back_buffer, terminal_buffer,       \* cell -> character
    terminal_row, terminal_column,
    pc,             \* the loop that the printing code is in, or "idle"
    i,              \* its index
    reg,            \* the cell it has loaded, or None
    flushes,        \* calls of vga_flush that are still to come
    mouse_enabled,  \* mouse_mode.c
    tcur_row, tcur_col, saved_cell, accum_x, accum_y,   \* text_cursor.c
    calls,          \* calls made so far
    text,           \* characters printed since the last clear (history)
    plain,          \* no backspace and no pointer since then (history)
    gone,           \* cells erased since the last flush began (history)
    drawn           \* cells the pointer drew in since the flush began (history)

screen == <<back_buffer, terminal_buffer>>
position == <<terminal_row, terminal_column>>
loop == <<pc, i, reg, flushes>>
pointer == <<tcur_row, tcur_col, saved_cell, accum_x, accum_y>>
history == <<calls, text, plain, gone, drawn>>
vars == <<mouse_vars, screen, position, loop, mouse_enabled, pointer, history>>

Size == VGA_WIDTH * VGA_HEIGHT
Cells == 0 .. (Size - 1)
Index(row, col) == row * VGA_WIDTH + col

-----------------------------------------------------------------------------
(* vga_putchar and vga_clear                                                *)

\* A call starts: the loop l, then n calls of vga_flush.
Call(l, n) ==
    /\ pc = "idle"
    /\ calls < MaxCalls
    /\ calls' = calls + 1
    /\ pc' = l /\ i' = 0 /\ reg' = None /\ flushes' = n
    /\ drawn' = IF l = "flush" THEN {} ELSE drawn
    /\ UNCHANGED <<mouse_vars, mouse_enabled, pointer>>

Scrolls(row) == row >= VGA_HEIGHT

\* Where vga_putchar is after a character other than newline and backspace.
NextRow == IF terminal_column + 1 >= VGA_WIDTH THEN terminal_row + 1 ELSE terminal_row
NextColumn == IF terminal_column + 1 >= VGA_WIDTH THEN 0 ELSE terminal_column + 1

\* vga_scroll ends in a flush of its own.
PutChar(ch) ==
    LET cell == Index(terminal_row, terminal_column) IN
    /\ pc = "idle"
    /\ back_buffer' = [back_buffer EXCEPT ![cell] = ch]
    /\ terminal_row' = NextRow
    /\ terminal_column' = NextColumn
    /\ IF Scrolls(NextRow) THEN Call("scroll", 2) ELSE Call("flush", 0)
    /\ gone' = {}
    /\ text' = Append(text, ch)
    /\ UNCHANGED <<terminal_buffer, plain>>

\* Faulty variant: the scrolled screen is not flushed.
PutNewlineUnflushed ==
    /\ pc = "idle"
    /\ terminal_column' = 0
    /\ terminal_row' = terminal_row + 1
    /\ IF Scrolls(terminal_row + 1) THEN Call("scroll", 0) /\ gone' = {}
       ELSE Call("idle", 0) /\ gone' = gone
    /\ text' = Append(text, Newline)
    /\ UNCHANGED <<screen, plain>>

PutNewline ==
    /\ pc = "idle"
    /\ terminal_column' = 0
    /\ terminal_row' = terminal_row + 1
    /\ IF Scrolls(terminal_row + 1) THEN Call("scroll", 1) /\ gone' = {}
       ELSE Call("idle", 0) /\ gone' = gone
    /\ text' = Append(text, Newline)
    /\ UNCHANGED <<screen, plain>>

\* A backspace steps back, also to the line above, and blanks the cell in the
\* video memory only.
BackRow == IF terminal_column = 0 /\ terminal_row > 0 THEN terminal_row - 1 ELSE terminal_row
BackColumn ==
    IF terminal_column > 0 THEN terminal_column - 1
    ELSE IF terminal_row > 0 THEN VGA_WIDTH - 1 ELSE 0
PutBackspace ==
    /\ pc = "idle"
    /\ terminal_row' = BackRow
    /\ terminal_column' = BackColumn
    /\ terminal_buffer' = [terminal_buffer EXCEPT ![Index(BackRow, BackColumn)] = Blank]
    /\ Call("idle", 0)
    /\ gone' = gone \cup {Index(BackRow, BackColumn)}
    /\ plain' = FALSE
    /\ UNCHANGED <<back_buffer, text>>

vga_clear ==
    /\ Call("clear", 1)
    /\ terminal_row' = 0 /\ terminal_column' = 0
    /\ text' = <<>> /\ plain' = TRUE /\ gone' = {}
    /\ UNCHANGED screen

\* The end of one pass: the next loop is a flush, or the call returns.
EndOfLoop ==
    /\ pc # "idle" /\ i = Size
    /\ IF flushes > 0 THEN pc' = "flush" /\ flushes' = flushes - 1
       ELSE pc' = "idle" /\ UNCHANGED flushes
    /\ i' = 0 /\ reg' = None
    /\ drawn' = IF flushes > 0 THEN {} ELSE drawn
    /\ terminal_row' = IF pc = "scroll" THEN VGA_HEIGHT - 1 ELSE terminal_row
    /\ UNCHANGED <<mouse_vars, screen, terminal_column, mouse_enabled, pointer,
                   calls, text, plain, gone>>

\* Faulty variant: a scroll copies every line to itself.
SourceSame == back_buffer[i]

\* The cell a loop copies from, and whether it copies at all: the last line
\* of a scroll and all of a clear are blanked.
Source == IF pc = "scroll" THEN back_buffer[i + VGA_WIDTH] ELSE back_buffer[i]
Copies == pc = "flush" \/ (pc = "scroll" /\ i < Size - VGA_WIDTH)
Load ==
    /\ pc # "idle" /\ i < Size
    /\ Copies /\ reg = None
    /\ reg' = Source
    /\ UNCHANGED <<mouse_vars, screen, position, pc, i, flushes, mouse_enabled, pointer, history>>
Store ==
    /\ pc # "idle" /\ i < Size
    /\ Copies => reg # None
    /\ IF pc = "flush"
       THEN terminal_buffer' = [terminal_buffer EXCEPT ![i] = reg] /\ UNCHANGED back_buffer
       ELSE /\ back_buffer' = [back_buffer EXCEPT ![i] = IF Copies THEN reg ELSE Blank]
            /\ UNCHANGED terminal_buffer
    /\ i' = i + 1 /\ reg' = None
    /\ UNCHANGED <<mouse_vars, position, pc, flushes, mouse_enabled, pointer, history>>

-----------------------------------------------------------------------------
(* The pointer.  The handler runs with interrupts disabled: one step.       *)

\* Steps of four units; the rest stays in the accumulator.
Steps(a) == IF a >= 0 THEN a \div 4 ELSE -((-a) \div 4)
Clamp(v, max) == IF v < 0 THEN 0 ELSE IF v > max THEN max ELSE v

\* What follows works on the record s of screen and pointer.
vga_write_cell(s, value) ==
    LET cell == Index(s.row, s.col)
    IN  [s EXCEPT !.back[cell] = value, !.front[cell] = value, !.drawn = @ \cup {cell}]

\* What was saved is put back where the pointer is now, not where it was.
restore_cell(s) ==
    IF s.saved = None THEN s ELSE [vga_write_cell(s, s.saved) EXCEPT !.saved = None]

text_cursor_draw(s) ==
    LET r == restore_cell(s)
    IN  vga_write_cell([r EXCEPT !.saved = r.back[Index(r.row, r.col)]], Block)

text_cursor_handle_event(s, ev) ==
    LET ax == s.ax + ev.dx
        ay == s.ay + ev.dy
        moved == [s EXCEPT !.ax = ax - 4 * Steps(ax), !.ay = ay - 4 * Steps(ay),
                           !.col = Clamp(@ + Steps(ax), VGA_WIDTH - 1),
                           !.row = Clamp(@ + Steps(ay), VGA_HEIGHT - 1)]
    IN  IF Steps(ax) # 0 \/ Steps(ay) # 0 THEN text_cursor_draw(moved) ELSE moved

\* Screen and pointer after the first k of the events that wait.
After[k \in 0 .. Len(InBuffer)] ==
    IF k = 0
    THEN [back |-> back_buffer, front |-> terminal_buffer,
          row |-> tcur_row, col |-> tcur_col, saved |-> saved_cell,
          ax |-> accum_x, ay |-> accum_y, drawn |-> {}]
    ELSE text_cursor_handle_event(After[k - 1], InBuffer[k])

\* All events that wait.
text_cursor_tick ==
    LET s == After[Len(InBuffer)] IN
    /\ ~buffer_empty
    /\ back_buffer' = s.back /\ terminal_buffer' = s.front
    /\ tcur_row' = s.row /\ tcur_col' = s.col /\ saved_cell' = s.saved
    /\ accum_x' = s.ax /\ accum_y' = s.ay
    /\ drawn' = drawn \cup s.drawn
    /\ plain' = (plain /\ s.drawn = {})
    /\ gone' = gone \ s.drawn
    /\ ReadAllEvents
    /\ UNCHANGED <<position, loop, mouse_enabled, calls, text>>

timer_tick == mouse_enabled /\ text_cursor_tick

MouseByte ==
    /\ \E m \in Movements : mouse_irq_handler(m)
    /\ UNCHANGED <<screen, position, loop, mouse_enabled, pointer, history>>

\* The shell command mouse on | off.
cmd_mouse ==
    /\ pc = "idle"
    /\ mouse_enabled' = ~mouse_enabled
    /\ UNCHANGED <<mouse_vars, screen, position, loop, pointer, history>>

-----------------------------------------------------------------------------
Init ==
    /\ MouseInit
    /\ back_buffer = [c \in Cells |-> Blank]
    /\ terminal_buffer = [c \in Cells |-> Blank]
    /\ terminal_row = 0 /\ terminal_column = 0
    /\ pc = "idle" /\ i = 0 /\ reg = None /\ flushes = 0
    /\ mouse_enabled = FALSE
    /\ tcur_row = 0 /\ tcur_col = 0 /\ saved_cell = None
    /\ accum_x = 0 /\ accum_y = 0
    /\ calls = 0 /\ text = <<>> /\ plain = TRUE
    /\ gone = {} /\ drawn = {}

Output == (\E ch \in Chars : PutChar(ch)) \/ PutNewline \/ PutBackspace \/ vga_clear
Loops == Load \/ Store \/ EndOfLoop

Next == Output \/ Loops \/ timer_tick \/ MouseByte \/ cmd_mouse

Spec == Init /\ [][Next]_vars

-----------------------------------------------------------------------------
(* Properties                                                               *)

Contents == Chars \cup {Blank, Block}

\* Types, and where the screen is written: the row is one too large only while
\* vga_scroll runs, and the pointer never leaves the screen.
TypeOK ==
    /\ back_buffer \in [Cells -> Contents]
    /\ terminal_buffer \in [Cells -> Contents]
    /\ terminal_row \in 0 .. (IF pc = "scroll" THEN VGA_HEIGHT ELSE VGA_HEIGHT - 1)
    /\ terminal_column \in 0 .. (VGA_WIDTH - 1)
    /\ pc \in {"idle", "scroll", "clear", "flush"}
    /\ i \in 0 .. Size
    /\ reg \in Contents \cup {None}
    /\ tcur_row \in 0 .. (VGA_HEIGHT - 1)
    /\ tcur_col \in 0 .. (VGA_WIDTH - 1)
    /\ saved_cell \in Contents \cup {None}
    /\ accum_x \in -3 .. 3 /\ accum_y \in -3 .. 3

\* The state is well formed, and when vga_putchar returns, the video memory shows the back buffer, except
\* for cells erased by a backspace since the last flush and cells that the
\* pointer drew in while the buffer was being flushed.
ScreenCoherent ==
    /\ TypeOK
    /\ pc = "idle" =>
        \A c \in Cells \ (gone \cup drawn) : terminal_buffer[c] = back_buffer[c]

\* Where the n-th character of the text goes, in rows since the last clear.
Place == LET at[n \in 0 .. Len(text)] ==
                 IF n = 0 THEN <<0, 0>>
                 ELSE IF text[n] = Newline \/ at[n - 1][2] + 1 = VGA_WIDTH
                 THEN <<at[n - 1][1] + 1, 0>>
                 ELSE <<at[n - 1][1], at[n - 1][2] + 1>>
         IN  at
Shown(top, row, col) ==
    LET here == {n \in 1 .. Len(text) : text[n] # Newline /\ Place[n - 1] = <<top + row, col>>}
    IN  IF here = {} THEN Blank ELSE text[CHOOSE n \in here : TRUE]

\* Scrolling and wrapping show the end of the text: the screen holds the last
\* VGA_HEIGHT rows of everything printed since the last vga_clear.
TextShown ==
    LET last == Place[Len(text)]
        top == IF last[1] < VGA_HEIGHT THEN 0 ELSE last[1] - VGA_HEIGHT + 1
    IN  pc = "idle" /\ plain =>
            /\ terminal_row = last[1] - top /\ terminal_column = last[2]
            /\ \A row \in 0 .. (VGA_HEIGHT - 1), col \in 0 .. (VGA_WIDTH - 1) :
                   back_buffer[Index(row, col)] = Shown(top, row, col)
=============================================================================
