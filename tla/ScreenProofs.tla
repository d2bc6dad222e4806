---------------------------- MODULE ScreenProofs ----------------------------
(***************************************************************************)
(* The ring of mouse events is a queue of what the device reported, for    *)
(* every size of the ring, with and without a wheel; and the text screen   *)
(* shows what was printed, for every size of the screen, wherever the      *)
(* timer interrupt that draws the pointer falls in the printing loops.     *)
(***************************************************************************)
EXTENDS Screen, TLAPS, WellFoundedInduction

-----------------------------------------------------------------------------
(* The packets                                                              *)

Reports == [dx : -128 .. 127, dy : -127 .. 127, scroll : -8 .. 7, buttons : 0 .. 7]

\* The device's byte and the driver's cast are inverse to each other.
LEMMA CastIsInverse ==
    ASSUME NEW v \in -128 .. 127
    PROVE  Int8(Byte(v)) = v
BY DEF Int8, Byte

\* A complete packet is decoded to what its reader should see.
LEMMA DecodesPacket ==
    ASSUME NEW m \in Reports, has_wheel \in BOOLEAN,
           NEW p \in Seq(Int), Len(p) = needed,
           \A k \in 1 .. Len(p) : p[k] = Packet(m)[k]
    PROVE  Event(p) = AsSeen(m) /\ AsSeen(m) \in Reports
<1>1. m.dx \in -128 .. 127 /\ m.dy \in -127 .. 127 /\ m.scroll \in -8 .. 7 /\ m.buttons \in 0 .. 7
  BY DEF Reports
<1>2. p[1] = m.buttons + 8 /\ p[2] = Byte(m.dx) /\ p[3] = Byte(m.dy)
  BY DEF Packet, needed
<1>3. has_wheel => p[4] = Byte(m.scroll)
  BY DEF Packet, needed
<1>4. Int8(p[2]) = m.dx /\ Int8(p[3]) = m.dy /\ (has_wheel => Int8(p[4]) = m.scroll)
  <2>1. m.dy \in -128 .. 127 /\ m.scroll \in -128 .. 127
    BY <1>1
  <2>2. Int8(Byte(m.dx)) = m.dx
    BY <1>1, CastIsInverse
  <2>3. Int8(Byte(m.dy)) = m.dy
    BY <2>1, CastIsInverse
  <2>4. Int8(Byte(m.scroll)) = m.scroll
    BY <2>1, CastIsInverse
  <2>5. QED
    BY <1>2, <1>3, <2>2, <2>3, <2>4, Zenon
<1>5. p[1] % 8 = m.buttons
  <2>1. \A b \in 0 .. 7 : (b + 8) % 8 = b
    OBVIOUS
  <2>2. QED
    BY <1>1, <1>2, <2>1, Zenon
<1>6. AsSeen(m) = [dx |-> m.dx, dy |-> -m.dy, scroll |-> IF has_wheel THEN m.scroll ELSE 0,
                   buttons |-> m.buttons]
  <2>1. m = [dx |-> m.dx, dy |-> m.dy, scroll |-> m.scroll, buttons |-> m.buttons]
    BY DEF Reports
  <2> DEFINE w == IF has_wheel THEN m.scroll ELSE 0
  <2>2. AsSeen(m) = [m EXCEPT !.dy = -m.dy, !.scroll = w]
    BY DEF AsSeen
  <2> HIDE DEF w
  <2>3. AsSeen(m) = [dx |-> m.dx, dy |-> -m.dy, scroll |-> w, buttons |-> m.buttons]
    BY <1>1, <2>1, <2>2
  <2>4. QED
    BY <2>3 DEF w
<1>7. Event(p) = AsSeen(m)
  BY <1>4, <1>5, <1>6 DEF Event
<1>8. -m.dy \in -127 .. 127 /\ 0 \in -8 .. 7
  <2>1. \A v \in -127 .. 127 : -v \in -127 .. 127
    OBVIOUS
  <2>2. 0 \in -8 .. 7
    OBVIOUS
  <2>3. QED
    BY <1>1, <2>1, <2>2, Zenon
<1>9. AsSeen(m) \in Reports
  <2> DEFINE w == IF has_wheel THEN m.scroll ELSE 0
  <2>1. w \in -8 .. 7
    BY <1>1, <1>8, Zenon
  <2>2. AsSeen(m) = [dx |-> m.dx, dy |-> -m.dy, scroll |-> w, buttons |-> m.buttons]
    BY <1>6
  <2> HIDE DEF w
  <2>3. QED
    BY <1>1, <1>8, <2>1, <2>2 DEF Reports
<1>10. QED
  BY <1>7, <1>9

-----------------------------------------------------------------------------
(* The ring                                                                 *)

\* Events in a ring of n cells with head h and tail t, and the cell of the
\* k-th of them.
Waiting(n, h, t) == IF h >= t THEN h - t ELSE h - t + n
Slot(n, t, k) == IF t + k - 1 < n THEN t + k - 1 ELSE t + k - 1 - n

LEMMA WaitingIs ==
    ASSUME NEW n \in Nat \ {0}, NEW h \in 0 .. (n - 1), NEW t \in 0 .. (n - 1)
    PROVE  (h - t) % n = Waiting(n, h, t) /\ Waiting(n, h, t) \in 0 .. (n - 1)
BY SMTT(30) DEF Waiting

LEMMA SlotIs ==
    ASSUME NEW n \in Nat \ {0}, NEW t \in 0 .. (n - 1), NEW k \in 1 .. n
    PROVE  (t + k - 1) % n = Slot(n, t, k) /\ Slot(n, t, k) \in 0 .. (n - 1)
BY SMTT(30) DEF Slot

LEMMA NextSlotIs ==
    ASSUME NEW h \in 0 .. (MOUSE_BUF_SIZE - 1)
    PROVE  NextSlot(h) = (IF h + 1 = MOUSE_BUF_SIZE THEN 0 ELSE h + 1)
BY SMTT(30), MouseConstants DEF NextSlot

\* What the driver and the device agree on, and what the ring holds.
MInv ==
    /\ mouse_buffer \in [0 .. (MOUSE_BUF_SIZE - 1) -> Reports]
    /\ buf_head \in 0 .. (MOUSE_BUF_SIZE - 1)
    /\ buf_tail \in 0 .. (MOUSE_BUF_SIZE - 1)
    /\ has_wheel \in BOOLEAN
    /\ sending \in Reports
    /\ packet \in Seq(Int) /\ Len(packet) < needed
    /\ \A k \in 1 .. Len(packet) : packet[k] = Packet(sending)[k]
    /\ queue \in Seq(Reports)
    /\ Len(queue) = Waiting(MOUSE_BUF_SIZE, buf_head, buf_tail)
    /\ \A k \in 1 .. Len(queue) : mouse_buffer[Slot(MOUSE_BUF_SIZE, buf_tail, k)] = queue[k]

LEMMA RingFromInv ==
    ASSUME MInv
    PROVE  RingIsQueue
<1>1. (buf_head - buf_tail) % MOUSE_BUF_SIZE = Len(queue) /\ Len(queue) \in 0 .. (MOUSE_BUF_SIZE - 1)
  BY MouseConstants, WaitingIs DEF MInv
<1>2. \A k \in 1 .. Len(queue) :
          (buf_tail + k - 1) % MOUSE_BUF_SIZE = Slot(MOUSE_BUF_SIZE, buf_tail, k)
  BY <1>1, MouseConstants, SlotIs DEF MInv
<1>3. InBuffer = [k \in 1 .. Len(queue) |-> queue[k]]
  BY <1>1, <1>2, Zenon DEF InBuffer, MInv
<1>4. QED
  BY <1>3 DEF MInv, RingIsQueue

LEMMA MouseInitMInv ==
    ASSUME MouseInit
    PROVE  MInv
<1>1. Still \in Reports
  BY DEF Still, Reports
<1>2. 0 \in 0 .. (MOUSE_BUF_SIZE - 1) /\ MOUSE_BUF_SIZE \in Nat \ {0}
  BY MouseConstants
<1>3. Len(packet) < needed /\ packet \in Seq(Int) /\ queue \in Seq(Reports)
  BY DEF MouseInit, needed
<1>4. Len(queue) = Waiting(MOUSE_BUF_SIZE, buf_head, buf_tail)
  BY <1>2 DEF MouseInit, Waiting
<1>5. QED
  BY <1>1, <1>2, <1>3, <1>4 DEF MouseInit, MInv

\* A movement is reported in bytes.
LEMMA PacketBytes ==
    ASSUME NEW m \in Reports, NEW k \in 1 .. 4
    PROVE  Packet(m)[k] \in Int
<1>1. m.dx \in Int /\ m.dy \in Int /\ m.scroll \in Int /\ m.buttons \in Int
  BY DEF Reports
<1>2. m.buttons + 8 \in Int /\ m.dx % 256 \in Int /\ m.dy % 256 \in Int /\ m.scroll % 256 \in Int
  BY <1>1
<1>3. QED
  BY <1>2 DEF Packet, Byte

\* An event that is pushed comes last; a full ring is one with
\* MOUSE_BUF_SIZE - 1 events.
LEMMA PushAppends ==
    ASSUME MInv, NEW ev \in Reports, buffer_push(ev), buf_tail' = buf_tail,
           queue' = IF Len(queue) < MOUSE_BUF_SIZE - 1 THEN Append(queue, ev) ELSE queue
    PROVE  /\ mouse_buffer' \in [0 .. (MOUSE_BUF_SIZE - 1) -> Reports]
           /\ buf_head' \in 0 .. (MOUSE_BUF_SIZE - 1)
           /\ queue' \in Seq(Reports)
           /\ Len(queue') = Waiting(MOUSE_BUF_SIZE, buf_head', buf_tail')
           /\ \A k \in 1 .. Len(queue') :
                 mouse_buffer'[Slot(MOUSE_BUF_SIZE, buf_tail', k)] = queue'[k]
<1> DEFINE n == MOUSE_BUF_SIZE
           h == IF buf_head + 1 = n THEN 0 ELSE buf_head + 1
<1>1. n \in Nat \ {0} /\ buf_head \in 0 .. (n - 1) /\ buf_tail \in 0 .. (n - 1)
  BY MouseConstants DEF MInv
<1>2. NextSlot(buf_head) = h
  BY <1>1, NextSlotIs
<1>3. buffer_full <=> h = buf_tail
  BY <1>2 DEF buffer_full
<1>4. buffer_full <=> ~(Len(queue) < n - 1)
  BY <1>1, <1>3 DEF MInv, Waiting
<1>5. CASE buffer_full
  <2>1. queue' = queue /\ mouse_buffer' = mouse_buffer /\ buf_head' = buf_head
    BY <1>4, <1>5 DEF buffer_push
  <2>2. QED
    BY <2>1 DEF MInv
<1>6. CASE ~buffer_full
  <2>1. /\ queue' = Append(queue, ev)
        /\ mouse_buffer' = [mouse_buffer EXCEPT ![buf_head] = ev]
        /\ buf_head' = h
    BY <1>2, <1>4, <1>6 DEF buffer_push
  <2>2. h \in 0 .. (n - 1) /\ h # buf_tail
    BY <1>1, <1>3, <1>6
  <2>3. mouse_buffer' \in [0 .. (n - 1) -> Reports] /\ queue' \in Seq(Reports)
    BY <2>1 DEF MInv
  <2>4. Len(queue) \in Nat /\ Len(queue') = Len(queue) + 1
    BY <2>1 DEF MInv
  <2>5. Len(queue') = Waiting(n, buf_head', buf_tail')
    BY <1>1, <2>1, <2>2, <2>4 DEF MInv, Waiting
  <2>6. ASSUME NEW k \in 1 .. Len(queue')
        PROVE  mouse_buffer'[Slot(n, buf_tail', k)] = queue'[k]
    <3>1. CASE k = Len(queue')
      <4>1. Slot(n, buf_tail, k) = buf_head
        BY <1>1, <2>4, <3>1 DEF MInv, Waiting, Slot
      <4>2. queue'[k] = ev
        BY <2>1, <2>4, <3>1 DEF MInv
      <4>3. QED
        BY <1>1, <2>1, <4>1, <4>2 DEF MInv
    <3>2. CASE k # Len(queue')
      <4>1. k \in 1 .. Len(queue)
        BY <2>4, <3>2
      <4>2. Slot(n, buf_tail, k) # buf_head /\ Slot(n, buf_tail, k) \in 0 .. (n - 1)
        BY <1>1, <2>4, <4>1 DEF MInv, Waiting, Slot
      <4>3. queue'[k] = queue[k]
        BY <2>1, <4>1 DEF MInv
      <4>4. mouse_buffer'[Slot(n, buf_tail, k)] = mouse_buffer[Slot(n, buf_tail, k)]
        BY <2>1, <4>2 DEF MInv
      <4>5. QED
        BY <4>1, <4>3, <4>4 DEF MInv
    <3>3. QED
      BY <3>1, <3>2
  <2>7. QED
    BY <2>1, <2>2, <2>3, <2>5, <2>6
<1>7. QED
  BY <1>5, <1>6

LEMMA IrqMInv ==
    ASSUME MInv, NEW m \in Movements, mouse_irq_handler(m)
    PROVE  MInv'
<1> DEFINE p == Append(packet, Packet(m)[Len(packet) + 1])
<1>1. m \in Reports
  BY MouseConstants DEF Reports
<1>2. needed \in {3, 4} /\ Len(packet) \in Nat /\ Len(packet) < needed
  BY DEF MInv, needed
<1>3. p \in Seq(Int) /\ Len(p) = Len(packet) + 1
  <2>1. Packet(m)[Len(packet) + 1] \in Int
    BY <1>1, <1>2, PacketBytes
  <2>2. QED
    BY <2>1 DEF MInv
<1>4. packet # <<>> => m = sending
  BY DEF mouse_irq_handler
<1>5. \A k \in 1 .. Len(p) : p[k] = Packet(m)[k]
  <2> SUFFICES ASSUME NEW k \in 1 .. Len(p) PROVE p[k] = Packet(m)[k]
    OBVIOUS
  <2>1. CASE k = Len(p)
    BY <1>3, <2>1 DEF MInv
  <2>2. CASE k # Len(p)
    <3>1. k \in 1 .. Len(packet) /\ packet # <<>>
      BY <1>2, <1>3, <2>2
    <3>2. p[k] = packet[k]
      BY <3>1 DEF MInv
    <3>3. packet[k] = Packet(sending)[k]
      BY <3>1 DEF MInv
    <3>4. QED
      BY <1>4, <3>1, <3>2, <3>3
  <2>3. QED
    BY <2>1, <2>2
<1>6. has_wheel' = has_wheel /\ buf_tail' = buf_tail /\ needed' = needed
  BY DEF mouse_irq_handler, needed
<1> HIDE DEF p
<1>7. CASE Len(p) < needed
  <2>1. packet' = p /\ sending' = m /\ UNCHANGED <<mouse_buffer, buf_head, queue>>
    BY <1>7 DEF mouse_irq_handler, p
  <2>2. /\ packet' \in Seq(Int) /\ Len(packet') < needed'
        /\ \A k \in 1 .. Len(packet') : packet'[k] = Packet(sending')[k]
        /\ sending' \in Reports
    BY <1>1, <1>3, <1>5, <1>6, <1>7, <2>1
  <2>3. QED
    BY <1>6, <2>1, <2>2, Zenon DEF MInv, Packet
<1>8. CASE ~(Len(p) < needed)
  <2>1. /\ packet' = <<>> /\ sending' = Still
        /\ buffer_push(Event(p))
        /\ queue' = IF Len(queue) < MOUSE_BUF_SIZE - 1 THEN Append(queue, AsSeen(m)) ELSE queue
    BY <1>8 DEF mouse_irq_handler, p
  <2>2. Len(p) = needed
    BY <1>2, <1>3, <1>8
  <2>3. Event(p) = AsSeen(m) /\ AsSeen(m) \in Reports
    BY <1>1, <1>3, <1>5, <2>2, DecodesPacket DEF MInv
  <2>4. /\ mouse_buffer' \in [0 .. (MOUSE_BUF_SIZE - 1) -> Reports]
        /\ buf_head' \in 0 .. (MOUSE_BUF_SIZE - 1)
        /\ queue' \in Seq(Reports)
        /\ Len(queue') = Waiting(MOUSE_BUF_SIZE, buf_head', buf_tail')
        /\ \A k \in 1 .. Len(queue') :
              mouse_buffer'[Slot(MOUSE_BUF_SIZE, buf_tail', k)] = queue'[k]
    BY <1>6, <2>1, <2>3, PushAppends
  <2>5. Still \in Reports
    BY DEF Still, Reports
  <2>6. /\ packet' \in Seq(Int) /\ Len(packet') < needed'
        /\ \A k \in 1 .. Len(packet') : packet'[k] = Packet(sending')[k]
    BY <1>2, <1>6, <2>1
  <2>7. QED
    BY <1>6, <2>1, <2>4, <2>5, <2>6, Zenon DEF MInv, Packet
<1>9. QED
  BY <1>7, <1>8

LEMMA ReadMInv ==
    ASSUME MInv, ReadAllEvents
    PROVE  MInv'
<1>1. Len(queue') = Waiting(MOUSE_BUF_SIZE, buf_head', buf_tail') /\ queue' \in Seq(Reports)
  BY DEF MInv, ReadAllEvents, Waiting
<1>2. \A k \in 1 .. Len(queue') : FALSE
  BY DEF ReadAllEvents
<1>3. needed' = needed
  BY DEF needed, ReadAllEvents
<1>4. QED
  BY <1>1, <1>2, <1>3, Zenon DEF MInv, ReadAllEvents

LEMMA IdleMInv ==
    ASSUME MInv, UNCHANGED mouse_vars
    PROVE  MInv'
BY Zenon DEF MInv, mouse_vars, needed

\* What each step of the system does to the mouse driver.
LEMMA NextMInv ==
    ASSUME MInv, [Next]_vars
    PROVE  MInv'
<1>1. ASSUME NEW l, NEW n, Call(l, n) PROVE UNCHANGED mouse_vars
  BY <1>1 DEF Call
<1>2. CASE Output
  <2>1. UNCHANGED mouse_vars
    BY <1>1, <1>2, Zenon DEF Output, PutChar, PutNewline, PutBackspace, vga_clear
  <2>2. QED
    BY <2>1, IdleMInv
<1>3. CASE Loops
  BY <1>3, IdleMInv DEF Loops, Load, Store, EndOfLoop
<1>4. CASE timer_tick
  BY <1>4, ReadMInv DEF timer_tick, text_cursor_tick
<1>5. CASE MouseByte
  BY <1>5, IrqMInv DEF MouseByte
<1>6. CASE cmd_mouse
  BY <1>6, IdleMInv DEF cmd_mouse
<1>7. CASE UNCHANGED vars
  BY <1>7, IdleMInv DEF vars
<1>8. QED
  BY <1>2, <1>3, <1>4, <1>5, <1>6, <1>7 DEF Next

LEMMA SpecMInv == Spec => []MInv
<1>1. Init => MInv
  BY MouseInitMInv DEF Init
<1>2. QED
  BY <1>1, NextMInv, PTL DEF Spec

\* mouse.c, buffer_push and mouse_read_event: the ring holds the movements that
\* the device reported, decoded and in order, and a full ring drops only the
\* newest, for every size of the ring, with and without a wheel.
THEOREM ScreenRing == Spec => []RingIsQueue
BY SpecMInv, RingFromInv, PTL

-----------------------------------------------------------------------------
(* The cells                                                                *)

Rows == 0 .. (VGA_HEIGHT - 1)
Columns == 0 .. (VGA_WIDTH - 1)

\* Every position on the screen has a cell.
LEMMA IndexInCells ==
    ASSUME NEW row \in Rows, NEW col \in Columns
    PROVE  Index(row, col) \in Cells
<1>1. VGA_WIDTH \in Nat \ {0} /\ VGA_HEIGHT \in Nat \ {0} /\ row \in Nat /\ col \in Nat
      /\ row <= VGA_HEIGHT - 1 /\ col <= VGA_WIDTH - 1
  BY ScreenConstants DEF Rows, Columns
<1>2. row * VGA_WIDTH \in Nat /\ VGA_WIDTH * VGA_HEIGHT \in Nat
  BY <1>1
<1>3. row * VGA_WIDTH <= VGA_WIDTH * VGA_HEIGHT - VGA_WIDTH
  <2>1. VGA_HEIGHT - 1 - row \in Nat
    BY <1>1
  <2>2. (VGA_HEIGHT - 1 - row) * VGA_WIDTH >= 0
    BY <1>1, <2>1
  <2>3. (VGA_HEIGHT - 1 - row) * VGA_WIDTH = VGA_WIDTH * VGA_HEIGHT - VGA_WIDTH - row * VGA_WIDTH
    BY <1>1
  <2>4. QED
    BY <1>1, <1>2, <2>2, <2>3
<1>4. QED
  BY <1>1, <1>2, <1>3 DEF Index, Cells, Size

LEMMA SizeInNat == Size \in Nat \ {0} /\ Size >= VGA_WIDTH
<1>1. VGA_WIDTH \in Nat \ {0} /\ VGA_HEIGHT \in Nat \ {0}
  BY ScreenConstants
<1>2. VGA_WIDTH * VGA_HEIGHT \in Nat
  BY <1>1
<1>3. VGA_WIDTH * (VGA_HEIGHT - 1) >= 0
  BY <1>1
<1>4. VGA_WIDTH * (VGA_HEIGHT - 1) = VGA_WIDTH * VGA_HEIGHT - VGA_WIDTH
  BY <1>1
<1>5. QED
  BY <1>1, <1>2, <1>3, <1>4 DEF Size

LEMMA NoneIsNoContent == None \notin Contents /\ Blank \in Contents /\ Block \in Contents
<1>1. None \notin Chars
  BY ScreenConstants DEF None
<1>2. QED
  BY <1>1 DEF Contents, None, Blank, Block

-----------------------------------------------------------------------------
(* The pointer                                                              *)

\* The record that the handler works on, as the events find it.
Drawing ==
    [back : [Cells -> Contents], front : [Cells -> Contents], row : Rows, col : Columns,
     saved : Contents \cup {None}, ax : -3 .. 3, ay : -3 .. 3, drawn : SUBSET Cells]

\* The handler has changed no cell but those in s.drawn.
OnlyDrawn(s) ==
    /\ s \in Drawing
    /\ \A c \in Cells \ s.drawn : s.back[c] = back_buffer[c] /\ s.front[c] = terminal_buffer[c]

LEMMA WriteOnlyDrawn ==
    ASSUME NEW s, OnlyDrawn(s), NEW value \in Contents
    PROVE  OnlyDrawn(vga_write_cell(s, value))
<1> DEFINE cell == Index(s.row, s.col)
           t == vga_write_cell(s, value)
<1>1. cell \in Cells
  BY IndexInCells DEF OnlyDrawn, Drawing
<1> HIDE DEF cell
<1>2. t = [s EXCEPT !.back = [s.back EXCEPT ![cell] = value],
                    !.front = [s.front EXCEPT ![cell] = value],
                    !.drawn = s.drawn \cup {cell}]
  BY DEF vga_write_cell, cell, OnlyDrawn, Drawing
<1> HIDE DEF t
<1> DEFINE b == [s.back EXCEPT ![cell] = value]
           f == [s.front EXCEPT ![cell] = value]
           d == s.drawn \cup {cell}
<1>3. b \in [Cells -> Contents] /\ f \in [Cells -> Contents] /\ d \in SUBSET Cells
  BY <1>1 DEF OnlyDrawn, Drawing
<1>4. t = [s EXCEPT !.back = b, !.front = f, !.drawn = d]
  BY <1>2
<1>5. \A c \in Cells \ d : b[c] = s.back[c] /\ f[c] = s.front[c] /\ c \notin s.drawn
  BY <1>1 DEF OnlyDrawn, Drawing
<1> HIDE DEF b, f, d
<1>6. t \in Drawing /\ t.back = b /\ t.front = f /\ t.drawn = d
  BY <1>3, <1>4 DEF OnlyDrawn, Drawing
<1>7. QED
  BY <1>5, <1>6, Zenon DEF OnlyDrawn, t

LEMMA SavedOnlyDrawn ==
    ASSUME NEW s, OnlyDrawn(s), NEW v \in Contents \cup {None}
    PROVE  OnlyDrawn([s EXCEPT !.saved = v])
<1> DEFINE t == [s EXCEPT !.saved = v]
<1>1. t \in Drawing /\ t.back = s.back /\ t.front = s.front /\ t.drawn = s.drawn
  BY DEF OnlyDrawn, Drawing
<1> HIDE DEF t
<1>2. OnlyDrawn(t)
  BY <1>1, Zenon DEF OnlyDrawn
<1>3. QED
  BY <1>2 DEF t

LEMMA DrawOnlyDrawn ==
    ASSUME NEW s, OnlyDrawn(s)
    PROVE  OnlyDrawn(text_cursor_draw(s))
<1> DEFINE r == restore_cell(s)
           v == r.back[Index(r.row, r.col)]
<1>1. OnlyDrawn(r)
  <2>1. CASE s.saved = None
    BY <2>1 DEF restore_cell
  <2>2. CASE s.saved # None
    <3>1. s.saved \in Contents
      BY <2>2 DEF OnlyDrawn, Drawing
    <3>2. OnlyDrawn(vga_write_cell(s, s.saved))
      BY <3>1, WriteOnlyDrawn
    <3>3. OnlyDrawn([vga_write_cell(s, s.saved) EXCEPT !.saved = None])
      BY <3>2, SavedOnlyDrawn, Zenon
    <3>4. QED
      BY <2>2, <3>3, Zenon DEF restore_cell
  <2>3. QED
    BY <2>1, <2>2
<1> HIDE DEF r
<1>2. Index(r.row, r.col) \in Cells
  BY <1>1, IndexInCells DEF OnlyDrawn, Drawing
<1>3. v \in Contents
  BY <1>1, <1>2 DEF OnlyDrawn, Drawing
<1> HIDE DEF v
<1>4. OnlyDrawn([r EXCEPT !.saved = v])
  BY <1>1, <1>3, SavedOnlyDrawn
<1>5. OnlyDrawn(vga_write_cell([r EXCEPT !.saved = v], Block))
  BY <1>4, NoneIsNoContent, WriteOnlyDrawn
<1>6. QED
  BY <1>5, Zenon DEF text_cursor_draw, r, v

\* Less than a step of four is left in an accumulator.
LEMMA RestIsSmall ==
    ASSUME NEW a \in Int
    PROVE  Steps(a) \in Int /\ a - 4 * Steps(a) \in -3 .. 3
BY DEF Steps

LEMMA ClampInRange ==
    ASSUME NEW v \in Int, NEW max \in Nat
    PROVE  Clamp(v, max) \in 0 .. max
BY DEF Clamp

LEMMA EventOnlyDrawn ==
    ASSUME NEW s, OnlyDrawn(s), NEW ev \in Reports
    PROVE  OnlyDrawn(text_cursor_handle_event(s, ev))
<1> DEFINE ax == s.ax + ev.dx
           ay == s.ay + ev.dy
           rx == ax - 4 * Steps(ax)
           ry == ay - 4 * Steps(ay)
           col == Clamp(s.col + Steps(ax), VGA_WIDTH - 1)
           row == Clamp(s.row + Steps(ay), VGA_HEIGHT - 1)
           moved == [s EXCEPT !.ax = rx, !.ay = ry, !.col = col, !.row = row]
<1>1. s.ax \in Int /\ s.ay \in Int /\ ev.dx \in Int /\ ev.dy \in Int
      /\ s.col \in Int /\ s.row \in Int
  BY DEF OnlyDrawn, Drawing, Reports, Rows, Columns
<1>2. ax \in Int /\ ay \in Int
  BY <1>1
<1>3. text_cursor_handle_event(s, ev) =
          IF Steps(ax) # 0 \/ Steps(ay) # 0 THEN text_cursor_draw(moved) ELSE moved
  BY DEF text_cursor_handle_event
<1> HIDE DEF ax, ay
<1>4. Steps(ax) \in Int /\ Steps(ay) \in Int /\ rx \in -3 .. 3 /\ ry \in -3 .. 3
  BY <1>2, RestIsSmall
<1>5. col \in Columns /\ row \in Rows
  <2>1. s.col + Steps(ax) \in Int /\ s.row + Steps(ay) \in Int
    BY <1>1, <1>4
  <2>2. VGA_WIDTH - 1 \in Nat /\ VGA_HEIGHT - 1 \in Nat
    BY ScreenConstants
  <2>3. QED
    BY <2>1, <2>2, ClampInRange, Zenon DEF Rows, Columns
<1> HIDE DEF rx, ry, col, row
<1>6. moved \in Drawing /\ moved.back = s.back /\ moved.front = s.front /\ moved.drawn = s.drawn
  BY <1>4, <1>5 DEF OnlyDrawn, Drawing
<1> HIDE DEF moved
<1>7. OnlyDrawn(moved)
  BY <1>6, Zenon DEF OnlyDrawn
<1>8. OnlyDrawn(text_cursor_draw(moved))
  BY <1>7, DrawOnlyDrawn
<1>9. QED
  BY <1>3, <1>7, <1>8, Zenon

-----------------------------------------------------------------------------
(* All events of a tick                                                     *)

\* A set of numbers that is not empty has a least element.
LEMMA LowestOf ==
    ASSUME NEW S, S \subseteq Nat, S # {}
    PROVE  \E f \in S : \A g \in S : f <= g
<1>1. IsWellFoundedOn(OpToRel(<, Nat), Nat)
  BY NatLessThanWellFounded
<1>2. PICK f \in S : \A g \in S : ~ (<<g, f>> \in OpToRel(<, Nat))
  BY <1>1, WFMin
<1>3. ASSUME NEW g \in S PROVE f <= g
  <2>1. f \in Nat /\ g \in Nat
    OBVIOUS
  <2>2. <<g, f>> \in Nat \X Nat /\ <<g, f>>[1] = g /\ <<g, f>>[2] = f
    BY <2>1
  <2>3. ~ (<<g, f>>[1] < <<g, f>>[2])
    BY <1>2, <2>2, Zenon DEF OpToRel
  <2>4. QED
    BY <2>1, <2>3
<1>4. QED
  BY <1>2, <1>3

Start == [back |-> back_buffer, front |-> terminal_buffer,
          row |-> tcur_row, col |-> tcur_col, saved |-> saved_cell,
          ax |-> accum_x, ay |-> accum_y, drawn |-> {}]
AfterDef(f) ==
    f = [k \in 0 .. Len(InBuffer) |->
            IF k = 0 THEN Start ELSE text_cursor_handle_event(f[k - 1], InBuffer[k])]
\* f is right for the first n events.
AfterUpTo(n, f) ==
    \A k \in 0 .. n :
        f[k] = IF k = 0 THEN Start ELSE text_cursor_handle_event(f[k - 1], InBuffer[k])

LEMMA AfterExists ==
    ASSUME NEW n \in Nat
    PROVE  \E f : AfterUpTo(n, f)
<1> DEFINE D == {m \in Nat : ~ \E f : AfterUpTo(m, f)}
<1>1. SUFFICES ASSUME D # {} PROVE FALSE
  OBVIOUS
<1>2. PICK m \in D : \A j \in D : m <= j
  BY <1>1, LowestOf
<1>3. m \in Nat /\ ~ \E f : AfterUpTo(m, f)
  BY <1>2
<1>4. CASE m = 0
  <2>1. AfterUpTo(m, [k \in {0} |-> Start])
    BY <1>4 DEF AfterUpTo
  <2>2. QED
    BY <1>3, <2>1
<1>5. CASE m # 0
  <2>1. m - 1 \in Nat /\ m - 1 < m
    BY <1>3, <1>5
  <2>2. m - 1 \notin D
    BY <1>2, <1>3, <2>1
  <2>3. PICK f : AfterUpTo(m - 1, f)
    BY <2>1, <2>2
  <2> DEFINE e == text_cursor_handle_event(f[m - 1], InBuffer[m])
             g == [k \in 0 .. m |-> IF k = m THEN e ELSE f[k]]
  <2>4. g[m] = e /\ \A k \in 0 .. (m - 1) : g[k] = f[k]
    BY <1>3
  <2>5. ASSUME NEW k \in 0 .. m
        PROVE  g[k] = IF k = 0 THEN Start ELSE text_cursor_handle_event(g[k - 1], InBuffer[k])
    <3>1. CASE k = m
      <4>1. m - 1 \in 0 .. (m - 1)
        BY <2>1
      <4>2. g[m - 1] = f[m - 1]
        BY <2>4, <4>1
      <4> HIDE DEF g
      <4>3. QED
        BY <1>5, <2>4, <3>1, <4>2, Zenon
    <3>2. CASE k # m
      <4>1. k \in 0 .. (m - 1) /\ (k # 0 => k - 1 \in 0 .. (m - 1))
        BY <1>3, <3>2
      <4>2. f[k] = IF k = 0 THEN Start ELSE text_cursor_handle_event(f[k - 1], InBuffer[k])
        BY <2>3, <4>1 DEF AfterUpTo
      <4> HIDE DEF g
      <4>3. QED
        BY <2>4, <4>1, <4>2, Zenon
    <3>3. QED
      BY <3>1, <3>2
  <2> HIDE DEF g
  <2>6. AfterUpTo(m, g)
    BY <2>5 DEF AfterUpTo
  <2>7. QED
    BY <1>3, <2>6
<1>6. QED
  BY <1>4, <1>5

\* After is what its definition says.
LEMMA AfterSolves ==
    ASSUME Len(InBuffer) \in Nat
    PROVE  AfterDef(After)
<1>1. PICK f : AfterUpTo(Len(InBuffer), f)
  BY AfterExists
<1> DEFINE g == [k \in 0 .. Len(InBuffer) |-> f[k]]
<1>2. \A k \in 0 .. Len(InBuffer) :
         g[k] = IF k = 0 THEN Start ELSE text_cursor_handle_event(g[k - 1], InBuffer[k])
  <2> SUFFICES ASSUME NEW k \in 0 .. Len(InBuffer)
               PROVE  g[k] = IF k = 0 THEN Start ELSE text_cursor_handle_event(g[k - 1], InBuffer[k])
    OBVIOUS
  <2>1. k # 0 => k - 1 \in 0 .. Len(InBuffer)
    OBVIOUS
  <2>2. f[k] = IF k = 0 THEN Start ELSE text_cursor_handle_event(f[k - 1], InBuffer[k])
    BY <1>1 DEF AfterUpTo
  <2>3. g[k] = f[k] /\ (k # 0 => g[k - 1] = f[k - 1])
    BY <2>1
  <2> HIDE DEF g
  <2>4. QED
    BY <2>2, <2>3, Zenon
<1>3. g = [k \in 0 .. Len(InBuffer) |-> g[k]]
  BY Zenon
<1> HIDE DEF g
<1>4. AfterDef(g)
  BY <1>2, <1>3, Zenon DEF AfterDef
<1>5. After = CHOOSE h : AfterDef(h)
  BY Zenon DEF After, AfterDef, Start
<1>6. QED
  BY <1>4, <1>5, Zenon

\* The events change no cell but those they draw in.
LEMMA AfterOnlyDrawn ==
    ASSUME OnlyDrawn(Start), InBuffer \in Seq(Reports)
    PROVE  OnlyDrawn(After[Len(InBuffer)])
<1>1. Len(InBuffer) \in Nat
  OBVIOUS
<1>2. AfterDef(After)
  BY <1>1, AfterSolves
<1>3. \A k \in 0 .. Len(InBuffer) :
         After[k] = IF k = 0 THEN Start ELSE text_cursor_handle_event(After[k - 1], InBuffer[k])
  BY <1>2, Zenon DEF AfterDef
<1> DEFINE D == {k \in 0 .. Len(InBuffer) : ~OnlyDrawn(After[k])}
<1>4. D = {}
  <2> SUFFICES ASSUME D # {} PROVE FALSE
    OBVIOUS
  <2>1. D \subseteq Nat
    OBVIOUS
  <2>2. PICK k \in D : \A j \in D : k <= j
    BY <2>1, LowestOf
  <2>3. k \in 0 .. Len(InBuffer) /\ ~OnlyDrawn(After[k])
    BY <2>2
  <2>4. CASE k = 0
    <3>1. After[k] = Start
      BY <1>3, <2>3, <2>4, Zenon
    <3>2. QED
      BY <2>3, <3>1
  <2>5. CASE k # 0
    <3>1. k - 1 \in 0 .. Len(InBuffer) /\ ~(k <= k - 1) /\ k \in 1 .. Len(InBuffer)
      BY <2>3, <2>5
    <3>2. OnlyDrawn(After[k - 1])
      BY <2>2, <3>1
    <3>3. InBuffer[k] \in Reports
      BY <3>1
    <3>4. OnlyDrawn(text_cursor_handle_event(After[k - 1], InBuffer[k]))
      BY <3>2, <3>3, EventOnlyDrawn
    <3>5. After[k] = text_cursor_handle_event(After[k - 1], InBuffer[k])
      BY <1>3, <2>3, <2>5, Zenon
    <3>6. QED
      BY <2>3, <3>4, <3>5
  <2>6. QED
    BY <2>4, <2>5
<1>5. Len(InBuffer) \in 0 .. Len(InBuffer)
  BY <1>1
<1>6. QED
  BY <1>4, <1>5, Zenon

-----------------------------------------------------------------------------
(* The printing loops                                                       *)

\* A flush has copied the cells below its index, except where the pointer was
\* drawn meanwhile, and every other loop is followed by a flush.
SInv ==
    /\ TypeOK
    /\ flushes \in Nat
    /\ pc \in {"scroll", "clear"} => flushes > 0
    /\ pc # "idle" => gone = {}
    /\ pc = "idle" =>
        \A c \in Cells \ (gone \cup drawn) : terminal_buffer[c] = back_buffer[c]
    /\ pc = "flush" =>
        /\ \A c \in Cells \ drawn : c < i => terminal_buffer[c] = back_buffer[c]
        /\ reg # None /\ i \in Cells \ drawn => reg = back_buffer[i]

LEMMA InitSInv ==
    ASSUME Init
    PROVE  SInv
<1>1. VGA_WIDTH \in Nat \ {0} /\ VGA_HEIGHT \in Nat \ {0} /\ Size \in Nat
  BY ScreenConstants, SizeInNat
<1>2. Blank \in Contents
  BY NoneIsNoContent
<1>3. TypeOK
  BY <1>1, <1>2 DEF Init, TypeOK
<1>4. QED
  BY <1>3 DEF Init, SInv

LEMMA PutCharSInv ==
    ASSUME SInv, NEW ch \in Chars, PutChar(ch)
    PROVE  SInv'
<1> DEFINE cell == Index(terminal_row, terminal_column)
<1>1. VGA_WIDTH \in Nat \ {0} /\ VGA_HEIGHT \in Nat \ {0} /\ Size \in Nat
  BY ScreenConstants, SizeInNat
<1>2. /\ pc = "idle"
      /\ back_buffer' = [back_buffer EXCEPT ![cell] = ch]
      /\ terminal_buffer' = terminal_buffer
      /\ terminal_row' = NextRow /\ terminal_column' = NextColumn
      /\ gone' = {}
  BY DEF PutChar
<1>3. /\ IF Scrolls(NextRow) THEN pc' = "scroll" /\ flushes' = 2 ELSE pc' = "flush" /\ flushes' = 0
      /\ i' = 0 /\ reg' = None
      /\ UNCHANGED pointer
  BY Zenon DEF PutChar, Call
<1>4. terminal_row \in Rows /\ terminal_column \in Columns
  BY <1>2 DEF SInv, TypeOK, Rows, Columns
<1>5. cell \in Cells
  BY <1>4, IndexInCells
<1>6. back_buffer' \in [Cells -> Contents] /\ terminal_buffer' \in [Cells -> Contents]
  BY <1>2, <1>5 DEF SInv, TypeOK, Contents
<1>7. NextRow \in 0 .. VGA_HEIGHT /\ NextColumn \in Columns
  BY <1>1, <1>4 DEF NextRow, NextColumn, Rows, Columns
<1>8. ~Scrolls(NextRow) => NextRow \in Rows
  BY <1>1, <1>7 DEF Scrolls, Rows
<1>9. TypeOK'
  BY <1>1, <1>2, <1>3, <1>6, <1>7, <1>8 DEF SInv, TypeOK, pointer, Rows, Columns
<1>10. \A c \in Cells : ~(c < i')
  BY <1>1, <1>3 DEF Cells
<1>11. QED
  BY <1>2, <1>3, <1>9, <1>10 DEF SInv

LEMMA PutNewlineSInv ==
    ASSUME SInv, PutNewline
    PROVE  SInv'
<1>1. VGA_WIDTH \in Nat \ {0} /\ VGA_HEIGHT \in Nat \ {0} /\ Size \in Nat
  BY ScreenConstants, SizeInNat
<1>2. /\ pc = "idle"
      /\ UNCHANGED screen
      /\ terminal_row' = terminal_row + 1 /\ terminal_column' = 0
  BY DEF PutNewline
<1>3. /\ IF Scrolls(terminal_row + 1)
         THEN pc' = "scroll" /\ flushes' = 1 /\ gone' = {}
         ELSE pc' = "idle" /\ flushes' = 0 /\ gone' = gone
      /\ i' = 0 /\ reg' = None /\ drawn' = drawn
      /\ UNCHANGED pointer
  BY Zenon DEF PutNewline, Call
<1>4. terminal_row \in Rows
  BY <1>2 DEF SInv, TypeOK, Rows
<1>5. terminal_row' \in 0 .. VGA_HEIGHT /\ (~Scrolls(terminal_row + 1) => terminal_row' \in Rows)
  BY <1>1, <1>2, <1>4 DEF Scrolls, Rows
<1>6. TypeOK'
  BY <1>1, <1>2, <1>3, <1>5 DEF SInv, TypeOK, pointer, screen, Rows
<1>7. QED
  BY <1>2, <1>3, <1>6 DEF SInv, screen

LEMMA PutBackspaceSInv ==
    ASSUME SInv, PutBackspace
    PROVE  SInv'
<1> DEFINE cell == Index(BackRow, BackColumn)
<1>1. VGA_WIDTH \in Nat \ {0} /\ VGA_HEIGHT \in Nat \ {0} /\ Size \in Nat
  BY ScreenConstants, SizeInNat
<1>2. /\ pc = "idle"
      /\ back_buffer' = back_buffer
      /\ terminal_buffer' = [terminal_buffer EXCEPT ![cell] = Blank]
      /\ terminal_row' = BackRow /\ terminal_column' = BackColumn
      /\ gone' = gone \cup {cell}
  BY DEF PutBackspace
<1>3. pc' = "idle" /\ flushes' = 0 /\ i' = 0 /\ reg' = None /\ drawn' = drawn /\ UNCHANGED pointer
  BY DEF PutBackspace, Call
<1>4. terminal_row \in Rows /\ terminal_column \in Columns
  BY <1>2 DEF SInv, TypeOK, Rows, Columns
<1>5. BackRow \in Rows /\ BackColumn \in Columns
  BY <1>1, <1>4 DEF BackRow, BackColumn, Rows, Columns
<1>6. cell \in Cells
  BY <1>5, IndexInCells
<1> HIDE DEF cell
<1>7. terminal_buffer' \in [Cells -> Contents]
  BY <1>2, <1>6, NoneIsNoContent DEF SInv, TypeOK
<1>8. TypeOK'
  BY <1>1, <1>2, <1>3, <1>5, <1>7 DEF SInv, TypeOK, pointer, Rows, Columns
<1>9. \A c \in Cells \ (gone' \cup drawn') : terminal_buffer'[c] = back_buffer'[c]
  <2> SUFFICES ASSUME NEW c \in Cells, c \notin gone', c \notin drawn'
               PROVE  terminal_buffer'[c] = back_buffer'[c]
    OBVIOUS
  <2>1. c # cell /\ c \notin gone /\ c \notin drawn
    BY <1>2, <1>3
  <2>2. terminal_buffer'[c] = terminal_buffer[c]
    BY <1>2, <2>1 DEF SInv, TypeOK
  <2>3. QED
    BY <1>2, <2>1, <2>2 DEF SInv
<1>10. QED
  BY <1>3, <1>8, <1>9 DEF SInv

LEMMA ClearSInv ==
    ASSUME SInv, vga_clear
    PROVE  SInv'
<1>1. VGA_WIDTH \in Nat \ {0} /\ VGA_HEIGHT \in Nat \ {0} /\ Size \in Nat
  BY ScreenConstants, SizeInNat
<1>2. /\ pc' = "clear" /\ flushes' = 1 /\ i' = 0 /\ reg' = None /\ gone' = {}
      /\ terminal_row' = 0 /\ terminal_column' = 0
      /\ UNCHANGED screen /\ UNCHANGED pointer
  BY DEF vga_clear, Call
<1>3. TypeOK'
  BY <1>1, <1>2 DEF SInv, TypeOK, pointer, screen
<1>4. QED
  BY <1>2, <1>3 DEF SInv

LEMMA EndOfLoopSInv ==
    ASSUME SInv, EndOfLoop
    PROVE  SInv'
<1>1. VGA_WIDTH \in Nat \ {0} /\ VGA_HEIGHT \in Nat \ {0} /\ Size \in Nat
  BY ScreenConstants, SizeInNat
<1>2. /\ pc # "idle" /\ i = Size /\ i' = 0 /\ reg' = None
      /\ terminal_row' = (IF pc = "scroll" THEN VGA_HEIGHT - 1 ELSE terminal_row)
      /\ UNCHANGED <<screen, terminal_column, pointer, gone>>
  BY DEF EndOfLoop
<1>3. terminal_row' \in Rows
  BY <1>1, <1>2 DEF SInv, TypeOK, Rows
<1>4. \A c \in Cells : c < i /\ ~(c < i')
  BY <1>1, <1>2 DEF Cells
<1>5. CASE flushes > 0
  <2>1. pc' = "flush" /\ flushes' = flushes - 1
    BY <1>5 DEF EndOfLoop
  <2>2. flushes' \in Nat
    BY <1>5, <2>1 DEF SInv
  <2>3. TypeOK'
    BY <1>1, <1>2, <1>3, <2>1 DEF SInv, TypeOK, pointer, screen, Rows
  <2>4. QED
    BY <1>2, <1>4, <2>1, <2>2, <2>3 DEF SInv
<1>6. CASE ~(flushes > 0)
  <2>1. pc' = "idle" /\ flushes' = flushes /\ drawn' = drawn
    BY <1>6 DEF EndOfLoop
  <2>2. pc = "flush" /\ gone = {}
    BY <1>2, <1>6 DEF SInv, TypeOK
  <2>3. TypeOK'
    BY <1>1, <1>2, <1>3, <2>1 DEF SInv, TypeOK, pointer, screen, Rows
  <2>4. \A c \in Cells \ (gone' \cup drawn') : terminal_buffer'[c] = back_buffer'[c]
    BY <1>2, <1>4, <2>1, <2>2 DEF SInv, screen
  <2>5. QED
    BY <2>1, <2>3, <2>4 DEF SInv
<1>7. QED
  BY <1>5, <1>6

LEMMA LoadSInv ==
    ASSUME SInv, Load
    PROVE  SInv'
<1>1. VGA_WIDTH \in Nat \ {0} /\ VGA_HEIGHT \in Nat \ {0} /\ Size \in Nat
  BY ScreenConstants, SizeInNat
<1>2. /\ pc # "idle" /\ i < Size /\ reg' = Source /\ Copies
      /\ UNCHANGED <<screen, position, pc, i, flushes, pointer, gone, drawn>>
  BY DEF Load, history
<1>3. i \in Cells /\ (pc # "flush" => i + VGA_WIDTH \in Cells)
  BY <1>1, <1>2 DEF SInv, TypeOK, Cells, Copies
<1>4. Source \in Contents
  BY <1>2, <1>3 DEF SInv, TypeOK, Source, Copies
<1>5. pc = "flush" => reg' = back_buffer[i]
  BY <1>2 DEF Source
<1>6. TypeOK'
  BY <1>2, <1>4 DEF SInv, TypeOK, screen, position, pointer
<1>7. QED
  BY <1>2, <1>5, <1>6 DEF SInv, screen

LEMMA StoreSInv ==
    ASSUME SInv, Store
    PROVE  SInv'
<1>1. VGA_WIDTH \in Nat \ {0} /\ VGA_HEIGHT \in Nat \ {0} /\ Size \in Nat
  BY ScreenConstants, SizeInNat
<1>2. /\ pc # "idle" /\ i < Size /\ i' = i + 1 /\ reg' = None
      /\ Copies => reg # None
      /\ UNCHANGED <<position, pc, flushes, pointer, gone, drawn>>
  BY DEF Store, history
<1>3. i \in Cells /\ i' \in 0 .. Size
  BY <1>1, <1>2 DEF SInv, TypeOK, Cells
<1>4. CASE pc = "flush"
  <2>1. /\ terminal_buffer' = [terminal_buffer EXCEPT ![i] = reg]
        /\ back_buffer' = back_buffer /\ reg # None
    BY <1>2, <1>4 DEF Store, Copies
  <2>2. terminal_buffer' \in [Cells -> Contents]
    BY <2>1 DEF SInv, TypeOK
  <2>3. TypeOK'
    BY <1>2, <1>3, <2>1, <2>2 DEF SInv, TypeOK, position, pointer
  <2>4. ASSUME NEW c \in Cells, c \notin drawn, c < i + 1
        PROVE  terminal_buffer'[c] = back_buffer[c]
    <3>1. CASE c = i
      BY <1>4, <2>1, <2>4, <3>1 DEF SInv, TypeOK
    <3>2. CASE c # i
      <4>1. c < i
        BY <1>1, <1>3, <2>4, <3>2 DEF Cells
      <4>2. terminal_buffer'[c] = terminal_buffer[c]
        BY <2>1, <3>2 DEF SInv, TypeOK
      <4>3. QED
        BY <1>4, <2>4, <4>1, <4>2 DEF SInv
    <3>3. QED
      BY <3>1, <3>2
  <2>5. QED
    BY <1>2, <1>4, <2>1, <2>3, <2>4 DEF SInv
<1>5. CASE pc # "flush"
  <2> DEFINE v == IF Copies THEN reg ELSE Blank
  <2>1. back_buffer' = [back_buffer EXCEPT ![i] = v] /\ terminal_buffer' = terminal_buffer
    BY <1>5, Zenon DEF Store
  <2>2. v \in Contents
    BY <1>2, NoneIsNoContent DEF SInv, TypeOK
  <2> HIDE DEF v
  <2>3. TypeOK'
    BY <1>2, <1>3, <2>1, <2>2 DEF SInv, TypeOK, position, pointer
  <2>4. QED
    BY <1>2, <1>5, <2>3 DEF SInv
<1>6. QED
  BY <1>4, <1>5

\* The interrupt handler that draws the pointer.
LEMMA TickOnlyDrawn ==
    ASSUME SInv, MInv
    PROVE  OnlyDrawn(After[Len(InBuffer)])
<1>1. InBuffer \in Seq(Reports)
  BY RingFromInv DEF MInv, RingIsQueue
<1>2. Start \in Drawing
  BY DEF Start, Drawing, SInv, TypeOK, Rows, Columns
<1>3. Start.back = back_buffer /\ Start.front = terminal_buffer
  BY DEF Start
<1>4. OnlyDrawn(Start)
  BY <1>2, <1>3 DEF OnlyDrawn
<1>5. QED
  BY <1>1, <1>4, AfterOnlyDrawn

\* An interrupt that draws the pointer, at any moment of any loop.
LEMMA TickSInv ==
    ASSUME SInv, MInv, text_cursor_tick
    PROVE  SInv'
<1> DEFINE s == After[Len(InBuffer)]
<1>1. OnlyDrawn(s)
  BY TickOnlyDrawn
<1>2. /\ back_buffer' = s.back /\ terminal_buffer' = s.front
      /\ tcur_row' = s.row /\ tcur_col' = s.col /\ saved_cell' = s.saved
      /\ accum_x' = s.ax /\ accum_y' = s.ay
      /\ drawn' = drawn \cup s.drawn
      /\ gone' = gone \ s.drawn
      /\ UNCHANGED <<position, loop>>
  BY Zenon DEF text_cursor_tick
<1> HIDE DEF s
<1>3. TypeOK'
  BY <1>1, <1>2 DEF SInv, TypeOK, OnlyDrawn, Drawing, position, loop, Rows, Columns
<1>4. ASSUME NEW c \in Cells \ s.drawn
      PROVE  back_buffer'[c] = back_buffer[c] /\ terminal_buffer'[c] = terminal_buffer[c]
  BY <1>1, <1>2 DEF OnlyDrawn
<1>5. pc' = "idle" =>
         \A c \in Cells \ (gone' \cup drawn') : terminal_buffer'[c] = back_buffer'[c]
  <2> SUFFICES ASSUME pc' = "idle", NEW c \in Cells, c \notin gone', c \notin drawn'
               PROVE  terminal_buffer'[c] = back_buffer'[c]
    OBVIOUS
  <2>1. pc = "idle" /\ c \notin s.drawn /\ c \notin drawn /\ c \notin gone
    BY <1>2 DEF loop
  <2>2. QED
    BY <1>4, <2>1 DEF SInv
<1>6. pc' = "flush" =>
        /\ \A c \in Cells \ drawn' : c < i' => terminal_buffer'[c] = back_buffer'[c]
        /\ reg' # None /\ i' \in Cells \ drawn' => reg' = back_buffer'[i']
  <2> SUFFICES ASSUME pc' = "flush"
               PROVE  /\ \A c \in Cells \ drawn' : c < i' => terminal_buffer'[c] = back_buffer'[c]
                      /\ reg' # None /\ i' \in Cells \ drawn' => reg' = back_buffer'[i']
    OBVIOUS
  <2>1. pc = "flush" /\ i' = i /\ reg' = reg
    BY <1>2 DEF loop
  <2>2. ASSUME NEW c \in Cells, c \notin drawn' PROVE c \notin drawn /\ c \notin s.drawn
    BY <1>2, <2>2
  <2>3. QED
    BY <1>4, <2>1, <2>2 DEF SInv
<1>7. QED
  BY <1>2, <1>3, <1>5, <1>6 DEF SInv, loop

\* The steps that leave the screen alone.
LEMMA IdleSInv ==
    ASSUME SInv, UNCHANGED <<screen, position, loop, pointer, gone, drawn>>
    PROVE  SInv'
BY DEF SInv, TypeOK, screen, position, loop, pointer

LEMMA NextSInv ==
    ASSUME SInv, MInv, [Next]_vars
    PROVE  SInv'
<1>1. CASE Output
  BY <1>1, PutCharSInv, PutNewlineSInv, PutBackspaceSInv, ClearSInv DEF Output
<1>2. CASE Loops
  BY <1>2, LoadSInv, StoreSInv, EndOfLoopSInv DEF Loops
<1>3. CASE timer_tick
  BY <1>3, TickSInv DEF timer_tick
<1>4. CASE MouseByte
  BY <1>4, IdleSInv DEF MouseByte, history
<1>5. CASE cmd_mouse
  BY <1>5, IdleSInv DEF cmd_mouse, history
<1>6. CASE UNCHANGED vars
  BY <1>6, IdleSInv DEF vars, history
<1>7. QED
  BY <1>1, <1>2, <1>3, <1>4, <1>5, <1>6 DEF Next

\* vga.c, text_cursor.c: when vga_putchar or vga_clear has returned, the video
\* memory shows the back buffer, except for the cells a backspace has erased
\* and those the pointer was drawn in; the row is beyond the screen only while
\* vga_scroll runs, and every cell that is read or written is on the screen.
THEOREM ScreenIsCoherent == Spec => []ScreenCoherent
<1>1. Init => SInv
  BY InitSInv
<1>2. SInv /\ MInv /\ [Next]_vars => SInv'
  BY NextSInv
<1>3. SInv => ScreenCoherent
  BY DEF SInv, ScreenCoherent
<1>4. QED
  BY <1>1, <1>2, <1>3, SpecMInv, PTL DEF Spec

-----------------------------------------------------------------------------
(* Where the characters of a text go                                        *)

Letters == Chars \cup {Newline}
Advance(p, ch) ==
    IF ch = Newline \/ p[2] + 1 = VGA_WIDTH THEN <<p[1] + 1, 0>> ELSE <<p[1], p[2] + 1>>
PlaceDef(t, f) ==
    f = [n \in 0 .. Len(t) |-> IF n = 0 THEN <<0, 0>> ELSE Advance(f[n - 1], t[n])]
\* Place, for any text t.
PlaceFn(t) == CHOOSE f : PlaceDef(t, f)

LEMMA PlaceIs == Place = PlaceFn(text)
BY Zenon DEF Place, PlaceFn, PlaceDef, Advance

\* Two solutions of the definition are the same.
LEMMA PlaceUnique ==
    ASSUME NEW t, Len(t) \in Nat, NEW f, PlaceDef(t, f), NEW g, PlaceDef(t, g)
    PROVE  f = g
<1> DEFINE D == {n \in 0 .. Len(t) : f[n] # g[n]}
<1>1. \A n \in 0 .. Len(t) : f[n] = IF n = 0 THEN <<0, 0>> ELSE Advance(f[n - 1], t[n])
  BY Zenon DEF PlaceDef
<1>2. \A n \in 0 .. Len(t) : g[n] = IF n = 0 THEN <<0, 0>> ELSE Advance(g[n - 1], t[n])
  BY Zenon DEF PlaceDef
<1>3. D = {}
  <2> SUFFICES ASSUME D # {} PROVE FALSE
    OBVIOUS
  <2>1. PICK n \in D : \A m \in D : n <= m
    <3>1. D \subseteq Nat
      OBVIOUS
    <3>2. QED
      BY <3>1, LowestOf
  <2>2. n \in 0 .. Len(t) /\ f[n] # g[n]
    BY <2>1
  <2>3. n # 0
    BY <1>1, <1>2, <2>2, Zenon
  <2>4. n - 1 \in 0 .. Len(t) /\ ~(n <= n - 1)
    BY <2>2, <2>3
  <2>5. f[n - 1] = g[n - 1]
    BY <2>1, <2>4
  <2>6. QED
    BY <1>1, <1>2, <2>2, <2>3, <2>5, Zenon
<1>4. \A n \in 0 .. Len(t) : f[n] = g[n]
  BY <1>3, Zenon
<1>5. f = [n \in 0 .. Len(t) |-> f[n]] /\ g = [n \in 0 .. Len(t) |-> g[n]]
  BY Zenon DEF PlaceDef
<1>6. QED
  BY <1>4, <1>5, Zenon

LEMMA PlaceEmpty == PlaceDef(<<>>, PlaceFn(<<>>)) /\ PlaceFn(<<>>)[0] = <<0, 0>>
<1> DEFINE f == [n \in 0 .. Len(<<>>) |-> <<0, 0>>]
<1>1. \A n \in 0 .. Len(<<>>) : n = 0
  OBVIOUS
<1>2. PlaceDef(<<>>, f)
  BY <1>1 DEF PlaceDef
<1> HIDE DEF f
<1>3. PlaceDef(<<>>, PlaceFn(<<>>))
  BY <1>2, Zenon DEF PlaceFn
<1>4. 0 \in 0 .. Len(<<>>)
  OBVIOUS
<1>5. QED
  BY <1>3, <1>4, Zenon DEF PlaceDef

\* A character more leaves the places of the others as they are.
LEMMA PlaceAppend ==
    ASSUME NEW t \in Seq(Letters), NEW ch \in Letters, PlaceDef(t, PlaceFn(t))
    PROVE  /\ PlaceDef(Append(t, ch), PlaceFn(Append(t, ch)))
           /\ \A n \in 0 .. Len(t) : PlaceFn(Append(t, ch))[n] = PlaceFn(t)[n]
           /\ PlaceFn(Append(t, ch))[Len(t) + 1] = Advance(PlaceFn(t)[Len(t)], ch)
<1> DEFINE u == Append(t, ch)
           f == PlaceFn(t)
           e == Advance(f[Len(t)], ch)
           g == [n \in 0 .. Len(u) |-> IF n = Len(t) + 1 THEN e ELSE f[n]]
<1>1. u \in Seq(Letters) /\ Len(u) = Len(t) + 1 /\ Len(t) \in Nat /\ u[Len(t) + 1] = ch
      /\ \A n \in 1 .. Len(t) : u[n] = t[n]
  OBVIOUS
<1> HIDE DEF u
<1>2. \A n \in 0 .. Len(t) : f[n] = IF n = 0 THEN <<0, 0>> ELSE Advance(f[n - 1], t[n])
  BY Zenon DEF PlaceDef
<1> HIDE DEF f
<1>3. g[Len(t) + 1] = e /\ \A n \in 0 .. Len(t) : g[n] = f[n]
  BY <1>1
<1>4. ASSUME NEW n \in 0 .. Len(u)
      PROVE  g[n] = IF n = 0 THEN <<0, 0>> ELSE Advance(g[n - 1], u[n])
  <2>1. CASE n = Len(t) + 1
    <3>1. n # 0 /\ n - 1 = Len(t) /\ Len(t) \in 0 .. Len(t)
      BY <1>1, <2>1
    <3>2. g[n] = e /\ g[n - 1] = f[Len(t)] /\ u[n] = ch
      BY <1>1, <1>3, <2>1, <3>1, Zenon
    <3> HIDE DEF g
    <3>3. QED
      BY <3>1, <3>2, Zenon
  <2>2. CASE n # Len(t) + 1
    <3>1. n \in 0 .. Len(t) /\ (n # 0 => n \in 1 .. Len(t) /\ n - 1 \in 0 .. Len(t))
      BY <1>1, <2>2
    <3>2. n # 0 => g[n - 1] = f[n - 1] /\ u[n] = t[n]
      BY <1>1, <1>3, <3>1, Zenon
    <3>3. g[n] = f[n] /\ f[n] = IF n = 0 THEN <<0, 0>> ELSE Advance(f[n - 1], t[n])
      BY <1>2, <1>3, <3>1, Zenon
    <3> HIDE DEF g
    <3>4. QED
      BY <3>2, <3>3, Zenon
  <2>3. QED
    BY <2>1, <2>2
<1>5. g = [n \in 0 .. Len(u) |-> g[n]]
  BY Zenon
<1> HIDE DEF g
<1>6. PlaceDef(u, g)
  BY <1>4, <1>5, Zenon DEF PlaceDef
<1>7. PlaceDef(u, PlaceFn(u))
  BY <1>6, Zenon DEF PlaceFn
<1>8. PlaceFn(u) = g
  BY <1>1, <1>6, <1>7, PlaceUnique
<1>9. QED
  BY <1>3, <1>7, <1>8, Zenon DEF u, f

\* The place p, counted in cells.
Cell(p) == p[1] * VGA_WIDTH + p[2]

\* The characters of t have different places, in order.
Laid(t) ==
    /\ t \in Seq(Letters)
    /\ PlaceDef(t, PlaceFn(t))
    /\ \A n \in 0 .. Len(t) : PlaceFn(t)[n] \in Nat \X Columns
    /\ \A n \in 0 .. (Len(t) - 1) : Cell(PlaceFn(t)[n]) < Cell(PlaceFn(t)[Len(t)])

\* The character of t at cell a, or a blank.
At(t, a) == {n \in 1 .. Len(t) : t[n] # Newline /\ Cell(PlaceFn(t)[n - 1]) = a}
Held(t, a) == IF At(t, a) = {} THEN Blank ELSE t[CHOOSE n \in At(t, a) : TRUE]

\* Rows that have left the screen when the last place is in row r.
Top(r) == IF r < VGA_HEIGHT THEN 0 ELSE r - VGA_HEIGHT + 1

LEMMA CellInNat ==
    ASSUME NEW p \in Nat \X Columns
    PROVE  Cell(p) \in Nat
<1>1. p[1] \in Nat /\ p[2] \in Nat /\ VGA_WIDTH \in Nat
  BY ScreenConstants DEF Columns
<1>2. QED
  BY <1>1 DEF Cell

LEMMA AdvanceMoves ==
    ASSUME NEW p \in Nat \X Columns, NEW ch \in Letters
    PROVE  /\ Advance(p, ch) \in Nat \X Columns
           /\ Cell(p) \in Nat
           /\ Cell(Advance(p, ch)) \in Nat
           /\ Cell(p) < Cell(Advance(p, ch))
<1>1. PICK r \in Nat, k \in Columns : p = <<r, k>>
  OBVIOUS
<1>2. VGA_WIDTH \in Nat \ {0} /\ k \in Nat /\ k <= VGA_WIDTH - 1
  BY ScreenConstants DEF Columns
<1>3. r * VGA_WIDTH \in Nat /\ (r + 1) * VGA_WIDTH = r * VGA_WIDTH + VGA_WIDTH
  BY <1>2
<1>4. Cell(p) = r * VGA_WIDTH + k
  BY <1>1 DEF Cell
<1>5. CASE ch = Newline \/ k + 1 = VGA_WIDTH
  <2>1. Advance(p, ch) = <<r + 1, 0>>
    BY <1>1, <1>5 DEF Advance
  <2>2. Cell(Advance(p, ch)) = r * VGA_WIDTH + VGA_WIDTH
    BY <1>2, <1>3, <2>1 DEF Cell
  <2>3. r + 1 \in Nat /\ 0 \in Columns
    BY <1>2 DEF Columns
  <2>4. QED
    BY <1>2, <1>3, <1>4, <2>1, <2>2, <2>3
<1>6. CASE ~(ch = Newline \/ k + 1 = VGA_WIDTH)
  <2>1. Advance(p, ch) = <<r, k + 1>>
    BY <1>1, <1>6 DEF Advance
  <2>2. Cell(Advance(p, ch)) = r * VGA_WIDTH + (k + 1)
    BY <2>1 DEF Cell
  <2>3. k + 1 \in Columns
    BY <1>2, <1>6 DEF Columns
  <2>4. QED
    BY <1>2, <1>3, <1>4, <2>1, <2>2, <2>3
<1>7. QED
  BY <1>5, <1>6

LEMMA LaidEmpty == Laid(<<>>) /\ PlaceFn(<<>>)[Len(<<>>)] = <<0, 0>> /\ \A a : Held(<<>>, a) = Blank
<1>1. PlaceDef(<<>>, PlaceFn(<<>>)) /\ PlaceFn(<<>>)[0] = <<0, 0>>
  BY PlaceEmpty
<1>2. <<0, 0>> \in Nat \X Columns
  BY ScreenConstants DEF Columns
<1>3. Len(<<>>) = 0 /\ <<>> \in Seq(Letters)
  OBVIOUS
<1>4. (\A n \in 0 .. Len(<<>>) : n = 0) /\ (\A n \in 0 .. (Len(<<>>) - 1) : FALSE)
  OBVIOUS
<1>5. Laid(<<>>)
  BY <1>1, <1>2, <1>3, <1>4, Zenon DEF Laid
<1>6. \A n \in 1 .. Len(<<>>) : FALSE
  OBVIOUS
<1>7. \A a : At(<<>>, a) = {}
  BY <1>6, Zenon DEF At
<1>8. QED
  BY <1>1, <1>3, <1>5, <1>7, Zenon DEF Held

LEMMA LaidAppend ==
    ASSUME NEW t, Laid(t), NEW ch \in Letters
    PROVE  /\ Laid(Append(t, ch))
           /\ PlaceFn(Append(t, ch))[Len(Append(t, ch))] = Advance(PlaceFn(t)[Len(t)], ch)
<1> DEFINE u == Append(t, ch)
           f == PlaceFn(t)
           g == PlaceFn(u)
<1>1. u \in Seq(Letters) /\ Len(u) = Len(t) + 1 /\ Len(t) \in Nat
  BY DEF Laid
<1>2. /\ PlaceDef(u, g)
      /\ \A n \in 0 .. Len(t) : g[n] = f[n]
      /\ g[Len(t) + 1] = Advance(f[Len(t)], ch)
  BY PlaceAppend DEF Laid
<1>3. \A n \in 0 .. Len(t) : f[n] \in Nat \X Columns
  BY DEF Laid
<1>4. \A n \in 0 .. (Len(t) - 1) : Cell(f[n]) < Cell(f[Len(t)])
  BY DEF Laid
<1> HIDE DEF u, f, g
<1>5. Len(t) \in 0 .. Len(t)
  BY <1>1
<1>6. /\ Advance(f[Len(t)], ch) \in Nat \X Columns
      /\ Cell(f[Len(t)]) \in Nat /\ Cell(Advance(f[Len(t)], ch)) \in Nat
      /\ Cell(f[Len(t)]) < Cell(Advance(f[Len(t)], ch))
  BY <1>3, <1>5, AdvanceMoves
<1>7. ASSUME NEW n \in 0 .. Len(u) PROVE g[n] \in Nat \X Columns
  <2>1. CASE n = Len(t) + 1
    BY <1>2, <1>6, <2>1, Zenon
  <2>2. CASE n # Len(t) + 1
    <3>1. n \in 0 .. Len(t)
      BY <1>1, <2>2
    <3>2. QED
      BY <1>2, <1>3, <3>1, Zenon
  <2>3. QED
    BY <2>1, <2>2
<1>8. ASSUME NEW n \in 0 .. (Len(u) - 1) PROVE Cell(g[n]) < Cell(g[Len(u)])
  <2>1. n \in 0 .. Len(t) /\ g[n] = f[n] /\ g[Len(u)] = Advance(f[Len(t)], ch)
    <3>1. n \in 0 .. Len(t)
      BY <1>1
    <3>2. QED
      BY <1>1, <1>2, <3>1, Zenon
  <2>2. CASE n = Len(t)
    BY <1>6, <2>1, <2>2, Zenon
  <2>3. CASE n # Len(t)
    <3>1. n \in 0 .. (Len(t) - 1)
      BY <1>1, <2>1, <2>3
    <3>2. Cell(f[n]) < Cell(f[Len(t)])
      BY <1>4, <3>1
    <3>3. Cell(f[n]) \in Nat
      BY <1>3, <2>1, AdvanceMoves
    <3>4. Cell(f[n]) < Cell(Advance(f[Len(t)], ch))
      BY <1>6, <3>2, <3>3
    <3>5. QED
      BY <2>1, <3>4, Zenon
  <2>4. QED
    BY <2>2, <2>3
<1>9. Laid(u)
  BY <1>1, <1>2, <1>7, <1>8, Zenon DEF Laid, g
<1>10. QED
  BY <1>1, <1>2, <1>9, Zenon DEF u, f, g

\* What a character more changes: its own cell.
LEMMA HeldAppend ==
    ASSUME NEW t, Laid(t), NEW ch \in Letters, NEW a
    PROVE  Held(Append(t, ch), a) =
               IF ch # Newline /\ a = Cell(PlaceFn(t)[Len(t)]) THEN ch ELSE Held(t, a)
<1> DEFINE u == Append(t, ch)
           f == PlaceFn(t)
           g == PlaceFn(u)
<1>1. Len(u) = Len(t) + 1 /\ Len(t) \in Nat /\ u[Len(t) + 1] = ch
      /\ \A n \in 1 .. Len(t) : u[n] = t[n]
  BY DEF Laid
<1>2. \A n \in 0 .. Len(t) : g[n] = f[n]
  BY PlaceAppend DEF Laid
<1>3. \A n \in 0 .. (Len(t) - 1) : Cell(f[n]) # Cell(f[Len(t)])
  <2> SUFFICES ASSUME NEW n \in 0 .. (Len(t) - 1) PROVE Cell(f[n]) # Cell(f[Len(t)])
    OBVIOUS
  <2>1. n \in 0 .. Len(t) /\ Len(t) \in 0 .. Len(t)
    BY <1>1
  <2>2. f[n] \in Nat \X Columns /\ f[Len(t)] \in Nat \X Columns
    BY <2>1 DEF Laid
  <2>3. Cell(f[n]) \in Nat /\ Cell(f[Len(t)]) \in Nat
    BY <2>2, AdvanceMoves
  <2>4. Cell(f[n]) < Cell(f[Len(t)])
    BY DEF Laid
  <2>5. QED
    BY <2>3, <2>4
<1> HIDE DEF u, f, g
<1>4. \A n \in 1 .. Len(u) : n = Len(t) + 1 \/ (n \in 1 .. Len(t) /\ n - 1 \in 0 .. (Len(t) - 1) /\ n - 1 \in 0 .. Len(t))
  BY <1>1
<1>5. \A n \in 1 .. Len(t) : n \in 1 .. Len(u) /\ n - 1 \in 0 .. (Len(t) - 1) /\ n - 1 \in 0 .. Len(t)
                             /\ n # Len(t) + 1
  BY <1>1
<1>6. Len(t) + 1 \in 1 .. Len(u) /\ (Len(t) + 1) - 1 = Len(t) /\ Len(t) \in 0 .. Len(t)
  BY <1>1
<1>7. \A n : n \in At(u, a) <=> n \in 1 .. Len(u) /\ u[n] # Newline /\ Cell(g[n - 1]) = a
  BY Zenon DEF At, g
<1>8. \A n : n \in At(t, a) <=> n \in 1 .. Len(t) /\ t[n] # Newline /\ Cell(f[n - 1]) = a
  BY Zenon DEF At, f
<1>9. CASE ch # Newline /\ a = Cell(f[Len(t)])
  <2>1. \A n : n \in At(u, a) => n = Len(t) + 1
    BY <1>2, <1>3, <1>4, <1>7, <1>9, Zenon
  <2>2. Len(t) + 1 \in At(u, a)
    <3>1. Cell(g[(Len(t) + 1) - 1]) = a
      BY <1>2, <1>6, <1>9, Zenon
    <3>2. QED
      BY <1>1, <1>6, <1>7, <1>9, <3>1, Zenon
  <2>3. (CHOOSE n \in At(u, a) : TRUE) = Len(t) + 1
    BY <2>1, <2>2, Zenon
  <2>4. Held(u, a) = ch
    BY <1>1, <2>2, <2>3, Zenon DEF Held
  <2>5. QED
    BY <1>9, <2>4, Zenon DEF u, f
<1>10. CASE ~(ch # Newline /\ a = Cell(f[Len(t)]))
  <2>1. ASSUME NEW n \in At(u, a) PROVE n \in At(t, a)
    <3>1. n \in 1 .. Len(u) /\ u[n] # Newline /\ Cell(g[n - 1]) = a
      BY <1>7
    <3>2. n # Len(t) + 1
      <4> SUFFICES ASSUME n = Len(t) + 1 PROVE FALSE
        OBVIOUS
      <4>1. n - 1 = Len(t)
        BY <1>6
      <4>2. QED
        BY <1>1, <1>2, <1>6, <1>10, <3>1, <4>1, Zenon
    <3>3. QED
      BY <1>1, <1>2, <1>4, <1>8, <3>1, <3>2, Zenon
  <2>2. ASSUME NEW n \in At(t, a) PROVE n \in At(u, a)
    BY <1>1, <1>2, <1>5, <1>7, <1>8, Zenon
  <2>3. At(u, a) = At(t, a)
    BY <2>1, <2>2, Zenon
  <2>4. \A n \in At(t, a) : u[n] = t[n]
    BY <1>1, <1>8, Zenon
  <2>5. Held(u, a) = Held(t, a)
    BY <2>3, <2>4, Zenon DEF Held
  <2>6. QED
    BY <1>10, <2>5, Zenon DEF u, f
<1>11. QED
  BY <1>9, <1>10

\* Nothing is beyond the last place.
LEMMA HeldBeyond ==
    ASSUME NEW t, Laid(t), NEW a \in Nat, a >= Cell(PlaceFn(t)[Len(t)])
    PROVE  Held(t, a) = Blank
<1>1. ASSUME NEW n \in At(t, a) PROVE FALSE
  <2>1. n \in 1 .. Len(t) /\ Cell(PlaceFn(t)[n - 1]) = a
    BY DEF At
  <2>2. Len(t) \in Nat
    BY DEF Laid
  <2>3. n - 1 \in 0 .. (Len(t) - 1) /\ Len(t) \in 0 .. Len(t)
    BY <2>1, <2>2
  <2>4. a < Cell(PlaceFn(t)[Len(t)])
    BY <2>1, <2>3, Zenon DEF Laid
  <2>5. PlaceFn(t)[Len(t)] \in Nat \X Columns
    BY <2>3 DEF Laid
  <2>6. Cell(PlaceFn(t)[Len(t)]) \in Nat
    BY <2>5, CellInNat
  <2>7. QED
    BY <2>4, <2>6
<1>2. QED
  BY <1>1, Zenon DEF Held

-----------------------------------------------------------------------------
(* The text on the screen                                                   *)

\* The place of the next character.
Last == PlaceFn(text)[Len(text)]
\* The back buffer holds the rows from r on.
Holds(r) == \A c \in Cells : back_buffer[c] = Held(text, r * VGA_WIDTH + c)

IdleShows ==
    /\ terminal_row = Last[1] - Top(Last[1]) /\ terminal_column = Last[2]
    /\ Holds(Top(Last[1]))
\* The cells below the index have been moved up by a row, the others not yet.
ScrollShows ==
    LET r == Last[1] - VGA_HEIGHT IN
    /\ Last[1] >= VGA_HEIGHT /\ Last[2] = 0 /\ terminal_column = 0
    /\ \A c \in Cells :
          back_buffer[c] = Held(text, (IF c < i THEN r + 1 ELSE r) * VGA_WIDTH + c)
    /\ reg # None => reg = Held(text, (r + 1) * VGA_WIDTH + i)
ClearShows ==
    /\ text = <<>> /\ terminal_row = 0 /\ terminal_column = 0
    /\ \A c \in Cells : c < i => back_buffer[c] = Blank

TInv ==
    /\ Laid(text)
    /\ plain /\ pc \in {"idle", "flush"} => IdleShows
    /\ plain /\ pc = "scroll" => ScrollShows
    /\ plain /\ pc = "clear" => ClearShows

LEMMA LastType ==
    ASSUME Laid(text)
    PROVE  Last \in Nat \X Columns /\ Last[1] \in Nat /\ Last[2] \in Columns
<1>1. Len(text) \in 0 .. Len(text)
  BY DEF Laid
<1>2. Last \in Nat \X Columns
  BY <1>1 DEF Laid, Last
<1>3. QED
  BY <1>2

\* A place is known by its cell.
LEMMA CellUnique ==
    ASSUME NEW p \in Nat \X Columns, NEW q \in Nat \X Columns, Cell(p) = Cell(q)
    PROVE  p = q
<1>1. PICK a \in Nat, b \in Columns : p = <<a, b>>
  OBVIOUS
<1>2. PICK c \in Nat, d \in Columns : q = <<c, d>>
  OBVIOUS
<1> DEFINE W == VGA_WIDTH
<1>3. W \in Nat \ {0} /\ b \in 0 .. (W - 1) /\ d \in 0 .. (W - 1)
  BY ScreenConstants DEF Columns
<1>4. a * W + b = c * W + d
  BY <1>1, <1>2 DEF Cell
<1>5. (a - c) * W = d - b
  <2>1. (a - c) * W = a * W - c * W /\ a * W \in Nat /\ c * W \in Nat
    BY <1>3
  <2>2. QED
    BY <1>3, <1>4, <2>1
<1>6. ~(a > c)
  <2> SUFFICES ASSUME a > c PROVE FALSE
    OBVIOUS
  <2>1. (a - c) * W >= W
    BY <1>3
  <2>2. QED
    BY <1>3, <1>5, <2>1
<1>7. ~(c > a)
  <2> SUFFICES ASSUME c > a PROVE FALSE
    OBVIOUS
  <2>1. (a - c) * W <= -W
    BY <1>3
  <2>2. QED
    BY <1>3, <1>5, <2>1
<1>8. a = c
  BY <1>6, <1>7
<1>9. b = d
  BY <1>3, <1>5, <1>8
<1>10. QED
  BY <1>1, <1>2, <1>8, <1>9

\* Shown, in cells.
LEMMA ShownIs ==
    ASSUME Laid(text), NEW top \in Nat, NEW row \in Rows, NEW col \in Columns
    PROVE  Shown(top, row, col) = Held(text, top * VGA_WIDTH + Index(row, col))
<1> DEFINE a == top * VGA_WIDTH + Index(row, col)
<1>1. row \in Nat /\ VGA_WIDTH \in Nat /\ col \in Nat
  BY ScreenConstants DEF Rows, Columns
<1>2. <<top + row, col>> \in Nat \X Columns
  BY <1>1
<1>3. Cell(<<top + row, col>>) = a
  <2>1. (top + row) * VGA_WIDTH = top * VGA_WIDTH + row * VGA_WIDTH
        /\ top * VGA_WIDTH \in Nat /\ row * VGA_WIDTH \in Nat
    BY <1>1
  <2>2. QED
    BY <1>1, <2>1 DEF Cell, Index
<1> HIDE DEF a
<1>4. ASSUME NEW n \in 1 .. Len(text)
      PROVE  Place[n - 1] = <<top + row, col>> <=> Cell(PlaceFn(text)[n - 1]) = a
  <2>1. Len(text) \in Nat
    BY DEF Laid
  <2>2. n - 1 \in 0 .. Len(text)
    BY <2>1
  <2>3. PlaceFn(text)[n - 1] \in Nat \X Columns
    BY <2>2, Zenon DEF Laid
  <2>4. QED
    BY <1>2, <1>3, <2>3, CellUnique, PlaceIs, Zenon
<1> DEFINE here == {n \in 1 .. Len(text) : text[n] # Newline /\ Place[n - 1] = <<top + row, col>>}
<1>5. here = At(text, a)
  BY <1>4, Zenon DEF At
<1>6. Shown(top, row, col) = IF here = {} THEN Blank ELSE text[CHOOSE n \in here : TRUE]
  BY Zenon DEF Shown
<1> HIDE DEF here
<1>7. Shown(top, row, col) = Held(text, a)
  BY <1>5, <1>6 DEF Held
<1>8. QED
  BY <1>7 DEF a

LEMMA ShownFromTInv ==
    ASSUME TInv
    PROVE  TextShown
<1> DEFINE top == IF Last[1] < VGA_HEIGHT THEN 0 ELSE Last[1] - VGA_HEIGHT + 1
<1>1. SUFFICES ASSUME pc = "idle", plain
               PROVE  /\ terminal_row = Last[1] - top /\ terminal_column = Last[2]
                      /\ \A row \in 0 .. (VGA_HEIGHT - 1), col \in 0 .. (VGA_WIDTH - 1) :
                             back_buffer[Index(row, col)] = Shown(top, row, col)
  BY PlaceIs, Zenon DEF TextShown, Last
<1>2. IdleShows
  BY <1>1 DEF TInv
<1>3. top = Top(Last[1])
  BY DEF Top
<1>4. top \in Nat
  BY LastType, ScreenConstants DEF TInv
<1> HIDE DEF top
<1>5. terminal_row = Last[1] - top /\ terminal_column = Last[2]
  BY <1>2, <1>3 DEF IdleShows
<1>6. ASSUME NEW row \in Rows, NEW col \in Columns
      PROVE  back_buffer[Index(row, col)] = Shown(top, row, col)
  <2>1. Index(row, col) \in Cells
    BY IndexInCells
  <2>2. QED
    BY <1>2, <1>3, <1>4, <2>1, ShownIs, Zenon DEF TInv, IdleShows, Holds
<1>7. QED
  BY <1>5, <1>6, Zenon DEF Rows, Columns

LEMMA InitTInv ==
    ASSUME Init
    PROVE  TInv
<1>1. text = <<>> /\ terminal_row = 0 /\ terminal_column = 0 /\ pc = "idle"
      /\ back_buffer = [c \in Cells |-> Blank]
  BY DEF Init
<1>2. Last = <<0, 0>> /\ Laid(text) /\ \A a : Held(text, a) = Blank
  BY <1>1, LaidEmpty, Zenon DEF Last
<1>3. Last[1] = 0 /\ Last[2] = 0 /\ Top(0) = 0
  BY <1>2, ScreenConstants DEF Top
<1>4. IdleShows
  BY <1>1, <1>2, <1>3 DEF IdleShows, Holds
<1>5. QED
  BY <1>1, <1>2, <1>4 DEF TInv

\* The steps that print nothing.
LEMMA SameTInv ==
    ASSUME TInv, UNCHANGED <<back_buffer, position, loop, text>>, plain' => plain
    PROVE  TInv'
<1>1. Last' = Last /\ text' = text /\ back_buffer' = back_buffer /\ i' = i /\ reg' = reg /\ pc' = pc
      /\ terminal_row' = terminal_row /\ terminal_column' = terminal_column
  BY Zenon DEF Last, position, loop
<1>2. (IdleShows => IdleShows') /\ (ScrollShows => ScrollShows') /\ (ClearShows => ClearShows')
  BY <1>1, Zenon DEF IdleShows, ScrollShows, ClearShows, Holds
<1>3. QED
  BY <1>1, <1>2, Zenon DEF TInv

LEMMA PutCharTInv ==
    ASSUME TInv, SInv, NEW ch \in Chars, PutChar(ch)
    PROVE  TInv'
<1> DEFINE cell == Index(terminal_row, terminal_column)
           r == Top(Last[1])
           W == VGA_WIDTH
           H == VGA_HEIGHT
<1>1. W \in Nat \ {0} /\ H \in Nat \ {0}
  BY ScreenConstants
<1>2. /\ pc = "idle" /\ text' = Append(text, ch) /\ plain' = plain
      /\ back_buffer' = [back_buffer EXCEPT ![cell] = ch]
      /\ terminal_row' = NextRow /\ terminal_column' = NextColumn
  BY DEF PutChar
<1>3. /\ IF Scrolls(NextRow) THEN pc' = "scroll" ELSE pc' = "flush"
      /\ i' = 0 /\ reg' = None
  BY Zenon DEF PutChar, Call
<1>4. ch \in Letters /\ ch # Newline
  BY ScreenConstants DEF Letters, Newline
<1>5. Laid(text') /\ Last' = Advance(Last, ch)
  BY <1>2, <1>4, LaidAppend, Zenon DEF TInv, Last
<1>6. Last \in Nat \X Columns /\ Last[1] \in Nat /\ Last[2] \in Columns
  BY LastType DEF TInv
<1>7. CASE ~plain
  BY <1>2, <1>5, <1>7 DEF TInv
<1>8. CASE plain
  <2>1. IdleShows
    BY <1>2, <1>8 DEF TInv
  <2>2. /\ terminal_row \in Rows /\ terminal_column \in Columns
        /\ Last[1] = r + terminal_row /\ Last[2] = terminal_column /\ r \in Nat
        /\ (r # 0 => terminal_row = H - 1)
    <3>1. terminal_row = Last[1] - r /\ terminal_column = Last[2]
      BY <2>1 DEF IdleShows
    <3>2. terminal_row \in Rows /\ terminal_column \in Columns
      BY <1>2 DEF SInv, TypeOK, Rows, Columns
    <3>3. r \in Nat /\ (r # 0 => r = Last[1] - H + 1)
      BY <1>1, <1>6 DEF Top
    <3> HIDE DEF r
    <3>4. terminal_row \in Nat
      BY <3>2 DEF Rows
    <3>5. QED
      BY <1>1, <1>6, <3>1, <3>2, <3>3, <3>4
  <2>3. terminal_row \in Nat /\ terminal_column \in Nat /\ terminal_column <= W - 1 /\ terminal_row <= H - 1
    BY <1>1, <2>2 DEF Rows, Columns
  <2>4. cell \in Cells /\ cell \in Nat
    BY <2>2, IndexInCells DEF Cells
  <2>5. Cell(Last) = r * W + cell /\ r * W \in Nat
    <3>1. (r + terminal_row) * W = r * W + terminal_row * W /\ r * W \in Nat /\ terminal_row * W \in Nat
      BY <1>1, <2>2, <2>3
    <3>2. Cell(Last) = (r + terminal_row) * W + terminal_column
      BY <2>2 DEF Cell
    <3>3. cell = terminal_row * W + terminal_column
      BY DEF Index
    <3> HIDE DEF r, cell
    <3>4. QED
      BY <1>1, <2>2, <2>3, <3>1, <3>2, <3>3
  <2> HIDE DEF cell
  <2>6. ASSUME NEW c \in Cells
        PROVE  back_buffer'[c] = Held(text', r * W + c)
    <3>1. c \in Nat
      BY DEF Cells
    <3>2. r * W + c = Cell(Last) <=> c = cell
      BY <2>4, <2>5, <3>1
    <3>3. Held(text', r * W + c) = IF c = cell THEN ch ELSE Held(text, r * W + c)
      BY <1>2, <1>4, <3>2, HeldAppend, Zenon DEF TInv, Last
    <3>4. back_buffer'[c] = IF c = cell THEN ch ELSE back_buffer[c]
      BY <1>2 DEF SInv, TypeOK
    <3>5. back_buffer[c] = Held(text, r * W + c)
      BY <2>1, Zenon DEF IdleShows, Holds
    <3> HIDE DEF r
    <3>6. QED
      BY <3>3, <3>4, <3>5
  <2>7. Last'[1] = r + NextRow /\ Last'[2] = NextColumn
    <3>1. Last[2] + 1 = W <=> terminal_column + 1 >= W
      BY <1>1, <2>2, <2>3
    <3>2. CASE Last[2] + 1 = W
      <4>1. Last' = <<Last[1] + 1, 0>> /\ NextRow = terminal_row + 1 /\ NextColumn = 0
        BY <1>5, <3>1, <3>2 DEF Advance, NextRow, NextColumn
      <4>2. QED
        BY <1>1, <2>2, <2>3, <4>1
    <3>3. CASE Last[2] + 1 # W
      <4>1. Last' = <<Last[1], Last[2] + 1>> /\ NextRow = terminal_row
            /\ NextColumn = terminal_column + 1
        BY <1>4, <1>5, <3>1, <3>3 DEF Advance, NextRow, NextColumn
      <4>2. QED
        BY <1>1, <2>2, <2>3, <4>1
    <3>4. QED
      BY <3>2, <3>3
  <2>8. NextRow \in Nat /\ NextRow <= H /\ NextRow >= terminal_row /\ (NextRow >= H => NextColumn = 0)
    BY <1>1, <2>3 DEF NextRow, NextColumn
  <2> HIDE DEF r
  <2>9. CASE Scrolls(NextRow)
    <3>1. NextRow = H /\ NextColumn = 0 /\ Last'[1] - H = r /\ Last'[1] >= H /\ Last'[2] = 0
      BY <1>1, <2>2, <2>7, <2>8, <2>9 DEF Scrolls
    <3>2. \A c \in Cells : ~(c < i')
      BY <1>3, SizeInNat DEF Cells
    <3>3. ScrollShows'
      BY <1>2, <1>3, <2>6, <3>1, <3>2 DEF ScrollShows
    <3>4. QED
      BY <1>3, <1>5, <2>9, <3>3 DEF TInv
  <2>10. CASE ~Scrolls(NextRow)
    <3>1. NextRow < H
      BY <1>1, <2>8, <2>10 DEF Scrolls
    <3>2. Top(Last'[1]) = r
      BY <1>1, <2>2, <2>7, <2>8, <3>1 DEF Top
    <3>3. terminal_row' = Last'[1] - r /\ terminal_column' = Last'[2]
      BY <1>2, <2>2, <2>7, <2>8
    <3>4. IdleShows'
      BY <2>6, <3>2, <3>3 DEF IdleShows, Holds
    <3>5. QED
      BY <1>3, <1>5, <2>10, <3>4 DEF TInv
  <2>11. QED
    BY <2>9, <2>10
<1>9. QED
  BY <1>7, <1>8

LEMMA PutNewlineTInv ==
    ASSUME TInv, SInv, PutNewline
    PROVE  TInv'
<1> DEFINE r == Top(Last[1])
           W == VGA_WIDTH
           H == VGA_HEIGHT
<1>1. W \in Nat \ {0} /\ H \in Nat \ {0}
  BY ScreenConstants
<1>2. /\ pc = "idle" /\ text' = Append(text, Newline) /\ plain' = plain
      /\ back_buffer' = back_buffer
      /\ terminal_row' = terminal_row + 1 /\ terminal_column' = 0
  BY DEF PutNewline, screen
<1>3. /\ IF Scrolls(terminal_row + 1) THEN pc' = "scroll" ELSE pc' = "idle"
      /\ i' = 0 /\ reg' = None
  BY Zenon DEF PutNewline, Call
<1>4. Newline \in Letters
  BY DEF Letters
<1>5. Laid(text') /\ Last' = <<Last[1] + 1, 0>>
  BY <1>2, <1>4, LaidAppend, Zenon DEF TInv, Last, Advance
<1>6. Last \in Nat \X Columns /\ Last[1] \in Nat /\ Last[2] \in Columns
  BY LastType DEF TInv
<1>7. CASE ~plain
  BY <1>2, <1>5, <1>7 DEF TInv
<1>8. CASE plain
  <2>1. IdleShows
    BY <1>2, <1>8 DEF TInv
  <2>2. /\ terminal_row \in Nat /\ terminal_row <= H - 1
        /\ Last[1] = r + terminal_row /\ r \in Nat
        /\ (r # 0 => terminal_row = H - 1)
    <3>1. terminal_row = Last[1] - r
      BY <2>1 DEF IdleShows
    <3>2. terminal_row \in 0 .. (H - 1)
      BY <1>2 DEF SInv, TypeOK
    <3>3. r \in Nat /\ (r # 0 => r = Last[1] - H + 1)
      BY <1>1, <1>6 DEF Top
    <3> HIDE DEF r
    <3>4. QED
      BY <1>1, <1>6, <3>1, <3>2, <3>3
  <2>3. ASSUME NEW c \in Cells
        PROVE  back_buffer'[c] = Held(text', r * W + c)
    <3>1. Held(text', r * W + c) = Held(text, r * W + c)
      BY <1>2, <1>4, HeldAppend, Zenon DEF TInv
    <3>2. QED
      BY <1>2, <2>1, <3>1, Zenon DEF IdleShows, Holds
  <2>4. Last'[1] = r + (terminal_row + 1) /\ Last'[2] = 0
    BY <1>5, <1>6, <2>2
  <2> HIDE DEF r
  <2>5. CASE Scrolls(terminal_row + 1)
    <3>1. Last'[1] - H = r /\ Last'[1] >= H
      BY <1>1, <2>2, <2>4, <2>5 DEF Scrolls
    <3>2. \A c \in Cells : ~(c < i')
      BY <1>3, SizeInNat DEF Cells
    <3>3. ScrollShows'
      BY <1>2, <1>3, <2>3, <2>4, <3>1, <3>2 DEF ScrollShows
    <3>4. QED
      BY <1>3, <1>5, <2>5, <3>3 DEF TInv
  <2>6. CASE ~Scrolls(terminal_row + 1)
    <3>1. terminal_row + 1 < H
      BY <1>1, <2>2, <2>6 DEF Scrolls
    <3>2. Top(Last'[1]) = r
      BY <1>1, <2>2, <2>4, <3>1 DEF Top
    <3>3. terminal_row' = Last'[1] - r /\ terminal_column' = Last'[2]
      BY <1>2, <2>2, <2>4
    <3>4. IdleShows'
      BY <2>3, <3>2, <3>3 DEF IdleShows, Holds
    <3>5. QED
      BY <1>3, <1>5, <2>6, <3>4 DEF TInv
  <2>7. QED
    BY <2>5, <2>6
<1>9. QED
  BY <1>7, <1>8

LEMMA ClearTInv ==
    ASSUME TInv, vga_clear
    PROVE  TInv'
<1>1. pc' = "clear" /\ i' = 0 /\ text' = <<>> /\ terminal_row' = 0 /\ terminal_column' = 0
  BY DEF vga_clear, Call
<1>2. \A c \in Cells : ~(c < i')
  BY <1>1, SizeInNat DEF Cells
<1>3. ClearShows'
  BY <1>1, <1>2 DEF ClearShows
<1>4. Laid(text')
  BY <1>1, LaidEmpty
<1>5. QED
  BY <1>1, <1>3, <1>4 DEF TInv

LEMMA EndOfLoopTInv ==
    ASSUME TInv, SInv, EndOfLoop
    PROVE  TInv'
<1> DEFINE W == VGA_WIDTH
           H == VGA_HEIGHT
<1>1. W \in Nat \ {0} /\ H \in Nat \ {0} /\ Size \in Nat
  BY ScreenConstants, SizeInNat
<1>2. /\ pc # "idle" /\ i = Size /\ pc' \in {"idle", "flush"}
      /\ terminal_row' = (IF pc = "scroll" THEN H - 1 ELSE terminal_row)
      /\ terminal_column' = terminal_column /\ text' = text /\ plain' = plain
      /\ back_buffer' = back_buffer
  BY DEF EndOfLoop, screen
<1>3. Last' = Last /\ Laid(text')
  BY <1>2, Zenon DEF Last, TInv
<1>4. \A c \in Cells : c < i
  BY <1>1, <1>2 DEF Cells
<1>5. SUFFICES ASSUME plain PROVE IdleShows'
  BY <1>2, <1>3 DEF TInv
<1>6. CASE pc = "scroll"
  <2>1. ScrollShows
    BY <1>5, <1>6 DEF TInv
  <2>2. Last[1] \in Nat /\ Last[1] >= H /\ Last[2] = 0 /\ terminal_column = 0
    BY <2>1, LastType DEF ScrollShows, TInv
  <2>3. Top(Last[1]) = (Last[1] - H) + 1
    BY <1>1, <2>2 DEF Top
  <2>4. terminal_row' = Last[1] - Top(Last[1])
    BY <1>1, <1>2, <1>6, <2>2, <2>3
  <2>5. Holds((Last[1] - H) + 1)
    BY <1>4, <2>1, Zenon DEF ScrollShows, Holds
  <2>6. QED
    BY <1>2, <1>3, <2>2, <2>3, <2>4, <2>5, Zenon DEF IdleShows, Holds
<1>7. CASE pc = "clear"
  <2>1. ClearShows
    BY <1>5, <1>7 DEF TInv
  <2>2. Last = <<0, 0>> /\ \A a : Held(text, a) = Blank
    BY <2>1, LaidEmpty, Zenon DEF Last, ClearShows
  <2>3. Last[1] = 0 /\ Last[2] = 0 /\ Top(0) = 0
    BY <1>1, <2>2 DEF Top
  <2>4. Holds(Top(0))
    BY <1>4, <2>1, <2>2, Zenon DEF ClearShows, Holds
  <2>5. 0 = 0 - Top(0)
    BY <2>3
  <2>6. terminal_row' = 0 /\ terminal_column' = 0
    BY <1>2, <1>7, <2>1 DEF ClearShows
  <2>7. QED
    BY <1>2, <1>3, <2>3, <2>4, <2>5, <2>6, Zenon DEF IdleShows, Holds
<1>8. CASE pc = "flush"
  <2>1. IdleShows
    BY <1>5, <1>8 DEF TInv
  <2>2. terminal_row' = terminal_row
    BY <1>2, <1>8
  <2>3. QED
    BY <1>2, <1>3, <2>1, <2>2, Zenon DEF IdleShows, Holds
<1>9. QED
  BY <1>2, <1>6, <1>7, <1>8 DEF SInv, TypeOK

LEMMA LoadTInv ==
    ASSUME TInv, SInv, Load
    PROVE  TInv'
<1> DEFINE r == Last[1] - VGA_HEIGHT
           W == VGA_WIDTH
<1>1. W \in Nat \ {0} /\ VGA_HEIGHT \in Nat \ {0} /\ Size \in Nat
  BY ScreenConstants, SizeInNat
<1>2. /\ pc # "idle" /\ i < Size /\ reg' = Source /\ Copies
      /\ UNCHANGED <<back_buffer, position, pc, i, text, plain>>
  BY DEF Load, history, screen
<1>3. Last' = Last /\ Laid(text') /\ text' = text /\ back_buffer' = back_buffer /\ i' = i /\ pc' = pc
      /\ terminal_row' = terminal_row /\ terminal_column' = terminal_column /\ plain' = plain
  BY <1>2, Zenon DEF Last, TInv, position
<1>4. (IdleShows => IdleShows') /\ (ClearShows => ClearShows')
  BY <1>3, Zenon DEF IdleShows, ClearShows, Holds
<1>5. ASSUME pc = "scroll", plain PROVE ScrollShows'
  <2>1. ScrollShows
    BY <1>5 DEF TInv
  <2>2. i \in Nat /\ i + W \in Cells /\ ~(i + W < i)
    BY <1>1, <1>2, <1>5 DEF SInv, TypeOK, Copies, Cells
  <2>3. reg' = back_buffer[i + W]
    BY <1>2, <1>5 DEF Source
  <2>4. back_buffer[i + W] = Held(text, r * W + (i + W))
    BY <2>1, <2>2, Zenon DEF ScrollShows
  <2>5. r \in Int
    BY <1>1, LastType DEF TInv
  <2> HIDE DEF r
  <2>6. r * W + (i + W) = (r + 1) * W + i
    <3>1. (r + 1) * W = r * W + W /\ r * W \in Int
      BY <1>1, <2>5
    <3>2. QED
      BY <1>1, <2>2, <3>1
  <2>7. reg' = Held(text, (r + 1) * W + i)
    BY <2>3, <2>4, <2>6
  <2>8. QED
    BY <1>3, <2>1, <2>7, Zenon DEF ScrollShows, r
<1>6. QED
  BY <1>3, <1>4, <1>5, Zenon DEF TInv

LEMMA StoreTInv ==
    ASSUME TInv, SInv, Store
    PROVE  TInv'
<1> DEFINE r == Last[1] - VGA_HEIGHT
           W == VGA_WIDTH
           H == VGA_HEIGHT
           v == IF Copies THEN reg ELSE Blank
<1>1. W \in Nat \ {0} /\ H \in Nat \ {0} /\ Size \in Nat
  BY ScreenConstants, SizeInNat
<1>2. /\ pc # "idle" /\ i < Size /\ i' = i + 1 /\ reg' = None
      /\ Copies => reg # None
      /\ UNCHANGED <<position, pc, text, plain>>
  BY DEF Store, history
<1>3. Last' = Last /\ Laid(text') /\ text' = text /\ pc' = pc /\ plain' = plain
      /\ terminal_row' = terminal_row /\ terminal_column' = terminal_column
  BY <1>2, Zenon DEF Last, TInv, position
<1>4. i \in Cells /\ i \in Nat
  BY <1>1, <1>2 DEF SInv, TypeOK, Cells
<1>5. \A c \in Cells : c # i => (c < i' <=> c < i)
  BY <1>2, <1>4 DEF Cells
<1>6. i < i'
  BY <1>2, <1>4
<1>7. CASE ~plain
  BY <1>3, <1>7 DEF TInv
<1>8. CASE plain /\ pc = "flush"
  <2>1. IdleShows /\ back_buffer' = back_buffer
    BY <1>8 DEF TInv, Store
  <2>2. IdleShows'
    BY <1>3, <2>1, Zenon DEF IdleShows, Holds
  <2>3. QED
    BY <1>3, <1>8, <2>2 DEF TInv
<1>9. CASE plain /\ pc = "clear"
  <2>1. ClearShows
    BY <1>9 DEF TInv
  <2>2. back_buffer' = [back_buffer EXCEPT ![i] = Blank]
    BY <1>9 DEF Store, Copies
  <2>3. \A c \in Cells : c < i' => back_buffer'[c] = Blank
    BY <1>5, <2>1, <2>2 DEF ClearShows, SInv, TypeOK
  <2>4. ClearShows'
    BY <1>3, <2>1, <2>3 DEF ClearShows
  <2>5. QED
    BY <1>3, <1>9, <2>4 DEF TInv
<1>10. CASE plain /\ pc = "scroll"
  <2>1. ScrollShows
    BY <1>10 DEF TInv
  <2>2. back_buffer' = [back_buffer EXCEPT ![i] = v]
    BY <1>10, Zenon DEF Store
  <2>3. Last[1] \in Nat /\ r \in Nat /\ Last[1] = r + H /\ Last[2] = 0
    BY <1>1, <2>1, LastType DEF TInv, ScrollShows
  <2>4. v = Held(text, (r + 1) * W + i)
    <3>1. CASE Copies
      BY <1>2, <2>1, <3>1, Zenon DEF ScrollShows
    <3>2. CASE ~Copies
      <4>1. i >= Size - W
        BY <1>1, <1>4, <1>10, <3>2 DEF Copies
      <4> HIDE DEF r
      <4>2. /\ (r + 1) * W = r * W + W /\ r * W \in Nat /\ W * H \in Nat
            /\ (r + H) * W = r * W + W * H
        BY <1>1, <2>3
      <4>3. Cell(Last) = r * W + W * H
        BY <1>1, <2>3, <4>2 DEF Cell
      <4>4. (r + 1) * W + i >= Cell(Last) /\ (r + 1) * W + i \in Nat
        BY <1>1, <1>4, <4>1, <4>2, <4>3 DEF Size
      <4>5. Held(text, (r + 1) * W + i) = Blank
        BY <4>4, HeldBeyond DEF TInv, Last
      <4>6. QED
        BY <3>2, <4>5
    <3>3. QED
      BY <3>1, <3>2
  <2> HIDE DEF v
  <2>5. ASSUME NEW c \in Cells
        PROVE  back_buffer'[c] = Held(text, (IF c < i' THEN r + 1 ELSE r) * W + c)
    <3>1. CASE c = i
      <4>1. back_buffer'[c] = v
        BY <2>2, <3>1 DEF SInv, TypeOK
      <4>2. QED
        BY <1>6, <2>4, <3>1, <4>1, Zenon
    <3>2. CASE c # i
      <4>1. back_buffer'[c] = back_buffer[c]
        BY <2>2, <3>2 DEF SInv, TypeOK
      <4>2. QED
        BY <1>5, <2>1, <3>2, <4>1, Zenon DEF ScrollShows
    <3>3. QED
      BY <3>1, <3>2
  <2>6. ScrollShows'
    BY <1>2, <1>3, <2>1, <2>5, Zenon DEF ScrollShows
  <2>7. QED
    BY <1>3, <1>10, <2>6 DEF TInv
<1>11. QED
  BY <1>2, <1>7, <1>8, <1>9, <1>10 DEF SInv, TypeOK

LEMMA TickTInv ==
    ASSUME TInv, SInv, MInv, text_cursor_tick
    PROVE  TInv'
<1> DEFINE s == After[Len(InBuffer)]
<1>1. /\ back_buffer' = s.back /\ plain' = (plain /\ s.drawn = {})
      /\ UNCHANGED <<position, loop, text>>
  BY Zenon DEF text_cursor_tick
<1>2. OnlyDrawn(s)
  BY TickOnlyDrawn
<1> HIDE DEF s
<1>3. CASE s.drawn = {}
  <2>1. back_buffer' = back_buffer
    BY <1>1, <1>2, <1>3 DEF OnlyDrawn, Drawing, SInv, TypeOK
  <2>2. QED
    BY <1>1, <2>1, SameTInv
<1>4. CASE s.drawn # {}
  <2>1. ~plain'
    BY <1>1, <1>4
  <2>2. Laid(text')
    BY <1>1 DEF TInv
  <2>3. QED
    BY <2>1, <2>2 DEF TInv
<1>5. QED
  BY <1>3, <1>4

LEMMA NextTInv ==
    ASSUME TInv, SInv, MInv, [Next]_vars
    PROVE  TInv'
<1>1. CASE Output
  <2>1. CASE PutBackspace
    BY <2>1 DEF PutBackspace, TInv
  <2>2. QED
    BY <1>1, <2>1, PutCharTInv, PutNewlineTInv, ClearTInv DEF Output
<1>2. CASE Loops
  BY <1>2, LoadTInv, StoreTInv, EndOfLoopTInv DEF Loops
<1>3. CASE timer_tick
  BY <1>3, TickTInv DEF timer_tick
<1>4. CASE MouseByte
  BY <1>4, SameTInv DEF MouseByte, history, screen
<1>5. CASE cmd_mouse
  BY <1>5, SameTInv DEF cmd_mouse, history, screen
<1>6. CASE UNCHANGED vars
  BY <1>6, SameTInv DEF vars, history, screen
<1>7. QED
  BY <1>1, <1>2, <1>3, <1>4, <1>5, <1>6 DEF Next

\* vga.c, vga_putchar, vga_scroll and vga_clear: wrapping and scrolling show the
\* end of the text, the last VGA_HEIGHT rows of all that was printed since the
\* last vga_clear, each character at its place, for every size of the screen.
THEOREM ScreenShowsText == Spec => []TextShown
<1>1. Init => TInv /\ SInv
  BY InitTInv, InitSInv
<1>2. TInv /\ SInv /\ MInv /\ [Next]_vars => TInv' /\ SInv'
  BY NextTInv, NextSInv
<1>3. TInv => TextShown
  BY ShownFromTInv
<1>4. QED
  BY <1>1, <1>2, <1>3, SpecMInv, PTL DEF Spec
=============================================================================
