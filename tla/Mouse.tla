------------------------------- MODULE Mouse -------------------------------
(***************************************************************************)
(* The mouse driver (kernel/drivers/mouse.c) after mouse_init: the         *)
(* interrupt handler collects the bytes of a packet, decodes the complete  *)
(* packet and pushes the event into a ring; mouse_read_event takes it out. *)
(*                                                                         *)
(* The device sends packets of three bytes, of four with a wheel.  It      *)
(* reports a movement of -128 .. 127 as a byte in two's complement.  The   *)
(* handler never looks for the start of a packet: the model begins when    *)
(* driver and device agree on where a packet starts and how long it is.    *)
(***************************************************************************)
EXTENDS Integers, Sequences

CONSTANTS
    MOUSE_BUF_SIZE,     \* cells of the ring (32)
    Movements,          \* what the device reports: [dx, dy, scroll, buttons]
    MaxPackets          \* bound: packets the device sends

ASSUME MouseConstants ==
    /\ MOUSE_BUF_SIZE \in Nat \ {0}
    /\ Movements \subseteq [dx : -128 .. 127, dy : -127 .. 127, scroll : -8 .. 7, buttons : 0 .. 7]
    /\ MaxPackets \in Nat

VARIABLES
    mouse_buffer, buf_head, buf_tail,   \* the ring
    packet,         \* the bytes packet[0 .. packet_index - 1]
    has_wheel,      \* what mouse_enable_wheel_probe found
    sending,        \* the movement whose packet is under way
    queue,          \* the movements that wait, oldest first (history)
    sent            \* packets sent so far

mouse_vars == <<mouse_buffer, buf_head, buf_tail, packet, has_wheel, sending, queue, sent>>

Still == [dx |-> 0, dy |-> 0, scroll |-> 0, buttons |-> 0]

\* The device: the bytes of a packet.  Bit 3 of the first is always one.
Byte(v) == v % 256
Packet(m) == <<m.buttons + 8, Byte(m.dx), Byte(m.dy), Byte(m.scroll)>>

\* Faulty variant: the cast is forgotten.
Int8Unsigned(b) == b

\* The cast to int8_t.
Int8(b) == IF b > 127 THEN b - 256 ELSE b

needed == IF has_wheel THEN 4 ELSE 3

\* The event of a complete packet.  PS/2 y runs against the screen's.
Event(p) ==
    [dx |-> Int8(p[2]), dy |-> -Int8(p[3]),
     scroll |-> IF has_wheel THEN Int8(p[4]) ELSE 0,
     buttons |-> p[1] % 8]

NextSlot(i) == (i + 1) % MOUSE_BUF_SIZE
buffer_empty == buf_head = buf_tail

buffer_full == NextSlot(buf_head) = buf_tail

\* A full ring drops the new event.
buffer_push(ev) ==
    IF buffer_full THEN UNCHANGED <<mouse_buffer, buf_head>>
    ELSE /\ mouse_buffer' = [mouse_buffer EXCEPT ![buf_head] = ev]
         /\ buf_head' = NextSlot(buf_head)

\* What the reader of the ring should see of movement m.
AsSeen(m) == [m EXCEPT !.dy = -@, !.scroll = IF has_wheel THEN @ ELSE 0]

\* The device starts a packet when the last one is complete.
mouse_irq_handler(m) ==
    LET p == Append(packet, Packet(m)[Len(packet) + 1]) IN
    /\ IF packet = <<>> THEN sent < MaxPackets /\ sent' = sent + 1
       ELSE m = sending /\ sent' = sent
    /\ IF Len(p) < needed
       THEN /\ packet' = p
            /\ sending' = m
            /\ UNCHANGED <<mouse_buffer, buf_head, queue>>
       ELSE /\ packet' = <<>>
            /\ sending' = Still
            /\ buffer_push(Event(p))
            /\ queue' = IF Len(queue) < MOUSE_BUF_SIZE - 1
                        THEN Append(queue, AsSeen(m)) ELSE queue
    /\ UNCHANGED <<buf_tail, has_wheel>>

\* Everything in the ring, oldest first: what a reader gets that calls
\* mouse_read_event until it returns 0.
InBuffer == [i \in 1 .. ((buf_head - buf_tail) % MOUSE_BUF_SIZE) |->
                mouse_buffer[(buf_tail + i - 1) % MOUSE_BUF_SIZE]]
ReadAllEvents ==
    /\ buf_tail' = buf_head
    /\ queue' = <<>>
    /\ UNCHANGED <<mouse_buffer, buf_head, packet, has_wheel, sending, sent>>

MouseInit ==
    /\ mouse_buffer = [i \in 0 .. (MOUSE_BUF_SIZE - 1) |-> Still]
    /\ buf_head = 0 /\ buf_tail = 0
    /\ packet = <<>>
    /\ has_wheel \in BOOLEAN
    /\ sending = Still
    /\ queue = <<>>
    /\ sent = 0

\* The ring, fed byte by byte, holds what the device reported, decoded and in
\* order, and drops only the newest movement when MOUSE_BUF_SIZE - 1 wait.
RingIsQueue == InBuffer = queue
=============================================================================
