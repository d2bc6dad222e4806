----------------------------- MODULE MouseSetup -----------------------------
(***************************************************************************)
(* mouse_init (kernel/drivers/mouse.c): the dialogue that sets the mouse   *)
(* up and looks for a wheel, while interrupts are on.                      *)
(*                                                                         *)
(* kernel_boot executes sti long before mouse_init, and pic_remap leaves   *)
(* the interrupt masks of the firmware: a byte from the mouse may be read  *)
(* by mouse_read, which polls, or by mouse_irq_handler, which takes it for *)
(* a byte of a packet.  mouse_read waits a bounded time and then reads the *)
(* data port all the same, which still holds the last byte.  The keyboard  *)
(* shares the port, and mouse_read does not ask whose byte it is.          *)
(*                                                                         *)
(* The device is modelled from the bytes the driver sends: it acknowledges *)
(* every byte, answers 0xF2 with its number as well, and reports movements *)
(* after 0xF4.  A new command may make it drop what it has not yet sent.   *)
(***************************************************************************)
EXTENDS Integers, Sequences, FiniteSets

CONSTANTS
    Devices,        \* subset of {"none", "plain", "wheel"}
    Keys,           \* scan codes of keys that may be typed meanwhile
    MaxKeys,        \* bound: how many
    MaxPackets,     \* bound: movements after 0xF4
    MaxLost         \* bound: bytes lost on the way

ASSUME MouseSetupConstants ==
    /\ Devices \subseteq {"none", "plain", "wheel"}
    /\ Keys \subseteq 0 .. 255
    /\ MaxKeys \in Nat /\ MaxPackets \in Nat /\ MaxLost \in Nat

VARIABLES
    step,           \* position in Script
    packet_index, has_wheel,    \* mouse.c
    command,        \* the controller's command byte
    masked,         \* the interrupt controller holds back interrupt 12
    port,           \* the byte that the data port shows
    out,            \* bytes at the controller, [src, byte]
    device,
    waits,          \* the device waits for the sample rate after 0xF3
    knock,          \* how many of the rates 200, 100, 80 came last
    reporting,      \* the device has got 0xF4
    answers,        \* bytes the device has not sent yet
    sent,           \* bytes of the current packet that it has sent
    packets, typed, lost    \* so far (history and bounds)

driver == <<step, packet_index, has_wheel>>
controller == <<command, masked, port, out>>
mouse == <<device, waits, knock, reporting, answers, sent>>
vars == <<driver, controller, mouse, packets, typed, lost>>

ACK == 250
Rates == <<200, 100, 80>>

\* The command byte is asked for and written back; then what
\* mouse_set_defaults and mouse_enable_wheel_probe send and read.
W(b) == [kind |-> "write", byte |-> b]
R == [kind |-> "read"]
ReadID == [kind |-> "id"]
Script ==
    <<[kind |-> "ask"], [kind |-> "command"],
      W(246), R,
      W(243), W(200), R,
      W(243), W(100), R,
      W(243), W(80), R,
      W(242), ReadID,
      W(244), R>>
Done == Len(Script) + 1

-----------------------------------------------------------------------------
(* The device                                                               *)

\* Three rates in a row switch a mouse with a wheel to packets of four bytes.
WheelMode == device = "wheel" /\ knock = 3
PacketSize == IF WheelMode THEN 4 ELSE 3

Knock(rate) ==
    IF knock = 3 THEN 3
    ELSE IF rate = Rates[knock + 1] THEN knock + 1
    ELSE IF rate = Rates[1] THEN 1 ELSE 0

Reply(b) ==
    IF device = "none" THEN <<>>
    ELSE IF ~waits /\ b = 242 THEN <<ACK, IF WheelMode THEN 3 ELSE 0>>
    ELSE <<ACK>>

Receive(b) ==
    /\ \/ answers' = answers \o Reply(b)
       \/ answers # <<>> /\ answers' = Reply(b)
    /\ waits' = (device # "none" /\ ~waits /\ b = 243)
    /\ knock' = IF waits THEN Knock(b) ELSE knock
    /\ reporting' = (reporting \/ (device # "none" /\ ~waits /\ b = 244))
    /\ UNCHANGED <<device, sent>>

\* A byte of the device reaches the controller.
Deliver ==
    /\ answers # <<>>
    /\ out' = Append(out, [src |-> "mouse", byte |-> Head(answers)])
    /\ answers' = Tail(answers)
    /\ UNCHANGED <<driver, command, masked, port, device, waits, knock, reporting, sent, packets, typed, lost>>

\* The next byte of a movement; bit 3 of the first one is set.
Move ==
    /\ reporting /\ answers = <<>>
    /\ sent = 0 => packets < MaxPackets
    /\ out' = Append(out, [src |-> "mouse", byte |-> IF sent = 0 THEN 8 ELSE 1])
    /\ sent' = (sent + 1) % PacketSize
    /\ packets' = IF sent = 0 THEN packets + 1 ELSE packets
    /\ UNCHANGED <<driver, command, masked, port, device, waits, knock, reporting, answers, typed, lost>>

Lose ==
    /\ lost < MaxLost
    /\ out # <<>> /\ Head(out).src = "mouse"
    /\ out' = Tail(out)
    /\ lost' = lost + 1
    /\ UNCHANGED <<driver, command, masked, port, mouse, packets, typed>>

KeyPress(k) ==
    /\ Len(typed) < MaxKeys
    /\ typed' = Append(typed, k)
    /\ out' = Append(out, [src |-> "keyboard", byte |-> k])
    /\ UNCHANGED <<driver, command, masked, port, mouse, packets, lost>>

-----------------------------------------------------------------------------
(* The driver                                                               *)

Doing(kind) == step < Done /\ Script[step].kind = kind /\ step' = step + 1

\* The controller answers at once, and with the keyboard's interrupt.
AskCommand ==
    /\ Doing("ask")
    /\ out' = Append(out, [src |-> "controller", byte |-> command])
    /\ UNCHANGED <<packet_index, has_wheel, command, masked, port, mouse, packets, typed, lost>>

mouse_write ==
    /\ Doing("write")
    /\ Receive(Script[step].byte)
    /\ UNCHANGED <<packet_index, has_wheel, controller, packets, typed, lost>>

\* Faulty variant: no bound on the wait.
TimesOutNever == FALSE

\* The wait for bit 0 may end with nothing there.
TimesOut == out = <<>>

\* What mouse_read returns, and what is left.
Polled ==
    \/ /\ out # <<>>
       /\ port' = Head(out).byte
       /\ out' = Tail(out)
    \/ /\ TimesOut
       /\ UNCHANGED <<port, out>>

\* Faulty variant: bit 5 is set like bit 1.
EnabledBoth(b) ==
    (IF (b \div 2) % 2 = 0 THEN b + 2 ELSE b) + (IF (b \div 32) % 2 = 0 THEN 32 ELSE 0)

\* Bit 1 set, bit 5 cleared.
Enabled(b) ==
    (IF (b \div 2) % 2 = 0 THEN b + 2 ELSE b) - (IF (b \div 32) % 2 = 1 THEN 32 ELSE 0)

\* packet_index is reset after this.
SetCommand ==
    /\ Doing("command")
    /\ Polled
    /\ command' = Enabled(port')
    /\ packet_index' = 0
    /\ UNCHANGED <<has_wheel, masked, mouse, packets, typed, lost>>

mouse_read ==
    /\ Doing("read")
    /\ Polled
    /\ UNCHANGED <<packet_index, has_wheel, command, masked, mouse, packets, typed, lost>>

\* Faulty variant: anything but a plain mouse has a wheel.
FoundWheelLax(id) == id # 0

FoundWheel(id) == id = 3

mouse_read_id ==
    /\ Doing("id")
    /\ Polled
    /\ has_wheel' = FoundWheel(port')
    /\ UNCHANGED <<packet_index, command, masked, mouse, packets, typed, lost>>

Main == AskCommand \/ SetCommand \/ mouse_write \/ mouse_read \/ mouse_read_id

\* Faulty variants: the index is compared before it is advanced; a first
\* byte without bit 3 is dropped.
AdvanceLate(byte) == IF packet_index < (IF has_wheel THEN 4 ELSE 3) THEN packet_index + 1 ELSE 0
AdvanceChecked(byte) ==
    IF packet_index = 0 /\ byte # 8 THEN 0
    ELSE IF packet_index + 1 < (IF has_wheel THEN 4 ELSE 3) THEN packet_index + 1 ELSE 0

\* packet_index after a byte; at 0 a packet is complete.
Advance(byte) ==
    IF packet_index + 1 < (IF has_wheel THEN 4 ELSE 3) THEN packet_index + 1 ELSE 0

\* Any byte of the mouse is a byte of a packet.
mouse_irq_handler ==
    /\ ~masked
    /\ out # <<>> /\ Head(out).src = "mouse"
    /\ port' = Head(out).byte
    /\ out' = Tail(out)
    /\ packet_index' = Advance(Head(out).byte)
    /\ UNCHANGED <<step, has_wheel, command, masked, mouse, packets, typed, lost>>

keyboard_irq_handler ==
    /\ out # <<>> /\ Head(out).src # "mouse"
    /\ port' = Head(out).byte
    /\ out' = Tail(out)
    /\ UNCHANGED <<driver, command, masked, mouse, packets, typed, lost>>

-----------------------------------------------------------------------------
\* The command byte of the firmware, the mouse's clock on or off.
FirstCommand == {69, 101}

Init ==
    /\ step = 1
    /\ packet_index = 0 /\ has_wheel = FALSE
    /\ command \in FirstCommand
    /\ masked \in BOOLEAN
    /\ port = 0
    /\ out = <<>>
    /\ device \in Devices
    /\ waits = FALSE /\ knock = 0 /\ reporting = FALSE
    /\ answers = <<>> /\ sent = 0
    /\ packets = 0 /\ typed = <<>> /\ lost = 0

Next ==
    \/ Main
    \/ Deliver \/ Move \/ Lose
    \/ \E k \in Keys : KeyPress(k)
    \/ mouse_irq_handler \/ keyboard_irq_handler

\* kernel_boot goes on after every interrupt.  Nothing is assumed of the
\* device.
Spec == Init /\ [][Next]_vars /\ WF_vars(Main)

-----------------------------------------------------------------------------
(* Properties                                                               *)

\* Types; mouse_irq_handler never stores beyond the packet it waits for,
\* though has_wheel changes while bytes arrive.
TypeOK ==
    /\ step \in 1 .. Done
    /\ has_wheel \in BOOLEAN /\ masked \in BOOLEAN /\ waits \in BOOLEAN /\ reporting \in BOOLEAN
    /\ out \in Seq([src : {"mouse", "keyboard", "controller"}, byte : 0 .. 255])
    /\ answers \in Seq(0 .. 255) /\ typed \in Seq(Keys)
    /\ packet_index \in 0 .. (IF has_wheel THEN 3 ELSE 2)
    /\ port \in 0 .. 255 /\ command \in 0 .. 255
    /\ knock \in 0 .. 3 /\ sent \in 0 .. (PacketSize - 1)

\* Though the keyboard's handler may read the controller's answer first,
\* mouse_init writes the command byte back with only the mouse's bits changed,
\* unless a key was typed meanwhile.
CommandKept ==
    step > 2 /\ typed = <<>> => command = 71

ThreeTyped == \E i \in DOMAIN typed : typed[i] = 3

\* The driver expects packets of four bytes only from a mouse that sends them,
\* unless the key whose scan code is 3 was typed meanwhile.
FourBytesJustified == has_wheel => WheelMode \/ ThreeTyped

\* A byte 3 is on its way to mouse_read only if one of the two sent it.
ThreeJustified ==
    \/ /\ port # 3
       /\ \A i \in DOMAIN out : out[i].byte # 3
       /\ \A i \in DOMAIN answers : answers[i] # 3
    \/ WheelMode \/ ThreeTyped

\* Until the command byte is written the mouse is silent, and the controller's
\* answer waits or was the last byte read.
CommandOnItsWay ==
    step <= 2 =>
        /\ command \in FirstCommand
        /\ answers = <<>> /\ ~reporting
        /\ typed = <<>> =>
              \/ step = 1 /\ out = <<>>
              \/ step = 2 /\ out = <<[src |-> "controller", byte |-> command]>>
              \/ step = 2 /\ out = <<>> /\ port = command

\* has_wheel is set once, by the 15th step.
NoWheelYet == step <= 15 => ~has_wheel

\* The invariant of mouse_init, its two interrupt handlers and the devices:
\* well-formed state, no store beyond the packet, the command byte and the
\* wheel as the devices have them.
MInv ==
    /\ TypeOK
    /\ NoWheelYet
    /\ CommandOnItsWay
    /\ CommandKept
    /\ ThreeJustified
    /\ FourBytesJustified

\* mouse_init returns, whatever the device answers, late, to the wrong reader
\* or not at all.
InitReturns == <>(step = Done)

MouseBytes == Cardinality({i \in DOMAIN out : out[i].src = "mouse"}) + Len(answers)
Shift == (packet_index + MouseBytes - sent) % PacketSize
Agree == has_wheel = WheelMode

\* Once mouse_init has returned and driver and device agree on the size of a
\* packet, only a lost byte changes which byte the driver takes for the first:
\* a driver in step stays in step, one that is not never finds it again.
StepKept ==
    [][step = Done /\ Agree /\ lost' = lost => Shift' = Shift]_vars

\* After mouse_init driver and device agree on the size of a packet:
\* mouse_enable_wheel_probe finds the wheel or leaves packets of three bytes.
WheelAgrees == step = Done => Agree
=============================================================================
