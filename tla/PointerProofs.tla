---------------------------- MODULE PointerProofs ----------------------------
(***************************************************************************)
(* From the mouse to its pointer: what mouse_init and mouse_irq_handler    *)
(* keep, whatever the device, the keys and the losses; and what the        *)
(* framebuffer keeps on every screen, for every call and every movement.   *)
(***************************************************************************)
EXTENDS MouseSetup, Framebuffer, TLAPS, FiniteSetTheorems, WellFoundedInduction, SequenceTheorems

-----------------------------------------------------------------------------
(* The mouse: sequences of bytes                                            *)

\* Append leaves the old elements and adds one.
LEMMA AppendElements ==
    ASSUME NEW S, NEW s \in Seq(S), NEW e \in S
    PROVE  /\ Append(s, e) \in Seq(S)
           /\ \A i \in DOMAIN Append(s, e) :
                 Append(s, e)[i] = e \/ (i \in DOMAIN s /\ Append(s, e)[i] = s[i])
OBVIOUS

\* Head and tail have no elements of their own.
LEMMA TailElements ==
    ASSUME NEW S, NEW s \in Seq(S), s # <<>>
    PROVE  /\ Tail(s) \in Seq(S)
           /\ Head(s) \in S /\ 1 \in DOMAIN s /\ Head(s) = s[1]
           /\ \A i \in DOMAIN Tail(s) : i + 1 \in DOMAIN s /\ Tail(s)[i] = s[i + 1]
OBVIOUS

\* Neither has a concatenation.
LEMMA ConcatElements ==
    ASSUME NEW S, NEW s \in Seq(S), NEW t \in Seq(S)
    PROVE  /\ s \o t \in Seq(S)
           /\ \A i \in DOMAIN (s \o t) :
                 \/ i \in DOMAIN s /\ (s \o t)[i] = s[i]
                 \/ i - Len(s) \in DOMAIN t /\ (s \o t)[i] = t[i - Len(s)]
OBVIOUS

\* The script of mouse_init has seventeen steps.
LEMMA DoneIs == Done = 18
BY DEF Done, Script

\* Where the steps of mouse_init lie in its script.
LEMMA ScriptSteps ==
    /\ Done = 18
    /\ \A k \in 1 .. 17 :
        /\ Script[k].kind = "ask" => k = 1
        /\ Script[k].kind = "command" => k = 2
        /\ Script[k].kind = "write" => k > 2 /\ Script[k].byte \in 0 .. 255
        /\ Script[k].kind = "read" => k > 2 /\ k # 15
        /\ Script[k].kind = "id" => k = 15
<1>1. Done = 18
  BY DoneIs
<1>2. ASSUME NEW k \in 1 .. 17
      PROVE  /\ Script[k].kind = "ask" => k = 1
             /\ Script[k].kind = "command" => k = 2
             /\ Script[k].kind = "write" => k > 2 /\ Script[k].byte \in 0 .. 255
             /\ Script[k].kind = "read" => k > 2 /\ k # 15
             /\ Script[k].kind = "id" => k = 15
  <2>1. k = 1 \/ k = 2 \/ k = 3 \/ k = 4 \/ k = 5 \/ k = 6 \/ k = 7 \/ k = 8 \/ k = 9
        \/ k = 10 \/ k = 11 \/ k = 12 \/ k = 13 \/ k = 14 \/ k = 15 \/ k = 16 \/ k = 17
    OBVIOUS
  <2>2. QED
    BY <2>1 DEF Script, W, R, ReadID
<1>3. QED
  BY <1>1, <1>2

\* The same of the step that mouse_init takes now.
LEMMA AtStep ==
    ASSUME MInv, NEW kind, Doing(kind)
    PROVE  /\ step \in 1 .. 17 /\ step' = step + 1 /\ step' \in 1 .. Done
           /\ Script[step].kind = kind
           /\ kind = "ask" => step = 1
           /\ kind = "command" => step = 2
           /\ kind = "write" => step > 2 /\ Script[step].byte \in 0 .. 255
           /\ kind = "read" => step > 2 /\ step # 15
           /\ kind = "id" => step = 15
<1>1. step \in 1 .. Done /\ step < Done /\ step' = step + 1 /\ Script[step].kind = kind
  BY DEF MInv, TypeOK, Doing
<1>2. Done = 18
  BY ScriptSteps
<1>3. step \in 1 .. 17 /\ step' \in 1 .. Done
  BY <1>1, <1>2
<1>4. /\ Script[step].kind = "ask" => step = 1
      /\ Script[step].kind = "command" => step = 2
      /\ Script[step].kind = "write" => step > 2 /\ Script[step].byte \in 0 .. 255
      /\ Script[step].kind = "read" => step > 2 /\ step # 15
      /\ Script[step].kind = "id" => step = 15
  BY <1>3, ScriptSteps, Zenon
<1>5. QED
  BY <1>1, <1>3, <1>4, Zenon

-----------------------------------------------------------------------------
(* The mouse: its steps                                                     *)

Item == [src : {"mouse", "keyboard", "controller"}, byte : 0 .. 255]

\* Both ways a byte leaves the controller, by mouse_read and by a handler.
Taken ==
    /\ out # <<>>
    /\ port' = Head(out).byte
    /\ out' = Tail(out)

\* A byte that is read keeps the types and brings no 3 of its own.
LEMMA TakenKeeps ==
    ASSUME MInv, Taken
    PROVE  /\ port' \in 0 .. 255 /\ out' \in Seq(Item)
           /\ \/ port' # 3 /\ \A i \in DOMAIN out' : out'[i].byte # 3
              \/ WheelMode \/ ThreeTyped
<1>1. out \in Seq(Item) /\ out # <<>>
  BY DEF MInv, TypeOK, Item, Taken
<1>2. /\ Tail(out) \in Seq(Item) /\ Head(out) \in Item /\ 1 \in DOMAIN out /\ Head(out) = out[1]
      /\ \A i \in DOMAIN Tail(out) : i + 1 \in DOMAIN out /\ Tail(out)[i] = out[i + 1]
  BY <1>1, TailElements
<1>3. Head(out).byte \in 0 .. 255
  BY <1>2 DEF Item
<1>4. CASE \A i \in DOMAIN out : out[i].byte # 3
  BY <1>2, <1>3, <1>4 DEF Taken
<1>5. CASE WheelMode \/ ThreeTyped
  BY <1>2, <1>3, <1>5 DEF Taken
<1>6. QED
  BY <1>4, <1>5 DEF MInv, ThreeJustified

LEMMA PolledKeeps ==
    ASSUME MInv, Polled
    PROVE  /\ port' \in 0 .. 255 /\ out' \in Seq(Item)
           /\ \/ port' # 3 /\ \A i \in DOMAIN out' : out'[i].byte # 3
              \/ WheelMode \/ ThreeTyped
<1>1. CASE Taken
  BY <1>1, TakenKeeps
<1>2. CASE UNCHANGED <<port, out>>
  BY <1>2 DEF MInv, TypeOK, Item, ThreeJustified
<1>3. QED
  BY <1>1, <1>2 DEF Polled, Taken

\* An appended byte that is not 3, or is justified, keeps the rest.
LEMMA AddedKeeps ==
    ASSUME MInv, NEW e \in Item, out' = Append(out, e)
    PROVE  /\ out' \in Seq(Item)
           /\ \/ e.byte = 3
              \/ WheelMode \/ ThreeTyped
              \/ \A i \in DOMAIN out' : out'[i].byte # 3
<1>1. out \in Seq(Item)
  BY DEF MInv, TypeOK, Item
<1>2. /\ out' \in Seq(Item)
      /\ \A i \in DOMAIN out' : out'[i] = e \/ (i \in DOMAIN out /\ out'[i] = out[i])
  BY <1>1, AppendElements
<1>3. QED
  BY <1>2 DEF MInv, ThreeJustified

\* Init.
LEMMA InitMInv == Init => MInv
<1> SUFFICES ASSUME Init PROVE MInv
  OBVIOUS
<1>1. TypeOK
  <2>1. step \in 1 .. Done
    BY DoneIs DEF Init
  <2>2. has_wheel \in BOOLEAN /\ masked \in BOOLEAN /\ waits \in BOOLEAN /\ reporting \in BOOLEAN
    BY Zenon DEF Init
  <2>3. /\ out \in Seq([src : {"mouse", "keyboard", "controller"}, byte : 0 .. 255])
        /\ answers \in Seq(0 .. 255) /\ typed \in Seq(Keys)
    BY DEF Init
  <2>4. /\ packet_index \in 0 .. (IF has_wheel THEN 3 ELSE 2)
        /\ port \in 0 .. 255 /\ command \in 0 .. 255
        /\ knock \in 0 .. 3 /\ sent \in 0 .. (PacketSize - 1)
    BY DEF Init, FirstCommand, PacketSize, WheelMode
  <2>5. QED
    BY <2>1, <2>2, <2>3, <2>4 DEF TypeOK
<1>2. NoWheelYet /\ CommandOnItsWay /\ CommandKept /\ FourBytesJustified
  BY DEF Init, NoWheelYet, CommandOnItsWay, CommandKept, FourBytesJustified
<1>3. ThreeJustified
  BY DEF Init, ThreeJustified
<1>4. QED
  BY <1>1, <1>2, <1>3 DEF MInv

\* mouse_init asks for the command byte.
LEMMA AskKeeps == ASSUME MInv, AskCommand PROVE MInv'
<1> DEFINE e == [src |-> "controller", byte |-> command]
<1>1. step = 1 /\ step' = 2
  <2>1. Doing("ask")
    BY DEF AskCommand
  <2>2. QED
    BY <2>1, AtStep
<1>2. e \in Item /\ e.byte # 3 /\ command \in FirstCommand
  BY <1>1 DEF MInv, CommandOnItsWay, FirstCommand, Item
<1>3. out' = Append(out, e)
  BY DEF AskCommand
<1>4. /\ out' \in Seq(Item)
      /\ WheelMode \/ ThreeTyped \/ \A i \in DOMAIN out' : out'[i].byte # 3
  BY <1>2, <1>3, AddedKeeps
<1>5. UNCHANGED <<packet_index, has_wheel, command, masked, port, mouse, packets, typed, lost>>
  BY DEF AskCommand
<1>6. TypeOK'
  BY <1>1, <1>4, <1>5, DoneIs DEF MInv, TypeOK, Item, mouse, PacketSize, WheelMode
<1>7. NoWheelYet' /\ CommandKept' /\ FourBytesJustified'
  BY <1>1, <1>5 DEF MInv, NoWheelYet, CommandKept, FourBytesJustified, mouse, WheelMode, ThreeTyped
<1>8. ThreeJustified'
  BY <1>4, <1>5 DEF MInv, ThreeJustified, mouse, WheelMode, ThreeTyped
<1>9. CommandOnItsWay'
  <2>1. typed = <<>> => out = <<>>
    BY <1>1 DEF MInv, CommandOnItsWay
  <2>2. typed = <<>> => out' = <<e>>
    BY <2>1, <1>3
  <2>3. QED
    BY <1>1, <1>2, <1>5, <2>2 DEF MInv, CommandOnItsWay, mouse
<1>10. QED
  BY <1>6, <1>7, <1>8, <1>9 DEF MInv

\* mouse_init writes the command byte back.
LEMMA CommandKeeps == ASSUME MInv, SetCommand PROVE MInv'
<1>1. step = 2 /\ step' = 3
  <2>1. Doing("command")
    BY DEF SetCommand
  <2>2. QED
    BY <2>1, AtStep
<1>2. /\ port' \in 0 .. 255 /\ out' \in Seq(Item)
      /\ \/ port' # 3 /\ \A i \in DOMAIN out' : out'[i].byte # 3
         \/ WheelMode \/ ThreeTyped
  BY PolledKeeps DEF SetCommand
<1>3. /\ command' = Enabled(port') /\ packet_index' = 0
      /\ UNCHANGED <<has_wheel, masked, mouse, packets, typed, lost>>
  BY DEF SetCommand
<1>4. Enabled(port') \in 0 .. 255
  <2>1. ASSUME NEW b \in 0 .. 255 PROVE Enabled(b) \in 0 .. 255
    BY <2>1 DEF Enabled
  <2>2. QED
    BY <1>2, <2>1
<1>5. TypeOK'
  BY <1>1, <1>2, <1>3, <1>4, DoneIs DEF MInv, TypeOK, Item, mouse, PacketSize, WheelMode
<1>6. NoWheelYet' /\ CommandOnItsWay' /\ FourBytesJustified'
  BY <1>1, <1>3 DEF MInv, NoWheelYet, CommandOnItsWay, FourBytesJustified, mouse, WheelMode, ThreeTyped
<1>7. ThreeJustified'
  BY <1>2, <1>3 DEF MInv, ThreeJustified, mouse, WheelMode, ThreeTyped
<1>8. CommandKept'
  <2>1. Enabled(69) = 71 /\ Enabled(101) = 71
    BY DEF Enabled
  <2>2. typed = <<>> => port' = command /\ command \in {69, 101}
    BY <1>1 DEF MInv, CommandOnItsWay, FirstCommand, SetCommand, Polled, TimesOut
  <2>3. QED
    BY <2>1, <2>2, <1>3 DEF CommandKept
<1>9. QED
  BY <1>5, <1>6, <1>7, <1>8 DEF MInv

\* mouse_write: what the device makes of a byte.
LEMMA WriteKeeps == ASSUME MInv, mouse_write PROVE MInv'
<1> DEFINE b == Script[step].byte
<1>1. step > 2 /\ step' > 2 /\ step' \in 1 .. Done /\ b \in 0 .. 255 /\ step' = step + 1 /\ step \in 1 .. 17
  <2>1. Doing("write")
    BY DEF mouse_write
  <2>2. QED
    BY <2>1, AtStep
<1>2. /\ Receive(b)
      /\ UNCHANGED <<packet_index, has_wheel, controller, packets, typed, lost>>
  BY DEF mouse_write
<1>3. UNCHANGED <<packet_index, has_wheel, command, masked, port, out, device, sent, typed>>
  BY <1>2 DEF Receive, controller
<1>4. knock' \in 0 .. 3 /\ (WheelMode => WheelMode')
  BY <1>2, <1>3 DEF Receive, Knock, WheelMode, MInv, TypeOK
<1>5. waits' \in BOOLEAN /\ reporting' \in BOOLEAN
  BY <1>2, Zenon DEF Receive, MInv, TypeOK
<1>6. Reply(b) \in Seq(0 .. 255) /\ (WheelMode \/ \A i \in DOMAIN Reply(b) : Reply(b)[i] # 3)
  <2>1. Reply(b) = <<>> \/ Reply(b) = <<250>> \/ Reply(b) = <<250, 0>> \/ (WheelMode /\ Reply(b) = <<250, 3>>)
    BY DEF Reply, ACK
  <2>2. CASE Reply(b) = <<>>
    BY <2>2
  <2>3. CASE Reply(b) = <<250>>
    BY <2>3
  <2>4. CASE Reply(b) = <<250, 0>>
    BY <2>4
  <2>5. CASE WheelMode /\ Reply(b) = <<250, 3>>
    BY <2>5
  <2>6. QED
    BY <2>1, <2>2, <2>3, <2>4, <2>5
<1>7. /\ answers' \in Seq(0 .. 255)
      /\ \/ WheelMode
         \/ (\E i \in DOMAIN answers : answers[i] = 3)
         \/ \A i \in DOMAIN answers' : answers'[i] # 3
  <2>1. CASE answers' = Reply(b)
    BY <1>6, <2>1
  <2>2. CASE answers' = answers \o Reply(b)
    <3>1. answers \in Seq(0 .. 255)
      BY DEF MInv, TypeOK
    <3>2. /\ answers' \in Seq(0 .. 255)
          /\ \A i \in DOMAIN answers' :
                \/ i \in DOMAIN answers /\ answers'[i] = answers[i]
                \/ i - Len(answers) \in DOMAIN Reply(b) /\ answers'[i] = Reply(b)[i - Len(answers)]
      BY <1>6, <2>2, <3>1, ConcatElements
    <3>3. QED
      BY <1>6, <3>2
  <2>3. QED
    BY <1>2, <2>1, <2>2 DEF Receive
<1>8. TypeOK'
  <2>1. sent' \in 0 .. (PacketSize' - 1)
    BY <1>3, <1>4 DEF MInv, TypeOK, PacketSize
  <2>2. QED
    BY <1>1, <1>3, <1>4, <1>5, <1>7, <2>1 DEF MInv, TypeOK
<1>9. NoWheelYet' /\ CommandOnItsWay' /\ CommandKept' /\ FourBytesJustified'
  BY <1>1, <1>3, <1>4 DEF MInv, NoWheelYet, CommandOnItsWay, CommandKept, FourBytesJustified, ThreeTyped
<1>10. ThreeJustified'
  BY <1>3, <1>4, <1>7 DEF MInv, ThreeJustified, ThreeTyped
<1>11. QED
  BY <1>8, <1>9, <1>10 DEF MInv

\* mouse_read takes whatever byte is there.
LEMMA ReadKeeps == ASSUME MInv, mouse_read PROVE MInv'
<1>1. step > 2 /\ step' > 2 /\ step' \in 1 .. Done /\ step' = step + 1 /\ step # 15 /\ step \in 1 .. 17
  <2>1. Doing("read")
    BY DEF mouse_read
  <2>2. QED
    BY <2>1, AtStep
<1>2. UNCHANGED <<packet_index, has_wheel, command, masked, mouse, packets, typed, lost>>
  BY DEF mouse_read
<1>3. /\ port' \in 0 .. 255 /\ out' \in Seq(Item)
      /\ \/ port' # 3 /\ \A i \in DOMAIN out' : out'[i].byte # 3
         \/ WheelMode \/ ThreeTyped
  BY PolledKeeps DEF mouse_read
<1>4. TypeOK'
  BY <1>1, <1>2, <1>3 DEF MInv, TypeOK, Item, mouse, PacketSize, WheelMode
<1>5. NoWheelYet' /\ CommandOnItsWay' /\ CommandKept' /\ FourBytesJustified'
  BY <1>1, <1>2 DEF MInv, NoWheelYet, CommandOnItsWay, CommandKept, FourBytesJustified, mouse, WheelMode, ThreeTyped
<1>6. ThreeJustified'
  BY <1>2, <1>3 DEF MInv, ThreeJustified, mouse, WheelMode, ThreeTyped
<1>7. QED
  BY <1>4, <1>5, <1>6 DEF MInv

\* mouse_enable_wheel_probe takes the byte for the device's number.
LEMMA ReadIDKeeps == ASSUME MInv, mouse_read_id PROVE MInv'
<1>1. step = 15 /\ step' = 16 /\ step' \in 1 .. Done
  <2>1. Doing("id")
    BY DEF mouse_read_id
  <2>2. QED
    BY <2>1, AtStep
<1>2. /\ UNCHANGED <<packet_index, command, masked, mouse, packets, typed, lost>>
      /\ has_wheel' = (port' = 3)
  BY DEF mouse_read_id, FoundWheel
<1>3. /\ port' \in 0 .. 255 /\ out' \in Seq(Item)
      /\ \/ port' # 3 /\ \A i \in DOMAIN out' : out'[i].byte # 3
         \/ WheelMode \/ ThreeTyped
  BY PolledKeeps DEF mouse_read_id
<1>4. TypeOK'
  <2>1. ~has_wheel
    BY <1>1 DEF MInv, NoWheelYet
  <2>2. packet_index' \in 0 .. (IF has_wheel' THEN 3 ELSE 2)
    BY <1>2, <2>1 DEF MInv, TypeOK
  <2>3. has_wheel' \in BOOLEAN
    BY <1>2
  <2>4. QED
    BY <1>1, <1>2, <1>3, <2>2, <2>3 DEF MInv, TypeOK, Item, mouse, PacketSize, WheelMode
<1>5. NoWheelYet' /\ CommandOnItsWay' /\ CommandKept'
  BY <1>1, <1>2 DEF MInv, NoWheelYet, CommandOnItsWay, CommandKept
<1>6. ThreeJustified' /\ FourBytesJustified'
  BY <1>2, <1>3 DEF MInv, ThreeJustified, FourBytesJustified, mouse, WheelMode, ThreeTyped
<1>7. QED
  BY <1>4, <1>5, <1>6 DEF MInv

\* Before the command byte is written a byte of the mouse never waits, unless
\* keys were typed.
LEMMA NoMouseByte ==
    ASSUME MInv, step <= 2, typed = <<>>, out # <<>>
    PROVE  Head(out) = [src |-> "controller", byte |-> command] /\ Tail(out) = <<>> /\ step = 2
<1>1. out = <<[src |-> "controller", byte |-> command]>> /\ step = 2
  BY DEF MInv, CommandOnItsWay
<1>2. ASSUME NEW e PROVE Head(<<e>>) = e /\ Tail(<<e>>) = <<>>
  OBVIOUS
<1>3. QED
  BY <1>1, <1>2

\* mouse_irq_handler.
LEMMA MouseIrqKeeps == ASSUME MInv, mouse_irq_handler PROVE MInv'
<1>1. UNCHANGED <<step, has_wheel, command, masked, mouse, packets, typed, lost>>
  BY DEF mouse_irq_handler
<1>2. /\ port' \in 0 .. 255 /\ out' \in Seq(Item)
      /\ \/ port' # 3 /\ \A i \in DOMAIN out' : out'[i].byte # 3
         \/ WheelMode \/ ThreeTyped
  BY TakenKeeps DEF mouse_irq_handler, Taken
<1>3. packet_index' \in 0 .. (IF has_wheel' THEN 3 ELSE 2)
  BY <1>1 DEF mouse_irq_handler, Advance, MInv, TypeOK
<1>4. TypeOK'
  BY <1>1, <1>2, <1>3 DEF MInv, TypeOK, Item, mouse, PacketSize, WheelMode
<1>5. step <= 2 => typed # <<>>
  BY NoMouseByte DEF mouse_irq_handler
<1>6. NoWheelYet' /\ CommandOnItsWay' /\ CommandKept' /\ FourBytesJustified'
  BY <1>1, <1>5 DEF MInv, NoWheelYet, CommandOnItsWay, CommandKept, FourBytesJustified, mouse, WheelMode, ThreeTyped
<1>7. ThreeJustified'
  BY <1>1, <1>2 DEF MInv, ThreeJustified, mouse, WheelMode, ThreeTyped
<1>8. QED
  BY <1>4, <1>6, <1>7 DEF MInv

\* keyboard_irq_handler, which may read the controller's answer.
LEMMA KeyboardIrqKeeps == ASSUME MInv, keyboard_irq_handler PROVE MInv'
<1>1. UNCHANGED <<step, packet_index, has_wheel, command, masked, mouse, packets, typed, lost>>
  BY DEF keyboard_irq_handler, driver
<1>2. /\ port' \in 0 .. 255 /\ out' \in Seq(Item)
      /\ \/ port' # 3 /\ \A i \in DOMAIN out' : out'[i].byte # 3
         \/ WheelMode \/ ThreeTyped
  BY TakenKeeps DEF keyboard_irq_handler, Taken
<1>3. TypeOK'
  BY <1>1, <1>2 DEF MInv, TypeOK, Item, mouse, PacketSize, WheelMode
<1>4. step <= 2 /\ typed = <<>> => step = 2 /\ out' = <<>> /\ port' = command
  BY NoMouseByte DEF keyboard_irq_handler
<1>5. CommandOnItsWay'
  BY <1>1, <1>4 DEF MInv, CommandOnItsWay, mouse
<1>6. NoWheelYet' /\ CommandKept' /\ FourBytesJustified'
  BY <1>1 DEF MInv, NoWheelYet, CommandKept, FourBytesJustified, mouse, WheelMode, ThreeTyped
<1>7. ThreeJustified'
  BY <1>1, <1>2 DEF MInv, ThreeJustified, mouse, WheelMode, ThreeTyped
<1>8. QED
  BY <1>3, <1>5, <1>6, <1>7 DEF MInv

\* A byte of the device reaches the controller.
LEMMA DeliverKeeps == ASSUME MInv, Deliver PROVE MInv'
<1> DEFINE e == [src |-> "mouse", byte |-> Head(answers)]
<1>1. /\ UNCHANGED <<step, packet_index, has_wheel, command, masked, port, device, waits, knock, reporting, sent, typed>>
      /\ answers # <<>> /\ answers' = Tail(answers) /\ out' = Append(out, e)
  BY DEF Deliver, driver
<1>2. /\ Tail(answers) \in Seq(0 .. 255) /\ Head(answers) \in 0 .. 255
      /\ 1 \in DOMAIN answers /\ Head(answers) = answers[1]
      /\ \A i \in DOMAIN Tail(answers) : i + 1 \in DOMAIN answers /\ Tail(answers)[i] = answers[i + 1]
  BY <1>1, TailElements DEF MInv, TypeOK
<1>3. e \in Item
  BY <1>2 DEF Item
<1>4. /\ out' \in Seq(Item)
      /\ e.byte = 3 \/ WheelMode \/ ThreeTyped \/ \A i \in DOMAIN out' : out'[i].byte # 3
  BY <1>1, <1>3, AddedKeeps
<1>5. TypeOK'
  BY <1>1, <1>2, <1>4 DEF MInv, TypeOK, Item, PacketSize, WheelMode
<1>6. NoWheelYet' /\ CommandOnItsWay' /\ CommandKept' /\ FourBytesJustified'
  BY <1>1 DEF MInv, NoWheelYet, CommandOnItsWay, CommandKept, FourBytesJustified, WheelMode, ThreeTyped
<1>7. ThreeJustified'
  <2>1. (WheelMode \/ ThreeTyped) => (WheelMode \/ ThreeTyped)'
    BY <1>1 DEF WheelMode, ThreeTyped
  <2>2. CASE ~WheelMode /\ ~ThreeTyped
    BY <1>1, <1>2, <1>4, <2>2 DEF MInv, ThreeJustified
  <2>3. QED
    BY <2>1, <2>2 DEF ThreeJustified
<1>8. QED
  BY <1>5, <1>6, <1>7 DEF MInv

\* A byte of a movement.
LEMMA MoveKeeps == ASSUME MInv, Move PROVE MInv'
<1> DEFINE e == [src |-> "mouse", byte |-> IF sent = 0 THEN 8 ELSE 1]
<1>1. /\ UNCHANGED <<step, packet_index, has_wheel, command, masked, port, device, waits, knock, reporting, answers, typed>>
      /\ reporting /\ sent' = (sent + 1) % PacketSize /\ out' = Append(out, e)
  BY DEF Move, driver
<1>2. e \in Item /\ e.byte # 3
  BY DEF Item
<1>3. /\ out' \in Seq(Item)
      /\ WheelMode \/ ThreeTyped \/ \A i \in DOMAIN out' : out'[i].byte # 3
  BY <1>1, <1>2, AddedKeeps
<1>4. sent' \in 0 .. (PacketSize' - 1)
  BY <1>1 DEF MInv, TypeOK, PacketSize, WheelMode
<1>5. TypeOK'
  BY <1>1, <1>3, <1>4 DEF MInv, TypeOK, Item
<1>6. NoWheelYet' /\ CommandOnItsWay' /\ CommandKept' /\ FourBytesJustified'
  BY <1>1 DEF MInv, NoWheelYet, CommandOnItsWay, CommandKept, FourBytesJustified, WheelMode, ThreeTyped
<1>7. ThreeJustified'
  BY <1>1, <1>3 DEF MInv, ThreeJustified, WheelMode, ThreeTyped
<1>8. QED
  BY <1>5, <1>6, <1>7 DEF MInv

\* A byte is lost.
LEMMA LoseKeeps == ASSUME MInv, Lose PROVE MInv'
<1>1. /\ UNCHANGED <<step, packet_index, has_wheel, command, masked, port, mouse, packets, typed>>
      /\ out # <<>> /\ Head(out).src = "mouse" /\ out' = Tail(out)
  BY DEF Lose, driver
<1>2. out \in Seq(Item)
  BY DEF MInv, TypeOK, Item
<1>3. /\ out' \in Seq(Item)
      /\ \A i \in DOMAIN out' : i + 1 \in DOMAIN out /\ out'[i] = out[i + 1]
  BY <1>1, <1>2, TailElements
<1>4. TypeOK'
  BY <1>1, <1>3 DEF MInv, TypeOK, Item, mouse, PacketSize, WheelMode
<1>5. step <= 2 => typed # <<>>
  BY <1>1, NoMouseByte
<1>6. NoWheelYet' /\ CommandOnItsWay' /\ CommandKept' /\ FourBytesJustified'
  BY <1>1, <1>5 DEF MInv, NoWheelYet, CommandOnItsWay, CommandKept, FourBytesJustified, mouse, WheelMode, ThreeTyped
<1>7. ThreeJustified'
  BY <1>1, <1>3 DEF MInv, ThreeJustified, mouse, WheelMode, ThreeTyped
<1>8. QED
  BY <1>4, <1>6, <1>7 DEF MInv

\* A key is typed meanwhile.
LEMMA KeyKeeps == ASSUME MInv, NEW k \in Keys, KeyPress(k) PROVE MInv'
<1> DEFINE e == [src |-> "keyboard", byte |-> k]
<1>1. /\ UNCHANGED <<step, packet_index, has_wheel, command, masked, port, mouse, packets>>
      /\ typed' = Append(typed, k) /\ out' = Append(out, e)
  BY DEF KeyPress, driver
<1>2. e \in Item
  BY MouseSetupConstants DEF Item
<1>3. /\ out' \in Seq(Item)
      /\ e.byte = 3 \/ WheelMode \/ ThreeTyped \/ \A i \in DOMAIN out' : out'[i].byte # 3
  BY <1>1, <1>2, AddedKeeps
<1>4. /\ typed' \in Seq(Keys) /\ typed' # <<>>
      /\ k = 3 \/ ThreeTyped => ThreeTyped'
  <2>1. typed \in Seq(Keys)
    BY DEF MInv, TypeOK
  <2>2. /\ Append(typed, k) \in Seq(Keys) /\ Append(typed, k) # <<>>
        /\ Len(typed) + 1 \in DOMAIN Append(typed, k) /\ Append(typed, k)[Len(typed) + 1] = k
        /\ \A i \in DOMAIN typed : i \in DOMAIN Append(typed, k) /\ Append(typed, k)[i] = typed[i]
    BY <2>1
  <2>3. QED
    BY <1>1, <2>2 DEF ThreeTyped
<1>5. TypeOK'
  BY <1>1, <1>3, <1>4 DEF MInv, TypeOK, Item, mouse, PacketSize, WheelMode
<1>6. NoWheelYet' /\ CommandOnItsWay' /\ CommandKept' /\ FourBytesJustified'
  BY <1>1, <1>4 DEF MInv, NoWheelYet, CommandOnItsWay, CommandKept, FourBytesJustified, mouse, WheelMode
<1>7. ThreeJustified'
  BY <1>1, <1>3, <1>4 DEF MInv, ThreeJustified, mouse, WheelMode
<1>8. QED
  BY <1>5, <1>6, <1>7 DEF MInv

\* Every step keeps the invariant.
LEMMA StepMInv == MInv /\ [Next]_vars => MInv'
<1> SUFFICES ASSUME MInv, [Next]_vars PROVE MInv'
  OBVIOUS
<1>1. CASE Main
  BY <1>1, AskKeeps, CommandKeeps, WriteKeeps, ReadKeeps, ReadIDKeeps DEF Main
<1>2. CASE Deliver \/ Move \/ Lose
  BY <1>2, DeliverKeeps, MoveKeeps, LoseKeeps
<1>3. ASSUME NEW k \in Keys, KeyPress(k) PROVE MInv'
  BY <1>3, KeyKeeps
<1>4. CASE mouse_irq_handler \/ keyboard_irq_handler
  BY <1>4, MouseIrqKeeps, KeyboardIrqKeeps
<1>5. CASE UNCHANGED vars
  BY <1>5 DEF vars, driver, controller, mouse, MInv, TypeOK, NoWheelYet, CommandOnItsWay, CommandKept,
     ThreeJustified, FourBytesJustified, PacketSize, WheelMode, ThreeTyped
<1>6. QED
  BY <1>1, <1>2, <1>3, <1>4, <1>5 DEF Next

-----------------------------------------------------------------------------
(* The mouse: theorems                                                      *)

\* The invariant of mouse_init, the two handlers, the controller and the mouse.
THEOREM MouseInvariant == Spec => []MInv
<1>1. QED
  BY InitMInv, StepMInv, PTL DEF Spec

\* mouse_init writes back the command byte it asked for, whoever read it first.
THEOREM MouseCommand == Spec => []CommandKept
<1>1. MInv => CommandKept
  BY DEF MInv
<1>2. QED
  BY <1>1, MouseInvariant, PTL

\* Packets of four bytes are expected only of a mouse that sends them, or after
\* a key whose scan code is 3.
THEOREM MouseFourBytes == Spec => []FourBytesJustified
<1>1. MInv => FourBytesJustified
  BY DEF MInv
<1>2. QED
  BY <1>1, MouseInvariant, PTL

-----------------------------------------------------------------------------
(* The mouse: the boundary of packets                                       *)

\* The places of the mouse's bytes in a queue of the controller.
Marked(s) == {i \in DOMAIN s : s[i].src = "mouse"}
Bytes == [src : {"mouse", "keyboard", "controller"}, byte : 0 .. 255]

\* They are finitely many.
LEMMA MarkedFinite ==
    ASSUME NEW s \in Seq(Bytes)
    PROVE  IsFiniteSet(Marked(s)) /\ Cardinality(Marked(s)) \in Nat
<1>1. Marked(s) \subseteq 1 .. Len(s) /\ Len(s) \in Nat
  BY DEF Marked
<1>2. IsFiniteSet(1 .. Len(s))
  BY <1>1, FS_Interval
<1>3. IsFiniteSet(Marked(s))
  BY <1>1, <1>2, FS_Subset
<1>4. QED
  BY <1>3, FS_CardinalityType

\* One more byte.
LEMMA CountAppend ==
    ASSUME NEW s \in Seq(Bytes), NEW e \in Bytes
    PROVE  Cardinality(Marked(Append(s, e))) =
               Cardinality(Marked(s)) + (IF e.src = "mouse" THEN 1 ELSE 0)
<1>1. IsFiniteSet(Marked(s)) /\ Cardinality(Marked(s)) \in Nat
  BY MarkedFinite
<1>2. Len(s) \in Nat /\ DOMAIN s = 1 .. Len(s) /\ DOMAIN Append(s, e) = 1 .. (Len(s) + 1)
      /\ Append(s, e)[Len(s) + 1] = e /\ \A i \in 1 .. Len(s) : Append(s, e)[i] = s[i]
  OBVIOUS
<1>3. Len(s) + 1 \notin Marked(s)
  BY <1>2 DEF Marked
<1>4. Marked(Append(s, e)) = IF e.src = "mouse" THEN Marked(s) \cup {Len(s) + 1} ELSE Marked(s)
  BY <1>2 DEF Marked
<1>5. Cardinality(Marked(s) \cup {Len(s) + 1}) = Cardinality(Marked(s)) + 1
  BY <1>1, <1>3, FS_AddElement
<1>6. CASE e.src = "mouse"
  BY <1>4, <1>5, <1>6
<1>7. CASE e.src # "mouse"
  BY <1>1, <1>4, <1>7
<1>8. QED
  BY <1>6, <1>7

\* The first byte taken.
LEMMA CountTail ==
    ASSUME NEW s \in Seq(Bytes), s # <<>>
    PROVE  Cardinality(Marked(Tail(s))) =
               Cardinality(Marked(s)) - (IF Head(s).src = "mouse" THEN 1 ELSE 0)
<1>1. IsFiniteSet(Marked(s)) /\ Cardinality(Marked(s)) \in Nat
  BY MarkedFinite
<1>2. /\ Len(s) \in Nat \ {0} /\ DOMAIN s = 1 .. Len(s) /\ DOMAIN Tail(s) = 1 .. (Len(s) - 1)
      /\ \A i \in 1 .. (Len(s) - 1) : Tail(s)[i] = s[i + 1]
      /\ Head(s) = s[1] /\ Tail(s) \in Seq(Bytes)
  OBVIOUS
<1> DEFINE A == Marked(Tail(s))
           B == Marked(s) \ {1}
           f == [i \in A |-> i + 1]
<1>3. A \subseteq 1 .. (Len(s) - 1) /\ B \subseteq 2 .. Len(s)
  BY <1>2 DEF Marked
<1>4. \A i \in 1 .. (Len(s) - 1) : i \in A <=> i + 1 \in B
  BY <1>2 DEF Marked
<1> HIDE DEF A, B
<1>5. f \in Bijection(A, B)
  <2>1. f \in [A -> B]
    BY <1>3, <1>4
  <2>2. \A a, b \in A : f[a] = f[b] => a = b
    BY <1>2, <1>3
  <2>3. \A b \in B : \E a \in A : f[a] = b
    <3> SUFFICES ASSUME NEW b \in B PROVE \E a \in A : f[a] = b
      OBVIOUS
    <3>1. b - 1 \in 1 .. (Len(s) - 1) /\ (b - 1) + 1 = b
      BY <1>2, <1>3
    <3>2. b - 1 \in A
      BY <1>4, <3>1
    <3>3. QED
      BY <3>1, <3>2
  <2>4. QED
    BY <2>1, <2>2, <2>3 DEF Bijection, Injection, Surjection, IsInjective
<1>6. IsFiniteSet(A)
  BY <1>2, MarkedFinite DEF A
<1>7. Cardinality(A) = Cardinality(B)
  <2>1. ExistsBijection(A, B)
    BY <1>5 DEF ExistsBijection
  <2>2. QED
    BY <1>6, <2>1, FS_Bijection
<1>8. Cardinality(B) = IF 1 \in Marked(s) THEN Cardinality(Marked(s)) - 1 ELSE Cardinality(Marked(s))
  BY <1>1, FS_RemoveElement DEF B
<1>9. 1 \in Marked(s) <=> Head(s).src = "mouse"
  BY <1>2 DEF Marked
<1>10. QED
  BY <1>1, <1>7, <1>8, <1>9 DEF A

\* The sizes are three and four: the remainders are decided case by case.
LEMMA ShiftIs ==
    ASSUME NEW P \in {3, 4}, NEW a \in Int, NEW s \in 0 .. (P - 1)
    PROVE  /\ (a + 1 - ((s + 1) % P)) % P = (a - s) % P
           /\ \A p \in 0 .. (P - 1) : ((IF p + 1 < P THEN p + 1 ELSE 0) + a - 1) % P = (p + a) % P
<1>1. CASE P = 3
  BY <1>1
<1>2. CASE P = 4
  BY <1>2
<1>3. QED
  BY <1>1, <1>2

\* How many bytes were lost is a number.
LEMMA LostNumber == Spec => [](lost \in Nat)
<1>1. Init => lost \in Nat
  BY DEF Init
<1>2. lost \in Nat /\ [Next]_vars => (lost \in Nat)'
  <2> SUFFICES ASSUME lost \in Nat, [Next]_vars PROVE lost' \in Nat
    OBVIOUS
  <2>1. CASE Lose
    BY <2>1 DEF Lose
  <2>2. CASE ~Lose
    <3>1. lost' = lost
      BY <2>2 DEF Next, Main, AskCommand, SetCommand, mouse_write, mouse_read, mouse_read_id, Deliver,
                  Move, KeyPress, mouse_irq_handler, keyboard_irq_handler, vars
    <3>2. QED
      BY <3>1
  <2>3. QED
    BY <2>1, <2>2
<1>3. QED
  BY <1>1, <1>2, PTL DEF Spec

LEMMA StepKeptStep == ASSUME MInv, lost \in Nat, [Next]_vars, step = Done, Agree, lost' = lost PROVE Shift' = Shift
<1>1. /\ out \in Seq(Bytes) /\ answers \in Seq(0 .. 255)
      /\ packet_index \in 0 .. (IF has_wheel THEN 3 ELSE 2) /\ sent \in 0 .. (PacketSize - 1)
      /\ has_wheel \in BOOLEAN
  BY DEF MInv, TypeOK, Bytes
<1>2. PacketSize \in {3, 4} /\ PacketSize = IF has_wheel THEN 4 ELSE 3
  BY <1>1 DEF PacketSize, Agree
<1> DEFINE m == Cardinality(Marked(out))
<1>3. m \in Nat /\ Len(answers) \in Nat /\ MouseBytes = m + Len(answers)
  <2>1. m \in Nat
    BY <1>1, MarkedFinite
  <2>2. Len(answers) \in Nat
    BY <1>1
  <2>3. MouseBytes = m + Len(answers)
    BY DEF MouseBytes, Marked
  <2>4. QED
    BY <2>1, <2>2, <2>3
<1>4. MouseBytes' = Cardinality(Marked(out')) + Len(answers')
  BY DEF MouseBytes, Marked
<1>5. ~Main
  <2>1. Main => step < Done
    BY DEF Main, AskCommand, SetCommand, mouse_write, mouse_read, mouse_read_id, Doing
  <2>2. Done = 18
    BY ScriptSteps
  <2>3. QED
    BY <2>1, <2>2
<1>6. Shift = (packet_index + (m + Len(answers)) - sent) % PacketSize
  BY <1>3 DEF Shift
<1> HIDE DEF m
<1>7. CASE Deliver
  <2>1. /\ answers # <<>> /\ answers' = Tail(answers)
        /\ out' = Append(out, [src |-> "mouse", byte |-> Head(answers)])
        /\ UNCHANGED <<packet_index, sent, device, knock>>
    BY <1>7 DEF Deliver, driver
  <2>2. Head(answers) \in 0 .. 255 /\ Len(answers') = Len(answers) - 1
    <3>1. Head(answers) \in 0 .. 255
      BY <1>1, <2>1, TailElements
    <3>2. Len(Tail(answers)) = Len(answers) - 1
      BY <1>1, <2>1
    <3>3. QED
      BY <2>1, <3>1, <3>2
  <2>3. [src |-> "mouse", byte |-> Head(answers)] \in Bytes
    BY <2>2 DEF Bytes
  <2>4. Cardinality(Marked(out')) = m + 1
    BY <1>1, <2>1, <2>3, CountAppend DEF m
  <2>5. MouseBytes' = MouseBytes
    BY <1>3, <1>4, <2>2, <2>4
  <2>6. PacketSize' = PacketSize
    BY <2>1 DEF PacketSize, WheelMode
  <2>7. QED
    BY <2>1, <2>5, <2>6 DEF Shift
<1>8. CASE Move
  <2> DEFINE e == [src |-> "mouse", byte |-> IF sent = 0 THEN 8 ELSE 1]
  <2>1. /\ out' = Append(out, e) /\ sent' = (sent + 1) % PacketSize
        /\ UNCHANGED <<packet_index, answers, device, knock>>
    BY <1>8 DEF Move, driver
  <2>2. e \in Bytes /\ e.src = "mouse"
    BY DEF Bytes
  <2> HIDE DEF e
  <2>3. Cardinality(Marked(out')) = m + 1
    BY <1>1, <2>1, <2>2, CountAppend DEF m
  <2>4. PacketSize' = PacketSize
    BY <2>1 DEF PacketSize, WheelMode
  <2> DEFINE a == packet_index + (m + Len(answers))
  <2>5. a \in Int /\ a + 1 = packet_index + MouseBytes' /\ Shift = (a - sent) % PacketSize
    BY <1>1, <1>3, <1>4, <1>6, <2>1, <2>3
  <2>6. Shift' = (a + 1 - ((sent + 1) % PacketSize)) % PacketSize
    <3>0. packet_index \in Int /\ MouseBytes' \in Int /\ (sent + 1) % PacketSize \in Int
      BY <1>1, <1>2, <1>3, <1>4, <2>1, <2>3
    <3>1. packet_index' + MouseBytes' - sent' = a + 1 - ((sent + 1) % PacketSize)
      <4> DEFINE q == (sent + 1) % PacketSize
      <4>1. q \in Int /\ sent' = q /\ packet_index' = packet_index
        BY <2>1, <3>0
      <4> HIDE DEF q, a
      <4>2. a \in Int /\ a + 1 = packet_index + MouseBytes'
        BY <2>5
      <4>3. packet_index \in Int /\ MouseBytes' \in Int
        BY <3>0
      <4> DEFINE b == MouseBytes'
      <4> HIDE DEF b
      <4>4. b \in Int /\ a + 1 = packet_index + b
        BY <4>2, <4>3, Zenon DEF b
      <4>5. packet_index + b - q = a + 1 - q
        BY <4>1, <4>2, <4>3, <4>4
      <4>6. packet_index' + MouseBytes' - sent' = a + 1 - q
        BY <4>1, <4>5, Zenon DEF b
      <4>7. QED
        BY <4>6 DEF q
    <3>2. QED
      BY <2>4, <3>1 DEF Shift
  <2> HIDE DEF a
  <2>7. QED
    BY <1>1, <1>2, <2>5, <2>6, ShiftIs
<1>9. CASE mouse_irq_handler
  <2>1. /\ out # <<>> /\ Head(out).src = "mouse" /\ out' = Tail(out)
        /\ packet_index' = IF packet_index + 1 < PacketSize THEN packet_index + 1 ELSE 0
        /\ UNCHANGED <<answers, sent, device, knock>>
    BY <1>2, <1>9 DEF mouse_irq_handler, Advance, mouse
  <2>2. Cardinality(Marked(out')) = m - 1
    BY <1>1, <2>1, CountTail DEF m
  <2>3. PacketSize' = PacketSize
    BY <2>1 DEF PacketSize, WheelMode
  <2> DEFINE a == (m + Len(answers)) - sent
  <2>4. a \in Int /\ Shift = (packet_index + a) % PacketSize
    BY <1>1, <1>2, <1>3, <1>6
  <2>5. packet_index' + MouseBytes' - sent' = packet_index' + a - 1
    <3>1. packet_index' \in Int /\ sent \in Int
      BY <1>1, <1>2, <2>1
    <3>2. MouseBytes' = m - 1 + Len(answers) /\ sent' = sent
      BY <1>4, <2>1, <2>2
    <3>3. QED
      BY <1>3, <3>1, <3>2
  <2>6. Shift' = (packet_index' + a - 1) % PacketSize
    BY <2>3, <2>5 DEF Shift
  <2>7. packet_index \in 0 .. (PacketSize - 1)
    BY <1>1, <1>2
  <2> HIDE DEF a
  <2>8. QED
    BY <1>1, <1>2, <2>1, <2>4, <2>6, <2>7, ShiftIs
<1>10. CASE keyboard_irq_handler
  <2>1. /\ out # <<>> /\ Head(out).src # "mouse" /\ out' = Tail(out)
        /\ UNCHANGED <<packet_index, answers, sent, device, knock>>
    BY <1>10 DEF keyboard_irq_handler, driver, mouse
  <2>2. Cardinality(Marked(out')) = m
    BY <1>1, <1>3, <2>1, CountTail DEF m
  <2>3. PacketSize' = PacketSize /\ MouseBytes' = MouseBytes
    BY <1>3, <1>4, <2>1, <2>2 DEF PacketSize, WheelMode
  <2>4. QED
    BY <2>1, <2>3 DEF Shift
<1>11. ASSUME NEW k \in Keys, KeyPress(k) PROVE Shift' = Shift
  <2>1. /\ out' = Append(out, [src |-> "keyboard", byte |-> k])
        /\ UNCHANGED <<packet_index, answers, sent, device, knock>>
    BY <1>11 DEF KeyPress, driver, mouse
  <2>2. [src |-> "keyboard", byte |-> k] \in Bytes
    BY MouseSetupConstants DEF Bytes
  <2>3. Cardinality(Marked(out')) = m
    BY <1>1, <1>3, <2>1, <2>2, CountAppend DEF m
  <2>4. PacketSize' = PacketSize /\ MouseBytes' = MouseBytes
    BY <1>3, <1>4, <2>1, <2>3 DEF PacketSize, WheelMode
  <2>5. QED
    BY <2>1, <2>4 DEF Shift
<1>12. CASE Lose
  <2>1. lost' = lost + 1
    BY <1>12 DEF Lose
  <2>2. QED
    BY <2>1
<1>13. CASE UNCHANGED vars
  BY <1>13 DEF vars, driver, controller, mouse, Shift, MouseBytes, PacketSize, WheelMode
<1>14. QED
  BY <1>5, <1>7, <1>8, <1>9, <1>10, <1>11, <1>12, <1>13 DEF Next

\* mouse_irq_handler never finds the start of a packet again, and never loses
\* it by itself: only a lost byte shifts the packets of a driver that knows
\* their size.
THEOREM MouseStepKept == Spec => StepKept
<1>1. MInv /\ lost \in Nat /\ [Next]_vars => [step = Done /\ Agree /\ lost' = lost => Shift' = Shift]_vars
  BY StepKeptStep
<1>2. QED
  BY <1>1, MouseInvariant, LostNumber, PTL DEF Spec, StepKept

-----------------------------------------------------------------------------
(* Induction along an interval                                              *)

\* A set of numbers that is not empty has a least element.
LEMMA LowestOf ==
    ASSUME NEW S, S \subseteq Nat, S # {}
    PROVE  \E f \in S : \A g \in S : f <= g
<1>1. IsWellFoundedOn(OpToRel(<, Nat), Nat)
  BY NatLessThanWellFounded
<1>2. PICK f \in S : \A g \in S : ~ (<<g, f>> \in OpToRel(<, Nat))
  BY <1>1, WFMin
<1>3. ASSUME NEW g \in S PROVE f <= g
  <2>1. f \in Nat /\ g \in Nat
    OBVIOUS
  <2>2. <<g, f>> \in Nat \X Nat /\ <<g, f>>[1] = g /\ <<g, f>>[2] = f
    BY <2>1
  <2>3. ~ (<<g, f>>[1] < <<g, f>>[2])
    BY <1>2, <2>2, Zenon DEF OpToRel
  <2>4. QED
    BY <2>1, <2>3
<1>4. QED
  BY <1>2, <1>3

\* What holds of 0, and of each number if of the one before, holds of all.
LEMMA Along ==
    ASSUME NEW n \in Nat, NEW D, 0 \in D, \A k \in 1 .. n : k - 1 \in D => k \in D
    PROVE  \A k \in 0 .. n : k \in D
<1> DEFINE E == {k \in 0 .. n : k \notin D}
<1>1. SUFFICES ASSUME E # {} PROVE FALSE
  OBVIOUS
<1>2. E \subseteq Nat
  OBVIOUS
<1>3. PICK m \in E : \A j \in E : m <= j
  BY <1>1, <1>2, LowestOf
<1>4. m \in 0 .. n /\ m \notin D /\ m # 0
  BY <1>3
<1>5. m - 1 \in 0 .. n /\ ~(m <= m - 1) /\ m \in 1 .. n
  BY <1>4
<1>6. m - 1 \in D
  BY <1>3, <1>5
<1>7. QED
  BY <1>4, <1>5, <1>6

-----------------------------------------------------------------------------
(* The framebuffer: addresses and the numbering of a raster                 *)

\* Quotient and remainder of a number are determined by it.
LEMMA Remainder ==
    ASSUME NEW n \in Nat \ {0}, NEW q \in Nat, NEW r \in 0 .. (n - 1)
    PROVE  (q * n + r) % n = r /\ (q * n + r) \div n = q
<1> DEFINE v == q * n + r
           p == v \div n
           s == v % n
<1>1. v \in Nat
  OBVIOUS
<1> HIDE DEF v
<1>2. p \in Int /\ s \in 0 .. (n - 1) /\ v = n * p + s
  BY <1>1
<1> HIDE DEF p, s
<1>3. n * (q - p) = s - r
  BY <1>2 DEF v
<1>4. q - p < 1
  <2> SUFFICES ASSUME q - p >= 1 PROVE FALSE
    BY <1>2
  <2>1. n * (q - p) >= n
    BY <1>2
  <2>2. QED
    BY <1>2, <1>3, <2>1
<1>5. q - p > -1
  <2> SUFFICES ASSUME p - q >= 1 PROVE FALSE
    BY <1>2
  <2>1. n * (p - q) >= n /\ n * (p - q) = r - s
    BY <1>2, <1>3
  <2>2. QED
    BY <1>2, <2>1
<1>6. q = p /\ r = s
  BY <1>2, <1>3, <1>4, <1>5
<1>7. QED
  BY <1>6 DEF p, s, v

\* The product of natural numbers grows with each of them.
LEMMA ProductBelow ==
    ASSUME NEW n \in Nat, NEW a \in Nat, NEW b \in Nat, a < b
    PROVE  a * n + n <= b * n
<1>1. (b - a - 1) * n >= 0
  OBVIOUS
<1>2. (b - a - 1) * n = b * n - a * n - n
  OBVIOUS
<1>3. a * n \in Nat /\ b * n \in Nat
  OBVIOUS
<1>4. QED
  BY <1>1, <1>2, <1>3

\* Column and row of the k-th pixel of a raster.
LEMMA RasterIndex ==
    ASSUME NEW w \in Nat, NEW h \in Nat, NEW k \in 1 .. (w * h)
    PROVE  (k - 1) % w \in 0 .. (w - 1) /\ (k - 1) \div w \in 0 .. (h - 1)
<1> DEFINE i == k - 1
           q == i \div w
           r == i % w
<1>1. w \in Nat \ {0} /\ i \in Nat /\ i < w * h
  <2>1. w = 0 => w * h = 0
    OBVIOUS
  <2>2. QED
    BY <2>1
<1> HIDE DEF i
<1>2. q \in Nat /\ r \in 0 .. (w - 1) /\ i = w * q + r
  BY <1>1
<1> HIDE DEF q, r
<1>3. q < h
  <2> SUFFICES ASSUME ~(q < h) PROVE FALSE
    OBVIOUS
  <2>1. CASE q = h
    BY <1>1, <1>2, <2>1
  <2>2. CASE h < q
    <3>1. h * w + w <= q * w
      BY <1>1, <1>2, <2>2, ProductBelow
    <3>2. h * w = w * h /\ q * w = w * q /\ w * h \in Nat /\ w * q \in Nat
      BY <1>2
    <3>3. QED
      BY <1>1, <1>2, <3>1, <3>2
  <2>3. QED
    BY <1>2, <2>1, <2>2
<1>4. QED
  BY <1>2, <1>3 DEF q, r, i

\* Some write of a raster w wide and h high is in column x of row y.
Reached(w, h, x, y) == \E k \in 1 .. (w * h) : (k - 1) % w = x /\ (k - 1) \div w = y

\* The pixel in column x of row y has a number in the raster.
LEMMA RasterReaches ==
    ASSUME NEW w \in Nat, NEW h \in Nat, NEW x \in 0 .. (w - 1), NEW y \in 0 .. (h - 1)
    PROVE  Reached(w, h, x, y)
<1> DEFINE i == y * w + x
<1>1. w \in Nat \ {0} /\ y \in Nat /\ x \in Nat /\ y < h
  OBVIOUS
<1>2. i % w = x /\ i \div w = y
  BY <1>1, Remainder
<1>3. y * w + w <= h * w
  BY <1>1, ProductBelow
<1>4. y * w \in Nat /\ h * w \in Nat /\ h * w = w * h
  BY <1>1
<1>5. i \in Nat /\ i < w * h
  BY <1>1, <1>3, <1>4
<1> HIDE DEF i
<1>6. i + 1 \in 1 .. (w * h) /\ (i + 1) - 1 = i
  BY <1>4, <1>5
<1>7. QED
  BY <1>2, <1>6 DEF Reached

\* The pixel in column x of row y lies in its buffer, in the visible part.
LEMMA PixelAddress ==
    ASSUME NEW width \in Nat, NEW height \in Nat, NEW pitch \in Nat, width <= pitch,
           NEW x \in 0 .. (width - 1), NEW y \in 0 .. (height - 1)
    PROVE  /\ y * pitch + x \in 0 .. (pitch * height - 1)
           /\ (y * pitch + x) % pitch < width
<1>1. pitch \in Nat \ {0} /\ x \in 0 .. (pitch - 1) /\ y \in Nat /\ y < height
  OBVIOUS
<1>2. (y * pitch + x) % pitch = x
  BY <1>1, Remainder
<1>3. y * pitch + pitch <= height * pitch
  BY <1>1, ProductBelow
<1>4. y * pitch \in Nat /\ height * pitch \in Nat /\ height * pitch = pitch * height
  BY <1>1
<1>5. y * pitch + x \in 0 .. (pitch * height - 1)
  BY <1>1, <1>3, <1>4
<1>6. QED
  BY <1>2, <1>5

-----------------------------------------------------------------------------
(* The framebuffer: lists of writes                                         *)

LEMMA ReadyOf ==
    ASSUME NEW S, \A e \in S : Sound(e), NEW s \in Seq(S)
    PROVE  Ready(s)
<1>1. s \in Seq(Range(s)) /\ \A e \in Range(s) : e \in S
  BY DEF Range
<1>2. QED
  BY <1>1 DEF Ready

LEMMA ReadyFrom ==
    ASSUME NEW n \in Int, NEW f, DOMAIN f = 1 .. n, f = [k \in 1 .. n |-> f[k]],
           \A k \in 1 .. n : Sound(f[k])
    PROVE  Ready(f)
<1> DEFINE S == {f[k] : k \in 1 .. n}
           m == IF n < 0 THEN 0 ELSE n
<1>1. m \in Nat /\ 1 .. m = 1 .. n
  OBVIOUS
<1>2. f \in [1 .. m -> S]
  BY <1>1
<1>3. \A e \in S : Sound(e)
  OBVIOUS
<1> HIDE DEF S, m
<1>4. f \in Seq(S)
  BY <1>1, <1>2
<1>5. QED
  BY <1>3, <1>4, ReadyOf

LEMMA ReadyNone == Ready(<<>>)
<1>1. <<>> \in Seq({}) /\ \A e \in {} : Sound(e)
  OBVIOUS
<1>2. QED
  BY <1>1, ReadyOf

LEMMA ReadyOne ==
    ASSUME NEW e, Sound(e)
    PROVE  Ready(<<e>>)
<1> DEFINE S == {e}
<1>1. <<e>> \in Seq(S) /\ \A x \in S : Sound(x)
  OBVIOUS
<1> HIDE DEF S
<1>2. QED
  BY <1>1, ReadyOf

LEMMA ReadyConcat ==
    ASSUME NEW s, NEW t, Ready(s), Ready(t)
    PROVE  Ready(s \o t)
<1> DEFINE A == Range(s)
           B == Range(t)
           S == A \cup B
<1>1. s \in Seq(A) /\ t \in Seq(B) /\ \A e \in S : Sound(e)
  BY DEF Ready
<1> HIDE DEF A, B
<1>2. s \in Seq(S) /\ t \in Seq(S)
  BY <1>1
<1> HIDE DEF S
<1>3. s \o t \in Seq(S)
  BY <1>2
<1>4. QED
  BY <1>1, <1>3, ReadyOf

LEMMA ReadyTail ==
    ASSUME NEW s, Ready(s), s # <<>>
    PROVE  Sound(Head(s)) /\ Ready(Tail(s))
<1> DEFINE S == Range(s)
<1>1. s \in Seq(S) /\ \A e \in S : Sound(e)
  BY DEF Ready
<1> HIDE DEF S
<1>2. Head(s) \in S /\ Tail(s) \in Seq(S)
  BY <1>1
<1>3. QED
  BY <1>1, <1>2, ReadyOf

\* What FlattenSeq computes, list by list.
FlatDef(ss, f) == f = [i \in 1 .. Len(ss) |-> IF i = 1 THEN ss[i] ELSE f[i - 1] \o ss[i]]
Flat(ss) == CHOOSE f : FlatDef(ss, f)

\* Lists up to the m-th, joined.
Joins(f, ss, m) == f[0] = <<>> /\ \A k \in 1 .. m : f[k] = f[k - 1] \o ss[k]

\* Some function solves the recursion of FlattenSeq.
LEMMA FlatIs ==
    ASSUME NEW n \in Nat, NEW U, NEW ss \in [1 .. n -> Seq(U)]
    PROVE  FlatDef(ss, Flat(ss))
<1> DEFINE T == Seq(U)
           D == {m \in 0 .. n : \E f \in [0 .. m -> T] : Joins(f, ss, m)}
<1>0. Len(ss) = n /\ <<>> \in T /\ (\A r, s \in T : r \o s \in T) /\ (\A s \in T : <<>> \o s = s)
      /\ \A k \in 1 .. n : ss[k] \in T
  OBVIOUS
<1> HIDE DEF T
<1>1. 0 \in D
  <2> DEFINE f == [k \in 0 .. 0 |-> <<>>]
  <2>1. f \in [0 .. 0 -> T] /\ f[0] = <<>>
    BY <1>0
  <2>2. Joins(f, ss, 0)
    BY <2>1 DEF Joins
  <2>3. QED
    BY <2>1, <2>2
<1>2. ASSUME NEW m \in 1 .. n, m - 1 \in D PROVE m \in D
  <2>1. PICK f \in [0 .. (m - 1) -> T] : Joins(f, ss, m - 1)
    BY <1>2
  <2> DEFINE e == f[m - 1] \o ss[m]
             h == [k \in 0 .. m |-> IF k = m THEN e ELSE f[k]]
  <2>2. e \in T
    <3>1. f[m - 1] \in T /\ ss[m] \in T
      BY <1>0
    <3>2. QED
      BY <1>0, <3>1
  <2>3. h[m] = e /\ \A k \in 0 .. (m - 1) : h[k] = f[k]
    OBVIOUS
  <2>4. h \in [0 .. m -> T]
    <3> HIDE DEF e
    <3>1. QED
      BY <2>2
  <2>5. h[0] = <<>>
    BY <2>1, <2>3 DEF Joins
  <2>6. ASSUME NEW k \in 1 .. m PROVE h[k] = h[k - 1] \o ss[k]
    <3> HIDE DEF h
    <3>1. CASE k = m
      <4>1. h[m - 1] = f[m - 1]
        BY <2>3
      <4>2. QED
        BY <2>3, <3>1, <4>1
    <3>2. CASE k # m
      <4>1. k \in 1 .. (m - 1) /\ k \in 0 .. (m - 1) /\ k - 1 \in 0 .. (m - 1)
        BY <3>2
      <4>2. f[k] = f[k - 1] \o ss[k]
        BY <2>1, <4>1 DEF Joins
      <4>3. h[k] = f[k] /\ h[k - 1] = f[k - 1]
        BY <2>3, <4>1
      <4>4. QED
        BY <4>2, <4>3
    <3>3. QED
      BY <3>1, <3>2
  <2> HIDE DEF h
  <2>7. Joins(h, ss, m)
    BY <2>5, <2>6 DEF Joins
  <2>8. QED
    BY <2>4, <2>7
<1>3. n \in D
  <2> HIDE DEF D
  <2>1. \A k \in 0 .. n : k \in D
    BY <1>1, <1>2, Along
  <2>2. QED
    BY <2>1
<1>4. PICK f \in [0 .. n -> T] : Joins(f, ss, n)
  BY <1>3
<1> DEFINE g == [i \in 1 .. n |-> f[i]]
<1>5. ASSUME NEW i \in 1 .. n PROVE f[i] = IF i = 1 THEN ss[i] ELSE g[i - 1] \o ss[i]
  <2>1. f[i] = f[i - 1] \o ss[i]
    BY <1>4 DEF Joins
  <2>2. CASE i = 1
    <3>1. f[0] = <<>> /\ ss[1] \in T
      BY <1>0, <1>4, <2>2 DEF Joins
    <3>2. <<>> \o ss[1] = ss[1]
      BY <1>0, <3>1
    <3>3. QED
      BY <2>1, <2>2, <3>1, <3>2
  <2>3. CASE i # 1
    <3>1. g[i - 1] = f[i - 1]
      BY <2>3
    <3> HIDE DEF g
    <3>2. QED
      BY <2>1, <2>3, <3>1
  <2>4. QED
    BY <2>2, <2>3
<1>6. g = [i \in 1 .. n |-> IF i = 1 THEN ss[i] ELSE g[i - 1] \o ss[i]]
  BY <1>5, Zenon
<1>7. FlatDef(ss, g)
  BY <1>0, <1>6 DEF FlatDef
<1>8. QED
  BY <1>7, Zenon DEF Flat

\* A list of lists of sound writes, one after the other, is one.
LEMMA ReadyFlatten ==
    ASSUME NEW n \in Nat, NEW ss, ss = [k \in 1 .. n |-> ss[k]],
           \A k \in 1 .. n : Ready(ss[k])
    PROVE  Ready(FlattenSeq(ss))
<1> DEFINE U == UNION {Range(ss[k]) : k \in 1 .. n}
           T == Seq(U)
<1>1. \A e \in U : Sound(e)
  BY DEF Ready
<1>2. ASSUME NEW k \in 1 .. n PROVE ss[k] \in T
  <2> DEFINE A == Range(ss[k])
             s == ss[k]
  <2>1. s \in Seq(A)
    BY DEF Ready
  <2>2. A \subseteq U
    OBVIOUS
  <2> HIDE DEF A, s, U
  <2>3. s \in Seq(U)
    BY <2>1, <2>2
  <2>4. QED
    BY <2>3 DEF s
<1> HIDE DEF U
<1>3. ss \in [1 .. n -> T]
  <2> HIDE DEF T
  <2>1. QED
    BY <1>2
<1>4. Len(ss) = n
  BY <1>3
<1>5. FlattenSeq(ss) = IF Len(ss) = 0 THEN ss ELSE Flat(ss)[Len(ss)]
  BY Zenon DEF FlattenSeq, Flat, FlatDef
<1>6. CASE n = 0
  <2>1. ss = <<>>
    BY <1>3, <1>6
  <2>2. QED
    BY <1>4, <1>5, <1>6, <2>1, ReadyNone
<1>7. CASE n # 0
  <2> DEFINE f == Flat(ss)
             D == {0} \cup {k \in 1 .. n : f[k] \in T}
  <2>1. FlatDef(ss, f)
    BY <1>3, FlatIs
  <2> HIDE DEF f
  <2>2. \A k \in 1 .. n : f[k] = IF k = 1 THEN ss[k] ELSE f[k - 1] \o ss[k]
    BY <1>4, <2>1, Zenon DEF FlatDef
  <2>3. \A r, s \in T : r \o s \in T
    OBVIOUS
  <2> HIDE DEF T
  <2>4. ASSUME NEW k \in 1 .. n, k - 1 \in D PROVE k \in D
    <3>1. CASE k = 1
      BY <1>2, <2>2, <3>1
    <3>2. CASE k # 1
      <4>1. f[k - 1] \in T /\ f[k] = f[k - 1] \o ss[k]
        <5>1. k - 1 # 0 /\ k - 1 \in D
          BY <2>4, <3>2
        <5>2. f[k - 1] \in T
          BY <5>1
        <5>3. f[k] = f[k - 1] \o ss[k]
          BY <2>2, <3>2, Zenon
        <5>4. QED
          BY <5>2, <5>3
      <4>2. f[k] \in T
        BY <1>2, <2>3, <4>1
      <4>3. QED
        BY <4>2
    <3>3. QED
      BY <3>1, <3>2
  <2>5. n \in D
    <3>1. 0 \in D
      OBVIOUS
    <3> HIDE DEF D
    <3>2. \A k \in 0 .. n : k \in D
      BY <2>4, <3>1, Along
    <3>3. QED
      BY <3>2
  <2>6. f[n] \in Seq(U)
    BY <1>7, <2>5 DEF T
  <2>7. Ready(f[n])
    BY <1>1, <2>6, ReadyOf
  <2>8. QED
    BY <1>4, <1>5, <1>7, <2>7 DEF f
<1>8. QED
  BY <1>6, <1>7

-----------------------------------------------------------------------------
(* The framebuffer: what each drawing function writes                       *)

\* The part of DrawInv that the drawing functions look at.
Sized ==
    /\ fb \in Mode /\ fb.pitch >= fb.width /\ fb.width + CELL < Word
    /\ backbuffer \in {NoBuffer, "back"} /\ backbuffer_pitch \in {0, BackPitch}

LEMMA SizedFacts ==
    ASSUME Sized
    PROVE  /\ fb.width \in Nat /\ fb.height \in Nat /\ fb.pitch \in Nat /\ fb.width <= fb.pitch
           /\ BackPitch \in Nat /\ fb.width <= BackPitch
<1>1. fb.width \in Nat /\ fb.height \in Nat /\ fb.pitch \in Nat /\ fb.width <= fb.pitch
  BY DEF Sized, Mode
<1>2. QED
  BY <1>1, FramebufferConstants DEF BackPitch

LEMMA ScreenSound ==
    ASSUME Sized, NEW x \in 0 .. (fb.width - 1), NEW y \in 0 .. (fb.height - 1), NEW c
    PROVE  Sound(Put("screen", fb.pitch, x, y, c))
<1> DEFINE e == Put("screen", fb.pitch, x, y, c)
<1>1. e.kind = "put" /\ e.buf = "screen" /\ e.at = y * fb.pitch + x
  BY DEF Put
<1>2. /\ y * fb.pitch + x \in 0 .. (fb.pitch * fb.height - 1)
      /\ (y * fb.pitch + x) % fb.pitch < fb.width
  BY SizedFacts, PixelAddress
<1>3. PitchOf("screen") = fb.pitch
  BY DEF PitchOf
<1> HIDE DEF e
<1>4. Sound(e)
  BY <1>1, <1>2, <1>3 DEF Sound, Buffers, Addresses
<1>5. QED
  BY <1>4 DEF e

\* Also when the pitch of the back buffer has not been set yet.
LEMMA TargetSound ==
    ASSUME Sized, NEW x \in 0 .. (fb.width - 1), NEW y \in 0 .. (fb.height - 1), NEW c
    PROVE  Sound(TargetPut(x, y, c))
<1>1. CASE backbuffer = NoBuffer
  <2>1. TargetPut(x, y, c) = Put("screen", fb.pitch, x, y, c)
    BY <1>1 DEF TargetPut, fb_target_base, fb_target_pitch
  <2>2. QED
    BY <2>1, ScreenSound
<1>2. CASE backbuffer # NoBuffer
  <2> DEFINE P == BackPitch
             e == TargetPut(x, y, c)
  <2>1. e.kind = "put" /\ e.buf = "back" /\ e.at = y * backbuffer_pitch + x
    BY <1>2 DEF TargetPut, fb_target_base, fb_target_pitch, Put, Sized
  <2>2. e.at \in 0 .. (P * fb.height - 1) /\ e.at % P < fb.width
    <3> HIDE DEF e
    <3>1. CASE backbuffer_pitch = BackPitch
      <4>1. /\ y * P + x \in 0 .. (P * fb.height - 1)
            /\ (y * P + x) % P < fb.width
        BY SizedFacts, PixelAddress
      <4>2. QED
        BY <2>1, <3>1, <4>1
    <3>2. CASE backbuffer_pitch = 0
      <4>1. 0 \in 0 .. (fb.height - 1)
        BY SizedFacts
      <4>2. /\ 0 * P + x \in 0 .. (P * fb.height - 1)
            /\ (0 * P + x) % P < fb.width
        BY <4>1, SizedFacts, PixelAddress
      <4>3. 0 * P + x = x /\ y * 0 + x = x
        BY SizedFacts
      <4>4. QED
        BY <2>1, <3>2, <4>2, <4>3
    <3>3. QED
      BY <3>1, <3>2 DEF Sized
  <2>3. PitchOf("back") = P
    BY DEF PitchOf
  <2> HIDE DEF e, P
  <2>4. Sound(e)
    BY <2>1, <2>2, <2>3 DEF Sound, Buffers, Addresses
  <2>5. QED
    BY <2>4 DEF e
<1>3. QED
  BY <1>1, <1>2

LEMMA ClearReady ==
    ASSUME Sized, NEW c
    PROVE  Ready(framebuffer_clear(c))
<1> DEFINE w == fb.width
           h == fb.height
           n == w * h
           f == [k \in 1 .. n |-> TargetPut((k - 1) % w, (k - 1) \div w, fb_pack_color(c))]
<1>1. framebuffer_clear(c) = IF ~Writable THEN <<>> ELSE f
  BY Zenon DEF framebuffer_clear, Raster
<1>2. w \in Nat /\ h \in Nat /\ n \in Int
  BY SizedFacts
<1>3. ASSUME NEW k \in 1 .. n PROVE Sound(f[k])
  <2>1. (k - 1) % w \in 0 .. (w - 1) /\ (k - 1) \div w \in 0 .. (h - 1)
    BY <1>2, RasterIndex
  <2>2. Sound(TargetPut((k - 1) % w, (k - 1) \div w, fb_pack_color(c)))
    BY <2>1, TargetSound
  <2>3. QED
    BY <2>2
<1>4. DOMAIN f = 1 .. n /\ f = [k \in 1 .. n |-> f[k]]
  OBVIOUS
<1> HIDE DEF f, n
<1>5. Ready(f)
  BY <1>2, <1>3, <1>4, ReadyFrom
<1>6. QED
  BY <1>1, <1>5, ReadyNone

LEMMA PixelReady ==
    ASSUME Sized, NEW x \in Nat, NEW y \in Nat, NEW c
    PROVE  Ready(framebuffer_putpixel(x, y, c))
<1>1. CASE x >= fb.width \/ y >= fb.height \/ ~Writable
  BY <1>1, ReadyNone DEF framebuffer_putpixel
<1>2. CASE ~(x >= fb.width \/ y >= fb.height \/ ~Writable)
  <2>1. x \in 0 .. (fb.width - 1) /\ y \in 0 .. (fb.height - 1)
    BY <1>2, SizedFacts
  <2>2. Ready(<<TargetPut(x, y, fb_pack_color(c))>>)
    BY <2>1, TargetSound, ReadyOne
  <2>3. QED
    BY <1>2, <2>2 DEF framebuffer_putpixel
<1>3. QED
  BY <1>1, <1>2

\* What is left of n pixels from start on, and where they are.
LEMMA ClipIs ==
    ASSUME NEW start \in Nat, NEW n \in Nat, NEW size \in Nat, start < size
    PROVE  /\ Clip(start, n, size) \in Nat /\ Clip(start, n, size) <= n
           /\ \A i \in 0 .. (Clip(start, n, size) - 1) : start + i \in 0 .. (size - 1)
<1>1. Clip(start, n, size) \in Nat /\ Clip(start, n, size) <= n /\ Clip(start, n, size) <= size - start
  BY DEF Clip, Least
<1>2. QED
  BY <1>1

LEMMA RectReady ==
    ASSUME Sized, NEW x \in Nat, NEW y \in Nat, NEW w \in Nat, NEW h \in Nat, NEW c
    PROVE  Ready(framebuffer_fill_rect(x, y, w, h, c))
<1> DEFINE None == w = 0 \/ h = 0 \/ x >= fb.width \/ y >= fb.height \/ ~Writable
           u == Clip(x, w, fb.width)
           v == Clip(y, h, fb.height)
           n == u * v
           f == [k \in 1 .. n |->
                    TargetPut(x + ((k - 1) % u), y + ((k - 1) \div u), fb_pack_color(c))]
<1>1. framebuffer_fill_rect(x, y, w, h, c) = IF None THEN <<>> ELSE f
  BY Zenon DEF framebuffer_fill_rect, Raster
<1>2. CASE None
  BY <1>1, <1>2, ReadyNone
<1>3. CASE ~None
  <2>1. x < fb.width /\ y < fb.height
    BY <1>3, SizedFacts
  <2>2. /\ u \in Nat /\ v \in Nat
        /\ \A i \in 0 .. (u - 1) : x + i \in 0 .. (fb.width - 1)
        /\ \A i \in 0 .. (v - 1) : y + i \in 0 .. (fb.height - 1)
    BY <2>1, SizedFacts, ClipIs
  <2> HIDE DEF u, v
  <2>3. n \in Int
    BY <2>2
  <2>4. ASSUME NEW k \in 1 .. n PROVE Sound(f[k])
    <3>1. (k - 1) % u \in 0 .. (u - 1) /\ (k - 1) \div u \in 0 .. (v - 1)
      BY <2>2, RasterIndex
    <3> DEFINE xx == x + ((k - 1) % u)
               yy == y + ((k - 1) \div u)
    <3>2. xx \in 0 .. (fb.width - 1) /\ yy \in 0 .. (fb.height - 1)
      BY <2>2, <3>1
    <3> HIDE DEF xx, yy
    <3>3. Sound(TargetPut(xx, yy, fb_pack_color(c)))
      BY <3>2, TargetSound
    <3>4. f[k] = TargetPut(xx, yy, fb_pack_color(c))
      BY DEF xx, yy
    <3> HIDE DEF f
    <3>5. QED
      BY <3>3, <3>4
  <2>5. DOMAIN f = 1 .. n /\ f = [k \in 1 .. n |-> f[k]]
    OBVIOUS
  <2> HIDE DEF f, n
  <2>6. Ready(f)
    BY <2>3, <2>4, <2>5, ReadyFrom
  <2>7. QED
    BY <1>1, <1>3, <2>6
<1>4. QED
  BY <1>2, <1>3

LEMMA BlitReady ==
    ASSUME Sized, NEW x \in Nat, NEW y \in Nat, NEW w \in Nat, NEW h \in Nat
    PROVE  Ready(framebuffer_blit(x, y, w, h))
<1> DEFINE None == w = 0 \/ h = 0 \/ x >= fb.width \/ y >= fb.height \/ fb.bytes = 0
           u == Clip(x, w, fb.width)
           v == Clip(y, h, fb.height)
           n == u * v
           f == [k \in 1 .. n |->
                    TargetPut(x + ((k - 1) % u), y + ((k - 1) \div u),
                              Image[((k - 1) \div u) * ImagePitch + ((k - 1) % u)])]
<1>1. framebuffer_blit(x, y, w, h) = IF None THEN <<>> ELSE f
  BY Zenon DEF framebuffer_blit, Raster
<1>2. CASE None
  BY <1>1, <1>2, ReadyNone
<1>3. CASE ~None
  <2>1. x < fb.width /\ y < fb.height
    BY <1>3, SizedFacts
  <2>2. /\ u \in Nat /\ v \in Nat
        /\ \A i \in 0 .. (u - 1) : x + i \in 0 .. (fb.width - 1)
        /\ \A i \in 0 .. (v - 1) : y + i \in 0 .. (fb.height - 1)
    BY <2>1, SizedFacts, ClipIs
  <2> HIDE DEF u, v
  <2>3. n \in Int
    BY <2>2
  <2>4. ASSUME NEW k \in 1 .. n PROVE Sound(f[k])
    <3>1. (k - 1) % u \in 0 .. (u - 1) /\ (k - 1) \div u \in 0 .. (v - 1)
      BY <2>2, RasterIndex
    <3> DEFINE xx == x + ((k - 1) % u)
               yy == y + ((k - 1) \div u)
               z == Image[((k - 1) \div u) * ImagePitch + ((k - 1) % u)]
    <3>2. xx \in 0 .. (fb.width - 1) /\ yy \in 0 .. (fb.height - 1)
      BY <2>2, <3>1
    <3> HIDE DEF xx, yy, z
    <3>3. Sound(TargetPut(xx, yy, z))
      BY <3>2, TargetSound
    <3>4. f[k] = TargetPut(xx, yy, z)
      BY Zenon DEF xx, yy, z
    <3> HIDE DEF f
    <3>5. QED
      BY <3>3, <3>4
  <2>5. DOMAIN f = 1 .. n /\ f = [k \in 1 .. n |-> f[k]]
    OBVIOUS
  <2> HIDE DEF f, n
  <2>6. Ready(f)
    BY <2>3, <2>4, <2>5, ReadyFrom
  <2>7. QED
    BY <1>1, <1>3, <2>6
<1>4. QED
  BY <1>2, <1>3

\* A screen of one row has room for the row that the early exit draws.
LEMMA GradientReady ==
    ASSUME Sized, fb.height > 0, NEW top, NEW bottom
    PROVE  Ready(framebuffer_fill_gradient_vert(top, bottom))
<1> DEFINE w == fb.width
           h == fb.height
           m == w * 1
           n == w * h
           g == [k \in 1 .. m |-> Put("screen", fb.pitch, (k - 1) % w, 0, fb_pack_color(top))]
           z(k) == fb_pack_color(Blend(top, bottom, (k - 1) \div w))
           f == [k \in 1 .. n |-> TargetPut((k - 1) % w, (k - 1) \div w, z(k))]
<1>1. framebuffer_fill_gradient_vert(top, bottom) =
         IF ~Writable THEN <<>> ELSE IF h <= 1 THEN g ELSE f
  BY Zenon DEF framebuffer_fill_gradient_vert, Raster
<1>2. w \in Nat /\ h \in Nat /\ m \in Int /\ n \in Int /\ 0 \in 0 .. (h - 1)
  BY SizedFacts
<1>3. Ready(g)
  <2>1. ASSUME NEW k \in 1 .. m PROVE Sound(g[k])
    <3>1. (k - 1) % w \in 0 .. (w - 1)
      BY <1>2, RasterIndex
    <3>2. Sound(Put("screen", fb.pitch, (k - 1) % w, 0, fb_pack_color(top)))
      BY <1>2, <3>1, ScreenSound
    <3>3. QED
      BY <3>2
  <2>2. DOMAIN g = 1 .. m /\ g = [k \in 1 .. m |-> g[k]]
    OBVIOUS
  <2> HIDE DEF g, m
  <2>3. QED
    BY <1>2, <2>1, <2>2, ReadyFrom
<1>4. Ready(f)
  <2> HIDE DEF z
  <2>1. ASSUME NEW k \in 1 .. n PROVE Sound(f[k])
    <3>1. (k - 1) % w \in 0 .. (w - 1) /\ (k - 1) \div w \in 0 .. (h - 1)
      BY <1>2, RasterIndex
    <3>2. Sound(TargetPut((k - 1) % w, (k - 1) \div w, z(k)))
      BY <3>1, TargetSound
    <3>3. QED
      BY <3>2
  <2>2. DOMAIN f = 1 .. n /\ f = [k \in 1 .. n |-> f[k]]
    OBVIOUS
  <2> HIDE DEF f, n
  <2>3. QED
    BY <1>2, <2>1, <2>2, ReadyFrom
<1>5. QED
  BY <1>1, <1>3, <1>4, ReadyNone

LEMMA FlushReady ==
    ASSUME Sized
    PROVE  Ready(framebuffer_flush)
<1> DEFINE w == fb.width
           h == fb.height
           n == w * h
           f == [k \in 1 .. n |->
                    [kind |-> "copy", buf |-> "screen",
                     at |-> ((k - 1) \div w) * fb.pitch + ((k - 1) % w),
                     from |-> ((k - 1) \div w) * backbuffer_pitch + ((k - 1) % w)]]
<1>1. framebuffer_flush = IF backbuffer = NoBuffer \/ fb.bytes = 0 THEN <<>> ELSE f
  BY Zenon DEF framebuffer_flush, Raster
<1>2. w \in Nat /\ h \in Nat /\ n \in Int
  BY SizedFacts
<1>3. ASSUME NEW k \in 1 .. n PROVE Sound(f[k])
  <2>1. (k - 1) % w \in 0 .. (w - 1) /\ (k - 1) \div w \in 0 .. (h - 1)
    BY <1>2, RasterIndex
  <2> DEFINE x == (k - 1) % w
             y == (k - 1) \div w
             e == f[k]
  <2>2. e.kind = "copy" /\ e.buf = "screen" /\ e.at = y * fb.pitch + x
    OBVIOUS
  <2> HIDE DEF x, y, e
  <2>3. y * fb.pitch + x \in 0 .. (fb.pitch * h - 1) /\ (y * fb.pitch + x) % fb.pitch < w
    BY <2>1, SizedFacts, PixelAddress DEF x, y
  <2>4. PitchOf("screen") = fb.pitch
    BY DEF PitchOf
  <2>5. Sound(e)
    BY <2>2, <2>3, <2>4 DEF Sound, Buffers, Addresses
  <2>6. QED
    BY <2>5 DEF e
<1>4. DOMAIN f = 1 .. n /\ f = [k \in 1 .. n |-> f[k]]
  OBVIOUS
<1> HIDE DEF f, n
<1>5. Ready(f)
  BY <1>2, <1>3, <1>4, ReadyFrom
<1>6. QED
  BY <1>1, <1>5, ReadyNone

LEMMA PresentReady ==
    ASSUME Sized
    PROVE  Ready(framebuffer_present)
<1> DEFINE w == fb.width
           h == fb.height
           n == w * h
           z(k) == Image[((k - 1) \div w) * ImagePitch + ((k - 1) % w)]
           f == [k \in 1 .. n |-> Put("screen", fb.pitch, (k - 1) % w, (k - 1) \div w, z(k))]
<1>1. framebuffer_present = IF fb.bytes = 0 THEN <<>> ELSE f
  BY Zenon DEF framebuffer_present, Raster
<1>2. w \in Nat /\ h \in Nat /\ n \in Int
  BY SizedFacts
<1> HIDE DEF z
<1>3. ASSUME NEW k \in 1 .. n PROVE Sound(f[k])
  <2>1. (k - 1) % w \in 0 .. (w - 1) /\ (k - 1) \div w \in 0 .. (h - 1)
    BY <1>2, RasterIndex
  <2>2. Sound(Put("screen", fb.pitch, (k - 1) % w, (k - 1) \div w, z(k)))
    BY <2>1, ScreenSound
  <2>3. QED
    BY <2>2
<1>4. DOMAIN f = 1 .. n /\ f = [k \in 1 .. n |-> f[k]]
  OBVIOUS
<1> HIDE DEF f, n
<1>5. Ready(f)
  BY <1>2, <1>3, <1>4, ReadyFrom
<1>6. QED
  BY <1>1, <1>5, ReadyNone

\* A character that has room.
LEMMA CharReady ==
    ASSUME Sized, NEW x \in Nat, NEW y \in Nat, NEW ch, NEW c,
           x + CELL <= fb.width, y + CELL <= fb.height
    PROVE  Ready(framebuffer_draw_char(x, y, ch, c))
<1> DEFINE glyph == Font[IF ch \in DOMAIN Font THEN ch ELSE "?"]
           n == CELL * CELL
           Bit(col, row) == IF <<col, row>> \notin glyph THEN <<>>
                            ELSE <<TargetPut(x + col, y + row, fb_pack_color(c))>>
           f == [k \in 1 .. n |-> Bit((k - 1) % CELL, (k - 1) \div CELL)]
<1>1. framebuffer_draw_char(x, y, ch, c) = IF ~Writable THEN <<>> ELSE FlattenSeq(f)
  BY Zenon DEF framebuffer_draw_char, Raster
<1>2. CELL \in Nat /\ n \in Nat
  BY FramebufferConstants
<1>3. ASSUME NEW col \in 0 .. (CELL - 1), NEW row \in 0 .. (CELL - 1) PROVE Ready(Bit(col, row))
  <2> DEFINE xx == x + col
             yy == y + row
  <2>1. xx \in 0 .. (fb.width - 1) /\ yy \in 0 .. (fb.height - 1)
    BY <1>2, SizedFacts
  <2> HIDE DEF xx, yy
  <2>2. Ready(<<TargetPut(xx, yy, fb_pack_color(c))>>)
    BY <2>1, TargetSound, ReadyOne
  <2>3. QED
    BY <2>2, ReadyNone DEF xx, yy
<1> HIDE DEF Bit, glyph
<1>4. ASSUME NEW k \in 1 .. n PROVE Ready(f[k])
  <2>1. (k - 1) % CELL \in 0 .. (CELL - 1) /\ (k - 1) \div CELL \in 0 .. (CELL - 1)
    BY <1>2, RasterIndex
  <2>2. Ready(Bit((k - 1) % CELL, (k - 1) \div CELL))
    BY <1>3, <2>1
  <2>3. QED
    BY <2>2
<1>5. f = [k \in 1 .. n |-> f[k]]
  OBVIOUS
<1> HIDE DEF f, n
<1>6. Ready(FlattenSeq(f))
  BY <1>2, <1>4, <1>5, ReadyFlatten
<1>7. QED
  BY <1>1, <1>6, ReadyNone

\* The test of draw_string lets through only characters that have room on the
\* right: its sum does not wrap, because the character before had room.
LEMMA FitsRoom ==
    ASSUME NEW x \in Nat, NEW n \in Nat, NEW width \in Nat, x < width, width + CELL < Word,
           \A k \in 1 .. n : U32(x + (k - 1) * CELL + CELL) <= width
    PROVE  \A k \in 1 .. n : (k - 1) * CELL \in Nat /\ x + (k - 1) * CELL + CELL <= width
<1> DEFINE D == {j \in 0 .. n : x + j * CELL <= width}
<1>0. CELL \in Nat /\ Word \in Nat \ {0}
  BY FramebufferConstants
<1>1. 0 \in D
  <2>1. 0 * CELL = 0
    BY <1>0
  <2>2. QED
    BY <2>1
<1>2. ASSUME NEW k \in 1 .. n, k - 1 \in D PROVE k \in D
  <2> DEFINE a == (k - 1) * CELL
  <2>1. a \in Nat /\ x + a <= width /\ k * CELL = a + CELL
    BY <1>0, <1>2
  <2> HIDE DEF a
  <2>2. U32(x + a + CELL) <= width
    BY DEF a
  <2>3. x + a + CELL \in Nat /\ x + a + CELL < Word
    BY <1>0, <2>1
  <2>4. (x + a + CELL) % Word = x + a + CELL
    BY <1>0, <2>3
  <2>5. x + k * CELL <= width
    BY <1>0, <2>1, <2>2, <2>4 DEF U32
  <2>6. QED
    BY <2>5
<1>3. \A k \in 0 .. n : k \in D
  <2> HIDE DEF D
  <2>1. QED
    BY <1>1, <1>2, Along
<1>4. ASSUME NEW k \in 1 .. n
      PROVE  (k - 1) * CELL \in Nat /\ x + (k - 1) * CELL + CELL <= width
  <2>1. x + k * CELL <= width
    BY <1>3
  <2>2. (k - 1) * CELL \in Nat /\ k * CELL = (k - 1) * CELL + CELL
    BY <1>0
  <2>3. QED
    BY <1>0, <2>1, <2>2
<1>5. QED
  BY <1>4

LEMMA StringReady ==
    ASSUME Sized, NEW x \in Nat, NEW y \in Nat, NEW S, NEW str \in Seq(S), NEW c,
           x < fb.width, y + CELL <= fb.height
    PROVE  Ready(framebuffer_draw_string(x, y, str, c))
<1> DEFINE Fits(k) == U32(x + (k - 1) * CELL + CELL) <= fb.width
           Stops(m) == /\ \A k \in 1 .. m : Fits(k)
                       /\ m < Len(str) => ~Fits(m + 1)
           n == CHOOSE m \in 0 .. Len(str) : Stops(m)
           f == [k \in 1 .. n |-> framebuffer_draw_char(x + (k - 1) * CELL, y, str[k], c)]
<1>1. framebuffer_draw_string(x, y, str, c) = FlattenSeq(f)
  BY Zenon DEF framebuffer_draw_string
<1>2. Len(str) \in Nat
  OBVIOUS
<1>3. n \in 0 .. Len(str) /\ Stops(n)
  <2> DEFINE E == {m \in 0 .. Len(str) : m < Len(str) => ~Fits(m + 1)}
  <2> HIDE DEF Fits
  <2>1. E \subseteq Nat /\ Len(str) \in E
    BY <1>2
  <2>2. PICK m \in E : \A j \in E : m <= j
    <3> HIDE DEF E
    <3>1. E # {}
      BY <2>1
    <3>2. QED
      BY <2>1, <3>1, LowestOf
  <2>3. ASSUME NEW k \in 1 .. m PROVE Fits(k)
    <3>1. k - 1 \in 0 .. Len(str) /\ ~(m <= k - 1) /\ k - 1 < Len(str) /\ (k - 1) + 1 = k
      BY <1>2, <2>2
    <3>2. k - 1 \notin E
      BY <2>2, <3>1
    <3>3. QED
      BY <3>1, <3>2
  <2>4. m \in 0 .. Len(str) /\ Stops(m)
    BY <2>2, <2>3
  <2> HIDE DEF Stops
  <2>5. QED
    BY <2>4, Zenon
<1>4. n \in Nat /\ \A k \in 1 .. n : Fits(k)
  <2> HIDE DEF Fits, n
  <2>1. QED
    BY <1>2, <1>3
<1> HIDE DEF n
<1>5. fb.width \in Nat /\ fb.width + CELL < Word
  BY SizedFacts DEF Sized
<1>6. \A k \in 1 .. n : (k - 1) * CELL \in Nat /\ x + (k - 1) * CELL + CELL <= fb.width
  BY <1>4, <1>5, FitsRoom
<1> HIDE DEF Fits, Stops
<1>7. ASSUME NEW k \in 1 .. n PROVE Ready(f[k])
  <2> DEFINE xx == x + (k - 1) * CELL
             ch == str[k]
  <2>1. xx \in Nat /\ xx + CELL <= fb.width
    BY <1>6
  <2> HIDE DEF xx, ch
  <2>2. Ready(framebuffer_draw_char(xx, y, ch, c))
    BY <2>1, CharReady
  <2>3. QED
    BY <2>2 DEF xx, ch
<1>8. f = [k \in 1 .. n |-> f[k]]
  OBVIOUS
<1> HIDE DEF f
<1>9. QED
  BY <1>1, <1>4, <1>7, <1>8, ReadyFlatten

LEMMA DotReady ==
    ASSUME Sized, NEW px \in Nat, NEW py \in Nat, NEW packed
    PROVE  Ready(Dot(px, py, packed))
<1>1. CASE px >= fb.width \/ py >= fb.height \/ ~Writable
  BY <1>1, ReadyNone DEF Dot
<1>2. CASE ~(px >= fb.width \/ py >= fb.height \/ ~Writable)
  <2> DEFINE a == <<TargetPut(px, py, packed)>>
             b == IF px + 1 < fb.width THEN <<TargetPut(px + 1, py, packed)>> ELSE <<>>
             d == IF py + 1 < fb.height THEN <<TargetPut(px, py + 1, packed)>> ELSE <<>>
  <2>1. Dot(px, py, packed) = a \o b \o d
    BY <1>2, Zenon DEF Dot
  <2>2. px \in 0 .. (fb.width - 1) /\ py \in 0 .. (fb.height - 1)
    BY <1>2, SizedFacts
  <2>3. Ready(a)
    BY <2>2, TargetSound, ReadyOne
  <2>4. Ready(b)
    <3>1. CASE px + 1 < fb.width
      <4>1. px + 1 \in 0 .. (fb.width - 1)
        BY <3>1, SizedFacts
      <4>2. Ready(<<TargetPut(px + 1, py, packed)>>)
        BY <2>2, <4>1, TargetSound, ReadyOne
      <4>3. QED
        BY <3>1, <4>2
    <3>2. QED
      BY <3>1, ReadyNone
  <2>5. Ready(d)
    <3>1. CASE py + 1 < fb.height
      <4>1. py + 1 \in 0 .. (fb.height - 1)
        BY <3>1, SizedFacts
      <4>2. Ready(<<TargetPut(px, py + 1, packed)>>)
        BY <2>2, <4>1, TargetSound, ReadyOne
      <4>3. QED
        BY <3>1, <4>2
    <3>2. QED
      BY <3>1, ReadyNone
  <2> HIDE DEF a, b, d
  <2>6. Ready(a \o b)
    BY <2>3, <2>4, ReadyConcat
  <2>7. QED
    BY <2>1, <2>5, <2>6, ReadyConcat
<1>3. QED
  BY <1>1, <1>2

\* A table of the ring has sixteen numbers.
LEMMA RingTables == \A i \in 1 .. 16 : ring_cos[i] \in Int /\ ring_sin[i] \in Int
<1>1. ring_cos \in Seq(Int) /\ Len(ring_cos) = 16
  BY DEF ring_cos
<1>2. ring_sin \in Seq(Int) /\ Len(ring_sin) = 16
  BY DEF ring_sin
<1>3. QED
  BY <1>1, <1>2, ElementOfSeq

LEMMA RingReady ==
    ASSUME Sized, NEW cx \in Nat, NEW cy \in Nat, NEW radius \in Nat, NEW steps \in Nat,
           NEW active, NEW c
    PROVE  Ready(framebuffer_progress_ring(cx, cy, radius, steps, active, c))
<1> DEFINE use == Least(steps, 16)
           idx(i) == 1 + (((i * 16) \div use) % 16)
           X(k) == U32(cx + Scaled(radius, ring_cos[idx(k - 1)]))
           Y(k) == U32(cy + Scaled(radius, ring_sin[idx(k - 1)]))
           z(k) == fb_pack_color(IF k - 1 < active THEN c ELSE <<64, 64, 64>>)
           f == [k \in 1 .. use |-> Dot(X(k), Y(k), z(k))]
<1>1. framebuffer_progress_ring(cx, cy, radius, steps, active, c) = FlattenSeq(f)
  BY Zenon DEF framebuffer_progress_ring
<1>2. use \in Nat
  BY DEF Least
<1> HIDE DEF use
<1>3. ASSUME NEW k \in 1 .. use PROVE X(k) \in Nat /\ Y(k) \in Nat
  <2> DEFINE i == idx(k - 1)
             a == ring_cos[i]
             b == ring_sin[i]
  <2>1. i \in 1 .. 16
    <3> DEFINE d == ((k - 1) * 16) \div use
    <3>1. d \in Nat
      BY <1>2
    <3> HIDE DEF d
    <3>2. 1 + (d % 16) \in 1 .. 16
      BY <3>1
    <3>3. QED
      BY <3>2 DEF d
  <2> HIDE DEF i
  <2>2. a \in Int /\ b \in Int
    BY <2>1, RingTables
  <2> HIDE DEF a, b
  <2>3. Word \in Nat \ {0}
    BY FramebufferConstants
  <2>4. ASSUME NEW m \in Int PROVE U32(m) \in Nat
    BY <2>3 DEF U32
  <2>5. ASSUME NEW m \in Int PROVE Scaled(radius, m) \in Nat
    <3>1. U32(radius * m) \in Nat
      BY <2>4
    <3>2. QED
      BY <3>1 DEF Scaled
  <2>6. U32(cx + Scaled(radius, a)) \in Nat /\ U32(cy + Scaled(radius, b)) \in Nat
    <3>1. cx + Scaled(radius, a) \in Int /\ cy + Scaled(radius, b) \in Int
      BY <2>2, <2>5
    <3>2. QED
      BY <2>4, <3>1
  <2>7. QED
    BY <2>6 DEF a, b, i
<1> HIDE DEF X, Y, z
<1>4. ASSUME NEW k \in 1 .. use PROVE Ready(f[k])
  <2>1. Ready(Dot(X(k), Y(k), z(k)))
    BY <1>3, DotReady
  <2>2. QED
    BY <2>1
<1>5. f = [k \in 1 .. use |-> f[k]]
  OBVIOUS
<1> HIDE DEF f
<1>6. QED
  BY <1>1, <1>2, <1>4, <1>5, ReadyFlatten

\* Bars of equal width fit, and the last one takes what is left.
LEMMA BarsFit ==
    ASSUME NEW width \in Nat, NEW bars \in Nat \ {0}, NEW k \in 1 .. bars
    PROVE  /\ width \div bars \in Nat /\ (k - 1) * (width \div bars) \in Nat
           /\ width - (k - 1) * (width \div bars) \in Nat
<1> DEFINE q == width \div bars
<1>1. q \in Nat /\ width = bars * q + (width % bars) /\ width % bars \in Nat
  OBVIOUS
<1> HIDE DEF q
<1>2. (k - 1) * q + q <= bars * q /\ (k - 1) * q \in Nat /\ bars * q \in Nat
  BY <1>1, ProductBelow
<1>3. width - (k - 1) * q \in Nat
  BY <1>1, <1>2
<1>4. QED
  BY <1>1, <1>2, <1>3 DEF q

LEMMA PatternReady ==
    ASSUME Sized
    PROVE  Ready(framebuffer_test_pattern)
<1> DEFINE bars == Len(BarColors)
           bar_w == fb.width \div bars
           X(k) == (k - 1) * bar_w
           V(k) == IF k = bars THEN fb.width - (k - 1) * bar_w ELSE bar_w
           f == [k \in 1 .. bars |->
                    framebuffer_fill_rect(X(k), 0, V(k), fb.height, BarColors[k])]
<1>1. framebuffer_test_pattern = FlattenSeq(f)
  BY Zenon DEF framebuffer_test_pattern
<1>2. bars \in Nat \ {0} /\ fb.width \in Nat /\ fb.height \in Nat
  BY SizedFacts, FramebufferConstants
<1> HIDE DEF bars
<1>3. ASSUME NEW k \in 1 .. bars PROVE X(k) \in Nat /\ V(k) \in Nat
  BY <1>2, BarsFit
<1> HIDE DEF X, V
<1>4. ASSUME NEW k \in 1 .. bars PROVE Ready(f[k])
  <2> DEFINE c == BarColors[k]
  <2> HIDE DEF c
  <2>1. Ready(framebuffer_fill_rect(X(k), 0, V(k), fb.height, c))
    BY <1>2, <1>3, RectReady
  <2>2. QED
    BY <2>1 DEF c
<1>5. f = [k \in 1 .. bars |-> f[k]]
  OBVIOUS
<1> HIDE DEF f
<1>6. QED
  BY <1>1, <1>2, <1>4, <1>5, ReadyFlatten

LEMMA LineReady ==
    ASSUME NEW x0 \in Int, NEW y0 \in Int, NEW x1 \in Int, NEW y1 \in Int, NEW c \in Color
    PROVE  Ready(framebuffer_draw_line(x0, y0, x1, y1, c))
<1> DEFINE dx == Abs(x1 - x0)
           dy == -Abs(y1 - y0)
           e == [kind |-> "line", x |-> x0, y |-> y0, x1 |-> x1, y1 |-> y1,
                 dx |-> dx, dy |-> dy, sx |-> IF x0 < x1 THEN 1 ELSE -1,
                 sy |-> IF y0 < y1 THEN 1 ELSE -1, err |-> dx + dy, c |-> c]
<1>1. framebuffer_draw_line(x0, y0, x1, y1, c) = <<e>>
  BY Zenon DEF framebuffer_draw_line
<1>2. dx \in Int /\ dy \in Int
  BY DEF Abs
<1> HIDE DEF dx, dy
<1>3. e \in [kind : {"line"}, x : Int, y : Int, x1 : Int, y1 : Int, dx : Int, dy : Int,
              sx : Int, sy : Int, err : Int, c : Color]
  BY <1>2
<1> HIDE DEF e
<1>4. Sound(e)
  BY <1>3 DEF Sound
<1>5. QED
  BY <1>1, <1>4, ReadyOne

\* Every call that has room for its text makes sound writes only.
LEMMA CodeReady ==
    ASSUME Sized, fb.height > 0, NEW d \in Call, HasRoom(d)
    PROVE  Ready(Code(d))
<1>0. \A u \in UInt : u \in Nat
  BY FramebufferConstants DEF UInt
<1>1. CASE d.op = "clear"
  BY <1>1, ClearReady DEF Code
<1>2. CASE d.op = "pixel"
  <2>1. d.x \in Nat /\ d.y \in Nat
    BY <1>0, <1>2 DEF Call
  <2>2. QED
    BY <1>2, <2>1, PixelReady DEF Code
<1>3. CASE d.op = "rect"
  <2>1. d.x \in Nat /\ d.y \in Nat /\ d.w \in Nat /\ d.h \in Nat
    BY <1>0, <1>3 DEF Call
  <2>2. QED
    BY <1>3, <2>1, RectReady DEF Code
<1>4. CASE d.op = "line"
  <2>1. d.x0 \in Int /\ d.y0 \in Int /\ d.x1 \in Int /\ d.y1 \in Int /\ d.c \in Color
    BY <1>4 DEF Call
  <2>2. QED
    BY <1>4, <2>1, LineReady DEF Code
<1>5. CASE d.op = "gradient"
  BY <1>5, GradientReady DEF Code
<1>6. CASE d.op = "text"
  <2>1. d.x \in Nat /\ d.y \in Nat /\ d.str \in Seq(STRING)
    BY <1>0, <1>6 DEF Call
  <2>2. d.x < fb.width /\ d.y + CELL <= fb.height
    BY <1>6 DEF HasRoom
  <2>3. QED
    BY <1>6, <2>1, <2>2, StringReady DEF Code
<1>7. CASE d.op = "ring"
  <2>1. d.x \in Nat /\ d.y \in Nat /\ d.radius \in Nat /\ d.steps \in Nat
    BY <1>0, <1>7 DEF Call
  <2>2. QED
    BY <1>7, <2>1, RingReady DEF Code
<1>8. CASE d.op = "pattern"
  BY <1>8, PatternReady DEF Code
<1>9. CASE d.op = "blit"
  <2>1. d.x \in Nat /\ d.y \in Nat /\ d.w \in Nat /\ d.h \in Nat
    BY <1>0, <1>9 DEF Call
  <2>2. QED
    BY <1>9, <2>1, BlitReady DEF Code
<1>10. CASE d.op = "present"
  BY <1>10, PresentReady DEF Code
<1>11. QED
  BY <1>1, <1>2, <1>3, <1>4, <1>5, <1>6, <1>7, <1>8, <1>9, <1>10 DEF Call

\* The boot screen asks for rectangles and lines, whatever wraps.
LEMMA BootCalls ==
    ASSUME Sized
    PROVE  /\ framebuffer_demo_bootscreen \in Seq(Call)
           /\ \A k \in DOMAIN framebuffer_demo_bootscreen : HasRoom(framebuffer_demo_bootscreen[k])
<1> DEFINE B == {d \in Call : d.op # "text"}
<1>0. Word \in Nat \ {0} /\ fb.width \in Nat /\ fb.height \in Nat
  BY SizedFacts, FramebufferConstants
<1>1. \A a \in Int : U32(a) \in UInt /\ I32(a) \in Int
  BY <1>0 DEF U32, I32, UInt
<1>2. White \in Color /\ Teal \in Color /\ Gray \in Color /\ Dark \in Color /\ Tint \in Color
      /\ Black \in Color
  BY DEF White, Teal, Gray, Dark, Tint, Black, Color
<1>3. ASSUME NEW x \in Int, NEW y \in Int, NEW w \in Int, NEW h \in Int, NEW c \in Color
      PROVE  Rect(x, y, w, h, c) \in B
  <2> DEFINE d == Rect(x, y, w, h, c)
  <2>1. d \in [op : {"rect"}, x : UInt, y : UInt, w : UInt, h : UInt, c : Color]
    BY <1>1 DEF Rect
  <2>2. d.op = "rect"
    BY DEF Rect
  <2> HIDE DEF d
  <2>3. d \in Call
    BY <2>1 DEF Call
  <2>4. QED
    BY <2>2, <2>3 DEF d
<1>4. ASSUME NEW x0 \in Int, NEW y0 \in Int, NEW x1 \in Int, NEW y1 \in Int, NEW c \in Color
      PROVE  Line(x0, y0, x1, y1, c) \in B
  <2> DEFINE d == Line(x0, y0, x1, y1, c)
  <2>1. d \in [op : {"line"}, x0 : Int, y0 : Int, x1 : Int, y1 : Int, c : Color]
    BY <1>1 DEF Line
  <2>2. d.op = "line"
    BY DEF Line
  <2> HIDE DEF d
  <2>3. d \in Call
    BY <2>1 DEF Call
  <2>4. QED
    BY <2>2, <2>3 DEF d
<1>5. [op |-> "clear", c |-> Teal] \in B
  <2> DEFINE d == [op |-> "clear", c |-> Teal]
  <2>1. d \in [op : {"clear"}, c : Color] /\ d.op = "clear"
    BY <1>2
  <2> HIDE DEF d
  <2>2. d \in Call
    BY <2>1 DEF Call
  <2>3. QED
    BY <2>1, <2>2 DEF d
<1> HIDE DEF B
<1>6. ASSUME NEW l \in Int, NEW t \in Int, NEW r \in Int, NEW b \in Int
      PROVE  Edges(l, t, r, b, White, Dark) \in Seq(B)
  <2>1. l + 1 \in Int /\ t + 1 \in Int
    OBVIOUS
  <2>2. /\ Line(l, t, r, t, White) \in B /\ Line(l, t, l, b, White) \in B
        /\ Line(l + 1, b, r, b, Dark) \in B /\ Line(r, t + 1, r, b, Dark) \in B
    BY <1>2, <1>4, <2>1
  <2>3. QED
    BY <2>2 DEF Edges
<1> DEFINE wide == fb.width
           high == fb.height
           taskbar_h == high \div 12
           taskbar_y == high - taskbar_h
           sb_w == wide \div 10
           sb_h == taskbar_h - 6
           sb_y == taskbar_y + 3
           win_w == wide \div 3
           win_h == high \div 3
           win_x == (wide - win_w) \div 2
           win_y == (high - win_h) \div 2 - taskbar_h \div 2
           bar_h == win_h \div 6
           a == <<[op |-> "clear", c |-> Teal],
                  Rect(0, taskbar_y, wide, taskbar_h, Gray),
                  Line(0, taskbar_y - 1, wide - 1, taskbar_y - 1, Dark),
                  Rect(4, sb_y, sb_w, sb_h, Tint)>>
           b == Edges(4, sb_y, 4 + sb_w - 1, sb_y + sb_h - 1, White, Dark)
           c == <<Rect(win_x, win_y, win_w, win_h, Gray)>>
           d == Edges(win_x, win_y, win_x + win_w - 1, win_y + win_h - 1, White, Dark)
           e == <<Rect(win_x + 1, win_y + 1, win_w - 2, bar_h, Teal),
                  Line(win_x + 1, win_y + 1, win_x + win_w - 2, win_y + 1, White),
                  Line(win_x + 1, win_y + 1, win_x + 1, win_y + bar_h, White),
                  Line(win_x + 1, win_y + bar_h, win_x + win_w - 2, win_y + bar_h, Black),
                  Line(win_x + win_w - 2, win_y + 1, win_x + win_w - 2, win_y + bar_h, Black),
                  Rect(win_x + 2, win_y + bar_h + 2, win_w - 4, win_h - bar_h - 5, White)>>
<1>7. framebuffer_demo_bootscreen = a \o b \o c \o d \o e
  BY Zenon DEF framebuffer_demo_bootscreen
<1>8. /\ taskbar_h \in Int /\ taskbar_y \in Int /\ sb_w \in Int /\ sb_h \in Int /\ sb_y \in Int
      /\ win_w \in Int /\ win_h \in Int /\ win_x \in Int /\ win_y \in Int /\ bar_h \in Int
      /\ wide \in Int /\ high \in Int
  BY <1>0
<1> HIDE DEF wide, high, taskbar_h, taskbar_y, sb_w, sb_h, sb_y, win_w, win_h, win_x, win_y, bar_h
<1>9. a \in Seq(B)
  <2>1. taskbar_y - 1 \in Int /\ wide - 1 \in Int /\ 0 \in Int /\ 4 \in Int
    BY <1>8
  <2>2. /\ Rect(0, taskbar_y, wide, taskbar_h, Gray) \in B
        /\ Line(0, taskbar_y - 1, wide - 1, taskbar_y - 1, Dark) \in B
        /\ Rect(4, sb_y, sb_w, sb_h, Tint) \in B
    BY <1>2, <1>3, <1>4, <1>8, <2>1
  <2>3. QED
    BY <1>5, <2>2
<1>10. b \in Seq(B)
  <2>1. 4 + sb_w - 1 \in Int /\ sb_y + sb_h - 1 \in Int /\ 4 \in Int
    BY <1>8
  <2>2. QED
    BY <1>6, <1>8, <2>1
<1>11. c \in Seq(B)
  <2>1. Rect(win_x, win_y, win_w, win_h, Gray) \in B
    BY <1>2, <1>3, <1>8
  <2>2. QED
    BY <2>1
<1>12. d \in Seq(B)
  <2>1. win_x + win_w - 1 \in Int /\ win_y + win_h - 1 \in Int
    BY <1>8
  <2>2. QED
    BY <1>6, <1>8, <2>1
<1>13. e \in Seq(B)
  <2>1. /\ win_x + 1 \in Int /\ win_y + 1 \in Int /\ win_w - 2 \in Int /\ win_x + win_w - 2 \in Int
        /\ win_y + bar_h \in Int /\ win_x + 2 \in Int /\ win_y + bar_h + 2 \in Int
        /\ win_w - 4 \in Int /\ win_h - bar_h - 5 \in Int
    BY <1>8
  <2>2. /\ Rect(win_x + 1, win_y + 1, win_w - 2, bar_h, Teal) \in B
        /\ Rect(win_x + 2, win_y + bar_h + 2, win_w - 4, win_h - bar_h - 5, White) \in B
    BY <1>2, <1>3, <1>8, <2>1
  <2>3. /\ Line(win_x + 1, win_y + 1, win_x + win_w - 2, win_y + 1, White) \in B
        /\ Line(win_x + 1, win_y + 1, win_x + 1, win_y + bar_h, White) \in B
        /\ Line(win_x + 1, win_y + bar_h, win_x + win_w - 2, win_y + bar_h, Black) \in B
        /\ Line(win_x + win_w - 2, win_y + 1, win_x + win_w - 2, win_y + bar_h, Black) \in B
    BY <1>2, <1>4, <1>8, <2>1
  <2>4. QED
    BY <2>2, <2>3
<1> HIDE DEF a, b, c, d, e
<1>14. framebuffer_demo_bootscreen \in Seq(B)
  BY <1>7, <1>9, <1>10, <1>11, <1>12, <1>13
<1>15. ASSUME NEW s \in Seq(B) PROVE s \in Seq(Call) /\ \A k \in DOMAIN s : HasRoom(s[k])
  <2>1. B \subseteq Call /\ \A x \in B : HasRoom(x)
    BY DEF B, HasRoom
  <2>2. \A k \in DOMAIN s : s[k] \in B
    OBVIOUS
  <2>3. QED
    BY <2>1, <2>2
<1>16. QED
  BY <1>14, <1>15

\* Several calls one after the other.
LEMMA CallsReady ==
    ASSUME Sized, fb.height > 0, NEW ds \in Seq(Call), \A k \in DOMAIN ds : HasRoom(ds[k])
    PROVE  Ready(FlattenSeq([k \in DOMAIN ds |-> Code(ds[k])]))
<1> DEFINE n == Len(ds)
           f == [k \in 1 .. n |-> Code(ds[k])]
<1>1. n \in Nat /\ DOMAIN ds = 1 .. n
  OBVIOUS
<1>2. ASSUME NEW k \in 1 .. n PROVE Ready(f[k])
  <2> DEFINE d == ds[k]
  <2>1. d \in Call /\ HasRoom(d)
    BY <1>1
  <2> HIDE DEF d
  <2>2. Ready(Code(d))
    BY <2>1, CodeReady
  <2>3. QED
    BY <2>2 DEF d
<1>3. f = [k \in 1 .. n |-> f[k]]
  OBVIOUS
<1> HIDE DEF f, n
<1>4. Ready(FlattenSeq(f))
  BY <1>1, <1>2, <1>3, ReadyFlatten
<1>5. QED
  BY <1>1, <1>4 DEF f

-----------------------------------------------------------------------------
(* The framebuffer: its steps                                               *)

\* The part of DrawInv that is about memory.
MemoryKept ==
    /\ stray = FALSE
    /\ mem = [b \in Buffers |-> [a \in Addresses(b) |-> mem[b][a]]]
    /\ \A b \in Buffers : \A a \in Addresses(b) :
          (a % PitchOf(b)) >= fb.width => mem[b][a] = Untouched

\* The rest of it, without what is left to draw.
Placed ==
    /\ FramebufferTypeOK
    /\ Sized
    /\ available => fb.width > 0 /\ fb.height > 0
    /\ stage = "start" => backbuffer_pitch = 0 /\ todo = <<>>

LEMMA DrawInvIs == DrawInv <=> MemoryKept /\ Placed /\ Ready(todo)
<1>1. mem = [b \in Buffers |-> [a \in Addresses(b) |-> mem[b][a]]] =>
         DOMAIN mem = Buffers /\ \A b \in Buffers : DOMAIN mem[b] = Addresses(b)
  OBVIOUS
<1>2. NothingOutside /\ mem = [b \in Buffers |-> [a \in Addresses(b) |-> mem[b][a]]]
         <=> MemoryKept /\ FramebufferTypeOK
  <2>1. stray = FALSE <=> ~stray /\ stray \in BOOLEAN
    BY Zenon
  <2>2. FramebufferTypeOK => stray \in BOOLEAN
    BY Zenon DEF FramebufferTypeOK
  <2>3. QED
    BY <1>1, <2>1, <2>2, Zenon DEF NothingOutside, MemoryKept
<1>3. FramebufferTypeOK /\ fb \in Mode /\ fb.pitch >= fb.width /\ fb.width + CELL < Word
         <=> FramebufferTypeOK /\ Sized
  BY DEF FramebufferTypeOK, Sized
<1>4. QED
  BY <1>2, <1>3 DEF DrawInv, Placed

\* What is sound stays so while the mode does not change.
LEMMA ReadyNext ==
    ASSUME fb' = fb, Ready(todo')
    PROVE  Ready(todo)'
BY DEF Ready, Sound, Addresses, PitchOf, BackPitch

LEMMA SizedNext ==
    ASSUME Sized, fb' = fb, backbuffer' \in {NoBuffer, "back"}, backbuffer_pitch' \in {0, BackPitch}
    PROVE  Sized'
BY DEF Sized, BackPitch

LEMMA MemoryNext ==
    ASSUME MemoryKept, UNCHANGED <<fb, mem, stray>>
    PROVE  MemoryKept'
BY DEF MemoryKept, Addresses, PitchOf, BackPitch

\* Writing a visible pixel.
LEMMA StoreKeeps ==
    ASSUME MemoryKept, Sized, fb' = fb, NEW buf \in Buffers, NEW at \in Addresses(buf),
           at % PitchOf(buf) < fb.width, NEW packed, Store(buf, at, packed)
    PROVE  MemoryKept'
<1>1. DOMAIN mem = Buffers /\ \A b \in Buffers : DOMAIN mem[b] = Addresses(b)
  BY DEF MemoryKept
<1>2. mem' = [mem EXCEPT ![buf][at] = packed] /\ stray' = FALSE
  BY <1>1 DEF Store, MemoryKept
<1>3. \A b \in Buffers : PitchOf(b)' = PitchOf(b) /\ Addresses(b)' = Addresses(b)
  BY DEF PitchOf, Addresses, BackPitch
<1>4. mem' = [b \in Buffers |-> [a \in Addresses(b) |->
                 IF b = buf /\ a = at THEN packed ELSE mem[b][a]]]
  BY <1>1, <1>2 DEF MemoryKept
<1>5. ASSUME NEW b \in Buffers, NEW a \in Addresses(b), (a % PitchOf(b)) >= fb.width
      PROVE  mem'[b][a] = Untouched
  <2>1. PitchOf(b) \in Nat /\ fb.width \in Nat
    BY SizedFacts DEF PitchOf
  <2>2. ~(b = buf /\ a = at)
    <3> SUFFICES ASSUME b = buf, a = at PROVE FALSE
      OBVIOUS
    <3>1. at % PitchOf(buf) >= fb.width /\ at % PitchOf(buf) < fb.width
      BY <1>5
    <3>2. at \in Nat /\ PitchOf(buf) \in Nat /\ PitchOf(buf) # 0
      BY <2>1, SizedFacts DEF PitchOf, Addresses
    <3>3. at % PitchOf(buf) \in Int
      BY <3>2
    <3>4. QED
      BY <2>1, <3>1, <3>3
  <2>3. mem'[b][a] = mem[b][a]
    BY <1>4, <2>2
  <2>4. QED
    BY <1>5, <2>3 DEF MemoryKept
<1>6. mem' = [b \in Buffers |-> [a \in Addresses(b) |-> mem'[b][a]]]
  BY <1>4
<1>7. QED
  BY <1>2, <1>3, <1>5, <1>6 DEF MemoryKept

\* A list of visible pixels, as the pointer makes it.
Visible(puts) ==
    \A k \in DOMAIN puts : /\ puts[k].buf \in Buffers /\ puts[k].at \in Addresses(puts[k].buf)
                           /\ puts[k].at % PitchOf(puts[k].buf) < fb.width

LEMMA RectVisible ==
    ASSUME Sized, NEW x \in Nat, NEW y \in Nat, NEW w \in Nat, NEW h \in Nat, NEW c
    PROVE  Visible(framebuffer_fill_rect(x, y, w, h, c))
<1> DEFINE r == framebuffer_fill_rect(x, y, w, h, c)
<1>1. Ready(r)
  BY RectReady
<1>2. \A k \in DOMAIN r : r[k].kind = "put"
  BY DEF framebuffer_fill_rect, Raster, TargetPut, Put
<1> HIDE DEF r
<1>3. ASSUME NEW k \in DOMAIN r
      PROVE  /\ r[k].buf \in Buffers /\ r[k].at \in Addresses(r[k].buf)
             /\ r[k].at % PitchOf(r[k].buf) < fb.width
  <2> DEFINE e == r[k]
  <2>1. Sound(e) /\ e.kind = "put"
    BY <1>1, <1>2 DEF Ready, Range
  <2> HIDE DEF e
  <2>2. e.buf \in Buffers /\ e.at \in Addresses(e.buf) /\ e.at % PitchOf(e.buf) < fb.width
    BY <2>1 DEF Sound
  <2>3. QED
    BY <2>2 DEF e
<1>4. QED
  BY <1>3 DEF Visible, r

\* What the pointer draws: its square is cut at the edges, and nothing of it
\* is negative.
LEMMA PointerRect ==
    ASSUME Sized, NEW x \in 0 .. (fb.width - 1), NEW y \in 0 .. (fb.height - 1)
    PROVE  \E sx, sy, w, h \in Nat :
              /\ cursor_draw(x, y) = framebuffer_fill_rect(sx, sy, w, h, White)
              /\ sx <= x /\ x < sx + w /\ sx + w <= fb.width
              /\ sy <= y /\ y < sy + h /\ sy + h <= fb.height
<1> DEFINE Extent(v, size) == IF v + CUR_SIZE > size THEN size - v ELSE CUR_SIZE
           half == CUR_SIZE \div 2
<1>1. CUR_SIZE \in Nat \ {0} /\ half \in Nat /\ half < CUR_SIZE /\ fb.width \in Nat /\ fb.height \in Nat
  BY SizedFacts, FramebufferConstants
<1>2. ASSUME NEW size \in Nat, NEW v \in 0 .. (size - 1)
      PROVE  /\ Start(v) \in Nat /\ Extent(Start(v), size) \in Nat
             /\ Start(v) <= v /\ v < Start(v) + Extent(Start(v), size)
             /\ Start(v) + Extent(Start(v), size) <= size
  <2>1. Start(v) = IF v - half < 0 THEN 0 ELSE v - half
    BY <1>1 DEF Start, Most
  <2> HIDE DEF half
  <2>2. QED
    BY <1>1, <2>1
<1> DEFINE sx == Start(x)
           sy == Start(y)
           w == Extent(sx, fb.width)
           h == Extent(sy, fb.height)
<1>3. cursor_draw(x, y) = framebuffer_fill_rect(sx, sy, w, h, White)
  BY Zenon DEF cursor_draw
<1>4. /\ sx \in Nat /\ w \in Nat /\ sx <= x /\ x < sx + w /\ sx + w <= fb.width
      /\ sy \in Nat /\ h \in Nat /\ sy <= y /\ y < sy + h /\ sy + h <= fb.height
  BY <1>1, <1>2
<1> HIDE DEF sx, sy, w, h
<1>5. QED
  BY <1>3, <1>4

LEMMA PutAllKeeps ==
    ASSUME MemoryKept, Sized, fb' = fb, NEW puts, Visible(puts), PutAll(puts)
    PROVE  MemoryKept'
<1> DEFINE hit == {<<puts[k].buf, puts[k].at>> : k \in DOMAIN puts}
           White3 == fb_pack_color(White)
<1>1. DOMAIN mem = Buffers /\ \A b \in Buffers : DOMAIN mem[b] = Addresses(b)
  BY DEF MemoryKept
<1>2. /\ mem' = [b \in DOMAIN mem |-> [a \in DOMAIN mem[b] |->
                   IF <<b, a>> \in hit THEN White3 ELSE mem[b][a]]]
      /\ stray' = (stray \/ \E c \in hit : c[2] \notin DOMAIN mem[c[1]])
  BY Zenon DEF PutAll
<1>3. ASSUME NEW b, NEW a, <<b, a>> \in hit
      PROVE  b \in Buffers /\ a \in Addresses(b) /\ a % PitchOf(b) < fb.width
  BY <1>3 DEF Visible
<1>4. stray' = FALSE
  <2>1. ASSUME NEW c \in hit PROVE c[2] \in DOMAIN mem[c[1]]
    <3>1. PICK k \in DOMAIN puts : c = <<puts[k].buf, puts[k].at>>
      OBVIOUS
    <3>2. c[1] = puts[k].buf /\ c[2] = puts[k].at /\ puts[k].buf \in Buffers
          /\ puts[k].at \in Addresses(puts[k].buf)
      BY <3>1 DEF Visible
    <3>3. QED
      BY <1>1, <3>2
  <2> HIDE DEF hit
  <2>2. QED
    BY <1>2, <2>1, Zenon DEF MemoryKept
<1> HIDE DEF hit, White3
<1>5. \A b \in Buffers : PitchOf(b)' = PitchOf(b) /\ Addresses(b)' = Addresses(b)
  BY DEF PitchOf, Addresses, BackPitch
<1>6. mem' = [b \in Buffers |-> [a \in Addresses(b) |->
                 IF <<b, a>> \in hit THEN White3 ELSE mem[b][a]]]
  BY <1>1, <1>2
<1>7. ASSUME NEW b \in Buffers, NEW a \in Addresses(b), (a % PitchOf(b)) >= fb.width
      PROVE  mem'[b][a] = Untouched
  <2>1. <<b, a>> \notin hit
    <3> SUFFICES ASSUME <<b, a>> \in hit PROVE FALSE
      OBVIOUS
    <3>1. a % PitchOf(b) < fb.width
      BY <1>3
    <3>2. PitchOf(b) \in Nat /\ fb.width \in Nat /\ a \in Nat /\ PitchOf(b) # 0
      BY SizedFacts DEF PitchOf, Addresses
    <3>3. a % PitchOf(b) \in Int
      BY <3>2
    <3>4. QED
      BY <1>7, <3>1, <3>2, <3>3
  <2>2. mem'[b][a] = mem[b][a]
    BY <1>6, <2>1
  <2>3. QED
    BY <1>7, <2>2 DEF MemoryKept
<1>8. mem' = [b \in Buffers |-> [a \in Addresses(b) |-> mem'[b][a]]]
  BY <1>6
<1>9. QED
  BY <1>4, <1>5, <1>7, <1>8 DEF MemoryKept

LEMMA FramebufferInitInv == FramebufferInit => DrawInv
<1> SUFFICES ASSUME FramebufferInit PROVE DrawInv
  OBVIOUS
<1>0. Word \in Nat \ {0} /\ CELL \in 1 .. (Word - 1) /\ BackPad \in Nat
  BY FramebufferConstants
<1>1. /\ fb.width = 0 /\ fb.height = 0 /\ fb.pitch = 0
      /\ fb = [valid |-> FALSE, type |-> 0, width |-> 0, height |-> 0, pitch |-> 0, bytes |-> 0,
               mask |-> [k \in 1 .. 3 |-> 0]]
  BY DEF FramebufferInit
<1>2. \A b \in Buffers : Addresses(b) = {} /\ mem[b] = <<>>
  BY <1>0, <1>1 DEF FramebufferInit, Addresses, PitchOf, BackPitch, Buffers
<1>3. MemoryKept
  <2>1. ASSUME NEW b \in Buffers PROVE mem[b] = [a \in Addresses(b) |-> mem[b][a]]
    <3> DEFINE f == [a \in Addresses(b) |-> mem[b][a]]
    <3>1. f \in [1 .. 0 -> {}]
      BY <1>2
    <3> HIDE DEF f
    <3>2. f = <<>>
      BY <3>1
    <3>3. QED
      BY <1>2, <3>2 DEF f
  <2>2. mem = [b \in Buffers |-> mem[b]]
    BY DEF FramebufferInit
  <2>3. mem = [b \in Buffers |-> [a \in Addresses(b) |-> mem[b][a]]]
    BY <2>1, <2>2, Zenon
  <2>4. stray = FALSE /\ \A b \in Buffers : \A a \in Addresses(b) : FALSE
    BY <1>2 DEF FramebufferInit
  <2>5. QED
    BY <2>3, <2>4, Zenon DEF MemoryKept
<1>4. Placed
  <2>1. fb \in Mode
    BY <1>1 DEF Mode
  <2>2. Sized
    BY <1>0, <1>1, <2>1 DEF FramebufferInit, Sized
  <2>3. FramebufferTypeOK
    BY DEF FramebufferInit, FramebufferTypeOK
  <2>4. QED
    BY <2>2, <2>3 DEF FramebufferInit, Placed
<1>5. QED
  BY <1>3, <1>4, DrawInvIs, ReadyNone DEF FramebufferInit

\* What a step that does not change the mode has to keep.
LEMMA PlacedKeeps ==
    ASSUME Placed, fb' = fb, available' = available,
           backbuffer' \in {NoBuffer, "back"}, backbuffer_pitch' \in {0, BackPitch},
           stray' \in BOOLEAN, mouse_enabled' \in BOOLEAN,
           stage' \in {"start", "cursor", "demo", "run"},
           stage' = "start" => backbuffer_pitch' = 0 /\ todo' = <<>>,
           cur_x' \in Nat, cur_y' \in Nat,
           available /\ stage' \in {"demo", "run"} => <<cur_x', cur_y'>> \in Pixels
    PROVE  Placed'
<1>1. Sized'
  BY SizedNext DEF Placed
<1>2. BackPitch' = BackPitch /\ Pixels' = Pixels
  BY DEF BackPitch, Pixels
<1>3. available' \in BOOLEAN
  BY Zenon DEF Placed, FramebufferTypeOK
<1>4. FramebufferTypeOK'
  BY <1>2, <1>3, Zenon DEF FramebufferTypeOK
<1>5. available' => fb'.width > 0 /\ fb'.height > 0
  BY DEF Placed
<1>6. QED
  BY <1>1, <1>4, <1>5, Zenon DEF Placed

\* The parts of DrawInv that the steps use.
LEMMA DrawInvFacts ==
    ASSUME DrawInv
    PROVE  /\ MemoryKept /\ Placed /\ Ready(todo) /\ Sized
           /\ available \in BOOLEAN /\ stray = FALSE /\ mouse_enabled \in BOOLEAN
           /\ backbuffer \in {NoBuffer, "back"} /\ backbuffer_pitch \in {0, BackPitch}
           /\ stage \in {"start", "cursor", "demo", "run"}
           /\ cur_x \in Nat /\ cur_y \in Nat
           /\ (available /\ stage \in {"demo", "run"} => <<cur_x, cur_y>> \in Pixels)
           /\ (available => fb.width > 0 /\ fb.height > 0)
           /\ (stage = "start" => backbuffer_pitch = 0 /\ todo = <<>>)
BY DrawInvIs, Zenon DEF Placed, FramebufferTypeOK, MemoryKept

LEMMA InitStep ==
    ASSUME DrawInv, NEW m \in Modes, framebuffer_init(m)
    PROVE  DrawInv'
<1> USE DrawInvFacts
<1>1. /\ m \in Mode /\ m.pitch >= m.width /\ m.width + CELL < Word
      /\ m.valid => m.width > 0 /\ m.height > 0
  BY FramebufferConstants
<1>2. /\ fb' = (IF ~m.valid THEN fb ELSE IF m.type = 1 THEN m ELSE [m EXCEPT !.mask = fb.mask])
      /\ available' = (m.valid /\ m.type = 1) /\ stage' = "cursor"
      /\ mem' = [b \in Buffers |-> [a \in Addresses(b)' |-> Untouched]]
      /\ UNCHANGED <<backbuffer, backbuffer_pitch, stray, cur_x, cur_y, mouse_enabled, todo>>
      /\ stage = "start"
  BY DEF framebuffer_init, pointer
<1>3. fb' \in Mode /\ fb'.pitch >= fb'.width /\ fb'.width + CELL < Word
  <2>1. fb \in Mode /\ fb.pitch >= fb.width /\ fb.width + CELL < Word
    BY DEF Sized
  <2>2. CASE ~m.valid
    BY <1>2, <2>1, <2>2
  <2>3. CASE m.valid /\ m.type = 1
    BY <1>1, <1>2, <2>3
  <2>4. CASE m.valid /\ m.type # 1
    <3> DEFINE g == [m EXCEPT !.mask = fb.mask]
    <3>1. fb' = g
      BY <1>2, <2>4
    <3>2. g \in Mode /\ g.width = m.width /\ g.pitch = m.pitch
      BY <1>1, <2>1 DEF Mode
    <3> HIDE DEF g
    <3>3. QED
      BY <1>1, <3>1, <3>2
  <2>5. QED
    BY <2>2, <2>3, <2>4, Zenon
<1>4. available' \in BOOLEAN /\ (available' => fb'.width > 0 /\ fb'.height > 0)
  <2>1. available' \in BOOLEAN
    <3>1. m.valid \in BOOLEAN
      BY <1>1 DEF Mode
    <3>2. QED
      BY <1>2, <3>1, Zenon
  <2>2. ASSUME available' PROVE fb' = m /\ m.valid
    BY <1>2, <2>2
  <2>3. QED
    BY <1>1, <2>1, <2>2
<1>5. Sized'
  BY <1>2, <1>3 DEF Sized
<1>6. FramebufferTypeOK'
  <2>1. stage' \notin {"demo", "run"} /\ stage' \in {"start", "cursor", "demo", "run"}
    BY <1>2
  <2>2. stray' \in BOOLEAN /\ mouse_enabled' \in BOOLEAN /\ cur_x' \in Nat /\ cur_y' \in Nat
    BY <1>2, Zenon
  <2>3. backbuffer' \in {NoBuffer, "back"} /\ backbuffer_pitch' \in {0, BackPitch'}
    BY <1>5 DEF Sized
  <2>4. QED
    BY <1>4, <2>1, <2>2, <2>3, Zenon DEF FramebufferTypeOK
<1>7. Placed'
  <2>1. stage' # "start"
    BY <1>2
  <2>2. QED
    BY <1>4, <1>5, <1>6, <2>1, Zenon DEF Placed
<1>8. MemoryKept'
  <2>1. \A b \in Buffers : \A a \in Addresses(b)' : mem'[b][a] = Untouched
    BY <1>2
  <2>2. mem' = [b \in Buffers |-> [a \in Addresses(b)' |-> mem'[b][a]]]
    BY <1>2
  <2>3. stray' = FALSE
    BY <1>2, Zenon
  <2>4. QED
    BY <2>1, <2>2, <2>3, Zenon DEF MemoryKept
<1>9. Ready(todo)'
  <2>1. todo' = <<>>
    BY <1>2
  <2>2. QED
    BY <2>1 DEF Ready, Range
<1>10. DrawInv' <=> MemoryKept' /\ Placed' /\ Ready(todo)'
  BY DrawInvIs, PTL
<1>11. QED
  BY <1>7, <1>8, <1>9, <1>10

LEMMA DrawInvNext ==
    ASSUME MemoryKept', Placed', fb' = fb, Ready(todo')
    PROVE  DrawInv'
<1>1. DrawInv' <=> MemoryKept' /\ Placed' /\ Ready(todo)'
  BY DrawInvIs, PTL
<1>2. QED
  BY <1>1, ReadyNext

\* The pointer is drawn somewhere on the screen.
LEMMA PointerKeeps ==
    ASSUME MemoryKept, Sized, fb' = fb, NEW x \in 0 .. (fb.width - 1), NEW y \in 0 .. (fb.height - 1),
           PutAll(cursor_draw(x, y))
    PROVE  MemoryKept'
<1>1. PICK sx, sy, w, h \in Nat : cursor_draw(x, y) = framebuffer_fill_rect(sx, sy, w, h, White)
  BY PointerRect
<1> DEFINE r == cursor_draw(x, y)
<1>2. Visible(r)
  BY <1>1, RectVisible
<1> HIDE DEF r
<1>3. PutAll(r)
  BY DEF r
<1>4. QED
  BY <1>2, <1>3, PutAllKeeps

LEMMA CursorStep ==
    ASSUME DrawInv, cursor_init
    PROVE  DrawInv'
<1> USE DrawInvFacts
<1>1. /\ stage' = "demo"
      /\ UNCHANGED <<fb, available, backbuffer, backbuffer_pitch, mouse_enabled, todo>>
  BY DEF cursor_init, fb_fields
<1>2. CASE available
  <2> DEFINE x == fb.width \div 2
             y == fb.height \div 2
  <2>1. cur_x' = x /\ cur_y' = y /\ PutAll(cursor_draw(x, y))
    BY <1>2, Zenon DEF cursor_init
  <2>2. x \in 0 .. (fb.width - 1) /\ y \in 0 .. (fb.height - 1)
    BY <1>2, SizedFacts
  <2> HIDE DEF x, y
  <2>3. MemoryKept'
    BY <1>1, <2>1, <2>2, PointerKeeps
  <2>4. <<cur_x', cur_y'>> \in Pixels /\ cur_x' \in Nat /\ cur_y' \in Nat
    BY <2>1, <2>2 DEF Pixels
  <2>5. stray' \in BOOLEAN
    BY <2>3, Zenon DEF MemoryKept
  <2>6. Placed'
    BY <1>1, <2>4, <2>5, PlacedKeeps
  <2>7. QED
    BY <1>1, <2>3, <2>6, DrawInvNext
<1>3. CASE ~available
  <2>1. UNCHANGED <<cur_x, cur_y, mem, stray>>
    BY <1>3 DEF cursor_init, pointer
  <2>2. MemoryKept'
    BY <1>1, <2>1, MemoryNext
  <2>3. stray' \in BOOLEAN
    BY <2>2, Zenon DEF MemoryKept
  <2>4. Placed'
    BY <1>1, <1>3, <2>1, <2>3, PlacedKeeps
  <2>5. QED
    BY <1>1, <2>2, <2>4, DrawInvNext
<1>4. QED
  BY <1>2, <1>3

\* A call is begun, with room for its text.
LEMMA BeginStep ==
    ASSUME DrawInv, NEW ds \in Seq(Call), \A k \in DOMAIN ds : HasRoom(ds[k]),
           BeginCalls(ds), stage' = "run", stage \in {"demo", "run"}
    PROVE  DrawInv'
<1> USE DrawInvFacts
<1>1. /\ UNCHANGED <<fb, available, backbuffer, backbuffer_pitch, mem, stray, cur_x, cur_y, mouse_enabled>>
      /\ todo' = IF available THEN FlattenSeq([k \in DOMAIN ds |-> Code(ds[k])]) ELSE <<>>
  BY DEF BeginCalls, fb_fields, pointer
<1>2. Ready(todo')
  <2>1. CASE available
    <3>1. Ready(FlattenSeq([k \in DOMAIN ds |-> Code(ds[k])]))
      BY <2>1, CallsReady
    <3>2. QED
      BY <1>1, <2>1, <3>1
  <2>2. CASE ~available
    BY <1>1, <2>2, ReadyNone
  <2>3. QED
    BY <2>1, <2>2
<1>3. MemoryKept'
  BY <1>1, MemoryNext
<1>4. stray' \in BOOLEAN
  BY <1>3, Zenon DEF MemoryKept
<1>5. Placed'
  BY <1>1, <1>4, PlacedKeeps
<1>6. QED
  BY <1>1, <1>2, <1>3, <1>5, DrawInvNext

LEMMA BootStep ==
    ASSUME DrawInv, BootScreen
    PROVE  DrawInv'
<1>1. BeginCalls(framebuffer_demo_bootscreen) /\ stage' = "run" /\ stage \in {"demo", "run"}
  BY DEF BootScreen
<1> DEFINE ds == framebuffer_demo_bootscreen
<1>2. ds \in Seq(Call) /\ \A k \in DOMAIN ds : HasRoom(ds[k])
  BY DrawInvFacts, BootCalls
<1> HIDE DEF ds
<1>3. BeginCalls(ds)
  BY <1>1 DEF ds
<1>4. QED
  BY <1>1, <1>2, <1>3, BeginStep

LEMMA DrawStep ==
    ASSUME DrawInv, NEW d \in Calls, Draw(d)
    PROVE  DrawInv'
<1> DEFINE ds == <<d>>
<1>1. BeginCalls(ds) /\ stage' = "run" /\ stage \in {"demo", "run"} /\ HasRoom(d)
  BY DEF Draw, MayCall
<1>2. ds \in Seq(Call) /\ \A k \in DOMAIN ds : HasRoom(ds[k])
  <2>1. d \in Call
    BY FramebufferConstants
  <2>2. DOMAIN ds = {1} /\ ds[1] = d /\ ds \in Seq({d})
    OBVIOUS
  <2> HIDE DEF ds
  <2>3. ds \in Seq(Call)
    BY <2>1, <2>2
  <2>4. QED
    BY <1>1, <2>2, <2>3
<1> HIDE DEF ds
<1>3. QED
  BY <1>1, <1>2, BeginStep

LEMMA BackStep ==
    ASSUME DrawInv, NEW buf \in {NoBuffer, "back"}, NEW pitch \in {0, BackPitch},
           framebuffer_set_backbuffer(buf, pitch)
    PROVE  DrawInv'
<1> USE DrawInvFacts
<1> DEFINE e == [kind |-> "pitch", pitch |-> pitch]
<1>1. /\ UNCHANGED <<fb, available, backbuffer_pitch, mem, stray, cur_x, cur_y, mouse_enabled>>
      /\ backbuffer' = buf /\ todo' = <<e>> /\ stage' = stage /\ stage = "run"
  BY DEF framebuffer_set_backbuffer, MayCall, pointer
<1>2. Ready(todo')
  <2>1. e.kind = "pitch" /\ e.pitch \in {0, BackPitch}
    OBVIOUS
  <2> HIDE DEF e
  <2>2. Sound(e)
    BY <2>1 DEF Sound
  <2>3. QED
    BY <1>1, <2>2, ReadyOne
<1>3. MemoryKept'
  BY <1>1, MemoryNext
<1>4. stray' \in BOOLEAN
  BY <1>3, Zenon DEF MemoryKept
<1>5. Placed'
  BY <1>1, <1>4, PlacedKeeps
<1>6. QED
  BY <1>1, <1>2, <1>3, <1>5, DrawInvNext

LEMMA FlushStep ==
    ASSUME DrawInv, Flush
    PROVE  DrawInv'
<1> USE DrawInvFacts
<1>1. /\ UNCHANGED <<fb, available, backbuffer, backbuffer_pitch, mem, stray, cur_x, cur_y, mouse_enabled>>
      /\ todo' = (IF available THEN framebuffer_flush ELSE <<>>) /\ stage' = stage /\ stage = "run"
  BY DEF Flush, MayCall, pointer, fb_fields
<1>2. Ready(todo')
  BY <1>1, FlushReady, ReadyNone
<1>3. MemoryKept'
  BY <1>1, MemoryNext
<1>4. stray' \in BOOLEAN
  BY <1>3, Zenon DEF MemoryKept
<1>5. Placed'
  BY <1>1, <1>4, PlacedKeeps
<1>6. QED
  BY <1>1, <1>2, <1>3, <1>5, DrawInvNext

LEMMA MouseStep ==
    ASSUME DrawInv, mouse_enable
    PROVE  DrawInv'
<1> USE DrawInvFacts
<1>1. /\ UNCHANGED <<fb, available, backbuffer, backbuffer_pitch, mem, stray, cur_x, cur_y, todo, stage>>
      /\ mouse_enabled' = TRUE
  BY DEF mouse_enable, pointer, fb_fields
<1>2. MemoryKept'
  BY <1>1, MemoryNext
<1>3. stray' \in BOOLEAN /\ mouse_enabled' \in BOOLEAN
  BY <1>1, <1>2, Zenon DEF MemoryKept
<1>4. Placed'
  BY <1>1, <1>3, PlacedKeeps
<1>5. QED
  BY <1>1, <1>2, <1>4, DrawInvNext

\* A step of the main program that leaves all but memory, the pitch of the
\* back buffer and what is left to do alone.
LEMMA WorkStep ==
    ASSUME DrawInv, NEW kind, Step(kind), MemoryKept', Ready(todo'),
           backbuffer_pitch' \in {0, BackPitch}
    PROVE  DrawInv'
<1> USE DrawInvFacts
<1>1. /\ UNCHANGED <<fb, available, backbuffer, cur_x, cur_y, mouse_enabled, stage>>
      /\ todo # <<>>
  BY DEF Step, pointer
<1>2. stray' \in BOOLEAN
  BY Zenon DEF MemoryKept
<1>3. stage' # "start"
  BY <1>1
<1>4. Placed'
  BY <1>1, <1>2, <1>3, PlacedKeeps
<1>5. QED
  BY <1>1, <1>4, DrawInvNext

LEMMA PixelStep ==
    ASSUME DrawInv, WritePixel \/ CopyPixel
    PROVE  DrawInv'
<1> USE DrawInvFacts
<1> DEFINE e == Head(todo)
<1>1. /\ Step("put") \/ Step("copy")
      /\ \E packed : Store(e.buf, e.at, packed)
      /\ todo' = Tail(todo) /\ backbuffer_pitch' = backbuffer_pitch
  BY DEF WritePixel, CopyPixel
<1>2. todo # <<>> /\ fb' = fb /\ e.kind \in {"put", "copy"}
  BY <1>1 DEF Step
<1>3. Sound(e) /\ Ready(Tail(todo))
  BY <1>2, ReadyTail
<1> HIDE DEF e
<1>4. e.buf \in Buffers /\ e.at \in Addresses(e.buf) /\ e.at % PitchOf(e.buf) < fb.width
  BY <1>2, <1>3 DEF Sound
<1>5. MemoryKept'
  BY <1>1, <1>2, <1>4, StoreKeeps
<1>6. QED
  BY <1>1, <1>3, <1>5, WorkStep

LEMMA PitchStep ==
    ASSUME DrawInv, SetPitch
    PROVE  DrawInv'
<1> USE DrawInvFacts
<1> DEFINE e == Head(todo)
<1>1. /\ Step("pitch") /\ todo' = Tail(todo) /\ backbuffer_pitch' = e.pitch
      /\ UNCHANGED <<mem, stray>>
  BY DEF SetPitch
<1>2. todo # <<>> /\ fb' = fb /\ e.kind = "pitch"
  BY <1>1 DEF Step
<1>3. Sound(e) /\ Ready(Tail(todo))
  BY <1>2, ReadyTail
<1> HIDE DEF e
<1>4. e.pitch \in {0, BackPitch}
  BY <1>2, <1>3 DEF Sound
<1>5. MemoryKept'
  BY <1>1, <1>2, MemoryNext
<1>6. QED
  BY <1>1, <1>3, <1>4, <1>5, WorkStep

\* The next round of a line is a line.
LEMMA LineStepSound ==
    ASSUME NEW l, Sound(l), l.kind = "line"
    PROVE  /\ Sound(LineStep(l)) /\ l.x \in Int /\ l.y \in Int
<1> DEFINE L == [kind : {"line"}, x : Int, y : Int, x1 : Int, y1 : Int, dx : Int, dy : Int,
                 sx : Int, sy : Int, err : Int, c : Color]
           e2 == 2 * l.err
           err == l.err + (IF e2 >= l.dy THEN l.dy ELSE 0) + (IF e2 <= l.dx THEN l.dx ELSE 0)
           x == IF e2 >= l.dy THEN l.x + l.sx ELSE l.x
           y == IF e2 <= l.dx THEN l.y + l.sy ELSE l.y
<1>1. l \in L
  BY DEF Sound
<1>2. err \in Int /\ x \in Int /\ y \in Int
  BY <1>1
<1>3. LineStep(l) = [l EXCEPT !.err = err, !.x = x, !.y = y]
  BY DEF LineStep
<1> HIDE DEF err, x, y
<1>4. [l EXCEPT !.err = err, !.x = x, !.y = y] \in L
  BY <1>1, <1>2
<1>5. Sound(LineStep(l))
  BY <1>3, <1>4 DEF Sound
<1>6. QED
  BY <1>1, <1>5

LEMMA LineRound ==
    ASSUME DrawInv, DrawLine
    PROVE  DrawInv'
<1> USE DrawInvFacts
<1> DEFINE l == Head(todo)
           put == framebuffer_putpixel(U32(l.x), U32(l.y), l.c)
           more == IF l.x = l.x1 /\ l.y = l.y1 THEN <<>> ELSE <<LineStep(l)>>
<1>1. /\ Step("line")
      /\ IF put = <<>> THEN UNCHANGED <<mem, stray>>
         ELSE Store(put[1].buf, put[1].at, put[1].packed)
      /\ todo' = more \o Tail(todo) /\ backbuffer_pitch' = backbuffer_pitch
  BY Zenon DEF DrawLine
<1>2. todo # <<>> /\ fb' = fb /\ l.kind = "line"
  BY <1>1 DEF Step
<1>3. Sound(l) /\ Ready(Tail(todo))
  BY <1>2, ReadyTail
<1> HIDE DEF l
<1>4. l.x \in Int /\ l.y \in Int /\ Ready(more)
  BY <1>2, <1>3, LineStepSound, ReadyOne, ReadyNone
<1> HIDE DEF more
<1>5. Ready(todo')
  BY <1>1, <1>3, <1>4, ReadyConcat
<1>6. MemoryKept'
  <2>1. CASE put = <<>>
    BY <1>1, <1>2, <2>1, MemoryNext
  <2>2. CASE put # <<>>
    <3> DEFINE X == U32(l.x)
               Y == U32(l.y)
               e == TargetPut(X, Y, fb_pack_color(l.c))
    <3>1. X \in Nat /\ Y \in Nat
      BY <1>4, FramebufferConstants DEF U32
    <3>2. X < fb.width /\ Y < fb.height /\ put = <<e>>
      BY <2>2, <3>1, SizedFacts DEF framebuffer_putpixel
    <3>3. X \in 0 .. (fb.width - 1) /\ Y \in 0 .. (fb.height - 1)
      BY <3>1, <3>2, SizedFacts
    <3> HIDE DEF X, Y
    <3>4. Sound(e) /\ e.kind = "put"
      BY <3>3, TargetSound DEF TargetPut, Put
    <3> HIDE DEF e
    <3>5. e.buf \in Buffers /\ e.at \in Addresses(e.buf) /\ e.at % PitchOf(e.buf) < fb.width
      BY <3>4 DEF Sound
    <3>6. Store(e.buf, e.at, e.packed)
      BY <1>1, <2>2, <3>2
    <3>7. QED
      BY <1>2, <3>5, <3>6, StoreKeeps
  <2>3. QED
    BY <2>1, <2>2
<1>7. QED
  BY <1>1, <1>5, <1>6, WorkStep

\* Where a movement takes the pointer.
LEMMA ClampIs ==
    ASSUME NEW v \in Int, NEW size \in Nat, size > 0
    PROVE  Clamp(v, size) \in 0 .. (size - 1)
BY DEF Clamp, Most, Least

LEMMA TickFacts ==
    ASSUME DrawInv, NEW ev \in Events, cursor_tick(ev)
    PROVE  /\ cur_x' \in 0 .. (fb.width - 1) /\ cur_y' \in 0 .. (fb.height - 1)
           /\ PutAll(cursor_draw(cur_x', cur_y'))
           /\ UNCHANGED <<fb, available, backbuffer, backbuffer_pitch, mouse_enabled, stage, todo>>
<1> USE DrawInvFacts
<1> DEFINE x == Clamp(cur_x + ev.dx, fb.width)
           y == Clamp(cur_y + ev.dy, fb.height)
<1>1. /\ fb.width > 0 /\ fb.height > 0
      /\ cur_x' = x /\ cur_y' = y
      /\ PutAll(cursor_draw(x, y))
      /\ UNCHANGED <<fb, available, backbuffer, backbuffer_pitch, mouse_enabled, stage, todo>>
  BY DEF cursor_tick, fb_fields
<1>2. cur_x + ev.dx \in Int /\ cur_y + ev.dy \in Int
  <2>1. ev \in [dx : Int, dy : Int]
    BY FramebufferConstants
  <2>2. QED
    BY <2>1
<1>3. x \in 0 .. (fb.width - 1) /\ y \in 0 .. (fb.height - 1)
  BY <1>1, <1>2, SizedFacts, ClampIs
<1> HIDE DEF x, y
<1>4. QED
  BY <1>1, <1>3

LEMMA TickStep ==
    ASSUME DrawInv, NEW ev \in Events, cursor_tick(ev)
    PROVE  DrawInv'
<1> USE DrawInvFacts
<1> DEFINE x == cur_x'
           y == cur_y'
<1>1. /\ x \in 0 .. (fb.width - 1) /\ y \in 0 .. (fb.height - 1)
      /\ PutAll(cursor_draw(x, y))
      /\ UNCHANGED <<fb, available, backbuffer, backbuffer_pitch, mouse_enabled, stage, todo>>
  BY TickFacts
<1>2. MemoryKept'
  BY <1>1, PointerKeeps
<1>3. stray' \in BOOLEAN
  BY <1>2, Zenon DEF MemoryKept
<1>4. <<cur_x', cur_y'>> \in Pixels /\ cur_x' \in Nat /\ cur_y' \in Nat
  BY <1>1 DEF Pixels
<1>5. Placed'
  BY <1>1, <1>3, <1>4, PlacedKeeps
<1>6. QED
  BY <1>1, <1>2, <1>5, DrawInvNext

LEMMA StutterStep ==
    ASSUME DrawInv, UNCHANGED fb_vars
    PROVE  DrawInv'
<1> USE DrawInvFacts
<1>1. /\ UNCHANGED <<fb, available, backbuffer, backbuffer_pitch, mem, stray, cur_x, cur_y,
                     mouse_enabled, stage, todo>>
  BY DEF fb_vars, fb_fields, pointer
<1>2. MemoryKept'
  BY <1>1, MemoryNext
<1>3. stray' \in BOOLEAN
  BY <1>2, Zenon DEF MemoryKept
<1>4. Placed'
  BY <1>1, <1>3, PlacedKeeps
<1>5. QED
  BY <1>1, <1>2, <1>4, DrawInvNext

LEMMA FramebufferStep == DrawInv /\ [FramebufferNext]_fb_vars => DrawInv'
<1> SUFFICES ASSUME DrawInv, [FramebufferNext]_fb_vars PROVE DrawInv'
  OBVIOUS
<1>1. CASE \E m \in Modes : framebuffer_init(m)
  BY <1>1, InitStep
<1>2. CASE cursor_init \/ BootScreen \/ Flush \/ mouse_enable
  BY <1>2, CursorStep, BootStep, FlushStep, MouseStep
<1>3. CASE \E d \in Calls : Draw(d)
  BY <1>3, DrawStep
<1>4. CASE framebuffer_set_backbuffer("back", BackPitch) \/ framebuffer_set_backbuffer(NoBuffer, 0)
  BY <1>4, BackStep
<1>5. CASE Drawing
  BY <1>5, PixelStep, PitchStep, LineRound DEF Drawing
<1>6. CASE \E ev \in Events : cursor_tick(ev)
  BY <1>6, TickStep
<1>7. CASE UNCHANGED fb_vars
  BY <1>7, StutterStep
<1>8. QED
  BY <1>1, <1>2, <1>3, <1>4, <1>5, <1>6, <1>7 DEF FramebufferNext, QuietTick

-----------------------------------------------------------------------------
(* The framebuffer: theorems                                                *)

\* On every screen, and for every sequence of calls, switches of the back
\* buffer and movements, the framebuffer keeps its inductive invariant: the
\* mode, the sizes of the buffers and what is left of the call agree.
THEOREM FramebufferInvariant == FramebufferSpec => []DrawInv
<1>1. FramebufferSpec => FramebufferInit /\ [][FramebufferNext]_fb_vars
  BY PTL DEF FramebufferSpec
<1>2. QED
  BY <1>1, FramebufferInitInv, FramebufferStep, PTL

\* Drawing functions and pointer never write outside their buffer nor in the
\* part of a row that is not visible.
THEOREM FramebufferInside == FramebufferSpec => []NothingOutside
<1>1. DrawInv => NothingOutside
  BY DEF DrawInv
<1>2. QED
  BY <1>1, FramebufferInvariant, PTL

\* The square that is drawn covers the pixel under the pointer.
LEMMA PointerHit ==
    ASSUME Sized, Writable, NEW x \in 0 .. (fb.width - 1), NEW y \in 0 .. (fb.height - 1)
    PROVE  \E k \in DOMAIN cursor_draw(x, y) :
              /\ cursor_draw(x, y)[k].buf = fb_target_base
              /\ cursor_draw(x, y)[k].at = y * fb_target_pitch + x
<1>1. PICK sx, sy, w, h \in Nat :
         /\ cursor_draw(x, y) = framebuffer_fill_rect(sx, sy, w, h, White)
         /\ sx <= x /\ x < sx + w /\ sx + w <= fb.width
         /\ sy <= y /\ y < sy + h /\ sy + h <= fb.height
  BY PointerRect
<1>2. fb.width \in Nat /\ fb.height \in Nat
  BY SizedFacts
<1>3. ~(w = 0 \/ h = 0 \/ sx >= fb.width \/ sy >= fb.height \/ ~Writable)
  BY <1>1, <1>2
<1>4. Clip(sx, w, fb.width) = w /\ Clip(sy, h, fb.height) = h
  BY <1>1, <1>2 DEF Clip, Least
<1> DEFINE z == fb_pack_color(White)
           f == [k \in 1 .. (w * h) |-> TargetPut(sx + ((k - 1) % w), sy + ((k - 1) \div w), z)]
<1>5. cursor_draw(x, y) = f
  <2> DEFINE u == Clip(sx, w, fb.width)
             v == Clip(sy, h, fb.height)
             g == [k \in 1 .. (u * v) |-> TargetPut(sx + ((k - 1) % u), sy + ((k - 1) \div u), z)]
  <2>1. framebuffer_fill_rect(sx, sy, w, h, White) = g
    BY <1>3, Zenon DEF framebuffer_fill_rect, Raster
  <2>2. u = w /\ v = h
    BY <1>4
  <2> HIDE DEF u, v, z
  <2>3. g = f
    BY <2>2, Zenon
  <2>4. QED
    BY <1>1, <2>1, <2>3, Zenon
<1>6. x - sx \in 0 .. (w - 1) /\ y - sy \in 0 .. (h - 1)
  BY <1>1, <1>2
<1>7. PICK k \in 1 .. (w * h) : (k - 1) % w = x - sx /\ (k - 1) \div w = y - sy
  <2> DEFINE a == x - sx
             b == y - sy
  <2> HIDE DEF a, b
  <2>1. a \in 0 .. (w - 1) /\ b \in 0 .. (h - 1)
    BY <1>6 DEF a, b
  <2>2. Reached(w, h, a, b)
    BY <2>1, RasterReaches
  <2>3. QED
    BY <2>2, Zenon DEF Reached, a, b
<1>8. sx + ((k - 1) % w) = x /\ sy + ((k - 1) \div w) = y
  BY <1>1, <1>7
<1> HIDE DEF z
<1>9. k \in DOMAIN f /\ f[k] = TargetPut(x, y, z)
  BY <1>8
<1> HIDE DEF f
<1>10. TargetPut(x, y, z).buf = fb_target_base /\ TargetPut(x, y, z).at = y * fb_target_pitch + x
  BY DEF TargetPut, Put
<1>11. QED
  BY <1>5, <1>9, <1>10

\* After every tick with an event the pixel under the pointer has the
\* pointer's colour, on every screen, at every edge and while the back buffer
\* is being switched.
THEOREM FramebufferPointer == FramebufferSpec => PointerVisible
<1> DEFINE A == \A ev \in Events : cursor_tick(ev) /\ Writable =>
          mem'[fb_target_base][cur_y' * fb_target_pitch + cur_x'] = fb_pack_color(White)
<1>1. ASSUME DrawInv, NEW ev \in Events, cursor_tick(ev), Writable
      PROVE  mem'[fb_target_base][cur_y' * fb_target_pitch + cur_x'] = fb_pack_color(White)
  <2> DEFINE x == cur_x'
             y == cur_y'
             r == cursor_draw(x, y)
             buf == fb_target_base
             at == y * fb_target_pitch + x
             z == fb_pack_color(White)
  <2>1. Sized /\ MemoryKept
    BY <1>1, DrawInvFacts
  <2>2. x \in 0 .. (fb.width - 1) /\ y \in 0 .. (fb.height - 1) /\ PutAll(r)
    BY <1>1, TickFacts
  <2>3. PICK k \in DOMAIN r : r[k].buf = buf /\ r[k].at = at
    BY <1>1, <2>1, <2>2, PointerHit
  <2>4. Visible(r)
    <3>1. PICK sx, sy, w, h \in Nat : r = framebuffer_fill_rect(sx, sy, w, h, White)
      BY <2>1, <2>2, PointerRect
    <3>2. QED
      BY <2>1, <3>1, RectVisible
  <2> HIDE DEF r, buf, at, z
  <2>5. buf \in Buffers /\ at \in Addresses(buf)
    BY <2>3, <2>4 DEF Visible
  <2>6. buf \in DOMAIN mem /\ at \in DOMAIN mem[buf]
    BY <2>1, <2>5 DEF MemoryKept
  <2> DEFINE hit == {<<r[j].buf, r[j].at>> : j \in DOMAIN r}
  <2>7. <<buf, at>> \in hit
    BY <2>3
  <2>8. mem' = [b \in DOMAIN mem |-> [a \in DOMAIN mem[b] |->
                   IF <<b, a>> \in hit THEN z ELSE mem[b][a]]]
    BY <2>2, Zenon DEF PutAll, z
  <2> HIDE DEF hit
  <2>9. mem'[buf][at] = z
    BY <2>6, <2>7, <2>8
  <2>10. QED
    BY <2>9 DEF buf, at, z
<1>2. DrawInv => A
  BY <1>1
<1>3. FramebufferSpec => [][A]_fb_vars
  BY <1>2, FramebufferInvariant, PTL
<1>4. QED
  BY <1>3 DEF PointerVisible
=============================================================================
