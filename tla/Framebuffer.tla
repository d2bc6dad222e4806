---------------------------- MODULE Framebuffer ----------------------------
(***************************************************************************)
(* The linear framebuffer (kernel/video/framebuffer.c) and the pointer     *)
(* drawn on it from the timer interrupt (kernel/video/cursor.c).           *)
(*                                                                         *)
(* Memory is counted in pixels: buffer "screen" is the video memory, rows  *)
(* of fb.pitch pixels of which fb.width are visible, "back" the optional   *)
(* back buffer.  A drawing function is the list of pixel writes it makes,  *)
(* in order; the timer interrupt may come between any two of them.         *)
(* draw_line, whose loop has no counter, runs one round per step.          *)
(*                                                                         *)
(* A colour is <<red, green, blue>>, 0 .. 255 each, a packed one keeps the *)
(* high bits that the mode has room for; where the channels lie in a pixel *)
(* is left out.                                                            *)
(***************************************************************************)
EXTENDS Integers, Sequences, SequencesExt

CONSTANTS
    Word,           \* modulus of uint32_t
    Modes,          \* what the boot loader may report
    Font,           \* character -> set of <<column, row>> that are set
    CELL,           \* columns and rows of a character (8)
    CUR_SIZE,       \* cur_size of cursor.c (5)
    BarColors,      \* colors of framebuffer_test_pattern (8 of them)
    BackPad,        \* pixels by which the rows of the back buffer are longer
    Image, ImagePitch,  \* a picture in the format of the screen, for blit
    Calls,          \* calls a client makes
    MaxCalls,       \* bound: how many of them draw
    MaxArea,        \* bound: largest screen on which clients draw
    Events,         \* movements of the mouse, [dx, dy]
    MaxEvents       \* bound: how many of them

Mode == [valid : BOOLEAN, type : {0, 1}, width : Nat, height : Nat, pitch : Nat,
         bytes : 0 .. 4, mask : [1 .. 3 -> 0 .. 8]]
Color == [1 .. 3 -> 0 .. 255]
UInt == 0 .. (Word - 1)     \* uint32_t

\* What a client may ask for; only draw_line takes signed numbers.
Call ==
    [op : {"clear"}, c : Color]
    \cup [op : {"pixel"}, x : UInt, y : UInt, c : Color]
    \cup [op : {"rect"}, x : UInt, y : UInt, w : UInt, h : UInt, c : Color]
    \cup [op : {"line"}, x0 : Int, y0 : Int, x1 : Int, y1 : Int, c : Color]
    \cup [op : {"gradient"}, top : Color, bottom : Color]
    \cup [op : {"text"}, x : UInt, y : UInt, str : Seq(STRING), c : Color]
    \cup [op : {"ring"}, x : UInt, y : UInt, radius : UInt, steps : UInt, active : UInt, c : Color]
    \cup [op : {"blit"}, x : UInt, y : UInt, w : UInt, h : UInt]
    \cup [op : {"pattern", "present"}]

\* A mode that the boot loader reports has pixels, and its size does not come
\* near the largest number.
ASSUME FramebufferConstants ==
    /\ Word \in Nat \ {0} /\ CELL \in 1 .. (Word - 1)
    /\ Modes \subseteq Mode
    /\ \A m \in Modes : /\ m.pitch >= m.width /\ m.width + CELL < Word
                        /\ m.valid => m.width > 0 /\ m.height > 0
    /\ \A ch \in DOMAIN Font : Font[ch] \subseteq (0 .. (CELL - 1)) \X (0 .. (CELL - 1))
    /\ "?" \in DOMAIN Font
    /\ BarColors \in Seq(Color) \ {<<>>}
    /\ BackPad \in Nat
    /\ CUR_SIZE \in Nat \ {0}
    /\ Calls \subseteq Call /\ Events \subseteq [dx : Int, dy : Int]
    /\ MaxCalls \in Nat /\ MaxArea \in Nat /\ MaxEvents \in Nat

VARIABLES
    fb,             \* the fields of framebuffer that the boot loader gave
    available, backbuffer, backbuffer_pitch,    \* its other fields
    mem,            \* buffer -> address -> packed colour
    stray,          \* a pixel was written outside its buffer
    cur_x, cur_y,   \* cursor.c
    mouse_enabled,  \* mouse_mode.c
    stage,          \* how far kernel_boot is
    todo,           \* what is left of the call that the main program is in
    calls, events,  \* calls and movements so far
    picture,        \* buffer -> pixel -> colour asked for last (history)
    trail           \* <<buffer, address>> the pointer drew on since (history)

fb_fields == <<fb, available, backbuffer, backbuffer_pitch>>
pointer == <<cur_x, cur_y>>
fb_vars == <<fb_fields, mem, stray, pointer, mouse_enabled, stage, todo, calls, events, picture, trail>>

Untouched == <<>>       \* what memory holds before it is written
NoBuffer == "none"      \* NULL
Buffers == {"screen", "back"}
White == <<255, 255, 255>>
Teal == <<0, 128, 128>>
Gray == <<192, 192, 192>>
Dark == <<128, 128, 128>>
Tint == <<192, 220, 192>>
Black == <<0, 0, 0>>

Least(a, b) == IF a < b THEN a ELSE b
Most(a, b) == IF a > b THEN a ELSE b
Abs(a) == IF a < 0 THEN -a ELSE a
U32(n) == n % Word
\* The cast to int.
I32(n) == LET u == U32(n) IN IF 2 * u >= Word THEN u - Word ELSE u
\* Faulty variant: rounded down.
QuotDown(a, n) == a \div n

\* Division as C does it.
Quot(a, n) == IF a >= 0 THEN a \div n ELSE -((-a) \div n)

Pixels == (0 .. (fb.width - 1)) \X (0 .. (fb.height - 1))
BackPitch == fb.width + BackPad
PitchOf(buf) == IF buf = "back" THEN BackPitch ELSE fb.pitch
CellOf(buf, p) == p[2] * PitchOf(buf) + p[1]
Addresses(buf) == 0 .. (PitchOf(buf) * fb.height - 1)

fb_target_base == IF backbuffer = NoBuffer THEN "screen" ELSE backbuffer
fb_target_pitch == IF backbuffer = NoBuffer THEN fb.pitch ELSE backbuffer_pitch

fb_pack_color(c) ==
    [k \in 1 .. 3 |-> IF fb.mask[k] = 0 THEN 0 ELSE c[k] \div 2^(8 - fb.mask[k])]

-----------------------------------------------------------------------------
(* Drawing functions: the list of their writes                              *)

\* fb_write_pixel knows pixels of two, three and four bytes.
Writable == fb.bytes \in 2 .. 4

Put(buf, pitch, x, y, packed) ==
    [kind |-> "put", buf |-> buf, at |-> y * pitch + x, packed |-> packed]
TargetPut(x, y, packed) == Put(fb_target_base, fb_target_pitch, x, y, packed)

\* Row by row, w pixels in each of h rows.
Raster(w, h, Pixel(_, _)) ==
    [k \in 1 .. (w * h) |-> Pixel((k - 1) % w, (k - 1) \div w)]

framebuffer_clear(c) ==
    IF ~Writable THEN <<>>
    ELSE LET Pixel(x, y) == TargetPut(x, y, fb_pack_color(c))
         IN  Raster(fb.width, fb.height, Pixel)

framebuffer_putpixel(x, y, c) ==
    IF x >= fb.width \/ y >= fb.height \/ ~Writable THEN <<>>
    ELSE <<TargetPut(x, y, fb_pack_color(c))>>

\* Faulty variant: one pixel too many at the edge.
ClipOneMore(start, n, size) == Least(n, size - start + 1)

\* How many of n pixels from start on are on the screen.
Clip(start, n, size) == Least(n, size - start)

framebuffer_fill_rect(x, y, w, h, c) ==
    IF w = 0 \/ h = 0 \/ x >= fb.width \/ y >= fb.height \/ ~Writable THEN <<>>
    ELSE LET Pixel(xx, yy) == TargetPut(x + xx, y + yy, fb_pack_color(c))
         IN  Raster(Clip(x, w, fb.width), Clip(y, h, fb.height), Pixel)

\* Each channel steps from top to bottom in bytes; the difference is cut to a
\* byte before it is added.
Blend(top, bottom, y) ==
    [k \in 1 .. 3 |->
        (top[k] + (Quot((bottom[k] - top[k]) * y, fb.height - 1) % 256)) % 256]

\* A screen of one row is drawn in the video memory, back buffer or not.
framebuffer_fill_gradient_vert(top, bottom) ==
    IF ~Writable THEN <<>>
    ELSE LET First(x, y) == Put("screen", fb.pitch, x, 0, fb_pack_color(top))
             Pixel(x, y) == TargetPut(x, y, fb_pack_color(Blend(top, bottom, y)))
         IN  IF fb.height <= 1 THEN Raster(fb.width, 1, First)
             ELSE Raster(fb.width, fb.height, Pixel)

\* The locals of draw_line before its loop.
framebuffer_draw_line(x0, y0, x1, y1, c) ==
    LET dx == Abs(x1 - x0)
        dy == -Abs(y1 - y0)
    IN  <<[kind |-> "line", x |-> x0, y |-> y0, x1 |-> x1, y1 |-> y1,
           dx |-> dx, dy |-> dy, sx |-> IF x0 < x1 THEN 1 ELSE -1,
           sy |-> IF y0 < y1 THEN 1 ELSE -1, err |-> dx + dy, c |-> c]>>

\* A character that the font lacks is drawn as a question mark.
framebuffer_draw_char(x, y, ch, c) ==
    LET glyph == Font[IF ch \in DOMAIN Font THEN ch ELSE "?"]
        Bit(col, row) == IF <<col, row>> \notin glyph THEN <<>>
                         ELSE <<TargetPut(x + col, y + row, fb_pack_color(c))>>
    IN  IF ~Writable THEN <<>> ELSE FlattenSeq(Raster(CELL, CELL, Bit))

\* The string stops at the first character that does not fit.
framebuffer_draw_string(x, y, str, c) ==
    LET Fits(k) == U32(x + (k - 1) * CELL + CELL) <= fb.width
        n == CHOOSE n \in 0 .. Len(str) :
                 /\ \A k \in 1 .. n : Fits(k)
                 /\ n < Len(str) => ~Fits(n + 1)
    IN  FlattenSeq([k \in 1 .. n |->
            framebuffer_draw_char(x + (k - 1) * CELL, y, str[k], c)])

ring_cos == <<127, 115, 90, 49, 0, -49, -90, -115, -127, -115, -90, -49, 0, 49, 90, 115>>
ring_sin == <<0, 49, 90, 115, 127, 115, 90, 49, 0, -49, -90, -115, -127, -115, -90, -49>>

\* Product and quotient are unsigned, because radius is.
Scaled(radius, v) == U32(radius * v) \div 127

\* A dot: the point, the one to its right and the one below.
Dot(px, py, packed) ==
    IF px >= fb.width \/ py >= fb.height \/ ~Writable THEN <<>>
    ELSE <<TargetPut(px, py, packed)>>
         \o (IF px + 1 < fb.width THEN <<TargetPut(px + 1, py, packed)>> ELSE <<>>)
         \o (IF py + 1 < fb.height THEN <<TargetPut(px, py + 1, packed)>> ELSE <<>>)

framebuffer_progress_ring(cx, cy, radius, steps, active, c) ==
    LET use == Least(steps, 16)
        idx(i) == 1 + (((i * 16) \div use) % 16)
    IN  FlattenSeq([k \in 1 .. use |->
            Dot(U32(cx + Scaled(radius, ring_cos[idx(k - 1)])),
                U32(cy + Scaled(radius, ring_sin[idx(k - 1)])),
                fb_pack_color(IF k - 1 < active THEN c ELSE <<64, 64, 64>>))])

framebuffer_test_pattern ==
    LET bars == Len(BarColors)
        bar_w == fb.width \div bars
    IN  FlattenSeq([k \in 1 .. bars |->
            framebuffer_fill_rect((k - 1) * bar_w, 0,
                IF k = bars THEN fb.width - (k - 1) * bar_w ELSE bar_w,
                fb.height, BarColors[k])])

framebuffer_blit(x, y, w, h) ==
    LET Pixel(xx, yy) == TargetPut(x + xx, y + yy, Image[yy * ImagePitch + xx])
    IN  IF w = 0 \/ h = 0 \/ x >= fb.width \/ y >= fb.height \/ fb.bytes = 0 THEN <<>>
        ELSE Raster(Clip(x, w, fb.width), Clip(y, h, fb.height), Pixel)

\* A row at a time with memcpy, from the back buffer or from any picture.
framebuffer_flush ==
    LET Pixel(x, y) ==
            [kind |-> "copy", buf |-> "screen", at |-> y * fb.pitch + x,
             from |-> y * backbuffer_pitch + x]
    IN  IF backbuffer = NoBuffer \/ fb.bytes = 0 THEN <<>>
        ELSE Raster(fb.width, fb.height, Pixel)
framebuffer_present ==
    LET Pixel(x, y) == Put("screen", fb.pitch, x, y, Image[y * ImagePitch + x])
    IN  IF fb.bytes = 0 THEN <<>> ELSE Raster(fb.width, fb.height, Pixel)

Rect(x, y, w, h, c) ==
    [op |-> "rect", x |-> U32(x), y |-> U32(y), w |-> U32(w), h |-> U32(h), c |-> c]
Line(x0, y0, x1, y1, c) ==
    [op |-> "line", x0 |-> I32(x0), y0 |-> I32(y0), x1 |-> I32(x1), y1 |-> I32(y1), c |-> c]
Edges(left, top, right, bottom, light, dark) ==
    <<Line(left, top, right, top, light), Line(left, top, left, bottom, light),
      Line(left + 1, bottom, right, bottom, dark), Line(right, top + 1, right, bottom, dark)>>

\* The calls of framebuffer_demo_bootscreen, which subtract without looking:
\* on a screen of fewer than 84 rows the height of the button wraps.
framebuffer_demo_bootscreen ==
    LET W == fb.width
        H == fb.height
        taskbar_h == H \div 12
        taskbar_y == H - taskbar_h
        sb_w == W \div 10
        sb_h == taskbar_h - 6
        sb_y == taskbar_y + 3
        win_w == W \div 3
        win_h == H \div 3
        win_x == (W - win_w) \div 2
        win_y == (H - win_h) \div 2 - taskbar_h \div 2
        bar_h == win_h \div 6
    IN  <<[op |-> "clear", c |-> Teal],
          Rect(0, taskbar_y, W, taskbar_h, Gray),
          Line(0, taskbar_y - 1, W - 1, taskbar_y - 1, Dark),
          Rect(4, sb_y, sb_w, sb_h, Tint)>>
        \o Edges(4, sb_y, 4 + sb_w - 1, sb_y + sb_h - 1, White, Dark)
        \o <<Rect(win_x, win_y, win_w, win_h, Gray)>>
        \o Edges(win_x, win_y, win_x + win_w - 1, win_y + win_h - 1, White, Dark)
        \o <<Rect(win_x + 1, win_y + 1, win_w - 2, bar_h, Teal),
             Line(win_x + 1, win_y + 1, win_x + win_w - 2, win_y + 1, White),
             Line(win_x + 1, win_y + 1, win_x + 1, win_y + bar_h, White),
             Line(win_x + 1, win_y + bar_h, win_x + win_w - 2, win_y + bar_h, Black),
             Line(win_x + win_w - 2, win_y + 1, win_x + win_w - 2, win_y + bar_h, Black),
             Rect(win_x + 2, win_y + bar_h + 2, win_w - 4, win_h - bar_h - 5, White)>>

-----------------------------------------------------------------------------
(* What the calls ask for, stated without loops, clipping and wrapping      *)

\* The pixels of a line: one per step along the longer side, the other
\* coordinate rounded to the nearest pixel, halves away from the start.
OnLine(l, p) ==
    LET a == Abs(l.x1 - l.x0)
        b == Abs(l.y1 - l.y0)
        m == Most(a, b)
        Near(n, i) == IF m = 0 THEN 0 ELSE (2 * i * n + m) \div (2 * m)
        Toward(from, to, d) == IF from < to THEN from + d ELSE from - d
    IN  \E i \in 0 .. m : p = <<Toward(l.x0, l.x1, Near(a, i)), Toward(l.y0, l.y1, Near(b, i))>>

\* The value between top and bottom that is nearest to the exact one on the
\* side of top.
Between(top, bottom, y) ==
    LET n == fb.height - 1
        exact(k) == top[k] * (n - y) + bottom[k] * y
    IN  [k \in 1 .. 3 |->
            CHOOSE v \in 0 .. 255 :
                IF top[k] <= bottom[k] THEN v * n <= exact(k) /\ exact(k) < (v + 1) * n
                ELSE (v - 1) * n < exact(k) /\ exact(k) <= v * n]

\* The steps of a ring whose dot covers p.  The dots of the other three
\* quadrants are not drawn.
RingSteps(r, p) ==
    LET use == Least(r.steps, 16)
        At(k, table) == r.radius * table[1 + (((k - 1) * 16) \div use)]
        X(k) == r.x + (At(k, ring_cos) \div 127)
        Y(k) == r.y + (At(k, ring_sin) \div 127)
    IN  {k \in 1 .. use :
            /\ At(k, ring_cos) >= 0 /\ At(k, ring_sin) >= 0
            /\ X(k) < fb.width /\ Y(k) < fb.height
            /\ p \in {<<X(k), Y(k)>>, <<X(k) + 1, Y(k)>>, <<X(k), Y(k) + 1>>}}

InRect(r, p) == p[1] \in r.x .. (r.x + r.w - 1) /\ p[2] \in r.y .. (r.y + r.h - 1)

\* The character of a text that covers p, or 0.
CharAt(t, p) ==
    LET k == ((p[1] - t.x) \div CELL) + 1 IN
    IF /\ k \in 1 .. Len(t.str) /\ p[2] \in t.y .. (t.y + CELL - 1)
       /\ t.x + k * CELL <= fb.width
       /\ <<(p[1] - t.x) % CELL, p[2] - t.y>>
              \in Font[IF t.str[k] \in DOMAIN Font THEN t.str[k] ELSE "?"]
    THEN k ELSE 0

\* The packed colour that call d asks for at pixel p, or Untouched.
Paint(d, p) ==
    CASE d.op = "clear" -> fb_pack_color(d.c)
      [] d.op = "pixel" -> IF p = <<d.x, d.y>> THEN fb_pack_color(d.c) ELSE Untouched
      [] d.op = "rect" -> IF InRect(d, p) THEN fb_pack_color(d.c) ELSE Untouched
      [] d.op = "line" -> IF OnLine(d, p) THEN fb_pack_color(d.c) ELSE Untouched
      [] d.op = "gradient" ->
            fb_pack_color(IF fb.height = 1 THEN d.top ELSE Between(d.top, d.bottom, p[2]))
      [] d.op = "text" -> IF CharAt(d, p) # 0 THEN fb_pack_color(d.c) ELSE Untouched
      [] d.op = "ring" ->
            LET on == RingSteps(d, p)
                last == CHOOSE k \in on : \A j \in on : j <= k
            IN  IF on = {} THEN Untouched
                ELSE fb_pack_color(IF last <= d.active THEN d.c ELSE <<64, 64, 64>>)
      [] d.op = "pattern" ->
            LET bars == Len(BarColors)
                bar_w == fb.width \div bars
            IN  fb_pack_color(BarColors[IF p[1] >= (bars - 1) * bar_w THEN bars
                                        ELSE p[1] \div bar_w + 1])
      [] d.op = "blit" ->
            IF InRect(d, p) THEN Image[(p[2] - d.y) * ImagePitch + p[1] - d.x] ELSE Untouched
      [] d.op = "present" -> Image[p[2] * ImagePitch + p[1]]

\* Where a call draws.
Canvas(d) ==
    IF d.op = "present" \/ (d.op = "gradient" /\ fb.height = 1) THEN "screen"
    ELSE fb_target_base
Draws(d) == available /\ IF d.op \in {"blit", "present"} THEN fb.bytes # 0 ELSE Writable

\* Picture pic after call d.
Painted(pic, d) ==
    IF ~Draws(d) THEN pic
    ELSE [pic EXCEPT ![Canvas(d)] =
             [p \in DOMAIN @ |-> IF Paint(d, p) = Untouched THEN @[p] ELSE Paint(d, p)]]
CellsPainted(d) ==
    IF ~Draws(d) THEN {}
    ELSE {<<Canvas(d), CellOf(Canvas(d), p)>> : p \in {q \in Pixels : Paint(d, q) # Untouched}}

-----------------------------------------------------------------------------
(* Boot                                                                     *)

\* framebuffer_parse and framebuffer_init.  available is set last, and only
\* for a valid RGB mode.
framebuffer_init(m) ==
    /\ stage = "start"
    /\ stage' = "cursor"
    /\ fb' = IF ~m.valid THEN fb ELSE IF m.type = 1 THEN m ELSE [m EXCEPT !.mask = fb.mask]
    /\ available' = (m.valid /\ m.type = 1)
    /\ mem' = [b \in Buffers |-> [a \in Addresses(b)' |-> Untouched]]
    /\ picture' = [b \in Buffers |-> [p \in Pixels' |-> Untouched]]
    /\ UNCHANGED <<backbuffer, backbuffer_pitch, stray, pointer, mouse_enabled, todo, calls, events, trail>>

\* Faulty variant: the left edge is not looked at.
StartUnclamped(v) == U32(v - CUR_SIZE \div 2)

\* Where the square around v begins.
Start(v) == Most(0, v - CUR_SIZE \div 2)

cursor_draw(x, y) ==
    LET Extent(v, size) == IF v + CUR_SIZE > size THEN size - v ELSE CUR_SIZE
    IN  framebuffer_fill_rect(Start(x), Start(y), Extent(Start(x), fb.width),
                              Extent(Start(y), fb.height), White)

\* All writes of a list at once, as an interrupt makes them.
PutAll(puts) ==
    LET hit == {<<puts[k].buf, puts[k].at>> : k \in DOMAIN puts} IN
    /\ mem' = [b \in DOMAIN mem |-> [a \in DOMAIN mem[b] |->
                  IF <<b, a>> \in hit THEN fb_pack_color(White) ELSE mem[b][a]]]
    /\ stray' = (stray \/ \E c \in hit : c[2] \notin DOMAIN mem[c[1]])
    \* A flush that is under way may copy the cell before or after.
    /\ trail' = trail \cup hit \cup
          {<<"screen", todo[k].at>> : k \in {j \in DOMAIN todo :
              todo[j].kind = "copy" /\ <<"back", todo[j].from>> \in hit}}

\* kernel_boot puts the pointer in the middle; the mouse is still off.
cursor_init ==
    /\ stage = "cursor"
    /\ stage' = "demo"
    /\ IF available
       THEN /\ cur_x' = fb.width \div 2 /\ cur_y' = fb.height \div 2
            /\ PutAll(cursor_draw(fb.width \div 2, fb.height \div 2))
       ELSE UNCHANGED <<pointer, mem, stray, trail>>
    /\ UNCHANGED <<fb_fields, mouse_enabled, todo, calls, events, picture>>

-----------------------------------------------------------------------------
(* The main program                                                         *)

Code(d) ==
    CASE d.op = "clear" -> framebuffer_clear(d.c)
      [] d.op = "pixel" -> framebuffer_putpixel(d.x, d.y, d.c)
      [] d.op = "rect" -> framebuffer_fill_rect(d.x, d.y, d.w, d.h, d.c)
      [] d.op = "line" -> framebuffer_draw_line(d.x0, d.y0, d.x1, d.y1, d.c)
      [] d.op = "gradient" -> framebuffer_fill_gradient_vert(d.top, d.bottom)
      [] d.op = "text" -> framebuffer_draw_string(d.x, d.y, d.str, d.c)
      [] d.op = "ring" ->
            framebuffer_progress_ring(d.x, d.y, d.radius, d.steps, d.active, d.c)
      [] d.op = "pattern" -> framebuffer_test_pattern
      [] d.op = "blit" -> framebuffer_blit(d.x, d.y, d.w, d.h)
      [] d.op = "present" -> framebuffer_present

\* The drawing functions return at once without a framebuffer.
BeginCalls(ds) ==
    /\ todo = <<>>
    /\ todo' = IF available THEN FlattenSeq([k \in DOMAIN ds |-> Code(ds[k])]) ELSE <<>>
    /\ picture' = FoldLeft(Painted, picture, ds)
    /\ trail' = trail \ UNION {CellsPainted(ds[k]) : k \in DOMAIN ds}
    /\ UNCHANGED <<fb_fields, mem, stray, pointer, mouse_enabled, events>>

BootScreen ==
    /\ stage = "demo"
    /\ stage' = "run"
    /\ BeginCalls(framebuffer_demo_bootscreen)
    /\ UNCHANGED calls

MayCall ==
    /\ stage = "run" /\ todo = <<>>
    /\ fb.width * fb.height <= MaxArea
    /\ stage' = stage

\* draw_char does not look at the edges, draw_string at the right one only:
\* the client leaves room for its text.
HasRoom(d) == d.op = "text" => d.x < fb.width /\ d.y + CELL <= fb.height

Draw(d) ==
    /\ MayCall
    /\ HasRoom(d)
    /\ calls < MaxCalls /\ calls' = calls + 1
    /\ BeginCalls(<<d>>)

\* Two assignments; the second is left to do.
framebuffer_set_backbuffer(buf, pitch) ==
    /\ MayCall
    /\ backbuffer' = buf
    /\ todo' = <<[kind |-> "pitch", pitch |-> pitch]>>
    /\ UNCHANGED <<fb, available, backbuffer_pitch, mem, stray, pointer, mouse_enabled,
                   calls, events, picture, trail>>

Flush ==
    /\ MayCall
    /\ todo' = IF available THEN framebuffer_flush ELSE <<>>
    /\ IF todo' = <<>> THEN UNCHANGED <<picture, trail>>
       ELSE /\ picture' = [picture EXCEPT !.screen = picture.back]
            /\ trail' = {c \in trail : c[1] = "back"} \cup
                  {<<"screen", CellOf("screen", p)>> :
                      p \in {q \in Pixels : <<"back", CellOf("back", q)>> \in trail}}
    /\ UNCHANGED <<fb_fields, mem, stray, pointer, mouse_enabled, calls, events>>

\* The shell's mouse command.
mouse_enable ==
    /\ stage = "run" /\ todo = <<>>
    /\ ~mouse_enabled
    /\ mouse_enabled' = TRUE
    /\ UNCHANGED <<fb_fields, mem, stray, pointer, stage, todo, calls, events, picture, trail>>

Store(buf, at, packed) ==
    IF at \in DOMAIN mem[buf]
    THEN mem' = [mem EXCEPT ![buf][at] = packed] /\ stray' = stray
    ELSE mem' = mem /\ stray' = TRUE

Step(kind) ==
    /\ todo # <<>> /\ Head(todo).kind = kind
    /\ UNCHANGED <<fb, available, backbuffer, pointer, mouse_enabled, stage, calls, events,
                   picture, trail>>

WritePixel ==
    LET e == Head(todo) IN
    /\ Step("put")
    /\ Store(e.buf, e.at, e.packed)
    /\ todo' = Tail(todo)
    /\ UNCHANGED backbuffer_pitch

CopyPixel ==
    LET e == Head(todo) IN
    /\ Step("copy")
    /\ Store(e.buf, e.at, mem["back"][e.from])
    /\ todo' = Tail(todo)
    /\ UNCHANGED backbuffer_pitch

SetPitch ==
    /\ Step("pitch")
    /\ backbuffer_pitch' = Head(todo).pitch
    /\ todo' = Tail(todo)
    /\ UNCHANGED <<mem, stray>>

\* Faulty variant: a line that goes to the right only.
LineStepRight(l) ==
    LET e2 == 2 * l.err IN
    [l EXCEPT !.err = l.err + (IF e2 >= l.dy THEN l.dy ELSE 0) + (IF e2 <= l.dx THEN l.dx ELSE 0),
              !.x = IF e2 >= l.dy /\ l.sx = 1 THEN @ + 1 ELSE @,
              !.y = IF e2 <= l.dx THEN @ + l.sy ELSE @]

\* The rest of the loop body of draw_line.
LineStep(l) ==
    LET e2 == 2 * l.err IN
    [l EXCEPT !.err = l.err + (IF e2 >= l.dy THEN l.dy ELSE 0) + (IF e2 <= l.dx THEN l.dx ELSE 0),
              !.x = IF e2 >= l.dy THEN @ + l.sx ELSE @,
              !.y = IF e2 <= l.dx THEN @ + l.sy ELSE @]

DrawLine ==
    LET l == Head(todo)
        put == framebuffer_putpixel(U32(l.x), U32(l.y), l.c)
    IN
    /\ Step("line")
    /\ IF put = <<>> THEN UNCHANGED <<mem, stray>>
       ELSE Store(put[1].buf, put[1].at, put[1].packed)
    /\ todo' = (IF l.x = l.x1 /\ l.y = l.y1 THEN <<>> ELSE <<LineStep(l)>>) \o Tail(todo)
    /\ UNCHANGED backbuffer_pitch

Drawing == WritePixel \/ CopyPixel \/ SetPitch \/ DrawLine

-----------------------------------------------------------------------------
(* The timer interrupt                                                      *)

Clamp(v, size) == Most(0, Least(v, size - 1))

\* cursor_tick and cursor_handle_event for one event; several that wait are
\* several of these steps.
cursor_tick(ev) ==
    LET x == Clamp(cur_x + ev.dx, fb.width)
        y == Clamp(cur_y + ev.dy, fb.height)
    IN
    /\ mouse_enabled /\ available
    /\ fb.width > 0 /\ fb.height > 0
    /\ cur_x' = x /\ cur_y' = y
    /\ PutAll(cursor_draw(x, y))
    /\ events < MaxEvents /\ events' = events + 1
    /\ UNCHANGED <<fb_fields, mouse_enabled, stage, todo, calls, picture>>

\* No event, or no framebuffer: the pointer is left alone.
QuietTick == UNCHANGED fb_vars

-----------------------------------------------------------------------------
FramebufferInit ==
    /\ fb = [valid |-> FALSE, type |-> 0, width |-> 0, height |-> 0, pitch |-> 0, bytes |-> 0,
             mask |-> [k \in 1 .. 3 |-> 0]]
    /\ available = FALSE /\ backbuffer = NoBuffer /\ backbuffer_pitch = 0
    /\ mem = [b \in Buffers |-> <<>>]
    /\ stray = FALSE
    /\ cur_x = 0 /\ cur_y = 0
    /\ mouse_enabled = FALSE
    /\ stage = "start"
    /\ todo = <<>> /\ calls = 0 /\ events = 0
    /\ picture = [b \in Buffers |-> <<>>]
    /\ trail = {}

FramebufferNext ==
    \/ \E m \in Modes : framebuffer_init(m)
    \/ cursor_init
    \/ BootScreen
    \/ \E d \in Calls : Draw(d)
    \/ framebuffer_set_backbuffer("back", BackPitch)
    \/ framebuffer_set_backbuffer(NoBuffer, 0)
    \/ Flush
    \/ mouse_enable
    \/ Drawing
    \/ \E ev \in Events : cursor_tick(ev)
    \/ QuietTick

\* The main program goes on after every interrupt.
FramebufferSpec == FramebufferInit /\ [][FramebufferNext]_fb_vars /\ WF_fb_vars(Drawing)

-----------------------------------------------------------------------------
(* Properties                                                               *)

\* Types; the pointer's position stays on the screen whatever movements
\* cursor_handle_event adds.
FramebufferTypeOK ==
    /\ available \in BOOLEAN /\ stray \in BOOLEAN /\ mouse_enabled \in BOOLEAN
    /\ backbuffer \in {NoBuffer, "back"} /\ backbuffer_pitch \in {0, BackPitch}
    /\ stage \in {"start", "cursor", "demo", "run"}
    /\ cur_x \in Nat /\ cur_y \in Nat
    /\ available /\ stage \in {"demo", "run"} => <<cur_x, cur_y>> \in Pixels

\* The state is well formed, and no drawing function and no pointer, also
\* between the two assignments of framebuffer_set_backbuffer, writes outside
\* its buffer or into the part of a row that is not visible.
NothingOutside ==
    /\ FramebufferTypeOK
    /\ ~stray
    /\ \A b \in DOMAIN mem : \A a \in DOMAIN mem[b] :
        (a % PitchOf(b)) >= fb.width => mem[b][a] = Untouched

\* A write that the main program has still to make: a pixel that is visible,
\* the pitch of the back buffer, or the rest of a line.
Sound(e) ==
    \/ /\ e.kind \in {"put", "copy"} /\ e.buf \in Buffers
       /\ e.at \in Addresses(e.buf) /\ e.at % PitchOf(e.buf) < fb.width
    \/ e.kind = "pitch" /\ e.pitch \in {0, BackPitch}
    \/ e \in [kind : {"line"}, x : Int, y : Int, x1 : Int, y1 : Int, dx : Int, dy : Int,
              sx : Int, sy : Int, err : Int, c : Color]
Ready(s) == s \in Seq(Range(s)) /\ \A e \in Range(s) : Sound(e)

\* The inductive form of NothingOutside: memory has the size of the mode, the
\* mode changes only while nothing is drawn, and what is left of a call is
\* sound, whichever buffer and pitch it was begun with.
DrawInv ==
    /\ NothingOutside
    /\ fb \in Mode /\ fb.pitch >= fb.width /\ fb.width + CELL < Word
    /\ available => fb.width > 0 /\ fb.height > 0
    /\ mem = [b \in Buffers |-> [a \in Addresses(b) |-> mem[b][a]]]
    /\ stage = "start" => backbuffer_pitch = 0 /\ todo = <<>>
    /\ Ready(todo)

\* When a call has returned, its buffer shows the shapes asked for, the last
\* one on top: rectangles and pictures cut at the edges, lines straight,
\* gradients between their ends.  Only where the pointer has been drawn since
\* may a pixel have the pointer's colour instead.
FrameShows ==
    todo = <<>> /\ stage = "run" =>
        \A b \in DOMAIN picture : \A p \in Pixels :
            LET c == mem[b][CellOf(b, p)] IN
            \/ c = picture[b][p]
            \/ <<b, CellOf(b, p)>> \in trail /\ c = fb_pack_color(White)

\* After every tick with an event the pixel under the pointer has its colour:
\* clamping and clipping never lose it, in a corner or on a screen smaller
\* than the square.
PointerVisible ==
    [][\A ev \in Events : cursor_tick(ev) /\ Writable =>
          mem'[fb_target_base][cur_y' * fb_target_pitch + cur_x'] = fb_pack_color(White)]_fb_vars

\* Every drawing call returns; the loop of draw_line has no other bound than
\* reaching its end point.
DrawingEnds == todo # <<>> ~> todo = <<>>
=============================================================================
