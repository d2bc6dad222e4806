--------------------------- MODULE MCFramebuffer ---------------------------
(***************************************************************************)
(* Framebuffer on screens of a few pixels.                                 *)
(***************************************************************************)
EXTENDS Framebuffer

Deep == [k \in 1 .. 3 |-> 8]
MCModes ==
    {[valid |-> TRUE, type |-> 1, width |-> 4, height |-> 3, pitch |-> 5, bytes |-> 4, mask |-> Deep],
     [valid |-> TRUE, type |-> 1, width |-> 2, height |-> 1, pitch |-> 2, bytes |-> 2, mask |-> <<5, 6, 5>>],
     [valid |-> TRUE, type |-> 1, width |-> 22, height |-> 24, pitch |-> 24, bytes |-> 4, mask |-> Deep],
     [valid |-> TRUE, type |-> 1, width |-> 3, height |-> 2, pitch |-> 3, bytes |-> 1, mask |-> Deep],
     [valid |-> TRUE, type |-> 0, width |-> 2, height |-> 2, pitch |-> 2, bytes |-> 2, mask |-> Deep],
     [valid |-> FALSE, type |-> 1, width |-> 0, height |-> 0, pitch |-> 0, bytes |-> 0, mask |-> Deep]}

MCFont == [ch \in {"?", "L"} |-> IF ch = "L" THEN {<<0, 0>>, <<0, 1>>, <<1, 1>>} ELSE {<<1, 0>>}]
Red == <<255, 0, 0>>
MCBars == <<Red, <<0, 255, 0>>, <<0, 0, 255>>>>
MCImage == [a \in 0 .. 14 |-> <<a, a, a>>]

Rect4(x, y, w, h) == [op |-> "rect", x |-> x, y |-> y, w |-> w, h |-> h, c |-> Red]
Line4(x0, y0, x1, y1) == [op |-> "line", x0 |-> x0, y0 |-> y0, x1 |-> x1, y1 |-> y1, c |-> Dark]
Rects == {Rect4(x, 1, w, h) : x \in {0, 3}, w \in {2, Word - 1}, h \in {1, Word - 1}}
         \cup {Rect4(0, Word - 1, 1, 2), Rect4(1, 1, 0, 1)}
Lines == {Line4(x0, y0, x1, 1) : x0 \in {-1, 3}, y0 \in {0, 2}, x1 \in {1, 5}}
         \cup {Line4(3, 1, 0, 1), Line4(2, 0, 1, 2)}
MCCalls ==
    Rects \cup Lines \cup
    {[op |-> "clear", c |-> Black], [op |-> "pattern"], [op |-> "present"],
     [op |-> "pixel", x |-> 1, y |-> 2, c |-> Red],
     [op |-> "gradient", top |-> <<255, 0, 10>>, bottom |-> <<0, 255, 11>>],
     [op |-> "text", x |-> 0, y |-> 1, str |-> <<"L", "x", "L">>, c |-> Red],
     [op |-> "text", x |-> 1, y |-> 0, str |-> <<"L", "L">>, c |-> Red],
     [op |-> "ring", x |-> 1, y |-> 0, radius |-> 2, steps |-> 16, active |-> 2, c |-> Red],
     [op |-> "ring", x |-> 1, y |-> 1, radius |-> 0, steps |-> 3, active |-> 1, c |-> Red],
     [op |-> "blit", x |-> 2, y |-> 1, w |-> 5, h |-> 2]}
MCEvents == {[dx |-> -128, dy |-> 0], [dx |-> 127, dy |-> 127]}
=============================================================================
