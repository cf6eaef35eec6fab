----------------------------- MODULE Framebuffer -----------------------------
(* Drawing into the logical framebuffer (runtime/crumb/framebuffer.c): which *)
(* bytes clear_rgb and fill_rect write, for every integer a game can pass.   *)
EXTENDS Integers

CONSTANTS Width, Height,  \* the framebuffer, in pixels
          MaxInt,         \* -MaxInt - 1 .. MaxInt are the integers (2^31 - 1)
          MaxColor        \* largest component (255)

ASSUME FramebufferConstants ==
    {Width, Height, MaxInt, MaxColor} \subseteq Nat \ {0}

Int32 == -MaxInt - 1 .. MaxInt
Stride == 3 * Width

ClampColor(c) == IF c < 0 THEN 0 ELSE IF c > MaxColor THEN MaxColor ELSE c

(* write_pixel: the bytes of one pixel and what they become. *)
PixelBytes(x, y) == {y * Stride + x * 3 + k : k \in 0..2}
ByteColor(byte, rgb) == ClampColor(rgb[(byte % 3) + 1])
Painted(xs, ys) == UNION {PixelBytes(x, y) : x \in xs, y \in ys}

ClearRgb(pixels, rgb) ==
    [b \in DOMAIN pixels |-> IF b \in Painted(0..Width - 1, 0..Height - 1)
                             THEN ByteColor(b, rgb) ELSE pixels[b]]

(* Deviation: the sum is taken in 32 bits and wraps. *)
RightWraps(x, width) == ((x + width + MaxInt + 1) % (2 * (MaxInt + 1))) - MaxInt - 1

(* The sums are taken in 64 bits, so right and bottom never wrap. *)
Right(x, width) == x + width

RectBytes(x, y, width, height) ==
    LET right == Right(x, width)
        bottom == Right(y, height)
        Limit(n, most) == IF n > most THEN most ELSE n
        FromZero(n) == IF n < 0 THEN 0 ELSE n IN
    IF \/ width <= 0 \/ height <= 0
       \/ right <= 0 \/ bottom <= 0 \/ x >= Width \/ y >= Height
    THEN {}
    ELSE Painted(FromZero(x)..Limit(right, Width) - 1, FromZero(y)..Limit(bottom, Height) - 1)

FillRect(pixels, x, y, width, height, rgb) ==
    [b \in DOMAIN pixels |-> IF b \in RectBytes(x, y, width, height)
                             THEN ByteColor(b, rgb) ELSE pixels[b]]

VARIABLES screen,  \* the bytes of the framebuffer
          drawn    \* history: the screen before the latest call, and the call

drawVars == <<screen, drawn>>

NoDrawing == [x |-> 0, y |-> 0, width |-> 0, height |-> 0, rgb |-> <<0, 0, 0>>]

DrawInit ==
    /\ screen = ClearRgb([b \in 0..Stride * Height - 1 |-> 0], <<0, 0, 0>>)
    /\ drawn = [before |-> screen, call |-> NoDrawing]

Draws(call, pixels) == screen' = pixels /\ drawn' = [before |-> screen, call |-> call]

(* One call from the game (bound: one of each kind of call, then no more). *)
DrawRect ==
    /\ drawn.call = NoDrawing
    /\ \E x, y, width, height \in Int32 :
         LET rgb == <<MaxColor + 1, 1, MaxColor>> IN
         Draws([x |-> x, y |-> y, width |-> width, height |-> height, rgb |-> rgb],
               FillRect(screen, x, y, width, height, rgb))

DrawClear ==
    /\ drawn.call = NoDrawing
    /\ LET rgb == <<-1, 1, MaxColor + 2>> IN
       Draws([x |-> 0, y |-> 0, width |-> Width, height |-> Height, rgb |-> rgb],
             ClearRgb(screen, rgb))

DrawNext == DrawRect \/ DrawClear
DrawSpec == DrawInit /\ [][DrawNext]_drawVars
-----------------------------------------------------------------------------
Inside(b, call) ==
    /\ call.x <= (b % Stride) \div 3 /\ (b % Stride) \div 3 < call.x + call.width
    /\ call.y <= b \div Stride /\ b \div Stride < call.y + call.height

(* For every position and size a game can pass, the extreme integers         *)
(* included, a call paints exactly the pixels of the half-open rectangle     *)
(* that lie on the screen, with clamped components, and changes no other     *)
(* byte; clear_rgb paints them all.                                          *)
DrawingIsExact ==
    \A b \in DOMAIN screen :
        screen[b] = IF Inside(b, drawn.call) THEN ByteColor(b, drawn.call.rgb)
                    ELSE drawn.before[b]
=============================================================================
