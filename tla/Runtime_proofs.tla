---------------------------- MODULE Runtime_proofs ----------------------------
(* TLAPS proofs about the runtime's services that each have their own        *)
(* constants: drawing, for a framebuffer and integers of any size; pacing,   *)
(* for every length of a second and of a frame and however long frames take  *)
(* and sleeps overrun; audio, for rings of any size, any number of calls and *)
(* every interleaving of the game's and the callback's loads and stores.     *)
EXTENDS Audio, Framebuffer, FramePacing, TLAPS, SequenceTheorems

\* Multiplication by a natural number keeps the order.
LEMMA TimesMonotone ==
    ASSUME NEW i \in Int, NEW j \in Int, NEW k \in Nat, i <= j
    PROVE  i * k <= j * k
  <1> DEFINE d == j - i
  <1>1. d \in Nat /\ j = i + d
    OBVIOUS
  <1> HIDE DEF d
  <1>2. j * k = i * k + d * k /\ d * k \in Nat /\ i * k \in Int
    BY <1>1
  <1> QED
    BY <1>2

\* Between two multiples of n there is room for every rest below n.
LEMMA NextMultiple ==
    ASSUME NEW n \in Nat, NEW i \in Int, NEW j \in Int, i < j
    PROVE  i * n + n <= j * n
  <1>1. (i + 1) * n <= j * n
    BY TimesMonotone
  <1>2. (i + 1) * n = i * n + n
    OBVIOUS
  <1> QED
    BY <1>1, <1>2

-----------------------------------------------------------------------------
(* Drawing. *)

Bytes == 0..Stride * Height - 1

\* The constants are positive numbers.
LEMMA Sizes == /\ Width \in Nat /\ Width > 0 /\ Height \in Nat /\ Height > 0
               /\ MaxInt \in Nat /\ Stride \in Nat /\ Stride > 0 /\ Stride = 3 * Width
               /\ Stride * Height \in Nat
  <1>1. /\ Width \in Nat /\ Width > 0 /\ Height \in Nat /\ Height > 0 /\ MaxInt \in Nat
    BY FramebufferConstants DEF FramebufferConstants
  <1>2. Stride \in Nat /\ Stride > 0 /\ Stride = 3 * Width
    BY <1>1 DEF Stride
  <1> QED
    BY <1>1, <1>2

\* Quotient and rest, for a byte of the framebuffer.
LEMMA QuotientAndRest ==
    ASSUME NEW n \in Nat, n > 0, NEW b \in Nat
    PROVE  \E q \in Nat, r \in 0..n - 1 : q = b \div n /\ r = b % n /\ b = q * n + r
  <1>1. ASSUME NEW q, q = b \div n, NEW r, r = b % n
        PROVE  q \in Nat /\ r \in 0..n - 1 /\ b = q * n + r
    <2>1. q \in Nat
      BY <1>1
    <2>2. r \in 0..n - 1
      BY <1>1
    <2>3. b = q * n + r
      BY <1>1
    <2> QED
      BY <2>1, <2>2, <2>3
  <1> QED
    BY <1>1

\* The three bytes that write_pixel stores are those of its pixel, no others.
LEMMA PixelOfByte ==
    ASSUME NEW b \in Nat, NEW x \in 0..Width - 1, NEW y \in Nat
    PROVE  b \in PixelBytes(x, y) <=> b \div Stride = y /\ (b % Stride) \div 3 = x
  <1> USE Sizes
  <1>1. PICK q \in Nat, r \in 0..Stride - 1 : q = b \div Stride /\ r = b % Stride /\ b = q * Stride + r
    BY QuotientAndRest
  <1>2. PICK p \in Nat, k \in 0..2 : p = r \div 3 /\ k = r % 3 /\ r = p * 3 + k
    <2>1. r \in Nat
      BY <1>1
    <2> QED
      BY <2>1, QuotientAndRest
  <1>3. x \in Nat /\ x * 3 + 2 <= Stride - 1 /\ y * Stride \in Int /\ q * Stride \in Int
    BY <1>1
  <1>4. ASSUME q = y, p = x PROVE b \in PixelBytes(x, y)
    BY <1>1, <1>2, <1>3, <1>4 DEF PixelBytes
  <1>5. ASSUME b \in PixelBytes(x, y) PROVE q = y /\ p = x
    <2>1. PICK j \in 0..2 : b = y * Stride + x * 3 + j
      BY <1>5 DEF PixelBytes
    <2>2. PICK s \in 0..Stride - 1 : s = x * 3 + j /\ b = y * Stride + s
      BY <1>3, <2>1
    <2>3. q = y /\ r = x * 3 + j
      <3>1. q * Stride \in Int /\ y * Stride \in Int /\ q * Stride + r = y * Stride + s
        BY <1>1, <2>2
      <3>2. CASE q < y
        BY <3>1, <3>2, NextMultiple
      <3>3. CASE y < q
        BY <3>1, <3>3, NextMultiple
      <3> QED
        BY <2>2, <3>1, <3>2, <3>3
    <2>4. p = x
      BY <1>2, <1>3, <2>1, <2>3
    <2> QED
      BY <2>3, <2>4
  <1> QED
    BY <1>1, <1>2, <1>4, <1>5

\* Every byte of the framebuffer belongs to a pixel of the screen.
LEMMA ByteOnScreen ==
    ASSUME NEW b \in Bytes
    PROVE  /\ b \in Nat
           /\ b \div Stride \in 0..Height - 1
           /\ (b % Stride) \div 3 \in 0..Width - 1
  <1> USE Sizes
  <1>0. b \in Nat /\ b < Stride * Height
    BY DEF Bytes
  <1>1. PICK q \in Nat, r \in 0..Stride - 1 : q = b \div Stride /\ r = b % Stride /\ b = q * Stride + r
    BY <1>0, QuotientAndRest
  <1>2. PICK p \in Nat, k \in 0..2 : p = r \div 3 /\ k = r % 3 /\ r = p * 3 + k
    <2>1. r \in Nat
      BY <1>1
    <2> QED
      BY <2>1, QuotientAndRest
  <1>3. p < Width
    BY <1>1, <1>2
  <1>4. q < Height
    <2> SUFFICES ASSUME Height <= q PROVE FALSE
      BY <1>1
    <2>1. Height * Stride <= q * Stride
      BY <1>1, TimesMonotone
    <2>2. Height * Stride = Stride * Height /\ q * Stride \in Int
      BY <1>1
    <2>3. b = q * Stride + r /\ r \in Nat
      BY <1>1
    <2> QED
      BY <1>0, <2>1, <2>2, <2>3
  <1>5. q \in 0..Height - 1 /\ p \in 0..Width - 1
    BY <1>1, <1>2, <1>3, <1>4
  <1> QED
    BY <1>0, <1>1, <1>2, <1>5

\* A rectangle of the screen consists of the bytes of its pixels.
LEMMA PaintedBytes ==
    ASSUME NEW b \in Bytes, NEW xs \in SUBSET (0..Width - 1), NEW ys \in SUBSET Nat
    PROVE  b \in Painted(xs, ys) <=> (b % Stride) \div 3 \in xs /\ b \div Stride \in ys
  <1>1. b \in Painted(xs, ys) <=> \E x \in xs, y \in ys : b \in PixelBytes(x, y)
    BY DEF Painted
  <1>2. ASSUME NEW x \in xs, NEW y \in ys
        PROVE  b \in PixelBytes(x, y) <=> b \div Stride = y /\ (b % Stride) \div 3 = x
    BY ByteOnScreen, PixelOfByte
  <1> QED
    BY <1>1, <1>2

\* For all integers a game can pass, the bytes that fill_rect stores are those
\* of the half-open rectangle that lie on the screen.
LEMMA RectIsExact ==
    ASSUME NEW b \in Bytes, NEW x \in Int32, NEW y \in Int32,
           NEW width \in Int32, NEW height \in Int32
    PROVE  b \in RectBytes(x, y, width, height)
             <=> /\ x <= (b % Stride) \div 3 /\ (b % Stride) \div 3 < x + width
                 /\ y <= b \div Stride /\ b \div Stride < y + height
  <1> USE Sizes
  <1>0. x \in Int /\ y \in Int /\ width \in Int /\ height \in Int
    BY DEF Int32
  <1> DEFINE px == (b % Stride) \div 3
             py == b \div Stride
             x0 == IF x < 0 THEN 0 ELSE x
             y0 == IF y < 0 THEN 0 ELSE y
             x1 == IF x + width > Width THEN Width ELSE x + width
             y1 == IF y + height > Height THEN Height ELSE y + height
  <1>1. px \in 0..Width - 1 /\ py \in 0..Height - 1
    BY ByteOnScreen
  <1>2. RectBytes(x, y, width, height) =
          IF \/ width <= 0 \/ height <= 0
             \/ x + width <= 0 \/ y + height <= 0 \/ x >= Width \/ y >= Height
          THEN {} ELSE Painted(x0..x1 - 1, y0..y1 - 1)
    BY DEF RectBytes, Right
  <1>3. x0..x1 - 1 \in SUBSET (0..Width - 1) /\ y0..y1 - 1 \in SUBSET Nat
    BY <1>0
  <1>4. b \in Painted(x0..x1 - 1, y0..y1 - 1) <=> px \in x0..x1 - 1 /\ py \in y0..y1 - 1
    <2> DEFINE xs == x0..x1 - 1
               ys == y0..y1 - 1
    <2>1. xs \in SUBSET (0..Width - 1) /\ ys \in SUBSET Nat
      BY <1>3
    <2> HIDE DEF xs, ys
    <2>2. b \in Painted(xs, ys) <=> px \in xs /\ py \in ys
      BY <2>1, PaintedBytes
    <2> QED
      BY <2>2 DEF xs, ys
  <1> HIDE DEF px, py
  <1>5. px \in x0..x1 - 1 <=> x <= px /\ px < x + width
    BY <1>0, <1>1
  <1>6. py \in y0..y1 - 1 <=> y <= py /\ py < y + height
    BY <1>0, <1>1
  <1> HIDE DEF x0, x1, y0, y1
  <1>7. b \in RectBytes(x, y, width, height)
          <=> x <= px /\ px < x + width /\ y <= py /\ py < y + height
    BY <1>0, <1>1, <1>2, <1>4, <1>5, <1>6
  <1> QED
    BY <1>7 DEF px, py

(* Whatever is on the screen, fill_rect paints exactly the bytes of its      *)
(* half-open rectangle and leaves every other byte alone.                    *)
THEOREM FillRectIsExact ==
    ASSUME NEW pixels, DOMAIN pixels = Bytes, NEW rgb, NEW b \in Bytes,
           NEW x \in Int32, NEW y \in Int32, NEW width \in Int32, NEW height \in Int32
    PROVE  FillRect(pixels, x, y, width, height, rgb)[b] =
             IF Inside(b, [x |-> x, y |-> y, width |-> width, height |-> height, rgb |-> rgb])
             THEN ByteColor(b, rgb) ELSE pixels[b]
  BY RectIsExact DEF FillRect, Inside

(* clear_rgb paints every byte. *)
THEOREM ClearIsExact ==
    ASSUME NEW pixels, DOMAIN pixels = Bytes, NEW rgb, NEW b \in Bytes
    PROVE  ClearRgb(pixels, rgb)[b] = ByteColor(b, rgb)
  <1>1. b \in Painted(0..Width - 1, 0..Height - 1)
    <2> DEFINE xs == 0..Width - 1
               ys == 0..Height - 1
    <2>1. xs \in SUBSET (0..Width - 1) /\ ys \in SUBSET Nat
          /\ (b % Stride) \div 3 \in xs /\ b \div Stride \in ys
      BY Sizes, ByteOnScreen
    <2> HIDE DEF xs, ys
    <2>2. b \in Painted(xs, ys)
      BY <2>1, PaintedBytes
    <2> QED
      BY <2>2 DEF xs, ys
  <1> QED
    BY <1>1 DEF ClearRgb
-----------------------------------------------------------------------------
DrawInv == DOMAIN screen = Bytes /\ DrawingIsExact

(* After every call the screen is what the call asked for. *)
THEOREM DrawingSafe == DrawSpec => []DrawingIsExact
  <1>1. DrawInit => DrawInv
    <2> SUFFICES ASSUME DrawInit PROVE DrawInv
      OBVIOUS
    <2>1. DOMAIN screen = Bytes /\ drawn = [before |-> screen, call |-> NoDrawing]
      BY DEF DrawInit, ClearRgb, Bytes
    <2>2. ASSUME NEW b \in Bytes PROVE ~Inside(b, NoDrawing)
      BY ByteOnScreen DEF Inside, NoDrawing
    <2> QED
      BY <2>1, <2>2 DEF DrawInv, DrawingIsExact
  <1>2. DrawInv /\ [DrawNext]_drawVars => DrawInv'
    <2> SUFFICES ASSUME DrawInv, [DrawNext]_drawVars PROVE DrawInv'
      OBVIOUS
    <2>0. DOMAIN screen = Bytes
      BY DEF DrawInv
    <2>1. CASE DrawRect
      <3> DEFINE rgb == <<MaxColor + 1, 1, MaxColor>>
      <3>1. PICK x, y, width, height \in Int32 :
              /\ screen' = FillRect(screen, x, y, width, height, rgb)
              /\ drawn' = [before |-> screen,
                           call |-> [x |-> x, y |-> y, width |-> width, height |-> height, rgb |-> rgb]]
        BY <2>1 DEF DrawRect, Draws
      <3> HIDE DEF rgb
      <3>2. DOMAIN screen' = Bytes
        BY <2>0, <3>1 DEF FillRect
      <3>3. ASSUME NEW b \in Bytes
            PROVE  screen'[b] = IF Inside(b, drawn'.call) THEN ByteColor(b, drawn'.call.rgb)
                                ELSE drawn'.before[b]
        BY <2>0, <3>1, FillRectIsExact
      <3> QED
        BY <3>2, <3>3 DEF DrawInv, DrawingIsExact, Inside, ByteColor
    <2>2. CASE DrawClear
      <3> DEFINE rgb == <<-1, 1, MaxColor + 2>>
      <3>1. /\ screen' = ClearRgb(screen, rgb)
            /\ drawn' = [before |-> screen,
                         call |-> [x |-> 0, y |-> 0, width |-> Width, height |-> Height, rgb |-> rgb]]
        BY <2>2 DEF DrawClear, Draws
      <3> HIDE DEF rgb
      <3>2. DOMAIN screen' = Bytes
        BY <2>0, <3>1 DEF ClearRgb
      <3>3. ASSUME NEW b \in Bytes
            PROVE  screen'[b] = ByteColor(b, drawn'.call.rgb) /\ Inside(b, drawn'.call)
        BY <2>0, <3>1, ClearIsExact, ByteOnScreen, Sizes DEF Inside
      <3> QED
        BY <3>2, <3>3 DEF DrawInv, DrawingIsExact, Inside, ByteColor
    <2>3. CASE UNCHANGED drawVars
      BY <2>3 DEF drawVars, DrawInv, DrawingIsExact, Inside, ByteColor
    <2> QED
      BY <2>1, <2>2, <2>3 DEF DrawNext
  <1>3. DrawInv => DrawingIsExact
    BY DEF DrawInv
  <1> QED
    BY <1>1, <1>2, <1>3, PTL DEF DrawSpec

-----------------------------------------------------------------------------
(* Pacing. *)

USE PacingConstants DEF PacingConstants

(* Times and their two-part form. *)

\* A timespec stands for a natural number of nanoseconds.
LEMMA TicksType == ASSUME NEW ts \in Timespecs PROVE Ticks(ts) \in Nat
  <1>1. ts.sec \in Nat /\ ts.nsec \in Nat
    BY DEF Timespecs
  <1>2. ts.sec * Second \in Nat
    BY <1>1
  <1> QED
    BY <1>1, <1>2 DEF Ticks

\* Splitting a time and joining it again gives the time back.
LEMMA TimespecRoundTrip ==
    ASSUME NEW t \in Nat
    PROVE  Timespec(t) \in Timespecs /\ Ticks(Timespec(t)) = t
  <1> DEFINE q == t \div Second
             r == t % Second
  <1>1. Second \in Nat /\ Second > 0
    OBVIOUS
  <1>2. q \in Nat
    BY <1>1
  <1>3. r \in 0..Second - 1
    BY <1>1
  <1>4. t = q * Second + r
    BY <1>1
  <1>5. Timespec(t) = [sec |-> q, nsec |-> r]
    BY DEF Timespec
  <1> HIDE DEF q, r
  <1> QED
    BY <1>2, <1>3, <1>4, <1>5 DEF Ticks, Timespecs

\* timespec_is_before compares the times, across the carry of seconds.
LEMMA BeforeIsLess ==
    ASSUME NEW a \in Timespecs, NEW b \in Timespecs
    PROVE  IsBefore(a, b) <=> Ticks(a) < Ticks(b)
  <1>1. /\ a.sec \in Nat /\ b.sec \in Nat
        /\ a.nsec \in 0..Second - 1 /\ b.nsec \in 0..Second - 1
    BY DEF Timespecs
  <1>2. ASSUME NEW x \in Timespecs, NEW y \in Timespecs, x.sec < y.sec
        PROVE  Ticks(x) < Ticks(y)
    <2>1. x.sec \in Nat /\ y.sec \in Nat /\ x.nsec \in 0..Second - 1 /\ y.nsec \in 0..Second - 1
      BY <1>2 DEF Timespecs
    <2>2. (x.sec + 1) * Second <= y.sec * Second
      BY <1>2, <2>1, TimesMonotone
    <2>3. (x.sec + 1) * Second = x.sec * Second + Second
      BY <2>1
    <2>4. x.sec * Second \in Int /\ y.sec * Second \in Int
      BY <2>1
    <2> QED
      BY <2>1, <2>2, <2>3, <2>4 DEF Ticks
  <1>3. CASE a.sec < b.sec
    BY <1>1, <1>2, <1>3 DEF IsBefore
  <1>4. CASE a.sec = b.sec
    <2>1. a.sec * Second \in Int
      BY <1>1
    <2> QED
      BY <1>1, <1>4, <2>1 DEF IsBefore, Ticks
  <1>5. CASE b.sec < a.sec
    <2>1. Ticks(b) < Ticks(a)
      BY <1>2, <1>5
    <2>2. ~IsBefore(a, b)
      BY <1>1, <1>5 DEF IsBefore
    <2> QED
      BY <2>1, <2>2, TicksType
  <1> QED
    BY <1>1, <1>3, <1>4, <1>5

\* advance_deadline adds one frame, carrying a full second.
LEMMA AdvanceAddsFrame ==
    ASSUME NEW ts \in Timespecs
    PROVE  AdvanceDeadline(ts) \in Timespecs /\ Ticks(AdvanceDeadline(ts)) = Ticks(ts) + Frame
  <1>1. /\ ts.sec \in Nat /\ ts.nsec \in 0..Second - 1
        /\ ts = [sec |-> ts.sec, nsec |-> ts.nsec]
    BY DEF Timespecs
  <1>2. ts.sec * Second \in Int /\ (ts.sec + 1) * Second = ts.sec * Second + Second
    BY <1>1
  <1>3. CASE ts.nsec + Frame >= Second
    BY <1>1, <1>2, <1>3 DEF AdvanceDeadline, Timespecs, Ticks
  <1>4. CASE ~(ts.nsec + Frame >= Second)
    <2>1. AdvanceDeadline(ts) = [sec |-> ts.sec, nsec |-> ts.nsec + Frame]
      BY <1>1, <1>4 DEF AdvanceDeadline
    <2> QED
      BY <1>1, <1>2, <1>4, <2>1 DEF Timespecs, Ticks
  <1> QED
    BY <1>3, <1>4

\* timespec_difference borrows a second where it must, and never underflows.
LEMMA DifferenceSubtracts ==
    ASSUME NEW later \in Timespecs, NEW earlier \in Timespecs, IsBefore(earlier, later)
    PROVE  /\ Difference(later, earlier) \in Timespecs
           /\ Ticks(Difference(later, earlier)) = Ticks(later) - Ticks(earlier)
  <1> DEFINE s == later.sec - earlier.sec
             n == later.nsec - earlier.nsec
  <1>1. /\ later.sec \in Nat /\ earlier.sec \in Nat
        /\ later.nsec \in 0..Second - 1 /\ earlier.nsec \in 0..Second - 1
    BY DEF Timespecs
  <1>2. /\ s \in Nat /\ n \in Int /\ n < Second /\ n + Second > 0 /\ (n < 0 => s - 1 \in Nat)
    BY <1>1 DEF IsBefore
  <1>3. /\ s * Second = later.sec * Second - earlier.sec * Second
        /\ (s - 1) * Second = s * Second - Second
        /\ later.sec * Second \in Int /\ earlier.sec * Second \in Int /\ s * Second \in Int
    BY <1>1
  <1>4. Difference(later, earlier) = IF n < 0 THEN [sec |-> s - 1, nsec |-> n + Second]
                                     ELSE [sec |-> s, nsec |-> n]
    BY DEF Difference
  <1>5. Ticks(later) - Ticks(earlier) = s * Second + n
    BY <1>1, <1>3 DEF Ticks
  <1> HIDE DEF s, n
  <1> QED
    BY <1>2, <1>3, <1>4, <1>5 DEF Ticks, Timespecs
-----------------------------------------------------------------------------
\* The loop starts with its deadline at the clock.
LEMMA PaceInitInv == PaceInit => PaceInv
  <1> SUFFICES ASSUME PaceInit PROVE PaceInv
    OBVIOUS
  <1>1. now \in Nat /\ loop = "frame" /\ frames = 0
        /\ deadline = Timespec(now) /\ delay = Timespec(0)
    BY DEF PaceInit
  <1>2. deadline \in Timespecs /\ delay \in Timespecs /\ Ticks(deadline) = now
    BY <1>1, TimespecRoundTrip
  <1>3. frames * Frame = 0
    BY <1>1
  <1> QED
    BY <1>1, <1>2, <1>3 DEF PaceInv, PaceTypeOK

\* Every step keeps the invariant.
LEMMA PaceNextInv == PaceInv /\ [PaceNext]_paceVars => PaceInv'
  <1> SUFFICES ASSUME PaceInv, [PaceNext]_paceVars PROVE PaceInv'
    OBVIOUS
  <1>0. /\ now \in Nat /\ deadline \in Timespecs /\ delay \in Timespecs /\ frames \in Nat
        /\ Ticks(deadline) \in Nat /\ Ticks(delay) \in Nat /\ frames * Frame \in Nat
    BY TicksType DEF PaceInv, PaceTypeOK
  <1>1. CASE Frames
    BY <1>0, <1>1 DEF Frames, PaceInv, PaceTypeOK
  <1>2. CASE WaitForNextFrame
    <2>1. /\ deadline' \in Timespecs /\ Ticks(deadline)' = Ticks(deadline) + Frame
          /\ loop = "wait" /\ UNCHANGED <<now, frames>>
      BY <1>0, <1>2, AdvanceAddsFrame DEF WaitForNextFrame, Ticks
    <2>2. Timespec(now) \in Timespecs /\ Ticks(Timespec(now)) = now
      BY <1>0, TimespecRoundTrip
    <2>3. IsBefore(Timespec(now), deadline') <=> now < Ticks(deadline)'
      BY <2>1, <2>2, BeforeIsLess DEF Ticks
    <2>4. CASE loop' = "sleep" /\ IsBefore(Timespec(now), deadline')
                 /\ delay' = Difference(deadline', Timespec(now))
      <3>1. delay' \in Timespecs /\ Ticks(delay)' = Ticks(deadline)' - now
        BY <2>1, <2>2, <2>4, DifferenceSubtracts DEF Ticks
      <3> QED
        BY <1>0, <2>1, <2>4, <3>1 DEF PaceInv, PaceTypeOK
    <2>5. CASE loop' = "resync" /\ ~IsBefore(Timespec(now), deadline') /\ UNCHANGED delay
      BY <1>0, <2>1, <2>3, <2>5 DEF PaceInv, PaceTypeOK
    <2>6. CASE loop' = "failed" /\ UNCHANGED delay
      BY <1>0, <2>1, <2>6 DEF PaceInv, PaceTypeOK
    <2> QED
      BY <1>2, <2>4, <2>5, <2>6 DEF WaitForNextFrame
  <1>3. CASE Sleeps
    BY <1>0, <1>3 DEF Sleeps, PaceInv, PaceTypeOK
  <1>4. CASE SleepInterrupted
    <2>1. PICK slept \in 0..Ticks(delay) - 1 :
             now' = now + slept /\ delay' = Timespec(Ticks(delay) - slept)
      BY <1>4 DEF SleepInterrupted
    <2>2. Ticks(delay) - slept \in Nat /\ now' \in Nat
      BY <1>0, <2>1
    <2>3. delay' \in Timespecs /\ Ticks(delay)' = Ticks(delay) - slept
      BY <2>1, <2>2, TimespecRoundTrip DEF Ticks
    <2>4. loop = "sleep" /\ loop' \in {"sleep", "stopped"} /\ UNCHANGED <<deadline, frames>>
      BY <1>4 DEF SleepInterrupted
    <2>5. Ticks(deadline)' = Ticks(deadline) /\ frames' * Frame = frames * Frame
      BY <2>4 DEF Ticks
    <2>6. loop = "sleep" => now' + Ticks(delay)' = Ticks(deadline)
      BY <1>0, <2>1, <2>3 DEF PaceInv
    <2> QED
      BY <1>0, <2>2, <2>3, <2>4, <2>5, <2>6 DEF PaceInv, PaceTypeOK
  <1>5. CASE Resync
    <2>1. Timespec(now) \in Timespecs /\ Ticks(Timespec(now)) = now
      BY <1>0, TimespecRoundTrip
    <2>2. IsBefore(AdvanceDeadline(deadline), Timespec(now)) <=> Ticks(deadline) + Frame < now
      BY <1>0, <2>1, AdvanceAddsFrame, BeforeIsLess
    <2>3. CASE loop' = "failed" /\ UNCHANGED <<deadline, frames>>
      BY <1>0, <1>5, <2>3 DEF Resync, PaceInv, PaceTypeOK
    <2>4. CASE loop' = "frame" /\ frames' = frames + 1
                 /\ deadline' = IF IsBefore(AdvanceDeadline(deadline), Timespec(now))
                                THEN Timespec(now) ELSE deadline
      <3>1. /\ deadline' \in Timespecs /\ Ticks(deadline)' \in Nat
            /\ Ticks(deadline)' = IF Ticks(deadline) + Frame < now THEN now ELSE Ticks(deadline)
        BY <1>0, <2>1, <2>2, <2>4, TicksType DEF Ticks
      <3>2. frames' * Frame = frames * Frame + Frame /\ frames' \in Nat
        BY <1>0, <2>4
      <3>3. loop = "resync" /\ UNCHANGED <<now, delay>>
        BY <1>5 DEF Resync
      <3> QED
        BY <1>0, <2>4, <3>1, <3>2, <3>3 DEF PaceInv, PaceTypeOK
    <2> QED
      BY <1>5, <2>3, <2>4 DEF Resync
  <1>6. CASE UNCHANGED paceVars
    BY <1>6 DEF paceVars, PaceInv, PaceTypeOK, Ticks
  <1>7. CASE SleepFails
    BY <1>0, <1>7 DEF SleepFails, PaceInv, PaceTypeOK, Ticks
  <1> QED
    BY <1>1, <1>2, <1>3, <1>4, <1>5, <1>6, <1>7 DEF PaceNext

(* The clock, the deadline and the rest of a sleep stay in step. *)
THEOREM PaceSafety == PaceSpec => []PaceInv
  BY PaceInitInv, PaceNextInv, PTL DEF PaceSpec

(* A frame never begins early and never with a backlog, and no run completes *)
(* more frames than there were frame times.                                  *)
THEOREM Paced == PaceSpec => []FramesArePaced
  <1>1. PaceInv => FramesArePaced
    <2> SUFFICES ASSUME PaceInv PROVE FramesArePaced
      OBVIOUS
    <2>1. Ticks(deadline) \in Nat /\ frames * Frame \in Nat
      BY TicksType DEF PaceInv, PaceTypeOK
    <2> QED
      BY <2>1 DEF PaceInv, FramesArePaced
  <1> QED
    BY <1>1, PaceSafety, PTL

HIDE PacingConstants DEF PacingConstants

-----------------------------------------------------------------------------
(* Audio. *)

USE AudioConstants DEF AudioConstants

----------------------------------------------------------------------------
(* Arithmetic around a ring. *)

\* Euclid's division, with names for quotient and remainder.
LEMMA Division ==
    ASSUME NEW n \in Nat \ {0}, NEW x \in Nat
    PROVE  \E q \in Nat, m \in 0..n - 1 : x = q * n + m /\ x % n = m
  <1> DEFINE q == x \div n
             m == x % n
  <1>1. q \in Nat /\ m \in 0..n - 1 /\ x = q * n + m
    OBVIOUS
  <1> QED
    BY <1>1

\* A slot number that ran over the end of the ring once comes back once.
LEMMA Wrap ==
    ASSUME NEW n \in Nat \ {0}, NEW x \in Nat, x < 2 * n
    PROVE  x % n = IF x < n THEN x ELSE x - n
  <1>1. PICK q \in Nat, m \in 0..n - 1 : x = q * n + m /\ x % n = m
    BY Division
  <1>2. q < 2
    <2> SUFFICES ASSUME q >= 2 PROVE FALSE
      OBVIOUS
    <2>1. q * n >= 2 * n
      OBVIOUS
    <2> QED
      BY <1>1, <2>1
  <1>3. q = 0 \/ q = 1
    BY <1>2
  <1> QED
    BY <1>1, <1>3

\* Next1, Distance and the slots of Pending without a modulus.
LEMMA RingSteps ==
    ASSUME NEW r \in Rings, NEW i \in SlotNumbers(r)
    PROVE  /\ SlotCount[r] \in Nat /\ SlotCount[r] >= 2
           /\ Next1(r, i) = IF i + 1 = SlotCount[r] THEN 0 ELSE i + 1
           /\ Next1(r, i) \in SlotNumbers(r)
           /\ \A j \in SlotNumbers(r) :
                 Distance(r, i, j) = IF j >= i THEN j - i ELSE j + SlotCount[r] - i
           /\ \A n \in 1..SlotCount[r] :
                 (i + n - 1) % SlotCount[r] =
                    IF i + n - 1 < SlotCount[r] THEN i + n - 1 ELSE i + n - 1 - SlotCount[r]
  <1> DEFINE c == SlotCount[r]
  <1>0. c \in Nat /\ c >= 2 /\ i \in Nat /\ i < c
    BY DEF SlotNumbers
  <1> HIDE DEF c
  <1>w. ASSUME NEW x \in Nat, x < 2 * c PROVE x % c = IF x < c THEN x ELSE x - c
    <2>1. c \in Nat \ {0}
      BY <1>0
    <2> QED
      BY <1>w, <2>1, Wrap
  <1>1. (i + 1) % c = IF i + 1 = c THEN 0 ELSE i + 1
    <2>1. i + 1 \in Nat /\ i + 1 < 2 * c
      BY <1>0
    <2> QED
      BY <1>0, <1>w, <2>1
  <1>2. ASSUME NEW j \in 0..c - 1
        PROVE  (j + c - i) % c = IF j >= i THEN j - i ELSE j + c - i
    <2>1. j + c - i \in Nat /\ j + c - i < 2 * c
      BY <1>0
    <2> QED
      BY <1>0, <1>w, <2>1
  <1>3. ASSUME NEW n \in 1..c
        PROVE  (i + n - 1) % c = IF i + n - 1 < c THEN i + n - 1 ELSE i + n - 1 - c
    <2>1. i + n - 1 \in Nat /\ i + n - 1 < 2 * c
      BY <1>0
    <2> QED
      BY <1>0, <1>w, <2>1
  <1>4. SlotNumbers(r) = 0..c - 1
    BY DEF c, SlotNumbers
  <1>5. Next1(r, i) = (i + 1) % c
    BY DEF c, Next1
  <1>6. Next1(r, i) \in SlotNumbers(r)
    BY <1>0, <1>1, <1>4, <1>5
  <1>7. \A j \in SlotNumbers(r) : Distance(r, i, j) = IF j >= i THEN j - i ELSE j + c - i
    BY <1>2, <1>4 DEF c, Distance
  <1> QED
    BY <1>0, <1>1, <1>3, <1>5, <1>6, <1>7 DEF c

\* A distance is less than the ring is long.
LEMMA DistanceType ==
    ASSUME NEW r \in Rings, NEW i \in SlotNumbers(r), NEW j \in SlotNumbers(r)
    PROVE  Distance(r, i, j) \in Nat /\ Distance(r, i, j) < SlotCount[r]
  <1>1. /\ SlotCount[r] \in Nat /\ i \in 0..SlotCount[r] - 1 /\ j \in 0..SlotCount[r] - 1
        /\ Distance(r, i, j) = IF j >= i THEN j - i ELSE j + SlotCount[r] - i
    BY RingSteps DEF SlotNumbers
  <1> QED
    BY <1>1

\* How full a ring is, and where its write index is.
LEMMA RingFacts ==
    ASSUME AudioTypeOK, NEW r \in Rings
    PROVE  LET c == SlotCount[r]
               i == ring[r].read
               j == ring[r].write IN
           /\ c \in Nat /\ c >= 2 /\ i \in 0..c - 1 /\ j \in 0..c - 1
           /\ Waiting(r) = IF j >= i THEN j - i ELSE j + c - i
           /\ Waiting(r) \in 0..c - 1
           /\ (i + (Waiting(r) + 1) - 1) % c = j
           /\ Full(r) <=> Waiting(r) = c - 1
  <1> DEFINE c == SlotCount[r]
             i == ring[r].read
             j == ring[r].write
  <1>0. i \in SlotNumbers(r) /\ j \in SlotNumbers(r)
    BY DEF AudioTypeOK, RingStates
  <1>1. /\ c \in Nat /\ c >= 2
        /\ Next1(r, j) = IF j + 1 = c THEN 0 ELSE j + 1
        /\ Waiting(r) = IF j >= i THEN j - i ELSE j + c - i
        /\ \A n \in 1..c : (i + n - 1) % c = IF i + n - 1 < c THEN i + n - 1 ELSE i + n - 1 - c
    BY <1>0, RingSteps DEF Waiting
  <1>2. i \in 0..c - 1 /\ j \in 0..c - 1
    BY <1>0 DEF SlotNumbers
  <1>3. Full(r) <=> Next1(r, j) = i
    BY DEF Full
  <1> HIDE DEF c, i, j
  <1>4. Waiting(r) \in 0..c - 1
    BY <1>1, <1>2
  <1>5. (i + (Waiting(r) + 1) - 1) % c = j
    <2>1. Waiting(r) + 1 \in 1..c
      BY <1>1, <1>4
    <2> QED
      BY <1>1, <1>2, <2>1
  <1>6. Full(r) <=> Waiting(r) = c - 1
    BY <1>1, <1>2, <1>3
  <1> QED
    BY <1>1, <1>2, <1>4, <1>5, <1>6 DEF c, i, j

----------------------------------------------------------------------------
(* The game thread. *)

\* The places of the game thread, and those with a command under way.
GamePlaces == {"init", "start", "ready", "slot", "unpause", "unstop", "publish", "stopped",
               "rewind", "disable", "halt", "dispose", "reset", "off"}
UnderWay == {"slot", "unpause", "unstop", "publish"}

\* The type of the shared atomics.
Atomics == [enabled : BOOLEAN, stopping : BOOLEAN, epoch : Nat, paused : BOOLEAN,
            stopped : BOOLEAN, position : Nat]

\* Nothing of the rings, the callback or the track changes.
LEMMA RingsRest ==
    ASSUME AudioInv, AudioTypeOK', UNCHANGED <<callback, ring, submitted, received, track, heard>>,
           \A r \in Rings : CommandFits(r)', EpochsOrdered', ResetIsAlone',
           shared'.epoch = shared.epoch \/ TrackIsLastPlay'
    PROVE  AudioInv'
  <1>1. \A r \in Rings : RingHolds(r)' /\ CallbackBounded(r)'
    BY DEF AudioInv, RingHolds, CallbackBounded, Ahead, Waiting, Reading
  <1>2. TrackIsLastPlay'
    BY DEF AudioInv, TrackIsLastPlay, LastPlay
  <1>3. StopSilencesEarlierTracks'
    BY DEF AudioInv, StopSilencesEarlierTracks, Playing
  <1> QED
    BY <1>1, <1>2, <1>3 DEF AudioInv

\* No command is under way afterwards, and neither epoch nor stop flag is set.
LEMMA EpochsRest ==
    ASSUME EpochsOrdered, UNCHANGED <<callback, ring, submitted, received, heard>>,
           shared'.epoch = shared.epoch, shared'.stopped = shared.stopped,
           game'.pc \notin UnderWay \cup {"stopped"}
    PROVE  EpochsOrdered' /\ \A r \in Rings : CommandFits(r)'
  <1>1. \A r \in Rings : CommandFits(r)'
    BY DEF CommandFits, UnderWay
  <1>2. EpochsOrdered'
    BY DEF EpochsOrdered, UnderWay, Ahead
  <1> QED
    BY <1>1, <1>2

\* Opening, starting, pausing, rewinding and shutting down leave the rings alone.
LEMMA TransportInv ==
    ASSUME AudioInv,
           OpenDevice \/ StartDevice \/ PauseOrResume \/ Rewind \/ Disable \/ RaiseStopping \/ Dispose
    PROVE  AudioInv'
  <1>1. UNCHANGED <<callback, ring, submitted, received, track, voice, heard>>
    BY DEF OpenDevice, StartDevice, PauseOrResume, Rewind, Disable, RaiseStopping, Dispose,
       callbackVars
  <1>2. game \in [pc : GamePlaces, command : Commands] /\ shared \in Atomics
    BY DEF AudioInv, AudioTypeOK, GamePlaces, Atomics
  <1>3. /\ game' \in [pc : {"start", "ready", "disable", "rewind", "halt", "dispose", "reset"},
                      command : Commands]
        /\ game'.pc = "reset" => Dispose
    BY <1>2 DEF OpenDevice, StartDevice, PauseOrResume, Rewind, Disable, RaiseStopping, Dispose,
       GameGoes
  <1>4. /\ shared' \in Atomics
        /\ shared'.epoch = shared.epoch /\ shared'.stopped = shared.stopped
    <2> USE DEF Atomics
    <2>1. CASE shared' = shared
      BY <1>2, <2>1
    <2>2. CASE PauseOrResume
      BY <1>2, <2>2 DEF PauseOrResume
    <2>3. CASE Rewind
      BY <1>2, <2>3 DEF Rewind
    <2>4. CASE OpenDevice /\ shared' = [shared EXCEPT !.enabled = TRUE]
      BY <1>2, <2>4
    <2>5. CASE Disable \/ RaiseStopping
      BY <1>2, <2>5 DEF Disable, RaiseStopping
    <2> QED
      BY <2>1, <2>2, <2>3, <2>4, <2>5 DEF OpenDevice, StartDevice, Dispose
  <1>5. device' \in {"none", "open", "running"} /\ asked' \in Nat
    <2>1. device \in {"none", "open", "running"} /\ asked \in Nat
      BY DEF AudioInv, AudioTypeOK
    <2> QED
      BY <2>1 DEF OpenDevice, StartDevice, PauseOrResume, Rewind, Disable, RaiseStopping, Dispose
  <1>6. AudioTypeOK'
    BY <1>1, <1>3, <1>4, <1>5 DEF AudioInv, AudioTypeOK, Atomics
  <1>7. EpochsOrdered' /\ \A r \in Rings : CommandFits(r)'
    <2>1. game'.pc \notin UnderWay \cup {"stopped"}
      BY <1>3 DEF UnderWay
    <2> QED
      BY <1>1, <1>4, <2>1, EpochsRest DEF AudioInv
  <1>8. ResetIsAlone'
    BY <1>3 DEF ResetIsAlone, Dispose, callbackVars
  <1> QED
    BY <1>1, <1>4, <1>6, <1>7, <1>8, RingsRest

\* What was taken was published, each command at its place.
LEMMA TakenWasPublished ==
    ASSUME AudioInv, NEW r \in Rings
    PROVE  /\ submitted[r] \in Seq(Commands) /\ received[r] \in Seq(Commands)
           /\ DOMAIN submitted[r] = 1..Len(submitted[r]) /\ Len(submitted[r]) \in Nat
           /\ DOMAIN received[r] = 1..Len(received[r]) /\ Len(received[r]) \in Nat
           /\ Len(received[r]) <= Len(submitted[r])
           /\ \A n \in 1..Len(received[r]) : received[r][n] = submitted[r][n]
  <1>1. submitted[r] \in Seq(Commands) /\ received[r] \in Seq(Commands)
    BY DEF AudioInv, AudioTypeOK
  <1>2. /\ DOMAIN submitted[r] = 1..Len(submitted[r]) /\ Len(submitted[r]) \in Nat
        /\ DOMAIN received[r] = 1..Len(received[r]) /\ Len(received[r]) \in Nat
    BY <1>1
  <1>3. /\ Ahead(r) <= Waiting(r) /\ Len(submitted[r]) = Len(received[r]) - Ahead(r) + Waiting(r)
        /\ \A n \in 1..Len(received[r]) : received[r][n] = submitted[r][n]
    BY DEF AudioInv, RingHolds
  <1>4. Waiting(r) \in Nat /\ Ahead(r) \in Nat
    BY RingFacts DEF AudioInv, Ahead
  <1> QED
    BY <1>1, <1>2, <1>3, <1>4

\* The epochs a sound command, the callback and its beginning may have.
LEMMA EpochFacts ==
    ASSUME AudioInv
    PROVE  /\ shared.epoch \in Nat /\ heard \in Nat /\ callback.epoch \in Nat
           /\ callback.pc # "idle" => heard <= shared.epoch
           /\ callback.pc \in {"sounds", "sounds advance"} => callback.epoch <= shared.epoch
           /\ \A n \in DOMAIN submitted["sounds"] :
                 /\ submitted["sounds"][n].epoch \in Nat
                 /\ submitted["sounds"][n].epoch <= shared.epoch
  <1>1. shared.epoch \in Nat /\ heard \in Nat /\ callback.epoch \in Nat
    BY DEF AudioInv, AudioTypeOK
  <1>2. EpochsOrdered
    BY DEF AudioInv
  <1>3. submitted["sounds"] \in Seq(Commands)
    BY DEF AudioInv, AudioTypeOK, Rings
  <1>4. \A n \in DOMAIN submitted["sounds"] : submitted["sounds"][n].epoch \in Nat
    <2> SUFFICES ASSUME NEW n \in DOMAIN submitted["sounds"]
                 PROVE  submitted["sounds"][n].epoch \in Nat
      OBVIOUS
    <2>1. submitted["sounds"][n] \in Commands
      BY <1>3
    <2> QED
      BY <2>1 DEF Commands
  <1> QED
    BY <1>1, <1>2, <1>4 DEF EpochsOrdered

\* sound_stop's first store: every command published so far is of an earlier epoch.
LEMMA StopInv ==
    ASSUME AudioInv, Stop
    PROVE  AudioInv'
  <1>0. /\ game \in [pc : GamePlaces, command : Commands] /\ shared \in Atomics
        /\ shared.epoch \in Nat /\ asked \in Nat
    BY DEF AudioInv, AudioTypeOK, GamePlaces, Atomics
  <1>1. UNCHANGED <<callback, ring, device, submitted, received, track, voice, heard>>
    BY DEF Stop, callbackVars
  <1>2. /\ game' \in [pc : GamePlaces, command : Commands] /\ game'.pc = "stopped"
        /\ asked' \in Nat
    BY <1>0 DEF Stop, GameGoes, GamePlaces
  <1>3. shared' \in Atomics /\ shared'.epoch = shared.epoch + 1
    BY <1>0 DEF Stop, Atomics
  <1>4. AudioTypeOK'
    BY <1>1, <1>2, <1>3 DEF AudioInv, AudioTypeOK, GamePlaces, Atomics
  <1>5. \A n \in DOMAIN submitted["sounds"] :
            submitted["sounds"][n].epoch \in Nat /\ submitted["sounds"][n].epoch <= shared.epoch
    BY EpochFacts
  <1>6. EpochsOrdered'
    <2>1. game'.pc \notin UnderWay
      BY <1>2 DEF UnderWay
    <2>2. \A n \in DOMAIN submitted["sounds"] : submitted["sounds"][n].epoch < shared'.epoch
      BY <1>0, <1>3, <1>5
    <2>3. \A n \in DOMAIN submitted["sounds"] : submitted["sounds"][n].epoch <= shared'.epoch
      BY <1>0, <1>3, <1>5
    <2>f. /\ heard \in Nat /\ callback.epoch \in Nat
          /\ callback.pc # "idle" => heard <= shared.epoch
          /\ callback.pc \in {"sounds", "sounds advance"} => callback.epoch <= shared.epoch
      BY EpochFacts
    <2>e. \A e \in Nat : e <= shared.epoch => e <= shared'.epoch
      BY <1>0, <1>3
    <2>4. callback.pc # "idle" => heard <= shared'.epoch
      BY <2>e, <2>f
    <2>5. callback.pc \in {"sounds", "sounds advance"} => callback.epoch <= shared'.epoch
      BY <2>e, <2>f
    <2> QED
      BY <1>1, <2>1, <2>2, <2>3, <2>4, <2>5 DEF AudioInv, EpochsOrdered, UnderWay, Ahead
  <1>7. TrackIsLastPlay'
    <2> SUFFICES ASSUME NEW n \in DOMAIN received["sounds"]
                 PROVE  received["sounds"][n].epoch # shared'.epoch
      BY <1>1 DEF TrackIsLastPlay
    <2>1. n \in DOMAIN submitted["sounds"] /\ received["sounds"][n] = submitted["sounds"][n]
      <3>1. "sounds" \in Rings
        BY DEF Rings
      <3>2. /\ DOMAIN submitted["sounds"] = 1..Len(submitted["sounds"]) /\ Len(submitted["sounds"]) \in Nat
            /\ DOMAIN received["sounds"] = 1..Len(received["sounds"]) /\ Len(received["sounds"]) \in Nat
            /\ Len(received["sounds"]) <= Len(submitted["sounds"])
            /\ \A k \in 1..Len(received["sounds"]) : received["sounds"][k] = submitted["sounds"][k]
        BY <3>1, TakenWasPublished
      <3> QED
        BY <3>2
    <2> QED
      BY <1>0, <1>3, <1>5, <2>1
  <1>8. ResetIsAlone' /\ \A r \in Rings : CommandFits(r)'
    BY <1>2 DEF ResetIsAlone, CommandFits
  <1> QED
    BY <1>1, <1>4, <1>6, <1>7, <1>8, RingsRest

\* sound_stop's second store: the flag is set when no play of this epoch is published.
LEMMA StopFlagInv ==
    ASSUME AudioInv, StopFlag
    PROVE  AudioInv'
  <1>0. game \in [pc : GamePlaces, command : Commands] /\ shared \in Atomics /\ game.pc = "stopped"
    BY DEF AudioInv, AudioTypeOK, GamePlaces, Atomics, StopFlag
  <1>1. UNCHANGED <<callback, ring, device, submitted, received, track, voice, heard, asked>>
    BY DEF StopFlag, callbackVars
  <1>2. game' \in [pc : GamePlaces, command : Commands] /\ game'.pc = "rewind"
    BY <1>0 DEF StopFlag, GameGoes, GamePlaces
  <1>3. shared' \in Atomics /\ shared'.epoch = shared.epoch
    BY <1>0 DEF StopFlag, Atomics
  <1>4. AudioTypeOK'
    BY <1>1, <1>2, <1>3 DEF AudioInv, AudioTypeOK, GamePlaces, Atomics
  <1>5. EpochsOrdered'
    BY <1>0, <1>1, <1>2, <1>3 DEF AudioInv, EpochsOrdered, Ahead
  <1>6. ResetIsAlone' /\ \A r \in Rings : CommandFits(r)'
    BY <1>2 DEF ResetIsAlone, CommandFits
  <1> QED
    BY <1>1, <1>3, <1>4, <1>5, <1>6, RingsRest

\* tone, noise, sound_play and sound_seek: a command that fits is under way.
LEMMA SubmitInv ==
    ASSUME AudioInv, Submit
    PROVE  AudioInv'
  <1>0. /\ game \in [pc : GamePlaces, command : Commands] /\ game.pc = "ready"
        /\ shared.epoch \in Nat /\ asked \in Nat
    BY DEF AudioInv, AudioTypeOK, GamePlaces, Submit
  <1>1. /\ UNCHANGED <<callback, ring, shared, device, submitted, received, track, voice, heard>>
        /\ asked' = asked + 1
    BY DEF Submit, callbackVars
  <1>a. asked' \in Nat
    BY <1>0, <1>1
  <1>2. CASE game' = game
    <2>1. AudioTypeOK'
      <3>1. game' \in [pc : GamePlaces, command : Commands]
        BY <1>0, <1>2
      <3> QED
        BY <1>1, <1>a, <3>1 DEF AudioInv, AudioTypeOK, GamePlaces
    <2>2. EpochsOrdered' /\ \A r \in Rings : CommandFits(r)'
      BY <1>0, <1>1, <1>2, EpochsRest DEF AudioInv, UnderWay
    <2>3. ResetIsAlone'
      BY <1>0, <1>2 DEF ResetIsAlone
    <2> QED
      BY <1>1, <2>1, <2>2, <2>3, RingsRest
  <1>3. CASE game' # game
    <2>1. PICK kind \in {"effect", "play", "seek"}, to \in {0, TrackSamples + 1} :
            LET command == [id |-> asked + 1, kind |-> kind, epoch |-> shared.epoch,
                            to |-> IF kind = "seek" THEN to ELSE 0] IN
            ~Full(RingOf(command)) /\ game' = [pc |-> "slot", command |-> command]
      BY <1>3 DEF Submit
    <2>2. /\ game' \in [pc : GamePlaces, command : Commands] /\ game'.pc = "slot"
          /\ game'.command.epoch = shared.epoch
      BY <1>0, <2>1 DEF Commands, GamePlaces
    <2>3. AudioTypeOK'
      BY <1>1, <1>a, <2>2 DEF AudioInv, AudioTypeOK, GamePlaces
    <2>4. EpochsOrdered'
      BY <1>1, <2>2 DEF AudioInv, EpochsOrdered, Ahead
    <2>5. ASSUME NEW r \in Rings PROVE CommandFits(r)'
      <3>1. RingOf(game'.command) = r => Waiting(r) < SlotCount[r] - 1
        BY <2>1, RingFacts DEF AudioInv
      <3> QED
        BY <1>1, <2>2, <3>1 DEF CommandFits, Waiting
    <2>6. ResetIsAlone'
      BY <2>2 DEF ResetIsAlone
    <2> QED
      BY <1>1, <2>3, <2>4, <2>5, <2>6, RingsRest
  <1> QED
    BY <1>2, <1>3

\* sound_play's transport stores, before the play is published.
LEMMA PlayStoresInv ==
    ASSUME AudioInv, Unpause \/ Unstop
    PROVE  AudioInv'
  <1>0. game \in [pc : GamePlaces, command : Commands] /\ shared \in Atomics
        /\ game.pc \in {"unpause", "unstop"}
    BY DEF AudioInv, AudioTypeOK, GamePlaces, Atomics, Unpause, Unstop
  <1>1. UNCHANGED <<callback, ring, device, submitted, received, track, voice, heard, asked>>
    BY DEF Unpause, Unstop, callbackVars
  <1>2. /\ game' \in [pc : GamePlaces, command : Commands] /\ game'.command = game.command
        /\ game'.pc \in {"unstop", "publish"} /\ game'.pc = "publish" => Unstop
    BY <1>0 DEF Unpause, Unstop, GameGoes, GamePlaces
  <1>3. CASE Unpause
    <2>1. /\ shared' \in Atomics /\ shared'.epoch = shared.epoch
          /\ shared'.stopped = shared.stopped /\ game'.pc = "unstop"
      BY <1>0, <1>3 DEF Unpause, Atomics, GameGoes
    <2>2. AudioTypeOK'
      BY <1>1, <1>2, <2>1 DEF AudioInv, AudioTypeOK, GamePlaces, Atomics
    <2>3. EpochsOrdered'
      BY <1>0, <1>1, <1>2, <2>1 DEF AudioInv, EpochsOrdered, Ahead
    <2>4. ResetIsAlone' /\ \A r \in Rings : CommandFits(r)'
      BY <1>0, <1>1, <1>2, <2>1 DEF AudioInv, ResetIsAlone, CommandFits, Waiting
    <2> QED
      BY <1>1, <2>1, <2>2, <2>3, <2>4, RingsRest
  <1>4. CASE Unstop
    <2>1. /\ shared' \in Atomics /\ shared'.epoch = shared.epoch
          /\ shared'.stopped = FALSE /\ game'.pc = "publish"
      BY <1>0, <1>4 DEF Unstop, Atomics, GameGoes
    <2>2. AudioTypeOK'
      BY <1>1, <1>2, <2>1 DEF AudioInv, AudioTypeOK, GamePlaces, Atomics
    <2>3. EpochsOrdered'
      BY <1>0, <1>1, <1>2, <2>1 DEF AudioInv, EpochsOrdered, Ahead
    <2>4. ResetIsAlone' /\ \A r \in Rings : CommandFits(r)'
      BY <1>0, <1>1, <1>2, <2>1 DEF AudioInv, ResetIsAlone, CommandFits, Waiting
    <2> QED
      BY <1>1, <2>1, <2>2, <2>3, <2>4, RingsRest
  <1> QED
    BY <1>3, <1>4

\* The effects of one ring are not those of the other.
LEMMA RingNames == /\ \A command : RingOf(command) \in Rings
                   /\ \A r \in Rings : r \in {"effects", "sounds"}
                   /\ Advances["effects"] = "effects advance" /\ Advances["sounds"] = "sounds advance"
  BY DEF RingOf, Rings, Advances

\* The write index lies outside the waiting slots, so writing there disturbs none.
LEMMA WriteIndexIsFree ==
    ASSUME AudioTypeOK, NEW r \in Rings, NEW n \in 1..Waiting(r)
    PROVE  /\ (ring[r].read + n - 1) % SlotCount[r] # ring[r].write
           /\ (ring[r].read + n - 1) % SlotCount[r] \in SlotNumbers(r)
  <1> DEFINE c == SlotCount[r]
             i == ring[r].read
             j == ring[r].write
  <1>1. /\ c \in Nat /\ c >= 2 /\ i \in 0..c - 1 /\ j \in 0..c - 1
        /\ Waiting(r) = IF j >= i THEN j - i ELSE j + c - i
        /\ Waiting(r) \in 0..c - 1
    BY RingFacts
  <1>2. \A m \in 1..c : (i + m - 1) % c = IF i + m - 1 < c THEN i + m - 1 ELSE i + m - 1 - c
    <2>1. i \in SlotNumbers(r)
      BY DEF AudioTypeOK, RingStates
    <2> QED
      BY <2>1, RingSteps
  <1>3. SlotNumbers(r) = 0..c - 1
    BY DEF SlotNumbers
  <1> HIDE DEF c, i, j
  <1>4. n \in 1..c
    BY <1>1
  <1>5. (i + n - 1) % c # j /\ (i + n - 1) % c \in 0..c - 1
    BY <1>1, <1>2, <1>4
  <1> QED
    BY <1>3, <1>5 DEF c, i, j

\* The command is copied into the slot behind the waiting ones.
LEMMA WriteSlotInv ==
    ASSUME AudioInv, WriteSlot
    PROVE  AudioInv'
  <1>r. PICK r \in Rings : r = RingOf(game.command)
    BY RingNames
  <1>w. PICK w : w = ring[r].write
    OBVIOUS
  <1>0. /\ game \in [pc : GamePlaces, command : Commands] /\ game.pc = "slot" /\ AudioTypeOK
    BY DEF AudioInv, AudioTypeOK, GamePlaces, WriteSlot
  <1>1. /\ UNCHANGED <<callback, shared, device, submitted, received, track, voice, heard, asked>>
        /\ ring' = [ring EXCEPT ![r].slot[w] = game.command]
    BY <1>r, <1>w DEF WriteSlot, callbackVars
  <1>2. /\ game' \in [pc : GamePlaces, command : Commands] /\ game'.command = game.command
        /\ game'.pc = IF game.command.kind = "play" THEN "unpause" ELSE "publish"
    BY <1>0 DEF WriteSlot, GameGoes, GamePlaces
  <1>3. /\ DOMAIN ring = Rings /\ \A q \in Rings : ring[q] \in RingStates(q)
        /\ w \in SlotNumbers(r)
    BY <1>0, <1>w DEF AudioTypeOK, RingStates
  <1>4. /\ ring' = [q \in Rings |-> ring'[q]]
        /\ ring'[r] = [ring[r] EXCEPT !.slot = [ring[r].slot EXCEPT ![w] = game.command]]
        /\ \A q \in Rings : q # r => ring'[q] = ring[q]
    BY <1>0, <1>1, <1>3
  <1>5. /\ ring'[r].slot = [ring[r].slot EXCEPT ![w] = game.command]
        /\ \A q \in Rings : ring'[q].read = ring[q].read /\ ring'[q].write = ring[q].write
    BY <1>0, <1>3, <1>4 DEF RingStates
  <1>6. \A q \in Rings : ring'[q] \in RingStates(q)
    <2>1. ring[r].slot \in [SlotNumbers(r) -> Commands] /\ game.command \in Commands
      BY <1>0, <1>3 DEF RingStates
    <2>2. [ring[r].slot EXCEPT ![w] = game.command] \in [SlotNumbers(r) -> Commands]
      BY <2>1
    <2>3. ring'[r] \in RingStates(r)
      BY <1>3, <1>4, <2>2 DEF RingStates
    <2> QED
      BY <1>3, <1>4, <2>3
  <1>7. /\ \A i \in SlotNumbers(r) : i # w => ring'[r].slot[i] = ring[r].slot[i]
        /\ ring'[r].slot[w] = game.command
    BY <1>0, <1>3, <1>5 DEF RingStates
  <1>8. AudioTypeOK'
    BY <1>0, <1>1, <1>2, <1>4, <1>6 DEF AudioTypeOK, GamePlaces
  <1>9. \A q \in Rings : Waiting(q)' = Waiting(q) /\ Ahead(q)' = Ahead(q)
    BY <1>1, <1>5 DEF Waiting, Ahead
  <1>10. ASSUME NEW q \in Rings PROVE RingHolds(q)'
    <2>1. \A n \in 1..Waiting(q) :
            ring'[q].slot[(ring[q].read + n - 1) % SlotCount[q]]
              = ring[q].slot[(ring[q].read + n - 1) % SlotCount[q]]
      <3>1. CASE q # r
        BY <1>4, <3>1
      <3>2. CASE q = r
        <4> SUFFICES ASSUME NEW n \in 1..Waiting(r)
                     PROVE  ring'[r].slot[(ring[r].read + n - 1) % SlotCount[r]]
                              = ring[r].slot[(ring[r].read + n - 1) % SlotCount[r]]
          BY <3>2
        <4> QED
          BY <1>0, <1>7, <1>w, WriteIndexIsFree
      <3> QED
        BY <3>1, <3>2
    <2>2. RingHolds(q)
      BY DEF AudioInv
    <2> QED
      BY <1>1, <1>5, <1>9, <2>1, <2>2 DEF RingHolds
  <1>11. ASSUME NEW q \in Rings PROVE CommandFits(q)'
    <2>1. RingOf(game.command) = q => /\ q = r /\ Waiting(q) < SlotCount[q] - 1
                                      /\ ring'[q].slot[ring[q].write] = game.command
      BY <1>0, <1>7, <1>r, <1>w DEF AudioInv, CommandFits
    <2> QED
      BY <1>2, <1>5, <1>9, <2>1 DEF CommandFits
  <1>12. \A q \in Rings : CallbackBounded(q)'
    BY <1>1, <1>5, <1>9 DEF AudioInv, CallbackBounded, Reading
  <1>13. EpochsOrdered'
    <2>1. ring'["sounds"].read = ring["sounds"].read
      BY <1>5 DEF Rings
    <2> QED
      BY <1>0, <1>1, <1>2, <2>1 DEF AudioInv, EpochsOrdered, Ahead
  <1>14. TrackIsLastPlay' /\ ResetIsAlone' /\ StopSilencesEarlierTracks'
    BY <1>1, <1>2 DEF AudioInv, TrackIsLastPlay, LastPlay, ResetIsAlone,
       StopSilencesEarlierTracks, Playing
  <1> QED
    BY <1>8, <1>10, <1>11, <1>12, <1>13, <1>14 DEF AudioInv

\* The write index moves on: the command joins the waiting ones.
LEMMA PublishInv ==
    ASSUME AudioInv, Publish
    PROVE  AudioInv'
  <1>r. PICK r \in Rings : r = RingOf(game.command)
    BY RingNames
  <1>0. /\ game \in [pc : GamePlaces, command : Commands] /\ game.pc = "publish" /\ AudioTypeOK
    BY DEF AudioInv, AudioTypeOK, GamePlaces, Publish
  <1>1. /\ UNCHANGED <<callback, shared, device, received, track, voice, heard, asked>>
        /\ ring' = [ring EXCEPT ![r].write = Next1(r, @)]
        /\ submitted' = [submitted EXCEPT ![r] = Append(@, game.command)]
        /\ game' = [pc |-> "ready", command |-> NoCommand]
    BY <1>r DEF Publish, callbackVars
  <1>2. game' \in [pc : GamePlaces, command : Commands] /\ game'.pc = "ready"
    BY <1>1 DEF NoCommand, Commands, GamePlaces
  <1>3. /\ DOMAIN ring = Rings /\ \A q \in Rings : ring[q] \in RingStates(q)
        /\ \A q \in Rings : ring[q].read \in SlotNumbers(q) /\ ring[q].write \in SlotNumbers(q)
        /\ submitted \in [Rings -> Seq(Commands)] /\ received \in [Rings -> Seq(Commands)]
    BY <1>0 DEF AudioTypeOK, RingStates
  <1>4. /\ ring' = [q \in Rings |-> ring'[q]]
        /\ ring'[r] = [ring[r] EXCEPT !.write = Next1(r, ring[r].write)]
        /\ \A q \in Rings : q # r => ring'[q] = ring[q]
    BY <1>0, <1>1, <1>3
  <1>n. /\ Next1(r, ring[r].write) \in SlotNumbers(r)
        /\ Next1(r, ring[r].write) = IF ring[r].write + 1 = SlotCount[r] THEN 0 ELSE ring[r].write + 1
    BY <1>0, <1>3, RingSteps
  <1>5. /\ \A q \in Rings : ring'[q].slot = ring[q].slot /\ ring'[q].read = ring[q].read
        /\ ring'[r].write = Next1(r, ring[r].write)
        /\ \A q \in Rings : q # r => ring'[q].write = ring[q].write
    BY <1>0, <1>3, <1>4 DEF RingStates
  <1>6. \A q \in Rings : ring'[q] \in RingStates(q)
    <2>1. ring'[r] \in RingStates(r)
      BY <1>3, <1>4, <1>n DEF RingStates
    <2> QED
      BY <1>3, <1>4, <2>1
  <1>7. submitted' \in [Rings -> Seq(Commands)]
        /\ \A q \in Rings : submitted'[q] = IF q = r THEN Append(submitted[q], game.command)
                                             ELSE submitted[q]
    BY <1>0, <1>1, <1>3
  <1>8. AudioTypeOK'
    BY <1>0, <1>1, <1>2, <1>4, <1>6, <1>7 DEF AudioTypeOK, GamePlaces
  <1>9. /\ Waiting(r) < SlotCount[r] - 1 /\ ring[r].slot[ring[r].write] = game.command
    BY <1>0, <1>r DEF AudioInv, CommandFits
  <1>10. Waiting(r)' = Waiting(r) + 1
    <2>1. /\ SlotCount[r] \in Nat
          /\ ring[r].read \in 0..SlotCount[r] - 1 /\ ring[r].write \in 0..SlotCount[r] - 1
          /\ Waiting(r) = IF ring[r].write >= ring[r].read THEN ring[r].write - ring[r].read
                          ELSE ring[r].write + SlotCount[r] - ring[r].read
      BY <1>0, RingFacts
    <2>2. ring'[r].write = IF ring[r].write + 1 = SlotCount[r] THEN 0 ELSE ring[r].write + 1
      BY <1>5, <1>n
    <2>3. Waiting(r)' = IF ring'[r].write >= ring[r].read THEN ring'[r].write - ring[r].read
                        ELSE ring'[r].write + SlotCount[r] - ring[r].read
      <3>1. ring'[r].write \in SlotNumbers(r) /\ ring[r].read \in SlotNumbers(r)
        BY <1>0, <1>3, <1>5, <1>n
      <3>2. Waiting(r)' = Distance(r, ring[r].read, ring'[r].write)
        BY <1>0, <1>5 DEF Waiting, Distance
      <3> QED
        BY <1>0, <3>1, <3>2, RingSteps
    <2> QED
      BY <1>9, <2>1, <2>2, <2>3
  <1>11. \A q \in Rings : q # r => Waiting(q)' = Waiting(q)
    BY <1>5 DEF Waiting
  <1>12. \A q \in Rings : Ahead(q)' = Ahead(q)
    BY <1>1 DEF Ahead
  <1>13. ASSUME NEW q \in Rings, q # r PROVE RingHolds(q)'
    BY <1>1, <1>5, <1>7, <1>11, <1>12, <1>13 DEF AudioInv, RingHolds
  <1>14. RingHolds(r)'
    <2>t. PICK t : t = Len(received[r]) - Ahead(r)
      OBVIOUS
    <2>0. /\ submitted[r] \in Seq(Commands) /\ received[r] \in Seq(Commands)
          /\ Len(submitted[r]) \in Nat /\ Len(received[r]) \in Nat
          /\ Len(received[r]) <= Len(submitted[r])
      BY <1>0, TakenWasPublished
    <2>1. /\ Ahead(r) <= Waiting(r) /\ Ahead(r) <= Len(received[r])
          /\ Len(submitted[r]) = t + Waiting(r)
          /\ \A n \in 1..Len(received[r]) : received[r][n] = submitted[r][n]
          /\ \A n \in 1..Waiting(r) :
                submitted[r][t + n] = ring[r].slot[(ring[r].read + n - 1) % SlotCount[r]]
      BY <2>t DEF AudioInv, RingHolds
    <2>2. /\ Waiting(r) \in Nat /\ Ahead(r) \in {0, 1}
          /\ (ring[r].read + (Waiting(r) + 1) - 1) % SlotCount[r] = ring[r].write
      BY <1>0, RingFacts DEF Ahead
    <2>3. submitted'[r] = Append(submitted[r], game.command)
      BY <1>0, <1>7
    <2>4. t \in Nat /\ t <= Len(received[r])
      BY <2>0, <2>1, <2>2, <2>t
    <2>5. /\ Len(submitted'[r]) = Len(submitted[r]) + 1
          /\ \A n \in 1..Len(submitted[r]) : submitted'[r][n] = submitted[r][n]
          /\ submitted'[r][Len(submitted[r]) + 1] = game.command
      BY <2>0, <2>3, <1>0
    <2>6. ASSUME NEW n \in 1..Len(received[r]) PROVE received[r][n] = submitted'[r][n]
      <3>1. n \in 1..Len(submitted[r])
        BY <2>0
      <3> QED
        BY <2>1, <2>5, <3>1
    <2>7. ASSUME NEW n \in 1..(Waiting(r) + 1)
          PROVE  submitted'[r][t + n] = ring[r].slot[(ring[r].read + n - 1) % SlotCount[r]]
      <3>1. CASE n <= Waiting(r)
        <4>1. n \in 1..Waiting(r) /\ t + n \in 1..Len(submitted[r])
          BY <2>1, <2>2, <2>4, <3>1
        <4> QED
          BY <2>1, <2>5, <4>1
      <3>2. CASE n = Waiting(r) + 1
        <4>1. t + n = Len(submitted[r]) + 1
          BY <2>1, <2>2, <2>4, <3>2
        <4> QED
          BY <1>9, <2>2, <2>5, <3>2, <4>1
      <3> QED
        BY <2>2, <3>1, <3>2
    <2>8. Len(submitted'[r]) = t + (Waiting(r) + 1)
      BY <2>0, <2>1, <2>2, <2>4, <2>5
    <2>9. Ahead(r) <= Waiting(r) + 1
      BY <2>1, <2>2
    <2>10. /\ received' = received /\ ring'[r].slot = ring[r].slot /\ ring'[r].read = ring[r].read
           /\ Waiting(r)' = Waiting(r) + 1 /\ Ahead(r)' = Ahead(r)
      BY <1>0, <1>1, <1>5, <1>10, <1>12
    <2> QED
      BY <2>1, <2>6, <2>7, <2>8, <2>9, <2>10, <2>t DEF RingHolds
  <1>15. \A q \in Rings : CommandFits(q)'
    BY <1>2 DEF CommandFits
  <1>16. ASSUME NEW q \in Rings PROVE CallbackBounded(q)'
    <2>1. Waiting(q) \in Nat /\ (Waiting(q)' = Waiting(q) \/ Waiting(q)' = Waiting(q) + 1)
      <3>1. Waiting(q) \in Nat
        BY <1>0, RingFacts
      <3> QED
        BY <1>10, <1>11, <3>1
    <2>2. CallbackBounded(q)
      BY DEF AudioInv
    <2>3. callback.end \in SlotNumbers(q) => Distance(q, ring[q].read, callback.end) \in Nat
      BY <1>3, DistanceType
    <2> QED
      BY <1>1, <1>5, <1>12, <2>1, <2>2, <2>3 DEF CallbackBounded, Reading
  <1>17. EpochsOrdered'
    <2>0. EpochsOrdered /\ "sounds" \in Rings
      BY DEF AudioInv, Rings
    <2>1. CASE r # "sounds"
      BY <1>1, <1>2, <1>5, <1>7, <2>0, <2>1 DEF EpochsOrdered, Ahead
    <2>2. CASE r = "sounds"
      <3> DEFINE sounds == submitted["sounds"]
                 after == submitted'["sounds"]
      <3>0. /\ sounds \in Seq(Commands) /\ Len(sounds) \in Nat /\ DOMAIN sounds = 1..Len(sounds)
        BY <2>0, TakenWasPublished
      <3>1. /\ after = Append(sounds, game.command)
            /\ DOMAIN after = 1..(Len(sounds) + 1) /\ after[Len(sounds) + 1] = game.command
            /\ \A n \in 1..Len(sounds) : after[n] = sounds[n]
        <4>1. game.command \in Commands
          BY <1>0
        <4>2. after = Append(sounds, game.command)
          BY <1>7, <2>0, <2>2
        <4> HIDE DEF sounds, after
        <4> QED
          BY <3>0, <4>1, <4>2
      <3>2. /\ game.command.epoch = shared.epoch
            /\ game.command.kind = "play" => shared.stopped = FALSE
            /\ shared.epoch \in Nat
        BY <1>0, <2>0, EpochFacts DEF EpochsOrdered
      <3> HIDE DEF sounds, after
      <3>3. \A n \in DOMAIN after :
              /\ after[n].epoch <= shared.epoch
              /\ after[n].kind = "play" /\ shared.stopped = TRUE => after[n].epoch < shared.epoch
        <4>1. \A n \in 1..Len(sounds) :
                /\ sounds[n].epoch <= shared.epoch
                /\ sounds[n].kind = "play" /\ shared.stopped = TRUE => sounds[n].epoch < shared.epoch
          BY <2>0, <3>0 DEF EpochsOrdered, sounds
        <4>2. \A n \in DOMAIN after : n \in 1..Len(sounds) \/ n = Len(sounds) + 1
          BY <3>0, <3>1
        <4> QED
          BY <3>1, <3>2, <4>1, <4>2
      <3>4. ASSUME callback.pc \in {"sounds", "sounds advance"},
                   NEW n \in 1..(Len(received["sounds"]) - Ahead("sounds")
                                  + Distance("sounds", ring["sounds"].read, callback.end))
            PROVE  after[n].epoch <= callback.epoch
        <4>1. /\ callback.end \in SlotNumbers("sounds")
              /\ Distance("sounds", ring["sounds"].read, callback.end) <= Waiting("sounds")
              /\ Len(sounds) = Len(received["sounds"]) - Ahead("sounds") + Waiting("sounds")
          BY <2>0, <3>4, RingNames DEF AudioInv, CallbackBounded, RingHolds, Reading, sounds
        <4>2. /\ Distance("sounds", ring["sounds"].read, callback.end) \in Int
              /\ Waiting("sounds") \in Int /\ Len(received["sounds"]) \in Int
              /\ Ahead("sounds") \in Int
          <5>1. Distance("sounds", ring["sounds"].read, callback.end) \in Nat
            BY <1>3, <2>0, <4>1, DistanceType
          <5>2. Waiting("sounds") \in Nat
            BY <1>0, <2>0, RingFacts
          <5>3. Len(received["sounds"]) \in Nat
            BY <2>0, TakenWasPublished
          <5> QED
            BY <5>1, <5>2, <5>3 DEF Ahead
        <4>3. n \in 1..Len(sounds)
          BY <3>0, <4>1, <4>2
        <4>4. sounds[n].epoch <= callback.epoch
          BY <2>0, <3>4 DEF EpochsOrdered, sounds
        <4> QED
          BY <3>1, <4>3, <4>4
      <3>5. ring'["sounds"].read = ring["sounds"].read /\ Ahead("sounds")' = Ahead("sounds")
        BY <1>5, <1>12, <2>0
      <3> QED
        BY <1>1, <1>2, <2>0, <3>3, <3>4, <3>5 DEF EpochsOrdered, after
    <2> QED
      BY <2>1, <2>2
  <1>18. TrackIsLastPlay' /\ ResetIsAlone' /\ StopSilencesEarlierTracks'
    BY <1>1, <1>2 DEF AudioInv, TrackIsLastPlay, LastPlay, ResetIsAlone,
       StopSilencesEarlierTracks, Playing
  <1> QED
    <2>1. \A q \in Rings : RingHolds(q)'
      BY <1>13, <1>14
    <2> QED
      BY <1>8, <1>15, <1>16, <1>17, <1>18, <2>1 DEF AudioInv

\* crumb_audio_reset runs alone and leaves two empty rings.
LEMMA ResetMixerInv ==
    ASSUME AudioInv, ResetMixer
    PROVE  AudioInv'
  <1>0. /\ game \in [pc : GamePlaces, command : Commands] /\ shared \in Atomics
        /\ callback.pc = "idle" /\ AudioTypeOK
        /\ DOMAIN ring = Rings /\ \A q \in Rings : ring[q] \in RingStates(q)
    BY DEF AudioInv, AudioTypeOK, GamePlaces, Atomics, ResetMixer, ResetIsAlone
  <1>1. /\ UNCHANGED <<callback, device, heard, asked>>
        /\ submitted' = [r \in Rings |-> <<>>] /\ received' = [r \in Rings |-> <<>>]
        /\ ring' = [r \in Rings |-> [ring[r] EXCEPT !.read = 0, !.write = 0]]
        /\ track' = NoTrack /\ voice' = [v \in Voices |-> NoVoice]
    BY DEF ResetMixer, Reset
  <1>2. game' \in [pc : GamePlaces, command : Commands] /\ game'.pc = "off"
    BY <1>0 DEF ResetMixer, GameGoes, GamePlaces
  <1>3. shared' \in Atomics
    BY <1>0 DEF ResetMixer, Reset, Atomics
  <1>4. \A r \in Rings : 0 \in SlotNumbers(r)
    BY DEF SlotNumbers
  <1>5. \A r \in Rings : ring'[r] \in RingStates(r) /\ ring'[r].read = 0 /\ ring'[r].write = 0
    BY <1>0, <1>1, <1>4 DEF RingStates
  <1>6. ring' = [r \in Rings |-> ring'[r]]
    BY <1>1
  <1>7. AudioTypeOK'
    <2>0. <<>> \in Seq(Commands)
      OBVIOUS
    <2>1. submitted' \in [Rings -> Seq(Commands)] /\ received' \in [Rings -> Seq(Commands)]
      BY <1>1, <2>0
    <2>2. track' \in [id : Nat, epoch : Nat, at : Nat, length : Nat]
          /\ voice' \in [Voices -> [id : Nat, left : Nat]]
      BY <1>1 DEF NoTrack, NoVoice
    <2> QED
      BY <1>0, <1>1, <1>2, <1>3, <1>5, <1>6, <2>1, <2>2 DEF AudioTypeOK, GamePlaces, Atomics
  <1>8. ASSUME NEW r \in Rings PROVE RingHolds(r)' /\ CommandFits(r)' /\ CallbackBounded(r)'
    <2>0. callback'.pc = "idle" /\ Advances[r] # "idle" /\ r # "idle"
      BY <1>0, <1>1, RingNames
    <2>1. Waiting(r)' = 0
      <3>1. Waiting(r)' = Distance(r, 0, 0)
        BY <1>5 DEF Waiting, Distance
      <3> QED
        BY <1>4, <3>1, RingSteps
    <2>2. Ahead(r)' = 0 /\ Reading(r)' = FALSE
      BY <2>0 DEF Ahead, Reading
    <2>3. received'[r] = <<>> /\ submitted'[r] = <<>>
      BY <1>1
    <2>4. RingHolds(r)'
      BY <2>1, <2>2, <2>3 DEF RingHolds
    <2>5. CommandFits(r)' /\ CallbackBounded(r)'
      BY <1>2, <2>2 DEF CommandFits, CallbackBounded
    <2> QED
      BY <2>4, <2>5
  <1>9. received'["sounds"] = <<>> /\ submitted'["sounds"] = <<>> /\ callback'.pc = "idle"
    BY <1>0, <1>1 DEF Rings
  <1>10. EpochsOrdered'
    BY <1>2, <1>9 DEF EpochsOrdered
  <1>11. TrackIsLastPlay' /\ ResetIsAlone' /\ StopSilencesEarlierTracks'
    BY <1>2, <1>9 DEF TrackIsLastPlay, ResetIsAlone, StopSilencesEarlierTracks
  <1> QED
    BY <1>7, <1>8, <1>10, <1>11 DEF AudioInv

\* Every step of the game thread keeps the invariant.
LEMMA GameStepInv ==
    ASSUME AudioInv, GameStep
    PROVE  AudioInv'
  BY TransportInv, StopInv, StopFlagInv, SubmitInv, PlayStoresInv, WriteSlotInv, PublishInv,
     ResetMixerInv DEF GameStep

----------------------------------------------------------------------------
(* The callback thread. *)

\* The places of the callback, and its state.
Callbacks == [pc : {"idle", "effects", "effects advance", "epoch", "sounds", "sounds advance",
                    "stop epoch", "mix"},
              read : Nat, end : Nat, epoch : Nat, left : Nat, taken : Nat]
Tracks == [id : Nat, epoch : Nat, at : Nat, length : Nat]

\* The callback moves on without touching a ring, and takes nothing from one.
LEMMA CallbackRests ==
    ASSUME AudioInv, UNCHANGED <<game, ring, submitted, received>>,
           callback.pc \notin {"effects advance", "sounds advance"},
           callback'.pc \in {"idle", "stop epoch", "mix"}
    PROVE  \A r \in Rings : RingHolds(r)' /\ CommandFits(r)' /\ CallbackBounded(r)'
  <1> SUFFICES ASSUME NEW r \in Rings
               PROVE  RingHolds(r)' /\ CommandFits(r)' /\ CallbackBounded(r)'
    OBVIOUS
  <1>1. r \in {"effects", "sounds"} /\ Advances[r] \in {"effects advance", "sounds advance"}
    BY RingNames
  <1>2. Ahead(r) = 0 /\ Ahead(r)' = 0 /\ Waiting(r)' = Waiting(r) /\ Reading(r)' = FALSE
    BY <1>1 DEF Ahead, Waiting, Reading
  <1>3. RingHolds(r)'
    <2>1. RingHolds(r)
      BY DEF AudioInv
    <2> QED
      BY <1>2, <2>1 DEF RingHolds
  <1>4. CommandFits(r)'
    BY <1>2 DEF AudioInv, CommandFits
  <1>5. CallbackBounded(r)'
    BY <1>2 DEF CallbackBounded
  <1> QED
    BY <1>3, <1>4, <1>5

\* Nothing but the flags and the position changes for the game thread.
LEMMA MixerInv ==
    ASSUME AudioInv, CheckStopFlag \/ CheckStopEpoch \/ MixSample \/ CallbackEnds
    PROVE  AudioInv'
  <1>0. /\ callback \in Callbacks /\ track \in Tracks /\ shared \in Atomics
        /\ voice \in [Voices -> [id : Nat, left : Nat]] /\ AudioTypeOK
    BY DEF AudioInv, AudioTypeOK, Callbacks, Tracks, Atomics
  <1>1. /\ UNCHANGED <<game, ring, device, submitted, received, heard, asked>>
        /\ callback.pc \in {"sounds", "stop epoch", "mix"}
    BY DEF CheckStopFlag, CheckStopEpoch, MixSample, CallbackEnds, gameVars
  <1>2. /\ callback' \in Callbacks /\ callback'.pc \in {"idle", "stop epoch", "mix"}
        /\ callback'.pc = "idle" => CallbackEnds
        /\ callback'.pc = "stop epoch" => CheckStopFlag
    <2>1. CASE CheckStopFlag \/ CheckStopEpoch
      BY <1>0, <2>1 DEF CheckStopFlag, CheckStopEpoch, Mixing, CallbackGoes, Callbacks
    <2>2. CASE MixSample
      <3>1. callback.left \in Nat /\ callback.left > 0 /\ callback.pc = "mix"
            /\ callback' = [callback EXCEPT !.left = @ - 1]
        BY <1>0, <2>2 DEF MixSample, Callbacks
      <3>2. callback.left - 1 \in Nat
        BY <3>1
      <3> QED
        BY <1>0, <3>1, <3>2 DEF Callbacks
    <2>3. CASE CallbackEnds
      BY <1>0, <2>3 DEF CallbackEnds, CallbackGoes, Callbacks
    <2> QED
      BY <2>1, <2>2, <2>3
  <1>3. /\ shared' \in Atomics /\ shared'.epoch = shared.epoch /\ shared'.stopped = shared.stopped
    <2>1. CASE CallbackEnds
      <3>1. track.at \in Nat
        BY <1>0 DEF Tracks
      <3> QED
        BY <1>0, <2>1, <3>1 DEF CallbackEnds, Atomics
    <2>2. CASE shared' = shared
      BY <1>0, <2>2
    <2> QED
      BY <2>1, <2>2 DEF CheckStopFlag, CheckStopEpoch, MixSample
  <1>4. /\ track' \in Tracks
        /\ \/ /\ track'.id = track.id /\ track'.epoch = track.epoch
              /\ track'.length = track.length /\ track'.at >= track.at
           \/ CheckStopFlag /\ shared.stopped = TRUE /\ track' = NoTrack
           \/ CheckStopEpoch /\ track.epoch # shared.epoch /\ track' = NoTrack
    <2>0. track.at \in Nat /\ track.at >= track.at /\ NoTrack \in Tracks
      BY <1>0 DEF Tracks, NoTrack
    <2>1. CASE CheckStopFlag
      <3>1. (track' = NoTrack /\ shared.stopped = TRUE) \/ track' = track
        BY <1>0, <2>1 DEF CheckStopFlag, Atomics
      <3> QED
        BY <1>0, <2>0, <2>1, <3>1
    <2>2. CASE CheckStopEpoch
      <3>1. (track' = NoTrack /\ track.epoch # shared.epoch) \/ track' = track
        BY <2>2 DEF CheckStopEpoch
      <3> QED
        BY <1>0, <2>0, <2>2, <3>1
    <2>3. CASE MixSample
      <3>1. track' = track \/ track' = [track EXCEPT !.at = @ + 1]
        BY <2>3 DEF MixSample
      <3> QED
        BY <1>0, <2>0, <3>1 DEF Tracks
    <2>4. CASE CallbackEnds
      BY <1>0, <2>0, <2>4 DEF CallbackEnds
    <2> QED
      BY <2>1, <2>2, <2>3, <2>4
  <1>5. voice' \in [Voices -> [id : Nat, left : Nat]]
    <2>1. CASE MixSample
      <3>1. ASSUME NEW v \in Voices
            PROVE  (IF voice[v].left > 0 THEN [voice[v] EXCEPT !.left = @ - 1] ELSE voice[v])
                      \in [id : Nat, left : Nat]
        <4>1. voice[v] \in [id : Nat, left : Nat]
          BY <1>0
        <4> QED
          BY <4>1
      <3> QED
        BY <2>1, <3>1 DEF MixSample
    <2>2. CASE voice' = voice
      BY <1>0, <2>2
    <2> QED
      BY <2>1, <2>2 DEF CheckStopFlag, CheckStopEpoch, CallbackEnds
  <1>6. AudioTypeOK'
    BY <1>0, <1>1, <1>2, <1>3, <1>4, <1>5 DEF AudioTypeOK, Callbacks, Tracks, Atomics
  <1>7. \A r \in Rings : RingHolds(r)' /\ CommandFits(r)' /\ CallbackBounded(r)'
    BY <1>1, <1>2, CallbackRests
  <1>8. EpochsOrdered'
    BY <1>1, <1>2, <1>3 DEF AudioInv, EpochsOrdered
  <1>9. TrackIsLastPlay'
    <2> SUFFICES ASSUME NEW n \in DOMAIN received["sounds"], LastPlay(n),
                        received["sounds"][n].epoch = shared.epoch
                 PROVE  /\ track'.id = received["sounds"][n].id
                        /\ track'.epoch = received["sounds"][n].epoch
      BY <1>1, <1>3 DEF TrackIsLastPlay, LastPlay
    <2>1. track.id = received["sounds"][n].id /\ track.epoch = received["sounds"][n].epoch
      BY DEF AudioInv, TrackIsLastPlay
    <2>2. /\ n \in DOMAIN submitted["sounds"] /\ submitted["sounds"][n] = received["sounds"][n]
          /\ received["sounds"][n].kind = "play"
      <3>1. "sounds" \in Rings
        BY DEF Rings
      <3>2. /\ DOMAIN submitted["sounds"] = 1..Len(submitted["sounds"]) /\ Len(submitted["sounds"]) \in Nat
            /\ DOMAIN received["sounds"] = 1..Len(received["sounds"]) /\ Len(received["sounds"]) \in Nat
            /\ Len(received["sounds"]) <= Len(submitted["sounds"])
            /\ \A m \in 1..Len(received["sounds"]) : received["sounds"][m] = submitted["sounds"][m]
        BY <3>1, TakenWasPublished
      <3> QED
        BY <3>2 DEF LastPlay
    <2>3. shared.stopped # TRUE
      <3>1. shared.epoch \in Nat
        BY EpochFacts
      <3>2. shared.stopped = TRUE => submitted["sounds"][n].epoch < shared.epoch
        BY <2>2 DEF AudioInv, EpochsOrdered
      <3>3. ~(shared.epoch < shared.epoch)
        BY <3>1
      <3> QED
        BY <2>2, <3>2, <3>3
    <2> QED
      BY <1>4, <2>1, <2>3
  <1>10. StopSilencesEarlierTracks'
    <2> SUFFICES ASSUME callback'.pc = "mix", Playing' PROVE track'.epoch >= heard'
      BY DEF StopSilencesEarlierTracks
    <2>1. track' # NoTrack
      BY DEF Playing, NoTrack
    <2>2. CASE CheckStopFlag
      <3>1. callback'.pc # "mix" \/ track' = NoTrack
        BY <1>0, <2>2 DEF CheckStopFlag, CallbackGoes, Callbacks
      <3> QED
        BY <2>1, <3>1
    <2>3. CASE CheckStopEpoch
      <3>1. track' = track /\ track.epoch = shared.epoch /\ callback.pc = "stop epoch"
        BY <2>1, <2>3 DEF CheckStopEpoch
      <3>2. heard <= shared.epoch /\ heard \in Nat /\ shared.epoch \in Nat
        BY <3>1, EpochFacts
      <3> QED
        BY <1>1, <3>1, <3>2
    <2>4. CASE MixSample
      <3>1. callback.pc = "mix"
        BY <2>4 DEF MixSample
      <3>2. track'.epoch = track.epoch /\ track'.length = track.length /\ track'.at >= track.at
        BY <1>1, <1>4, <2>1, <3>1 DEF CheckStopFlag, CheckStopEpoch
      <3>3. track'.at \in Nat /\ track.at \in Nat /\ track.length \in Nat
        BY <1>0, <1>4 DEF Tracks
      <3>4. Playing
        BY <3>2, <3>3 DEF Playing
      <3> QED
        BY <1>1, <3>1, <3>2, <3>4 DEF AudioInv, StopSilencesEarlierTracks
    <2>5. CASE CallbackEnds
      BY <1>0, <2>5 DEF CallbackEnds, CallbackGoes, Callbacks
    <2> QED
      BY <2>2, <2>3, <2>4, <2>5
  <1>11. ResetIsAlone'
    BY <1>1 DEF AudioInv, ResetIsAlone
  <1> QED
    BY <1>6, <1>7, <1>8, <1>9, <1>10, <1>11 DEF AudioInv

\* No slot is held before or after: what the rings hold is the same.
LEMMA HoldsRest ==
    ASSUME AudioInv, UNCHANGED <<game, ring, submitted, received>>,
           callback.pc \notin {"effects advance", "sounds advance"},
           callback'.pc \notin {"effects advance", "sounds advance"}
    PROVE  \A r \in Rings : RingHolds(r)' /\ CommandFits(r)'
  <1> SUFFICES ASSUME NEW r \in Rings PROVE RingHolds(r)' /\ CommandFits(r)'
    OBVIOUS
  <1>1. Ahead(r) = 0 /\ Ahead(r)' = 0 /\ Waiting(r)' = Waiting(r)
    BY RingNames DEF Ahead, Waiting
  <1>2. RingHolds(r) /\ CommandFits(r)
    BY DEF AudioInv
  <1>3. RingHolds(r)'
    BY <1>1, <1>2 DEF RingHolds
  <1> QED
    BY <1>1, <1>2, <1>3 DEF CommandFits

\* The callback reads a write index, or the epoch it holds commands against.
LEMMA ReadIndexInv ==
    ASSUME AudioInv, CallbackBegins \/ EffectsReceived \/ ReadEpoch
    PROVE  AudioInv'
  <1>0. /\ callback \in Callbacks /\ AudioTypeOK /\ "effects" \in Rings /\ "sounds" \in Rings
        /\ \A r \in Rings : ring[r] \in RingStates(r)
    BY DEF AudioInv, AudioTypeOK, Callbacks, Rings
  <1>1. /\ UNCHANGED <<game, ring, shared, device, track, voice, submitted, received, asked>>
        /\ callback.pc \in {"idle", "effects", "epoch"}
        /\ heard' = heard \/ heard' = shared.epoch
    BY DEF CallbackBegins, EffectsReceived, ReadEpoch, gameVars
  <1>2. \A r \in Rings : /\ ring[r].read \in SlotNumbers(r) /\ ring[r].write \in SlotNumbers(r)
                         /\ ring[r].read \in Nat /\ ring[r].write \in Nat
    BY <1>0 DEF RingStates, SlotNumbers
  <1>3. shared.epoch \in Nat /\ heard \in Nat
    BY EpochFacts
  <1>4. CASE CallbackBegins \/ EffectsReceived
    <2>1. PICK r \in Rings :
            /\ callback' = [callback EXCEPT !.pc = IF r = "effects" THEN "effects" ELSE "epoch",
                                            !.read = ring[r].read, !.end = ring[r].write, !.taken = 0]
            /\ r = "effects" => CallbackBegins
            /\ r = "sounds" => EffectsReceived
      <3>1. CASE CallbackBegins
        BY <1>0, <3>1 DEF CallbackBegins, Receives
      <3>2. CASE EffectsReceived
        BY <1>0, <3>2 DEF EffectsReceived, Receives
      <3> QED
        BY <1>4, <3>1, <3>2
    <2>2. /\ callback' \in Callbacks
          /\ callback'.pc = IF r = "effects" THEN "effects" ELSE "epoch"
          /\ callback'.read = ring[r].read /\ callback'.end = ring[r].write /\ callback'.taken = 0
      BY <1>0, <1>2, <2>1 DEF Callbacks
    <2>3. AudioTypeOK'
      <3>1. heard' \in Nat
        BY <1>1, <1>3
      <3> QED
        BY <1>0, <1>1, <2>2, <3>1 DEF AudioTypeOK, Callbacks
    <2>4. \A q \in Rings : RingHolds(q)' /\ CommandFits(q)'
      BY <1>1, <2>2, HoldsRest
    <2>5. ASSUME NEW q \in Rings PROVE CallbackBounded(q)'
      <3>1. CASE q # r
        <4>1. ~Reading(q)'
          BY <2>2, <3>1, RingNames DEF Reading, Rings
        <4> QED
          BY <4>1 DEF CallbackBounded
      <3>2. CASE q = r
        <4>1. Distance(r, ring[r].read, callback'.end) = Waiting(r)
          BY <2>2 DEF Waiting
        <4>2. Waiting(r) \in Nat /\ Waiting(r) < SlotCount[r] /\ SlotCount[r] \in Nat
          BY <1>0, RingFacts
        <4>3. Ahead(r)' = 0 /\ Waiting(r)' = Waiting(r)
          BY <1>1, <2>2, RingNames DEF Ahead, Waiting
        <4>4. 0 <= Waiting(r) /\ Waiting(r) <= Waiting(r) /\ 0 + Waiting(r) < SlotCount[r]
          BY <4>2
        <4> QED
          BY <1>1, <1>2, <2>2, <3>2, <4>1, <4>3, <4>4 DEF CallbackBounded
      <3> QED
        BY <3>1, <3>2
    <2>6. EpochsOrdered'
      <3>1. heard' <= shared.epoch
        <4>1. CASE CallbackBegins
          BY <1>3, <4>1 DEF CallbackBegins
        <4>2. CASE EffectsReceived
          BY <4>2, EpochFacts DEF EffectsReceived
        <4> QED
          BY <1>4, <4>1, <4>2
      <3> QED
        BY <1>1, <2>2, <3>1 DEF AudioInv, EpochsOrdered
    <2>7. ResetIsAlone'
      BY <1>1, <1>4 DEF AudioInv, ResetIsAlone, CallbackBegins, EffectsReceived
    <2>8. TrackIsLastPlay' /\ StopSilencesEarlierTracks'
      BY <1>1, <2>2 DEF AudioInv, TrackIsLastPlay, LastPlay, StopSilencesEarlierTracks
    <2> QED
      BY <2>3, <2>4, <2>5, <2>6, <2>7, <2>8 DEF AudioInv
  <1>5. CASE ReadEpoch
    <2>1. /\ callback.pc = "epoch" /\ callback' \in Callbacks /\ callback'.pc = "sounds"
          /\ callback'.read = callback.read /\ callback'.end = callback.end
          /\ callback'.taken = callback.taken /\ callback'.epoch = shared.epoch /\ heard' = heard
      BY <1>0, <1>3, <1>5 DEF ReadEpoch, Callbacks
    <2>2. AudioTypeOK'
      BY <1>0, <1>1, <2>1 DEF AudioTypeOK, Callbacks
    <2>3. \A q \in Rings : RingHolds(q)' /\ CommandFits(q)'
      BY <1>1, <2>1, HoldsRest
    <2>4. \A q \in Rings : Ahead(q) = 0 /\ Ahead(q)' = 0 /\ Waiting(q)' = Waiting(q)
      BY <1>1, <2>1, RingNames DEF Ahead, Waiting
    <2>5. CallbackBounded("sounds") /\ Reading("sounds")
      BY <1>0, <2>1 DEF AudioInv, Reading
    <2>6. ASSUME NEW q \in Rings PROVE CallbackBounded(q)'
      <3>1. CASE q = "sounds"
        BY <1>1, <2>1, <2>4, <2>5, <3>1 DEF CallbackBounded
      <3>2. CASE q = "effects"
        <4>1. ~Reading(q)'
          BY <2>1, <3>2, RingNames DEF Reading
        <4> QED
          BY <4>1 DEF CallbackBounded
      <3> QED
        BY <3>1, <3>2, RingNames
    <2>7. EpochsOrdered'
      <3>1. /\ callback.end \in SlotNumbers("sounds")
            /\ Distance("sounds", ring["sounds"].read, callback.end) <= Waiting("sounds")
            /\ Len(submitted["sounds"]) = Len(received["sounds"]) - Ahead("sounds") + Waiting("sounds")
        BY <1>0, <2>5 DEF CallbackBounded, AudioInv, RingHolds
      <3>2. Distance("sounds", ring["sounds"].read, callback.end) \in Nat
        BY <1>0, <1>2, <3>1, DistanceType
      <3>3. Waiting("sounds") \in Nat
        BY <1>0, RingFacts
      <3>4. /\ Len(received["sounds"]) \in Nat /\ Len(submitted["sounds"]) \in Nat
            /\ DOMAIN submitted["sounds"] = 1..Len(submitted["sounds"])
        BY <1>0, TakenWasPublished
      <3>5. Ahead("sounds") = 0 /\ Ahead("sounds")' = 0
        BY <1>0, <2>4
      <3>6. ASSUME NEW n \in 1..(Len(received["sounds"]) - 0
                                  + Distance("sounds", ring["sounds"].read, callback.end))
            PROVE  submitted["sounds"][n].epoch <= shared.epoch
        <4>1. n \in DOMAIN submitted["sounds"]
          BY <3>1, <3>2, <3>3, <3>4, <3>5
        <4> QED
          BY <4>1, EpochFacts
      <3>7. shared.epoch <= shared.epoch
        BY <1>3
      <3> QED
        BY <1>1, <2>1, <3>5, <3>6, <3>7 DEF AudioInv, EpochsOrdered
    <2>8. TrackIsLastPlay' /\ ResetIsAlone' /\ StopSilencesEarlierTracks'
      BY <1>1, <2>1 DEF AudioInv, TrackIsLastPlay, LastPlay, ResetIsAlone,
         StopSilencesEarlierTracks
    <2> QED
      BY <2>2, <2>3, <2>6, <2>7, <2>8 DEF AudioInv
  <1> QED
    BY <1>4, <1>5

\* The callback copies the oldest waiting command, which is the next one published.
LEMMA TakeHolds ==
    ASSUME AudioInv, NEW r \in Rings, Take(r)
    PROVE  /\ Taken(r) \in Commands
           /\ received' \in [Rings -> Seq(Commands)] /\ callback' \in Callbacks
           /\ received'[r] = Append(received[r], Taken(r))
           /\ Len(received[r]) + 1 <= Len(submitted[r])
           /\ submitted[r][Len(received[r]) + 1] = Taken(r)
           /\ Distance(r, ring[r].read, callback.end) \in Nat \ {0}
           /\ \A q \in Rings : RingHolds(q)' /\ CommandFits(q)' /\ CallbackBounded(q)'
  <1>0. /\ callback \in Callbacks /\ AudioTypeOK /\ received \in [Rings -> Seq(Commands)]
        /\ \A q \in Rings : ring[q] \in RingStates(q)
    BY DEF AudioInv, AudioTypeOK, Callbacks
  <1>1. /\ UNCHANGED <<game, ring, submitted>>
        /\ callback.pc = r /\ callback.read # callback.end
        /\ received' = [received EXCEPT ![r] = Append(@, Taken(r))]
        /\ callback' = [callback EXCEPT !.pc = Advances[r]]
    BY DEF Take, gameVars, CallbackGoes
  <1>2. /\ callback' \in Callbacks /\ callback'.pc = Advances[r]
        /\ callback'.read = callback.read /\ callback'.end = callback.end
        /\ callback'.taken = callback.taken
    BY <1>0, <1>1, RingNames DEF Callbacks
  <1>3. Reading(r) /\ CallbackBounded(r) /\ RingHolds(r)
    BY <1>1 DEF Reading, AudioInv
  <1>4. PICK left : left = Distance(r, ring[r].read, callback.end)
    OBVIOUS
  <1>5. /\ callback.read = ring[r].read /\ callback.end \in SlotNumbers(r)
        /\ left <= Waiting(r) /\ callback.taken + left < SlotCount[r]
    BY <1>3, <1>4 DEF CallbackBounded
  <1>6. /\ ring[r].read \in SlotNumbers(r) /\ ring[r].slot \in [SlotNumbers(r) -> Commands]
    BY <1>0 DEF RingStates
  <1>7. left \in Nat /\ left # 0
    <2>1. /\ SlotCount[r] \in Nat
          /\ left = IF callback.end >= ring[r].read THEN callback.end - ring[r].read
                    ELSE callback.end + SlotCount[r] - ring[r].read
      <3>1. /\ SlotCount[r] \in Nat
            /\ \A j \in SlotNumbers(r) : Distance(r, ring[r].read, j) =
                  IF j >= ring[r].read THEN j - ring[r].read ELSE j + SlotCount[r] - ring[r].read
        BY <1>6, RingSteps
      <3>2. callback.end \in SlotNumbers(r)
        BY <1>5
      <3> QED
        BY <1>4, <3>1, <3>2
    <2>2. ring[r].read \in 0..SlotCount[r] - 1 /\ callback.end \in 0..SlotCount[r] - 1
      BY <1>5, <1>6 DEF SlotNumbers
    <2>3. callback.end # ring[r].read
      BY <1>1, <1>5
    <2> QED
      BY <2>1, <2>2, <2>3
  <1>8. Waiting(r) \in Nat /\ Waiting(r) >= 1 /\ Ahead(r) = 0 /\ Ahead(r)' = 1
    <2>1. Waiting(r) \in Nat
      BY <1>0, RingFacts
    <2>2. Ahead(r) = 0 /\ Ahead(r)' = 1
      BY <1>1, <1>2, RingNames DEF Ahead
    <2> QED
      BY <1>5, <1>7, <2>1, <2>2
  <1>9. Taken(r) = ring[r].slot[ring[r].read] /\ Taken(r) \in Commands
    BY <1>5, <1>6 DEF Taken
  <1>s. PICK taken : taken = Taken(r)
    OBVIOUS
  <1>10. /\ received' \in [Rings -> Seq(Commands)]
         /\ received'[r] = Append(received[r], taken)
         /\ \A q \in Rings : q # r => received'[q] = received[q]
    <2>1. received[r] \in Seq(Commands) /\ Append(received[r], taken) \in Seq(Commands)
      BY <1>0, <1>9, <1>s
    <2> QED
      BY <1>0, <1>1, <1>s, <2>1
  <1>11. /\ received[r] \in Seq(Commands) /\ Len(received[r]) \in Nat /\ Len(submitted[r]) \in Nat
    BY TakenWasPublished
  <1>12. /\ Len(submitted[r]) = Len(received[r]) - 0 + Waiting(r)
         /\ \A n \in 1..Len(received[r]) : received[r][n] = submitted[r][n]
         /\ \A n \in 1..Waiting(r) :
               submitted[r][Len(received[r]) - 0 + n] = ring[r].slot[(ring[r].read + n - 1) % SlotCount[r]]
    BY <1>3, <1>8 DEF RingHolds
  <1>13. submitted[r][Len(received[r]) + 1] = taken
    <2>1. (ring[r].read + 1 - 1) % SlotCount[r] = ring[r].read
      <3>1. /\ SlotCount[r] \in Nat /\ SlotCount[r] >= 2 /\ ring[r].read \in 0..SlotCount[r] - 1
            /\ \A n \in 1..SlotCount[r] :
                 (ring[r].read + n - 1) % SlotCount[r] =
                    IF ring[r].read + n - 1 < SlotCount[r] THEN ring[r].read + n - 1
                    ELSE ring[r].read + n - 1 - SlotCount[r]
        BY <1>6, RingSteps DEF SlotNumbers
      <3>2. 1 \in 1..SlotCount[r] /\ ring[r].read + 1 - 1 = ring[r].read /\ ring[r].read < SlotCount[r]
        BY <3>1
      <3> QED
        BY <3>1, <3>2
    <2>2. 1 \in 1..Waiting(r) /\ Len(received[r]) - 0 + 1 = Len(received[r]) + 1
      BY <1>8, <1>11
    <2> QED
      BY <1>9, <1>12, <1>s, <2>1, <2>2
  <1>14. RingHolds(r)'
    <2>1. /\ Len(received'[r]) = Len(received[r]) + 1
          /\ \A n \in 1..Len(received[r]) : received'[r][n] = received[r][n]
          /\ received'[r][Len(received[r]) + 1] = taken
      BY <1>9, <1>10, <1>11, <1>s
    <2>2. Waiting(r)' = Waiting(r) /\ ring'[r] = ring[r] /\ submitted'[r] = submitted[r]
      BY <1>1 DEF Waiting
    <2>3. \A n \in 1..Len(received'[r]) : received'[r][n] = submitted[r][n]
      <3>1. \A n \in 1..Len(received'[r]) : n \in 1..Len(received[r]) \/ n = Len(received[r]) + 1
        BY <1>11, <2>1
      <3> QED
        BY <1>12, <1>13, <2>1, <3>1
    <2>4. /\ Len(received'[r]) - 1 = Len(received[r]) - 0 /\ 1 <= Len(received'[r]) /\ 1 <= Waiting(r)
      BY <1>8, <1>11, <2>1
    <2>5. /\ Ahead(r)' <= Waiting(r)' /\ Ahead(r)' <= Len(received'[r])
          /\ Len(received'[r]) - Ahead(r)' = Len(received[r]) - 0
      BY <1>8, <2>2, <2>4
    <2>6. /\ Len(submitted'[r]) = Len(received'[r]) - Ahead(r)' + Waiting(r)'
          /\ \A n \in 1..Waiting(r)' : submitted'[r][Len(received'[r]) - Ahead(r)' + n]
                                       = ring'[r].slot[(ring'[r].read + n - 1) % SlotCount[r]]
      BY <1>12, <2>2, <2>5
    <2>7. \A n \in 1..Len(received'[r]) : received'[r][n] = submitted'[r][n]
      BY <2>2, <2>3
    <2> QED
      BY <2>5, <2>6, <2>7 DEF RingHolds
  <1>15. \A q \in Rings : CommandFits(q)'
    BY <1>1 DEF AudioInv, CommandFits, Waiting
  <1>16. CallbackBounded(r)'
    <2>1. Distance(r, ring[r].read, callback.end)' = left
      BY <1>1, <1>2, <1>4 DEF Distance
    <2>2. 1 <= left /\ Waiting(r)' = Waiting(r)
      BY <1>1, <1>7 DEF Waiting
    <2> QED
      BY <1>1, <1>2, <1>5, <1>8, <2>1, <2>2 DEF CallbackBounded
  <1>17. ASSUME NEW q \in Rings, q # r PROVE RingHolds(q)' /\ CallbackBounded(q)'
    <2>1. Ahead(q) = 0 /\ Ahead(q)' = 0 /\ Waiting(q)' = Waiting(q) /\ ~Reading(q)'
      BY <1>1, <1>2, <1>17, RingNames DEF Ahead, Waiting, Reading, Rings
    <2>2. RingHolds(q) /\ received'[q] = received[q]
      BY <1>10, <1>17 DEF AudioInv
    <2>3. RingHolds(q)'
      BY <1>1, <2>1, <2>2 DEF RingHolds
    <2> QED
      BY <2>1, <2>3 DEF CallbackBounded
  <1>18. Len(received[r]) + 1 <= Len(submitted[r])
    BY <1>8, <1>11, <1>12
  <1>19. \A q \in Rings : RingHolds(q)' /\ CommandFits(q)' /\ CallbackBounded(q)'
    BY <1>14, <1>15, <1>16, <1>17
  <1> QED
    BY <1>2, <1>4, <1>7, <1>9, <1>10, <1>13, <1>18, <1>19, <1>s

\* An effect starts in a voice; a full set of voices drops it.
LEMMA TakeEffectInv ==
    ASSUME AudioInv, TakeEffect
    PROVE  AudioInv'
  <1>0. /\ callback \in Callbacks /\ AudioTypeOK /\ "effects" \in Rings
        /\ voice \in [Voices -> [id : Nat, left : Nat]] /\ received \in [Rings -> Seq(Commands)]
    BY DEF AudioInv, AudioTypeOK, Callbacks, Rings
  <1>1. /\ Take("effects") /\ UNCHANGED <<game, submitted, asked, ring, shared, device, heard, track>>
        /\ callback.pc = "effects" /\ callback' = [callback EXCEPT !.pc = Advances["effects"]]
        /\ received' = [received EXCEPT !["effects"] = Append(@, Taken("effects"))]
    BY DEF TakeEffect, Take, gameVars, CallbackGoes
  <1>2. /\ Taken("effects") \in Commands /\ received' \in [Rings -> Seq(Commands)]
        /\ callback' \in Callbacks
        /\ \A q \in Rings : RingHolds(q)' /\ CommandFits(q)' /\ CallbackBounded(q)'
    BY <1>0, <1>1, TakeHolds
  <1>3. callback'.pc = "effects advance" /\ received'["sounds"] = received["sounds"]
    BY <1>0, <1>1, RingNames DEF Callbacks, Rings
  <1>4. voice' \in [Voices -> [id : Nat, left : Nat]]
    <2>1. [id |-> Taken("effects").id, left |-> EffectSamples] \in [id : Nat, left : Nat]
      BY <1>2 DEF Commands
    <2> QED
      BY <1>0, <2>1 DEF TakeEffect
  <1>5. AudioTypeOK'
    BY <1>0, <1>1, <1>2, <1>4 DEF AudioTypeOK, Callbacks
  <1>6. EpochsOrdered'
    BY <1>1, <1>3 DEF AudioInv, EpochsOrdered
  <1>7. TrackIsLastPlay'
    <2>1. \A n : LastPlay(n)' <=> LastPlay(n)
      BY <1>3 DEF LastPlay
    <2>2. TrackIsLastPlay
      BY DEF AudioInv
    <2> QED
      BY <1>1, <1>3, <2>1, <2>2 DEF TrackIsLastPlay
  <1>8. ResetIsAlone' /\ StopSilencesEarlierTracks'
    BY <1>1, <1>3 DEF AudioInv, ResetIsAlone, StopSilencesEarlierTracks
  <1> QED
    BY <1>2, <1>5, <1>6, <1>7, <1>8 DEF AudioInv

\* A sound command of the epoch the callback has read: a play becomes the track.
LEMMA TakeSoundInv ==
    ASSUME AudioInv, TakeSound
    PROVE  AudioInv'
  <1> DEFINE L == Len(received["sounds"])
             D == Distance("sounds", ring["sounds"].read, callback.end)
  <1>t. PICK taken : taken = Taken("sounds")
    OBVIOUS
  <1>0. /\ callback \in Callbacks /\ AudioTypeOK /\ "sounds" \in Rings /\ track \in Tracks
        /\ voice \in [Voices -> [id : Nat, left : Nat]] /\ received \in [Rings -> Seq(Commands)]
    BY DEF AudioInv, AudioTypeOK, Callbacks, Rings, Tracks
  <1>1. /\ Take("sounds") /\ UNCHANGED <<game, submitted, asked, ring, shared, device, heard, voice>>
        /\ callback.pc = "sounds" /\ callback' = [callback EXCEPT !.pc = Advances["sounds"]]
    BY DEF TakeSound, Take, gameVars, CallbackGoes
  <1>2. /\ taken \in Commands /\ received' \in [Rings -> Seq(Commands)]
        /\ callback' \in Callbacks
        /\ received'["sounds"] = Append(received["sounds"], taken)
        /\ submitted["sounds"][L + 1] = taken
        /\ D \in Nat \ {0}
        /\ \A q \in Rings : RingHolds(q)' /\ CommandFits(q)' /\ CallbackBounded(q)'
    BY <1>0, <1>1, <1>t, TakeHolds
  <1>3. /\ callback'.pc = "sounds advance" /\ callback'.end = callback.end
        /\ callback'.epoch = callback.epoch
        /\ Ahead("sounds") = 0 /\ Ahead("sounds")' = 1
    BY <1>0, <1>1, RingNames DEF Callbacks, Ahead
  <1>r. received["sounds"] \in Seq(Commands)
    BY <1>0
  <1>4. /\ L \in Nat /\ DOMAIN received["sounds"] = 1..L
        /\ Len(received'["sounds"]) = L + 1 /\ DOMAIN received'["sounds"] = 1..(L + 1)
        /\ received'["sounds"][L + 1] = taken
        /\ \A n \in 1..L : received'["sounds"][n] = received["sounds"][n]
    BY <1>2, <1>r
  <1>5. /\ track' \in Tracks
        /\ \/ /\ track'.id = track.id /\ track'.epoch = track.epoch
              /\ taken.epoch # callback.epoch \/ taken.kind # "play"
           \/ track'.id = taken.id /\ track'.epoch = taken.epoch /\ taken.kind = "play"
    <2>1. CASE taken.epoch # callback.epoch
      <3>0. Taken("sounds").epoch # callback.epoch
        BY <1>t, <2>1
      <3>1. track' = track
        BY <3>0 DEF TakeSound
      <3> QED
        BY <1>0, <2>1, <3>1
    <2>2. CASE taken.epoch = callback.epoch /\ taken.kind = "play"
      <3>1. track' = [id |-> taken.id, epoch |-> taken.epoch, at |-> 0, length |-> TrackSamples]
        BY <1>t, <2>2 DEF TakeSound
      <3> QED
        BY <1>2, <2>2, <3>1 DEF Tracks, Commands
    <2>3. CASE taken.epoch = callback.epoch /\ taken.kind # "play"
      <3>1. track' = [track EXCEPT !.at = Min({taken.to, track.length})]
        BY <1>t, <2>3 DEF TakeSound
      <3>2. taken.to \in Nat /\ track.length \in Nat
        BY <1>0, <1>2 DEF Commands, Tracks
      <3>3. Min({taken.to, track.length}) \in Nat
        BY <3>2 DEF Min
      <3> QED
        BY <1>0, <2>3, <3>1, <3>3 DEF Tracks
    <2> QED
      BY <2>1, <2>2, <2>3
  <1>6. AudioTypeOK'
    BY <1>0, <1>1, <1>2, <1>5 DEF AudioTypeOK, Callbacks, Tracks
  <1>7. /\ callback.epoch <= shared.epoch
        /\ \A n \in 1..(L - 0 + D) : submitted["sounds"][n].epoch <= callback.epoch
    BY <1>1, <1>3 DEF AudioInv, EpochsOrdered
  <1>8. EpochsOrdered'
    <2>1. Len(received'["sounds"]) - Ahead("sounds")' + D = L - 0 + D
      <3>1. Len(received'["sounds"]) = L + 1 /\ Ahead("sounds")' = 1 /\ L \in Nat
        BY <1>3, <1>4
      <3> HIDE DEF L, D
      <3>2. Len(received'["sounds"]) - Ahead("sounds")' = L - 0
        BY <3>1
      <3> QED
        BY <3>2
    <2>2. Distance("sounds", ring["sounds"].read, callback.end)' = D
      BY <1>1, <1>3 DEF Distance
    <2> HIDE DEF L, D
    <2> QED
      BY <1>1, <1>3, <1>7, <2>1, <2>2 DEF AudioInv, EpochsOrdered
  <1>9. TrackIsLastPlay'
    <2> SUFFICES ASSUME NEW n \in 1..(L + 1), LastPlay(n)',
                        received'["sounds"][n].epoch = shared.epoch
                 PROVE  /\ track'.id = received'["sounds"][n].id
                        /\ track'.epoch = received'["sounds"][n].epoch
      BY <1>1, <1>4 DEF TrackIsLastPlay
    <2>1. CASE n = L + 1
      <3>1. received'["sounds"][n] = taken /\ taken.kind = "play" /\ taken.epoch = shared.epoch
        BY <1>4, <2>1 DEF LastPlay
      <3>2. taken.epoch <= callback.epoch
        <4>1. L + 1 \in 1..(L - 0 + D)
          BY <1>2, <1>4
        <4> QED
          BY <1>2, <1>7, <4>1
      <3>3. taken.epoch \in Nat /\ callback.epoch \in Nat /\ shared.epoch \in Nat
        BY <1>2, EpochFacts DEF Commands
      <3>4. taken.epoch = callback.epoch
        BY <1>7, <3>1, <3>2, <3>3
      <3> QED
        BY <1>5, <3>1, <3>4
    <2>2. CASE n # L + 1
      <3>1. n \in 1..L /\ L + 1 > n
        BY <1>4, <2>2
      <3>2. taken.kind # "play"
        <4>1. L + 1 \in DOMAIN received'["sounds"]
          BY <1>4
        <4> QED
          BY <1>4, <3>1, <4>1 DEF LastPlay
      <3>3. LastPlay(n)
        <4>1. \A m \in 1..L : m \in 1..(L + 1)
          BY <1>4
        <4> HIDE DEF L
        <4>2. /\ received'["sounds"][n].kind = "play"
              /\ \A m \in 1..(L + 1) : m > n => received'["sounds"][m].kind # "play"
          BY <1>4 DEF LastPlay
        <4> QED
          BY <1>4, <3>1, <4>1, <4>2 DEF LastPlay
      <3>4. track.id = received["sounds"][n].id /\ track.epoch = received["sounds"][n].epoch
        <4>1. received["sounds"][n].epoch = shared.epoch
          BY <1>4, <3>1
        <4> QED
          BY <1>4, <3>1, <3>3, <4>1 DEF AudioInv, TrackIsLastPlay
      <3> QED
        BY <1>4, <1>5, <3>1, <3>2, <3>4
    <2> QED
      BY <2>1, <2>2
  <1>10. ResetIsAlone' /\ StopSilencesEarlierTracks'
    BY <1>1, <1>3 DEF AudioInv, ResetIsAlone, StopSilencesEarlierTracks
  <1> QED
    BY <1>2, <1>6, <1>8, <1>9, <1>10 DEF AudioInv

\* The distance to a slot shrinks by one with every step towards it.
LEMMA OneSlotLess ==
    ASSUME NEW c \in Nat, NEW i \in 0..c - 1, NEW j \in 0..c - 1, j # i,
           NEW k, k = IF i + 1 = c THEN 0 ELSE i + 1
    PROVE  (IF j >= k THEN j - k ELSE j + c - k)
               = (IF j >= i THEN j - i ELSE j + c - i) - 1
  <1>1. CASE i + 1 = c
    BY <1>1
  <1>2. CASE i + 1 # c
    BY <1>2
  <1> QED
    BY <1>1, <1>2

\* The read index moves on: the slot is given back, the next one is the oldest.
LEMMA AdvanceInv ==
    ASSUME AudioInv, NEW r \in Rings, Advance(r)
    PROVE  AudioInv'
  <1>c. PICK c : c = SlotCount[r]
    OBVIOUS
  <1>i. PICK i : i = ring[r].read
    OBVIOUS
  <1>d. PICK left : left = Distance(r, ring[r].read, callback.end)
    OBVIOUS
  <1>0. /\ callback \in Callbacks /\ AudioTypeOK /\ RingHolds(r) /\ CallbackBounded(r)
        /\ DOMAIN ring = Rings /\ \A q \in Rings : ring[q] \in RingStates(q)
        /\ c \in Nat /\ c >= 2
    BY <1>c DEF AudioInv, AudioTypeOK, Callbacks
  <1>1. /\ UNCHANGED <<game, submitted, asked, shared, device, track, voice, received, heard>>
        /\ callback.pc = Advances[r]
        /\ ring' = [ring EXCEPT ![r].read = Next1(r, callback.read)]
        /\ callback' = [callback EXCEPT !.pc = r, !.read = Next1(r, @), !.taken = @ + 1]
    BY DEF Advance, gameVars
  <1>2. /\ Reading(r) /\ Ahead(r) = 1
        /\ callback.read = i /\ callback.end \in SlotNumbers(r)
        /\ 1 <= left /\ left <= Waiting(r) /\ callback.taken + left < c
    BY <1>0, <1>1, <1>c, <1>d, <1>i DEF CallbackBounded, Reading, Ahead
  <1>3. /\ i \in SlotNumbers(r) /\ ring[r].write \in SlotNumbers(r)
        /\ i \in 0..c - 1 /\ ring[r].write \in 0..c - 1 /\ callback.end \in 0..c - 1
    BY <1>0, <1>2, <1>c, <1>i DEF RingStates, SlotNumbers
  <1>k. PICK k \in SlotNumbers(r) : k = Next1(r, i)
    BY <1>3, RingSteps
  <1>4. /\ k = IF i + 1 = c THEN 0 ELSE i + 1
        /\ k \in 0..c - 1
        /\ left = IF callback.end >= i THEN callback.end - i ELSE callback.end + c - i
        /\ Waiting(r) = IF ring[r].write >= i THEN ring[r].write - i ELSE ring[r].write + c - i
    <2>1. k \in 0..c - 1
      BY <1>c DEF SlotNumbers
    <2>2. Waiting(r) = Distance(r, i, ring[r].write)
      BY <1>i DEF Waiting
    <2> QED
      BY <1>2, <1>3, <1>c, <1>d, <1>i, <1>k, <2>1, <2>2, RingSteps
  <1>5. /\ callback' \in Callbacks /\ callback'.pc = r /\ callback'.read = k
        /\ callback'.end = callback.end /\ callback'.epoch = callback.epoch
        /\ callback'.taken = callback.taken + 1 /\ callback.taken \in Nat
    <2>t. callback.taken \in Nat
      BY <1>0 DEF Callbacks
    <2>1. callback.taken \in Nat /\ callback.taken + 1 \in Nat /\ k \in Nat
      BY <1>0, <1>4, <2>t
    <2>2. callback' = [callback EXCEPT !.pc = r, !.read = k, !.taken = callback.taken + 1]
      BY <1>1, <1>2, <1>k
    <2> QED
      BY <1>0, <2>1, <2>2, RingNames DEF Callbacks
  <1>6. /\ ring' = [q \in Rings |-> ring'[q]]
        /\ ring'[r] = [ring[r] EXCEPT !.read = k]
        /\ \A q \in Rings : q # r => ring'[q] = ring[q]
    BY <1>0, <1>1, <1>2, <1>k
  <1>7. /\ ring'[r].read = k
        /\ \A q \in Rings : ring'[q].slot = ring[q].slot /\ ring'[q].write = ring[q].write
        /\ \A q \in Rings : ring'[q] \in RingStates(q)
    <2>1. /\ ring'[r] \in RingStates(r) /\ ring'[r].read = k
          /\ ring'[r].slot = ring[r].slot /\ ring'[r].write = ring[r].write
      BY <1>0, <1>6 DEF RingStates
    <2> QED
      BY <1>0, <1>6, <2>1
  <1>8. AudioTypeOK'
    BY <1>0, <1>1, <1>5, <1>6, <1>7 DEF AudioTypeOK, Callbacks
  <1>9. /\ Waiting(r)' = Waiting(r) - 1 /\ Waiting(r) \in 1..c - 1
        /\ Distance(r, ring[r].read, callback.end)' = left - 1 /\ left \in Nat
    <2>1. Waiting(r)' = Distance(r, k, ring[r].write)
      BY <1>7 DEF Waiting, Distance
    <2>2. Distance(r, ring[r].read, callback.end)' = Distance(r, k, callback.end)
      BY <1>5, <1>7 DEF Distance
    <2>3. /\ Distance(r, k, ring[r].write) = IF ring[r].write >= k THEN ring[r].write - k
                                             ELSE ring[r].write + c - k
          /\ Distance(r, k, callback.end) = IF callback.end >= k THEN callback.end - k
                                            ELSE callback.end + c - k
      <3>1. \A j \in SlotNumbers(r) : Distance(r, k, j) = IF j >= k THEN j - k ELSE j + c - k
        BY <1>c, RingSteps
      <3>2. callback.end \in SlotNumbers(r) /\ ring[r].write \in SlotNumbers(r)
        BY <1>2, <1>3
      <3> QED
        BY <3>1, <3>2
    <2>4. left \in Nat /\ Waiting(r) \in Nat
      BY <1>0, <1>3, <1>4
    <2>5. Distance(r, k, ring[r].write) = Waiting(r) - 1
      <3>1. ring[r].write # i
        BY <1>2, <1>3, <1>4, <2>4
      <3> QED
        BY <1>0, <1>3, <1>4, <2>3, <3>1, OneSlotLess
    <2>6. Distance(r, k, callback.end) = left - 1
      <3>1. callback.end # i
        BY <1>2, <1>3, <1>4, <2>4
      <3> QED
        BY <1>0, <1>3, <1>4, <2>3, <3>1, OneSlotLess
    <2>7. Waiting(r) \in 1..c - 1
      BY <1>0, <1>2, <1>3, <1>4, <2>4
    <2> QED
      BY <2>1, <2>2, <2>4, <2>5, <2>6, <2>7
  <1>10. /\ Ahead(r)' = 0
         /\ \A q \in Rings : q # r => /\ Ahead(q) = 0 /\ Ahead(q)' = 0
                                      /\ Waiting(q)' = Waiting(q) /\ ~Reading(q)'
    BY <1>1, <1>5, <1>6, RingNames DEF Ahead, Waiting, Reading, Rings
  <1>11. ASSUME NEW q \in Rings, q # r PROVE RingHolds(q)' /\ CallbackBounded(q)'
    <2>1. RingHolds(q) /\ ring'[q] = ring[q]
      BY <1>6, <1>11 DEF AudioInv
    <2>2. RingHolds(q)'
      BY <1>1, <1>10, <1>11, <2>1 DEF RingHolds
    <2> QED
      BY <1>10, <1>11, <2>2 DEF CallbackBounded
  <1>12. CallbackBounded(r)'
    <2>1. callback'.taken + (left - 1) < c /\ left - 1 <= Waiting(r) - 1 /\ 0 <= left - 1
      BY <1>0, <1>2, <1>5, <1>9
    <2>2. callback'.end \in SlotNumbers(r) /\ callback'.read = ring'[r].read
      BY <1>2, <1>5, <1>7
    <2> QED
      BY <1>9, <1>10, <1>c, <2>1, <2>2 DEF CallbackBounded
  <1>l. PICK taken : taken = Len(received[r])
    OBVIOUS
  <1>h. /\ taken \in Nat /\ Len(submitted[r]) \in Nat
        /\ 1 <= taken /\ Len(submitted[r]) = taken - 1 + Waiting(r)
        /\ \A n \in 1..taken : received[r][n] = submitted[r][n]
        /\ \A n \in 1..Waiting(r) :
              submitted[r][taken - 1 + n] = ring[r].slot[(i + n - 1) % c]
    <2>1. taken \in Nat /\ Len(submitted[r]) \in Nat
      BY <1>l, TakenWasPublished
    <2> QED
      BY <1>0, <1>2, <1>c, <1>i, <1>l, <2>1 DEF RingHolds
  <1>13. RingHolds(r)'
    <2>1. ASSUME NEW n \in 1..Waiting(r) - 1
          PROVE  submitted[r][taken - 0 + n] = ring[r].slot[(k + n - 1) % c]
      <3>1. n \in Nat /\ n + 1 \in 1..Waiting(r) /\ taken - 1 + (n + 1) = taken - 0 + n
            /\ n \in 1..c /\ n + 1 \in 1..c
        BY <1>0, <1>9, <1>h
      <3>2. /\ (k + n - 1) % c = IF k + n - 1 < c THEN k + n - 1 ELSE k + n - 1 - c
            /\ (i + (n + 1) - 1) % c = IF i + (n + 1) - 1 < c THEN i + (n + 1) - 1
                                       ELSE i + (n + 1) - 1 - c
        BY <1>3, <1>c, <3>1, RingSteps
      <3>3. (k + n - 1) % c = (i + (n + 1) - 1) % c
        BY <1>0, <1>3, <1>4, <1>9, <3>1, <3>2
      <3> QED
        BY <1>h, <3>1, <3>3
    <2>2. Len(submitted[r]) = taken - 0 + (Waiting(r) - 1)
      BY <1>9, <1>h
    <2>3. 0 <= Waiting(r) - 1 /\ 0 <= taken
      BY <1>9, <1>h
    <2>4. \A n \in 1..Waiting(r)' : submitted'[r][Len(received'[r]) - Ahead(r)' + n]
                                      = ring'[r].slot[(ring'[r].read + n - 1) % SlotCount[r]]
      BY <1>1, <1>7, <1>9, <1>10, <1>c, <1>l, <2>1
    <2>5. /\ Ahead(r)' <= Waiting(r)' /\ Ahead(r)' <= Len(received'[r])
          /\ Len(submitted'[r]) = Len(received'[r]) - Ahead(r)' + Waiting(r)'
      BY <1>1, <1>9, <1>10, <1>l, <2>2, <2>3
    <2>6. \A n \in 1..Len(received'[r]) : received'[r][n] = submitted'[r][n]
      BY <1>1, <1>h, <1>l
    <2> QED
      BY <2>4, <2>5, <2>6 DEF RingHolds
  <1>14. ASSUME NEW q \in Rings PROVE CommandFits(q)'
    <2>1. Waiting(q) < SlotCount[q] - 1 => Waiting(q)' < SlotCount[q] - 1
      BY <1>0, <1>9, <1>10, <1>c
    <2> QED
      BY <1>1, <1>7, <2>1 DEF AudioInv, CommandFits
  <1>15. EpochsOrdered'
    <2>0. EpochsOrdered
      BY DEF AudioInv
    <2>1. CASE r # "sounds"
      <3>1. callback'.pc = "effects" /\ callback.pc # "idle"
        BY <1>1, <1>5, <2>1, RingNames
      <3> QED
        BY <1>1, <2>0, <3>1 DEF EpochsOrdered
    <2>2. CASE r = "sounds"
      <3>1. callback'.pc = "sounds" /\ callback.pc = "sounds advance"
        BY <1>1, <1>5, <2>2, RingNames
      <3>2. /\ Len(received'["sounds"]) - Ahead("sounds")' = taken - 0
            /\ Len(received["sounds"]) - Ahead("sounds") = taken - 1
            /\ Distance("sounds", ring["sounds"].read, callback.end)' = left - 1
            /\ Distance("sounds", ring["sounds"].read, callback.end) = left
        BY <1>1, <1>2, <1>9, <1>10, <1>d, <1>l, <2>2
      <3>3. taken - 0 + (left - 1) = taken - 1 + left
        BY <1>9, <1>h
      <3>4. /\ callback.epoch <= shared.epoch
            /\ \A n \in 1..(taken - 1 + left) : submitted["sounds"][n].epoch <= callback.epoch
        BY <2>0, <3>1, <3>2 DEF EpochsOrdered
      <3>5. \A n \in 1..(Len(received'["sounds"]) - Ahead("sounds")'
                           + Distance("sounds", ring["sounds"].read, callback.end)') :
               submitted'["sounds"][n].epoch <= callback'.epoch
        BY <1>1, <1>5, <3>2, <3>3, <3>4
      <3> QED
        BY <1>1, <1>5, <2>0, <3>1, <3>4, <3>5 DEF EpochsOrdered
    <2> QED
      BY <2>1, <2>2
  <1>16. TrackIsLastPlay' /\ ResetIsAlone' /\ StopSilencesEarlierTracks'
    <2>1. callback.pc # "idle" /\ callback'.pc # "mix"
      BY <1>1, <1>5, RingNames
    <2> QED
      BY <1>1, <2>1 DEF AudioInv, TrackIsLastPlay, LastPlay, ResetIsAlone, StopSilencesEarlierTracks
  <1> QED
    BY <1>8, <1>11, <1>12, <1>13, <1>14, <1>15, <1>16 DEF AudioInv

LEMMA CallbackStepInv ==
    ASSUME AudioInv, CallbackStep
    PROVE  AudioInv'
  BY ReadIndexInv, TakeEffectInv, TakeSoundInv, MixerInv, AdvanceInv DEF CallbackStep

----------------------------------------------------------------------------
(* The specification. *)

LEMMA AudioInitInv == AudioInit => AudioInv
  <1> SUFFICES ASSUME AudioInit PROVE AudioInv
    OBVIOUS
  <1>1. \A r \in Rings : ring[r] \in RingStates(r)
    <2> SUFFICES ASSUME NEW r \in Rings PROVE ring[r] \in RingStates(r)
      OBVIOUS
    <2>1. SlotCount[r] \in Nat /\ SlotCount[r] >= 2
      OBVIOUS
    <2>2. 0 \in SlotNumbers(r)
      BY <2>1 DEF SlotNumbers
    <2>3. [i \in SlotNumbers(r) |-> NoCommand] \in [SlotNumbers(r) -> Commands]
      BY DEF NoCommand, Commands
    <2>4. ring[r] = [slot |-> [i \in SlotNumbers(r) |-> NoCommand], read |-> 0, write |-> 0]
      BY DEF AudioInit, SlotNumbers
    <2> QED
      BY <2>2, <2>3, <2>4 DEF RingStates
  <1>2. /\ submitted = [r \in Rings |-> <<>>] /\ received = [r \in Rings |-> <<>>]
        /\ callback.pc = "idle" /\ game.pc = "init"
        /\ \A r \in Rings : ring[r].read = 0 /\ ring[r].write = 0
    BY DEF AudioInit
  <1>3. submitted \in [Rings -> Seq(Commands)] /\ received \in [Rings -> Seq(Commands)]
    <2>1. <<>> \in Seq(Commands)
      OBVIOUS
    <2> QED
      BY <1>2, <2>1
  <1>4. AudioTypeOK
    <2>1. /\ game \in [pc : GamePlaces, command : Commands] /\ callback \in Callbacks
      BY DEF AudioInit, GamePlaces, Callbacks, NoCommand, Commands
    <2>2. shared \in Atomics
      BY DEF AudioInit, Atomics
    <2>3. track \in Tracks /\ voice \in [Voices -> [id : Nat, left : Nat]]
      BY DEF AudioInit, Tracks, NoTrack, NoVoice
    <2>4. ring = [r \in Rings |-> ring[r]]
      BY DEF AudioInit
    <2>5. device \in {"none", "open", "running"} /\ heard \in Nat /\ asked \in Nat
      BY DEF AudioInit
    <2> QED
      BY <1>1, <1>3, <2>1, <2>2, <2>3, <2>4, <2>5
      DEF AudioTypeOK, GamePlaces, Callbacks, Atomics, Tracks
  <1>5. ASSUME NEW r \in Rings PROVE RingHolds(r) /\ CommandFits(r) /\ CallbackBounded(r)
    <2>1. Waiting(r) = 0
      <3>1. Waiting(r) = IF ring[r].write >= ring[r].read THEN ring[r].write - ring[r].read
                         ELSE ring[r].write + SlotCount[r] - ring[r].read
        BY <1>4, RingFacts
      <3> QED
        BY <1>2, <3>1
    <2>2. Ahead(r) = 0 /\ ~Reading(r)
      BY <1>2, RingNames DEF Ahead, Reading
    <2>3. Len(submitted[r]) = 0 /\ Len(received[r]) = 0
      BY <1>2
    <2>4. RingHolds(r)
      BY <2>1, <2>2, <2>3 DEF RingHolds
    <2> QED
      BY <1>2, <2>2, <2>4 DEF CommandFits, CallbackBounded
  <1>6. DOMAIN submitted["sounds"] = {} /\ DOMAIN received["sounds"] = {}
    BY <1>2 DEF Rings
  <1>7. EpochsOrdered /\ TrackIsLastPlay /\ ResetIsAlone /\ StopSilencesEarlierTracks
    BY <1>2, <1>6 DEF EpochsOrdered, TrackIsLastPlay, ResetIsAlone, StopSilencesEarlierTracks
  <1> QED
    BY <1>4, <1>5, <1>7 DEF AudioInv

LEMMA AudioNextInv ==
    ASSUME AudioInv, [AudioNext]_audioVars
    PROVE  AudioInv'
  <1>1. CASE GameStep
    BY <1>1, GameStepInv
  <1>2. CASE CallbackStep
    BY <1>2, CallbackStepInv
  <1>3. CASE UNCHANGED audioVars
    <2>1. AudioTypeOK'
      <3>1. AudioTypeOK
        BY DEF AudioInv
      <3>2. /\ UNCHANGED <<game, callback, ring>> /\ UNCHANGED <<shared, device, track, voice>>
            /\ UNCHANGED <<submitted, received, heard, asked>>
        BY <1>3 DEF audioVars
      <3>3. shared' \in Atomics
        BY <3>1, <3>2 DEF AudioTypeOK, Atomics
      <3>4. game' \in [pc : GamePlaces, command : Commands] /\ callback' \in Callbacks
        BY <3>1, <3>2 DEF AudioTypeOK, GamePlaces, Callbacks
      <3>5. /\ ring' = [r \in Rings |-> ring'[r]] /\ \A r \in Rings : ring'[r] \in RingStates(r)
        BY <3>1, <3>2 DEF AudioTypeOK
      <3> QED
        BY <3>1, <3>2, <3>3, <3>4, <3>5 DEF AudioTypeOK, Atomics, GamePlaces, Callbacks
    <2>2. (\A r \in Rings : CommandFits(r)') /\ EpochsOrdered' /\ ResetIsAlone'
      BY <1>3 DEF AudioInv, CommandFits, EpochsOrdered, ResetIsAlone, audioVars, Waiting, Ahead
    <2> QED
      BY <1>3, <2>1, <2>2, RingsRest DEF audioVars
  <1> QED
    BY <1>1, <1>2, <1>3 DEF AudioNext

(* Every state of audio.c's two threads satisfies the inductive invariant:   *)
(* the ring indices, the slots, the histories and the epochs agree.          *)
THEOREM AudioSafety == AudioSpec => []AudioInv
  <1>1. AudioInit => AudioInv
    BY AudioInitInv
  <1>2. AudioInv /\ [AudioNext]_audioVars => AudioInv'
    BY AudioNextInv
  <1> QED
    BY <1>1, <1>2, PTL DEF AudioSpec

(* crumb_audio_reset runs only after the device is disposed of and outside   *)
(* any callback.                                                             *)
THEOREM ResetAlone == AudioSpec => []ResetIsAlone
  <1>1. AudioInv => ResetIsAlone
    BY DEF AudioInv
  <1> QED
    BY <1>1, AudioSafety, PTL

(* A callback that begins after crumb_sound_stop's first store renders no    *)
(* sample of an earlier track.                                               *)
THEOREM StopsSilence == AudioSpec => []StopSilencesEarlierTracks
  <1>1. AudioInv => StopSilencesEarlierTracks
    BY DEF AudioInv
  <1> QED
    BY <1>1, AudioSafety, PTL

(* The last play that was taken and not stopped since is the track that      *)
(* crumb_audio_render mixes.                                                 *)
THEOREM LastPlayPlays == AudioSpec => []LastPlayIsTheTrack
  <1>1. AudioInv => LastPlayIsTheTrack
    BY DEF AudioInv, TrackIsLastPlay, LastPlayIsTheTrack
  <1> QED
    BY <1>1, AudioSafety, PTL

\* What waits in a ring, as a sequence.
LEMMA PendingType ==
    ASSUME AudioInv, NEW r \in Rings
    PROVE  /\ Pending(r) \in Seq(Commands) /\ Len(Pending(r)) = Waiting(r)
           /\ Waiting(r) \in Nat
           /\ \A n \in 1..Waiting(r) :
                 Pending(r)[n] = ring[r].slot[(ring[r].read + n - 1) % SlotCount[r]]
  <1>0. AudioTypeOK
    BY DEF AudioInv
  <1>1. Waiting(r) \in Nat
    BY <1>0, RingFacts
  <1>2. ring[r].slot \in [SlotNumbers(r) -> Commands]
    BY <1>0 DEF AudioTypeOK, RingStates
  <1>3. \A n \in 1..Waiting(r) : ring[r].slot[(ring[r].read + n - 1) % SlotCount[r]] \in Commands
    BY <1>0, <1>2, WriteIndexIsFree
  <1>4. Pending(r) \in [1..Waiting(r) -> Commands]
    BY <1>3 DEF Pending
  <1>5. Pending(r) \in Seq(Commands) /\ Len(Pending(r)) = Waiting(r)
    BY <1>1, <1>4
  <1> QED
    BY <1>1, <1>5 DEF Pending

\* The invariant, by sequences: the published commands are the taken ones, then the waiting.
LEMMA SubmittedSplits ==
    ASSUME AudioInv, NEW r \in Rings
    PROVE  submitted[r] = received[r] \o SubSeq(Pending(r), 1 + Ahead(r), Len(Pending(r)))
  <1> DEFINE w == Waiting(r)
             a == Ahead(r)
             p == Pending(r)
             s == submitted[r]
             t == received[r]
             rest == SubSeq(p, 1 + a, w)
  <1>1. /\ p \in Seq(Commands) /\ Len(p) = w /\ w \in Nat
        /\ \A n \in 1..w : p[n] = ring[r].slot[(ring[r].read + n - 1) % SlotCount[r]]
    BY PendingType
  <1>2. /\ s \in Seq(Commands) /\ t \in Seq(Commands) /\ Len(s) \in Nat /\ Len(t) \in Nat
        /\ \A n \in 1..Len(t) : t[n] = s[n]
    BY TakenWasPublished
  <1>3. /\ a \in {0, 1} /\ a <= w /\ a <= Len(t) /\ Len(s) = Len(t) - a + w
        /\ \A n \in 1..w : s[Len(t) - a + n] = ring[r].slot[(ring[r].read + n - 1) % SlotCount[r]]
    BY DEF AudioInv, RingHolds, Ahead
  <1> HIDE DEF w, a, p, s, t
  <1>4. /\ rest \in Seq(Commands) /\ Len(rest) = w - a
        /\ \A n \in 1..w - a : rest[n] = p[a + n]
    <2>1. a \in Nat /\ 1 + a \in 1..w + 1 /\ w \in 0..w
      BY <1>1, <1>3
    <2>2. \A n \in (1 + a)..w : n \in 1..Len(p)
      BY <1>1, <2>1
    <2>3. rest \in Seq(Commands)
      BY <1>1, <2>1, <2>2
    <2>4. Len(rest) = IF 1 + a <= w THEN w - (1 + a) + 1 ELSE 0
      BY <1>1, <2>1, <2>2, SubSeqProperties
    <2>5. Len(rest) = w - a
      BY <1>1, <1>3, <2>1, <2>4
    <2>6. \A n \in 1..w - a : rest[n] = p[(1 + a) + n - 1]
      BY <1>1, <2>1, <2>2, <2>5, SubSeqProperties
    <2>7. \A n \in 1..w - a : (1 + a) + n - 1 = a + n
      BY <2>1
    <2> QED
      BY <2>3, <2>5, <2>6, <2>7
  <1>5. ASSUME NEW n \in 1..w - a PROVE rest[n] = s[Len(t) + n]
    <2>1. a + n \in 1..w /\ Len(t) - a + (a + n) = Len(t) + n
      BY <1>1, <1>2, <1>3
    <2> QED
      BY <1>1, <1>3, <1>4, <2>1
  <1> HIDE DEF rest
  <1>6. /\ t \o rest \in Seq(Commands) /\ Len(t \o rest) = Len(s)
        /\ \A n \in 1..Len(s) : (t \o rest)[n] = IF n <= Len(t) THEN t[n] ELSE rest[n - Len(t)]
    <2>1. Len(s) = Len(t) + Len(rest)
      BY <1>1, <1>2, <1>3, <1>4
    <2>2. t \in Seq(Commands) /\ rest \in Seq(Commands)
      BY <1>2, <1>4
    <2>3. /\ t \o rest \in Seq(Commands) /\ Len(t \o rest) = Len(t) + Len(rest)
          /\ \A n \in 1..Len(t) + Len(rest) :
                (t \o rest)[n] = IF n <= Len(t) THEN t[n] ELSE rest[n - Len(t)]
      BY <2>2, ConcatProperties
    <2> QED
      BY <2>1, <2>3
  <1>7. \A n \in 1..Len(s) : (t \o rest)[n] = s[n]
    <2> SUFFICES ASSUME NEW n \in 1..Len(s) PROVE (t \o rest)[n] = s[n]
      OBVIOUS
    <2>1. CASE n <= Len(t)
      BY <1>2, <1>6, <2>1
    <2>2. CASE n > Len(t)
      <3>1. n - Len(t) \in 1..w - a /\ Len(t) + (n - Len(t)) = n
        BY <1>1, <1>2, <1>3, <2>2
      <3> QED
        BY <1>2, <1>5, <1>6, <2>2, <3>1
    <2>3. n \in Int /\ Len(t) \in Int
      BY <1>2
    <2>4. n <= Len(t) \/ n > Len(t)
      BY <2>3
    <2> QED
      BY <2>1, <2>2, <2>4
  <1>8. s = t \o rest
    BY <1>2, <1>6, <1>7, SeqEqual
  <1> QED
    BY <1>1, <1>8 DEF rest, w, a, p, s, t

(* The lock-free rings of audio.c lose, repeat, reorder and tear no command. *)
THEOREM RingsKeep == AudioSpec => []RingsKeepCommands
  <1>1. AudioInv => RingsKeepCommands
    <2> SUFFICES ASSUME AudioInv, NEW r \in Rings
                 PROVE  LET taking == callback.pc \in {r, Advances[r]} IN
                        /\ game.pc = "slot" /\ RingOf(game.command) = r /\ taking
                             => ring[r].write \notin Between(r, ring[r].read, callback.end)
                        /\ device = "running" => submitted[r] =
                             received[r] \o SubSeq(Pending(r), 1 + Ahead(r), Len(Pending(r)))
                        /\ taking => callback.taken < SlotCount[r]
      BY DEF RingsKeepCommands
    <2>1. ASSUME callback.pc \in {r, Advances[r]}
          PROVE  /\ ring[r].write \notin Between(r, ring[r].read, callback.end)
                 /\ callback.taken < SlotCount[r]
      <3>1. LET left == Distance(r, ring[r].read, callback.end) IN
            /\ callback.end \in SlotNumbers(r) /\ left <= Waiting(r)
            /\ callback.taken + left < SlotCount[r]
        BY <2>1 DEF AudioInv, CallbackBounded, Reading
      <3>2. /\ Distance(r, ring[r].read, callback.end) \in Nat /\ Waiting(r) \in Nat
            /\ SlotCount[r] \in Nat
        <4>1. ring[r].read \in SlotNumbers(r) /\ AudioTypeOK
          BY DEF AudioInv, AudioTypeOK, RingStates
        <4>2. Waiting(r) \in Nat
          BY <4>1, RingFacts
        <4> QED
          BY <3>1, <4>1, <4>2, DistanceType
      <3>3. callback.taken \in Nat
        BY DEF AudioInv, AudioTypeOK
      <3>4. ~(Waiting(r) < Distance(r, ring[r].read, callback.end))
        BY <3>1, <3>2
      <3>5. ring[r].write \notin Between(r, ring[r].read, callback.end)
        BY <3>4 DEF Between, Waiting
      <3> QED
        BY <3>1, <3>2, <3>3, <3>5
    <2> QED
      BY <2>1, SubmittedSplits
  <1> QED
    BY <1>1, AudioSafety, PTL
===============================================================================
