------------------------------- MODULE FrameBuf -------------------------------
(***************************************************************************)
(* src/display: the drawing operations of framebuf.cpp over the buffer of  *)
(* mono_vlsb.cpp, and show() of ssd1306.cpp, which sends it to the display *)
(* controller.  A byte is the set of its one bits: eight pixels, one above *)
(* another.  The first byte of the buffer is not pixels but the control    *)
(* byte that tells the controller that data follows.                       *)
(***************************************************************************)
EXTENDS Integers, Sequences

CONSTANTS
  width, height,  \* of the frame buffer
  PANEL,          \* columns the controller has, 128 in the code
  WORD,           \* coordinates are taken modulo 2^16
  Font,           \* of each character from 32 to 127 the rows lit in each column
  Drawings,       \* drawing operations with their arguments
  MaxDrawings     \* bound: operations drawn

ASSUME FrameBufAssumption ==
  /\ width \in Nat \ {0} /\ PANEL \in Nat /\ width <= PANEL
  /\ height \in Nat \ {0} /\ height % 8 = 0   \* "must be multiple of 8"
  /\ WORD \in Nat /\ PANEL < WORD /\ height < WORD
  /\ MaxDrawings \in Nat

(* What the callers give: rectangles on the screen, coordinates of 16 bits,*)
(* letters that may begin left of the screen but do not come round again,  *)
(* sprites of two colors.                                                  *)
OnScr(x, y, w, h) ==
  /\ x \in Nat /\ y \in Nat /\ w \in Nat /\ h \in Nat /\ x + w <= width /\ y + h <= height
CanLine(x1, y1, x2, y2) ==
  x1 \in 0..(WORD - 1) /\ y1 \in 0..(WORD - 1) /\ x2 \in 0..(WORD - 1) /\ y2 \in 0..(WORD - 1)
CanText(str, x, y) ==
  /\ str \in Seq(Int) /\ x \in (width - WORD)..(WORD - 1) /\ x + 8 * Len(str) <= WORD
  /\ y \in 0..(WORD - 1)
CanBlit(sprite, x, y, palette) ==
  /\ x \in Int /\ y \in Int /\ sprite.w \in Nat /\ sprite.h \in Nat
  /\ palette[0] \in {0, 1} /\ palette[1] \in {0, 1}

CanDraw(o) ==
  \/ o.kind = "fill"
  \/ o.kind = "rect" /\ OnScr(o.x, o.y, o.w, o.h) /\ o.w # 0 /\ o.h # 0 /\ o.fill \in BOOLEAN
  \/ o.kind = "hline" /\ OnScr(o.x, o.y, o.w, 1)
  \/ o.kind = "vline" /\ OnScr(o.x, o.y, 1, o.h)
  \/ o.kind = "line" /\ CanLine(o.x1, o.y1, o.x2, o.y2)
  \/ o.kind = "text" /\ CanText(o.str, o.x, o.y)
  \/ o.kind = "blit" /\ CanBlit(o.sprite, o.x, o.y, o.palette)
  \/ o.kind = "scroll" /\ o.xstep \in Int /\ o.ystep \in Int

ASSUME DrawingsAssumption == \A o \in Drawings : CanDraw(o)

VARIABLES
  buffer,    \* the buffer, from the control byte on
  window,    \* the controller's memory: pixels that are lit
  drawing,   \* the last operation drawn, if it was not shown since
  drawings   \* operations drawn so far

canvas == <<buffer, window, drawing, drawings>>

stride == width
size == width * (height \div 8) + 1
col_offset == PANEL - width   \* a narrow display has the last columns
ControlByte == {6}   \* 0x40: data follows

u16(n) == n % WORD

-----------------------------------------------------------------------------
(* mono_vlsb: cells of the buffer, by index and bit.                       *)
Cell(x, y) == <<(y \div 8) * stride + x + 1, y % 8>>

Set(b, cells, color) ==
  [i \in DOMAIN b |->
     LET bits == {c[2] : c \in {d \in cells : d[1] = i}}
     IN  IF color = 0 THEN b[i] \ bits ELSE b[i] \cup bits]

getpixel(b, x, y) == LET c == Cell(x, y) IN IF c[2] \in b[c[1]] THEN 1 ELSE 0

(* Not clipped: callers stay on the screen.                                *)
fill_rect(b, x, y, w, h, color) ==
  Set(b, {Cell(x + i, u16(y + j)) : i \in 0..(w - 1), j \in 0..(h - 1)}, color)

-----------------------------------------------------------------------------
(* framebuf: cells an operation paints, clipped.                           *)
Clipped(points) ==
  {Cell(p[1], p[2]) : p \in {q \in points : q[1] \in 0..(width - 1) /\ q[2] \in 0..(height - 1)}}

rect(b, x, y, w, h, color, fill) ==
  IF fill THEN fill_rect(b, x, y, w, h, color)
  ELSE LET top == fill_rect(b, x, y, w, 1, color)
           bottom == fill_rect(top, x, u16(y + h - 1), w, 1, color)
           left == fill_rect(bottom, x, y, 1, h, color)
       IN  fill_rect(left, u16(x + w - 1), y, 1, h, color)

(* Bresenham: how far the minor axis has moved after i points, and e.      *)
walk(dx, dy) ==
  LET at[i \in 0..dx] ==
        IF i = 0 THEN [minor |-> 0, e |-> 2 * dy - dx]
        ELSE LET p == at[i - 1]
                 steps == IF p.e < 0 THEN 0 ELSE p.e \div (2 * dx) + 1
             IN  [minor |-> p.minor + steps, e |-> p.e - 2 * dx * steps + 2 * dy]
  IN  at

line(b, x1, y1, x2, y2, color) ==
  LET sx == IF x2 > x1 THEN 1 ELSE -1
      sy == IF y2 > y1 THEN 1 ELSE -1
      dx == sx * (x2 - x1)
      dy == sy * (y2 - y1)
      steep == dy > dx
      long == IF steep THEN dy ELSE dx
      short == IF steep THEN dx ELSE dy
      Point(i) == LET minor == walk(long, short)[i].minor
                  IN  IF steep THEN <<u16(x1 + sx * minor), u16(y1 + sy * i)>>
                      ELSE <<u16(x1 + sx * i), u16(y1 + sy * minor)>>
  IN  Set(b, Clipped({Point(i) : i \in 0..(long - 1)} \cup {<<x2, y2>>}), color)

Chr(c) == IF c < 32 \/ c > 127 THEN 127 ELSE c

(* x counts on past its width: letters left of the screen have large ones. *)
text(b, str, x, y, color) ==
  Set(b, Clipped(UNION {{<<u16(x + 8 * (k - 1) + j), u16(y) + row>> :
                           row \in Font[Chr(str[k])][j + 1]} : k \in DOMAIN str, j \in 0..7}),
      color)

Lower(a, b) == IF a < b THEN a ELSE b
Upper(a, b) == IF a > b THEN a ELSE b

(* A sprite is a frame buffer of its own; a palette one of two pixels.     *)
blit(b, sprite, x, y, key, palette) ==
  LET x0 == Upper(0, x)
      y0 == Upper(0, y)
      x1 == Upper(0, -x)
      y1 == Upper(0, -y)
      Color(p) == palette[IF <<p[1] - x0 + x1, p[2] - y0 + y1>> \in sprite.lit THEN 1 ELSE 0]
      area == (x0..(Lower(width, x + sprite.w) - 1)) \X (y0..(Lower(height, y + sprite.h) - 1))
      Part(color) == {Cell(p[1], p[2]) : p \in {q \in area : Color(q) = color /\ color # key}}
  IN  IF x >= width \/ y >= height \/ -x >= sprite.w \/ -y >= sprite.h THEN b
      ELSE Set(Set(b, Part(0), 0), Part(1), 1)

(* A slip for ImplementsCanvas to notice; no specification uses it.        *)
ScanForward(step) == 1

(* dx and dy: against the step.                                            *)
Scan(step) == IF step < 0 THEN 1 ELSE -1

(* Pixel by pixel, each read after those scanned before it were written.   *)
scroll(b, xstep, ystep) ==
  LET To(step, extent) == (IF step < 0 THEN 0..(extent + step - 1) ELSE step..(extent - 1))
      targets == To(xstep, width) \X To(ystep, height)
      Earlier(q, p) == \/ (q[2] - p[2]) * Scan(ystep) < 0
                       \/ q[2] = p[2] /\ (q[1] - p[1]) * Scan(xstep) < 0
      moved[p \in targets] ==
        LET q == <<p[1] - xstep, p[2] - ystep>>
        IN  IF q \in targets /\ Earlier(q, p) THEN moved[q] ELSE getpixel(b, q[1], q[2])
      Cells(color) == {Cell(p[1], p[2]) : p \in {t \in targets : moved[t] = color}}
  IN  Set(Set(b, Cells(0), 0), Cells(1), 1)

-----------------------------------------------------------------------------
Blank == [i \in 0..(size - 1) |-> IF i = 0 THEN ControlByte ELSE {}]

(* The constructors; the controller's memory holds anything when it starts.*)
CanvasInit ==
  /\ buffer = Blank
  /\ window \in {{}, (col_offset..(PANEL - 1)) \X (0..(height - 1))}
  /\ drawing = {} /\ drawings = 0

Result(o) ==
  CASE o.kind = "fill" -> fill_rect(buffer, 0, 0, width, height, o.color)
    [] o.kind = "rect" -> rect(buffer, o.x, o.y, o.w, o.h, o.color, o.fill)
    [] o.kind = "hline" -> fill_rect(buffer, o.x, o.y, o.w, 1, o.color)
    [] o.kind = "vline" -> fill_rect(buffer, o.x, o.y, 1, o.h, o.color)
    [] o.kind = "line" -> line(buffer, o.x1, o.y1, o.x2, o.y2, o.color)
    [] o.kind = "text" -> text(buffer, o.str, o.x, o.y, o.color)
    [] o.kind = "blit" -> blit(buffer, o.sprite, o.x, o.y, o.key, o.palette)
    [] o.kind = "scroll" -> scroll(buffer, o.xstep, o.ystep)

Draw(o) ==
  /\ drawings < MaxDrawings /\ drawings' = drawings + 1
  /\ drawing' = {o}
  /\ buffer' = Result(o)
  /\ UNCHANGED window

(* The controller, told a range of columns and all pages, takes the bytes  *)
(* after the control byte row by row; it is as wide as the range ends.     *)
Received(b, x0, x1) ==
  {p \in (0..(PANEL - 1)) \X (0..(height - 1)) :
     /\ p[1] \in x0..x1
     /\ p[2] % 8 \in b[1 + (p[2] \div 8) * (x1 - x0 + 1) + (p[1] - x0)]}

show ==
  /\ buffer' = [buffer EXCEPT ![0] = ControlByte]
  /\ window' = Received(buffer', col_offset, col_offset + width - 1)
  /\ drawing' = {}
  /\ UNCHANGED drawings

CanvasNext == (\E o \in Drawings : Draw(o)) \/ show

CanvasSpec == CanvasInit /\ [][CanvasNext]_canvas

-----------------------------------------------------------------------------
Lit == {p \in (0..(width - 1)) \X (0..(height - 1)) : getpixel(buffer, p[1], p[2]) = 1}

GlyphOf(c) == UNION {{<<j - 1, row>> : row \in Font[Chr(c)][j]} : j \in 1..8}

OnScreen == {<<p[1] - col_offset, p[2]>> : p \in window}

(* Lines are straight, letters that begin left of the screen are cut and   *)
(* not moved, sprites and scrolled pictures keep their shape at every      *)
(* alignment to the pages of the buffer, and what is shown is what was     *)
(* drawn.                                                                  *)
Picture == INSTANCE Canvas WITH
  Width <- width, Height <- height, Operations <- Drawings, Glyph <- GlyphOf,
  op <- drawing, lit <- Lit, shown <- OnScreen
ImplementsCanvas == Picture!Init /\ [][canvas' # canvas => Picture!Next]_canvas

(* Types; nothing that is drawn reaches the control byte or makes the      *)
(* buffer longer.                                                          *)
FrameBufTypeOK ==
  /\ buffer \in [0..(size - 1) -> SUBSET (0..7)] /\ buffer[0] = ControlByte
  /\ window \subseteq (0..(PANEL - 1)) \X (0..(height - 1))
  /\ drawings \in 0..MaxDrawings
=============================================================================
