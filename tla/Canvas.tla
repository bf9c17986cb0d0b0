-------------------------------- MODULE Canvas --------------------------------
(***************************************************************************)
(* What drawing on the display promises: a picture of lit pixels, changed  *)
(* by each operation of framebuf as geometry says, clipped to the screen,  *)
(* and seen by the user once it is shown.                                  *)
(***************************************************************************)
EXTENDS Integers, Sequences

CONSTANTS
  Width, Height,  \* of the screen, in pixels
  Operations,     \* drawing operations with their arguments
  Glyph(_)        \* the pixels of a character's 8 by 8 cell

VARIABLES
  op,     \* the last operation
  lit,    \* pixels drawn
  shown   \* pixels the user sees

Screen == (0..(Width - 1)) \X (0..(Height - 1))

Abs(n) == IF n < 0 THEN -n ELSE n

Area(x, y, w, h) == (x..(x + w - 1)) \X (y..(y + h - 1))
Border(x, y, w, h) ==
  {p \in Area(x, y, w, h) : p[1] \in {x, x + w - 1} \/ p[2] \in {y, y + h - 1}}

Letters(str, x, y) ==
  UNION {{<<x + 8 * (k - 1) + g[1], y + g[2]>> : g \in Glyph(str[k])} : k \in DOMAIN str}

(* a / n rounded to the nearest, halves away from zero.                    *)
Rounded(a, n) == (IF a < 0 THEN -1 ELSE 1) * ((2 * Abs(a) + n) \div (2 * n))

Straight(x1, y1, x2, y2) ==
  LET dx == x2 - x1
      dy == y2 - y1
      n == IF Abs(dx) > Abs(dy) THEN Abs(dx) ELSE Abs(dy)
  IN  IF n = 0 THEN {<<x1, y1>>}
      ELSE {<<x1 + Rounded(i * dx, n), y1 + Rounded(i * dy, n)>> : i \in 0..n}

Paint(pixels, color) ==
  IF color = 0 THEN lit \ pixels ELSE lit \cup (pixels \cap Screen)

(* A sprite covers what lies under it, except where it has the key color.  *)
Covered(o) ==
  {p \in Screen :
     LET q == <<p[1] - o.x, p[2] - o.y>>
         inside == q \in Area(0, 0, o.sprite.w, o.sprite.h)
         color == o.palette[IF q \in o.sprite.lit THEN 1 ELSE 0]
     IN  IF inside /\ color # o.key THEN color = 1 ELSE p \in lit}

Moved(xstep, ystep) ==
  {p \in Screen : LET q == <<p[1] - xstep, p[2] - ystep>>
                  IN  IF q \in Screen THEN q \in lit ELSE p \in lit}

Drawn(o) ==
  CASE o.kind = "fill" -> Paint(Screen, o.color)
    [] o.kind = "rect" ->
         Paint(IF o.fill THEN Area(o.x, o.y, o.w, o.h) ELSE Border(o.x, o.y, o.w, o.h), o.color)
    [] o.kind = "hline" -> Paint(Area(o.x, o.y, o.w, 1), o.color)
    [] o.kind = "vline" -> Paint(Area(o.x, o.y, 1, o.h), o.color)
    [] o.kind = "line" -> Paint(Straight(o.x1, o.y1, o.x2, o.y2), o.color)
    [] o.kind = "text" -> Paint(Letters(o.str, o.x, o.y), o.color)
    [] o.kind = "blit" -> Covered(o)
    [] o.kind = "scroll" -> Moved(o.xstep, o.ystep)

Init == op = {} /\ lit = {} /\ shown \in SUBSET Screen

Draw(o) == op' = {o} /\ lit' = Drawn(o) /\ UNCHANGED shown
Show == op' = {} /\ shown' = lit /\ UNCHANGED lit

Next == (\E o \in Operations : Draw(o)) \/ Show
Spec == Init /\ [][Next]_<<op, lit, shown>>
=============================================================================
