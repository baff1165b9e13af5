------------------------------ MODULE Drawing ------------------------------
(***************************************************************************)
(* The framebuffer's lines and circles (devices/framebuffer/framebuffer.c):*)
(* framebuffer_draw_line with Bresenham's algorithm, one pixel at a time,  *)
(* and framebuffer_draw_circle, eight pixels at a time.  Pixels are their  *)
(* indices in the framebuffer's memory.                                    *)
(***************************************************************************)
EXTENDS Integers

CONSTANTS
  Screens \* what the boot loader's framebuffer tag may say, the pitch in pixels

ASSUME DrawingAssumption ==
  \A s \in Screens :
    /\ s.fb_width \in Nat \ {0} /\ s.fb_height \in Nat \ {0}
    /\ s.fb_pitch \in Nat /\ s.fb_pitch >= s.fb_width

VARIABLES
  gfx,    \* the framebuffer
  shape,  \* what is drawn
  pen,    \* the variables of the loop
  pixels  \* the pixels in the colour that is drawn

drawingVars == <<gfx, shape, pen, pixels>>

NoScreen == [fb_width |-> 0, fb_height |-> 0, fb_pitch |-> 0]
NoShape  == [kind |-> "none"]
PenUp    == [x |-> 0, y |-> 0, error |-> 0, down |-> FALSE]

Line(x0, y0, x1, y1) == [kind |-> "line", x0 |-> x0, y0 |-> y0, x1 |-> x1, y1 |-> y1]
Circle(xc, yc, r) == [kind |-> "circle", xc |-> xc, yc |-> yc, r |-> r]

\* A shape that lies on the screen, which the functions do not check; a circle
\* has a radius.
FitsScreen(s, screen) ==
  LET columns == 0 .. (screen.fb_width - 1)
      rows    == 0 .. (screen.fb_height - 1)
  IN \/ /\ s.kind = "line"
        /\ s.x0 \in columns /\ s.x1 \in columns /\ s.y0 \in rows /\ s.y1 \in rows
     \/ /\ s.kind = "circle" /\ s.xc \in Nat /\ s.yc \in Nat /\ s.r \in Nat \ {0}
        /\ s.xc - s.r \in columns /\ s.xc + s.r \in columns
        /\ s.yc - s.r \in rows /\ s.yc + s.r \in rows
----------------------------------------------------------------------------
Abs(n) == IF n < 0 THEN -n ELSE n
Between(a, b) == {n \in 0 .. a + b : (a <= n /\ n <= b) \/ (b <= n /\ n <= a)}

fb_index(x, y) == y * gfx.fb_pitch + x

framebuffer_draw_pixel(points) == pixels' = pixels \cup {fb_index(p[1], p[2]) : p \in points}

\* Every pixel gets the background's colour.
framebuffer_set_background_color ==
  pixels' = pixels \ {y * gfx'.fb_pitch + x : x \in 0 .. gfx'.fb_width - 1, y \in 0 .. gfx'.fb_height - 1}

framebuffer_init(screen) ==
  /\ gfx' = screen /\ framebuffer_set_background_color
  /\ UNCHANGED <<shape, pen>>

framebuffer_reset_screen ==
  /\ shape # NoShape /\ ~pen.down
  /\ UNCHANGED gfx /\ framebuffer_set_background_color
  /\ shape' = NoShape /\ pen' = PenUp
----------------------------------------------------------------------------
(* Lines.                                                                  *)

dx(l) == Abs(l.x1 - l.x0)
dy(l) == -Abs(l.y1 - l.y0)
sx(l) == IF l.x0 < l.x1 THEN 1 ELSE -1
sy(l) == IF l.y0 < l.y1 THEN 1 ELSE -1

\* Vertical and horizontal lines are drawn from the smaller coordinate on.
DrawStraight(l) ==
  /\ l.x0 = l.x1 \/ l.y0 = l.y1
  /\ framebuffer_draw_pixel(Between(l.x0, l.x1) \X Between(l.y0, l.y1))
  /\ pen' = PenUp

DrawFirst(l) ==
  /\ l.x0 # l.x1 /\ l.y0 # l.y1
  /\ framebuffer_draw_pixel({<<l.x0, l.y0>>})
  /\ pen' = [x |-> l.x0, y |-> l.y0, error |-> dx(l) + dy(l), down |-> TRUE]

framebuffer_draw_line(l) ==
  /\ shape = NoShape
  /\ shape' = l /\ (DrawStraight(l) \/ DrawFirst(l))
  /\ UNCHANGED gfx

\* Mutant: the error grows by the distance of the wrong direction.
LineStep_wrong(l, p) ==
  LET right == 2 * p.error >= dy(l)
      down  == 2 * p.error <= dx(l)
  IN [x |-> p.x + (IF right THEN sx(l) ELSE 0), y |-> p.y + (IF down THEN sy(l) ELSE 0),
      error |-> p.error + (IF right THEN dx(l) ELSE 0) + (IF down THEN dy(l) ELSE 0), down |-> TRUE]

\* A step to the side, up or down, or both.
LineStep(l, p) ==
  LET right == 2 * p.error >= dy(l)
      down  == 2 * p.error <= dx(l)
  IN [x |-> p.x + (IF right THEN sx(l) ELSE 0), y |-> p.y + (IF down THEN sy(l) ELSE 0),
      error |-> p.error + (IF right THEN dy(l) ELSE 0) + (IF down THEN dx(l) ELSE 0), down |-> TRUE]

\* The loop ends as soon as one of the coordinates is the end's.
DrawNext ==
  /\ shape.kind = "line" /\ pen.down
  /\ IF pen.x # shape.x1 /\ pen.y # shape.y1
       THEN LET p == LineStep(shape, pen)
            IN pen' = p /\ framebuffer_draw_pixel({<<p.x, p.y>>})
     ELSE pen' = PenUp /\ UNCHANGED pixels
  /\ UNCHANGED <<gfx, shape>>
----------------------------------------------------------------------------
(* Circles.  In pen, x and y count from the center, and error is d.        *)

\* The points for one of the eight parts.
EightPoints(c, x, y) ==
  {<<c.xc + sign[1] * p[1], c.yc + sign[2] * p[2]>> :
     sign \in {1, -1} \X {1, -1}, p \in {<<x, y>>, <<y, x>>}}

draw_circle_helper(c, x, y) == framebuffer_draw_pixel(EightPoints(c, x, y))

framebuffer_draw_circle(c) ==
  /\ shape = NoShape
  /\ shape' = c
  /\ pen' = [x |-> 0, y |-> c.r, error |-> 3 - 2 * c.r, down |-> TRUE]
  /\ draw_circle_helper(c, 0, c.r)
  /\ UNCHANGED gfx

CircleStep(p) ==
  IF p.error > 0
    THEN [p EXCEPT !.x = p.x + 1, !.y = p.y - 1, !.error = p.error + 4 * (p.x + 1 - (p.y - 1)) + 10]
  ELSE [p EXCEPT !.x = p.x + 1, !.error = p.error + 4 * (p.x + 1) + 6]

CircleNext ==
  /\ shape.kind = "circle" /\ pen.down
  /\ IF pen.y >= pen.x
       THEN LET p == CircleStep(pen) IN pen' = p /\ draw_circle_helper(shape, p.x, p.y)
     ELSE pen' = PenUp /\ UNCHANGED pixels
  /\ UNCHANGED <<gfx, shape>>

DrawingInit == gfx = NoScreen /\ shape = NoShape /\ pen = PenUp /\ pixels = {}
----------------------------------------------------------------------------
\* Each variable has its type.
DrawingTypeOK ==
  /\ gfx \in Screens \cup {NoScreen}
  /\ shape.kind \in {"none", "line", "circle"}
  /\ pen.down \in BOOLEAN
  /\ \A i \in pixels : i \in 0 .. gfx.fb_height * gfx.fb_pitch - 1

\* The columns and rows of the pixels that have the colour.
Points == {<<(i % gfx.fb_pitch), i \div gfx.fb_pitch>> : i \in pixels}

\* At most half a pixel from the ideal line, and between its ends.
OnLine(l, p) ==
  LET w == l.x1 - l.x0  h == l.y1 - l.y0
      longer == IF Abs(w) > Abs(h) THEN Abs(w) ELSE Abs(h)
  IN /\ p[1] \in Between(l.x0, l.x1) /\ p[2] \in Between(l.y0, l.y1)
     /\ 2 * Abs(w * (p[2] - l.y0) - h * (p[1] - l.x0)) <= longer

\* Less than a pixel and a half inside the ideal circle, and less than half
\* a pixel outside.  The loop changes d with the new x and y, not with the old
\* ones as Bresenham's algorithm does, so that it goes inwards early.
OnCircle(c, p) ==
  LET w == p[1] - c.xc  h == p[2] - c.yc
      d == w * w + h * h - c.r * c.r
  IN -3 * c.r + 3 <= d /\ d <= c.r

\* Eight directions.
Neighbours(p, q) == Abs(p[1] - q[1]) <= 1 /\ Abs(p[2] - q[2]) <= 1 /\ p # q

\* A chain of points next to the line, from its start on; a complete one has
\* one of the end's coordinates.
IsLine(l, points, complete) ==
  LET start == <<l.x0, l.y0>>
      way(p) == Abs(p[1] - l.x0) + Abs(p[2] - l.y0)
  IN /\ start \in points
     /\ \A p \in points : OnLine(l, p)
     /\ \A p \in points \ {start} : \E q \in points : Neighbours(p, q) /\ way(q) < way(p)
     /\ complete => \E p \in points : p[1] = l.x1 \/ p[2] = l.y1

\* Points next to the circle; a complete one is closed, each point having
\* neighbours on two sides, and crosses every column and row.
IsCircle(c, points, complete) ==
  /\ \A p \in points : OnCircle(c, p)
  /\ complete =>
       /\ \A p \in points : \E q, r \in points : Neighbours(p, q) /\ Neighbours(p, r) /\ q # r
       /\ \A n \in -c.r .. c.r :
            (\E p \in points : p[1] = c.xc + n) /\ (\E p \in points : p[2] = c.yc + n)

\* While a line or circle is drawn, it only has pixels of the screen next to
\* the ideal curve, and in the end no gap (framebuffer.c:98-215).
PixelsOnCurve ==
  /\ \A p \in Points : p[1] < gfx.fb_width /\ p[2] < gfx.fb_height
  /\ shape.kind = "line" => IsLine(shape, Points, ~pen.down)
  /\ shape.kind = "circle" => IsCircle(shape, Points, ~pen.down)
=============================================================================
