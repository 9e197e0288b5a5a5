------------------------------ MODULE Drawing ------------------------------
(***************************************************************************)
(* The figures of the graphical shell (modules/guishell/main.c).  A figure *)
(* has one colour, so drawing it yields a set of pixels, and the order in  *)
(* which the code writes them is left out; so are the colours, but for     *)
(* those of blend_color.  The code draws where it is told, only polygons   *)
(* are cut to the screen, which is width pixels by height.                 *)
(***************************************************************************)
EXTENDS Integers, Sequences, FiniteSets, SequencesExt

CONSTANTS width, height,  \* of the screen
          MaxSplit        \* 24, BEZIER3_MAX_SPLIT

Abs(n) == IF n < 0 THEN -n ELSE n
Lesser(a, b) == IF a < b THEN a ELSE b
Greater(a, b) == IF a < b THEN b ELSE a
Lowest(ns) == CHOOSE n \in ns : \A m \in ns : n <= m
Highest(ns) == CHOOSE n \in ns : \A m \in ns : m <= n
Between(a, b) == Lesser(a, b) .. Greater(a, b)
Sign(a, b) == IF a < b THEN 1 ELSE -1
\* The division of C, towards zero.
Quot(a, b) == IF (a < 0) = (b < 0) THEN Abs(a) \div Abs(b) ELSE -(Abs(a) \div Abs(b))
Rect(x, y, w, h) == (x .. x + w - 1) \X (y .. y + h - 1)

-----------------------------------------------------------------------------
(* Lines, rectangles, circles and ellipses *)

draw_line(x0, y0, x1, y1) ==
    LET dx == Abs(x1 - x0)
        dy == -Abs(y1 - y0)
        RECURSIVE Walk(_, _, _)
        Walk(x, y, err) ==
            LET across == 2 * err >= dy
                down == 2 * err <= dx
            IN {<<x, y>>} \cup
               IF <<x, y>> = <<x1, y1>> THEN {}
               ELSE Walk(IF across THEN x + Sign(x0, x1) ELSE x, IF down THEN y + Sign(y0, y1) ELSE y,
                         err + (IF across THEN dy ELSE 0) + (IF down THEN dx ELSE 0))
    IN IF x0 = x1 \/ y0 = y1 THEN Between(x0, x1) \X Between(y0, y1) ELSE Walk(x0, y0, dx + dy)

draw_rect(x, y, w, h, fill) ==
    Rect(x, y, w, 1) \cup Rect(x, y + h - 1, w, 1)
    \cup (IF fill THEN Rect(x, y + 1, w, h - 2) ELSE {x, x + w - 1} \X (y + 1 .. y + h - 2))

\* A row of a filled figure, or its two ends.
Row(xa, xb, y, fill) == IF fill THEN draw_line(xa, y, xb, y) ELSE {xa, xb} \X {y}

draw_circle(x0, y0, radius, fill) ==
    LET Rows(x, y) == Row(x0 + x, x0 - x, y0 + y, fill) \cup Row(x0 + x, x0 - x, y0 - y, fill)
        RECURSIVE Walk(_, _, _)
        Walk(x, y, f) ==
            IF x >= y THEN {}
            ELSE LET y2 == IF f >= 0 THEN y - 1 ELSE y
                     f2 == f + (IF f >= 0 THEN -2 * y2 ELSE 0) + 2 * (x + 1) + 1
                 IN Rows(x + 1, y2) \cup Rows(y2, x + 1) \cup Walk(x + 1, y2, f2)
    IN Row(x0 + radius, x0 - radius, y0, fill) \cup {<<x0, y0 + radius>>, <<x0, y0 - radius>>}
       \cup Walk(0, radius, 1 - radius)

\* The first loop goes out from the middle until the sides meet, the second
\* one goes on to the tip of a narrow ellipse.
draw_ellipse_rect(xa, ya, xb, yb, fill) ==
    LET a == Abs(xb - xa)
        b == Abs(yb - ya)
        odd == b % 2
        left == Lesser(xa, xb)
        low == Lesser(ya, yb) + (b + 1) \div 2
        Rows(x0, x1, y0, y1) == Row(x0, x1, y0, fill) \cup Row(x0, x1, y1, fill)
        RECURSIVE Tip(_, _, _, _), Walk(_, _, _, _, _, _, _)
        Tip(x0, x1, y0, y1) ==
            IF y0 - y1 < b THEN Rows(x0 - 1, x1 + 1, y0, y1) \cup Tip(x0, x1, y0 + 1, y1 - 1) ELSE {}
        Walk(x0, x1, y0, y1, dx, dy, err) ==
            LET across == 2 * err >= dx
                dx2 == IF across THEN dx + 8 * b * b ELSE dx
                \* e2 is of before the step across
                down == 2 * err <= dy
                dy2 == IF down THEN dy + 8 * a * a ELSE dy
                i == IF across THEN 1 ELSE 0
                j == IF down THEN 1 ELSE 0
            IN Rows(x0, x1, y0, y1) \cup
               IF x0 + i <= x1 - i
               THEN Walk(x0 + i, x1 - i, y0 + j, y1 - j, dx2, dy2, err + i * dx2 + j * dy2)
               ELSE Tip(x0 + i, x1 - i, y0 + j, y1 - j)
        dx0 == 4 * (1 - a) * b * b
        dy0 == 4 * (odd + 1) * a * a
    IN Walk(left, left + a, low, low - odd, dx0, dy0, dx0 + dy0 + odd * a * a)

-----------------------------------------------------------------------------
(* Curves *)

\* Points are pairs here; no side of the curve turns back in a part.
draw_bezier2_part(p, q, r) ==
    LET sx == Sign(p[1], r[1])
        sy == Sign(p[2], r[2])
        cur == sx * sy * ((p[1] - q[1]) * (r[2] - q[2]) - (r[1] - q[1]) * (p[2] - q[2]))
        up == IF cur < 0 THEN -1 ELSE 1  \* negated curvature
        x == p[1] - 2 * q[1] + r[1]
        y == p[2] - 2 * q[2] + r[2]
        xy == 2 * x * y * sx * sy
        \* Error increments at an end e of the curve.
        Ex(e, s) == up * ((1 - 2 * Abs(e[1] - q[1])) * y * y + Abs(e[2] - q[2]) * xy - s * 2 * cur * Abs(p[2] - r[2]))
        Ey(e, s) == up * ((1 - 2 * Abs(e[2] - q[2])) * x * x + Abs(e[1] - q[1]) * xy + s * 2 * cur * Abs(p[1] - r[1]))
        x2 == up * 2 * x * x
        y2 == up * 2 * y * y
        RECURSIVE Walk(_, _, _, _, _)
        Walk(a, b, dx, dy, err) ==
            LET across == 2 * err >= dx
                down == 2 * err - dy <= 0
                dx2 == dx + (IF across THEN y2 ELSE 0)
                dy2 == dy - (IF across THEN up * xy ELSE 0)
                err2 == err + (IF across THEN dx2 ELSE 0)
                dy3 == dy2 + x2
            IN {<<a, b>>} \cup
               IF (across /\ a = r[1]) \/ (down /\ b = r[2]) THEN {}
               ELSE Walk(IF across THEN a + sx ELSE a, IF down THEN b + sy ELSE b,
                         IF down THEN dx2 - up * xy ELSE dx2, IF down THEN dy3 ELSE dy2,
                         IF down THEN err2 + dy3 ELSE err2)
        d == <<Ex(p, 1), Ey(p, 1)>>
    IN IF cur = 0 THEN draw_line(p[1], p[2], r[1], r[2])
       ELSE IF d[1] >= -y2 \/ d[2] <= -x2 \/ Ex(r, -1) <= -y2 \/ Ey(r, -1) >= -x2
       THEN draw_line(p[1], p[2], q[1], q[2]) \cup draw_line(q[1], q[2], r[1], r[2])
       ELSE Walk(p[1], p[2], d[1] - up * xy, d[2] - up * xy, d[1] - up * xy + d[2])

inside(a, b, c) == (a <= b /\ b <= c) \/ (c <= b /\ b <= a)
Mid(p, q) == <<(p[1] + q[1]) \div 2, (p[2] + q[2]) \div 2>>

RECURSIVE draw_bezier2(_, _, _)
draw_bezier2(p, q, r) ==
    IF inside(p[1], q[1], r[1]) /\ inside(p[2], q[2], r[2]) THEN draw_bezier2_part(p, q, r)
    ELSE LET m == Mid(Mid(p, q), Mid(q, r))
         IN draw_bezier2(p, Mid(p, q), m) \cup draw_bezier2(m, Mid(q, r), r)

\* A cubic curve is a sequence of four points.
split_bezier3(c) ==
    LET p01 == Mid(c[1], c[2])
        p12 == Mid(c[2], c[3])
        p23 == Mid(c[3], c[4])
        p012 == Mid(p01, p12)
        p123 == Mid(p12, p23)
        m == Mid(p012, p123)
    IN <<<<c[1], p01, p012, m>>, <<m, p123, p23, c[4]>>>>

bezier3_flat_enough(c) ==
    LET dx == c[4][1] - c[1][1]
        dy == c[4][2] - c[1][2]
        Off(p) == Abs(dx * (p[2] - c[1][2]) - dy * (p[1] - c[1][1]))
    IN Off(c[2]) <= Abs(dx) + Abs(dy) /\ Off(c[3]) <= Abs(dx) + Abs(dy)

\* What is drawn, and how high the stack of curves to do has been.
draw_bezier3(curve) ==
    LET Flat(c) == LET Q(i) == (3 * c[2][i] + 3 * c[3][i] - c[1][i] - c[4][i]) \div 4
                   IN draw_bezier2(c[1], <<Q(1), Q(2)>>, c[4])
        RECURSIVE Work(_, _, _)
        Work(stack, done, high) ==
            IF stack = <<>> THEN [pixels |-> done, high |-> high]
            ELSE LET top == Last(stack)
                     c == top[1]
                     parts == split_bezier3(c)
                     rest == Front(stack)
                     deeper == rest \o <<<<parts[2], top[2] + 1>>, <<parts[1], top[2] + 1>>>>
                 IN IF bezier3_flat_enough(c) THEN Work(rest, done \cup Flat(c), high)
                    ELSE IF top[2] >= MaxSplit - 1
                    THEN Work(rest, done \cup draw_line(c[1][1], c[1][2], c[4][1], c[4][2]), high)
                    ELSE Work(deeper, done, Greater(high, Len(deeper)))
    IN Work(<<<<curve, 0>>>>, {}, 1)
-----------------------------------------------------------------------------
(* Polygons *)

After(pts, i) == pts[(i % Len(pts)) + 1]
Edges(pts) == {<<pts[i], After(pts, i)>> : i \in DOMAIN pts}

\* Where a row meets the sides of a polygon: a side has its lower end but not
\* its upper one, and is cut to whole pixels towards the point it starts from.
Crosses(p, q, y) == (p[2] < y /\ q[2] >= y) \/ (q[2] < y /\ p[2] >= y)
Met(pts, y) ==
    LET sides == SelectSeq([i \in DOMAIN pts |-> i], LAMBDA i : Crosses(pts[i], After(pts, i), y))
        X(p, q) == p[1] + Quot((y - p[2]) * (q[1] - p[1]), q[2] - p[2])
    IN [k \in DOMAIN sides |-> X(pts[sides[k]], After(pts, sides[k]))]

Nodes(pts, y) == SortSeq(Met(pts, y), <)

draw_polygon(pts, fill) ==
    LET low == Greater(Lowest({pts[i][2] : i \in DOMAIN pts}), 0)
        high == Lesser(Highest({pts[i][2] : i \in DOMAIN pts}), height - 1)
        Spans(y) == LET nodes == Nodes(pts, y)
                    IN UNION {Greater(nodes[2 * k - 1], 0) .. Lesser(nodes[2 * k], width - 1) : k \in 1 .. Len(nodes) \div 2}
    IN IF Len(pts) < 3 THEN {}
       ELSE IF ~fill THEN UNION {draw_line(e[1][1], e[1][2], e[2][1], e[2][2]) : e \in Edges(pts)}
       ELSE UNION {Spans(y) \X {y} : y \in low .. high}

-----------------------------------------------------------------------------
(* Colours, images and texts *)

\* One part of a colour, of 0 to most, under another that covers it in part.
blend_color(upper, lower, alpha, most) ==
    IF alpha = 0 THEN lower
    ELSE IF alpha = most THEN upper
    ELSE ((lower * (most - alpha)) \div most) + ((upper * alpha) \div most)

\* An image is the set of its pixels that cover what is below.
draw_image(x, y, image) == {<<x + p[1], y + p[2]>> : p \in image}

\* A character has the cells it takes, and a glyph of so many pixels in width
\* or none; a glyph is drawn twice, one pixel apart, but for its last column.
Fallback == [wide |-> 8, dots |-> {<<1, 3>>, <<6, 13>>}]
Glyph(ch) == IF ch.glyph = <<>> \/ ch.glyph[1].wide \notin {8, 16} THEN Fallback ELSE ch.glyph[1]
draw_char(x, y, ch) ==
    LET g == Glyph(ch)
    IN {<<x + p[1], y + p[2]>> : p \in {<<i, j>> \in (0 .. g.wide - 1) \X (0 .. 15) : <<i, j>> \in g.dots \/ <<i - 1, j>> \in g.dots}}

\* Where the characters of a text begin.
Begins(x, str, i) == FoldLeftDomain(LAMBDA sum, k : IF k < i THEN sum + 8 * str[k].cells ELSE sum, x, str)
draw_text(x, y, str) == UNION {draw_char(Begins(x, str, i), y, str[i]) : i \in DOMAIN str}

-----------------------------------------------------------------------------
(* Windows *)

draw_button_frame(x, y, w, h) ==
    draw_line(x, y, x + w - 2, y) \cup draw_line(x, y, x, y + h - 2)
    \cup draw_line(x + w - 2, y + 1, x + w - 2, y + h - 2) \cup draw_line(x + 1, y + h - 2, x + w - 3, y + h - 2)
    \cup draw_line(x + w - 1, y, x + w - 1, y + h - 1) \cup draw_line(x, y + h - 1, x + w - 1, y + h - 1)
    \cup draw_rect(x + 1, y + 1, w - 3, h - 3, TRUE)

\* The frame of a window, and what is drawn on top of it.
WindowFrame(x, y, w, h) ==
    draw_rect(x, y, w - 1, h - 1, FALSE)
    \cup draw_line(x + 1, y + 1, x + w - 2, y + 1) \cup draw_line(x + 1, y + 2, x + 1, y + h - 3)
    \cup draw_line(x, y + h - 1, x + w - 1, y + h - 1) \cup draw_line(x + w - 1, y, x + w - 1, y + h - 2)
    \cup draw_rect(x + 2, y + 2, w - 4, h - 4, TRUE)
TitleBar(x, y, w) == draw_rect(x + 4, y + 4, w - 8, 20, TRUE)
Buttons(x, y) == [i \in 0 .. 2 |-> draw_button_frame(x + 4 + 20 * i, y + 4, 20, 20)]
icons == [i \in 0 .. 2 |-> {<<2, 2>>, <<9, 9>>}]  \* close, minimize, maximize: of 12 by 12
Icons(x, y) == [i \in 0 .. 2 |-> draw_image(x + 8 + 20 * i, y + 8, icons[i])]

draw_frame(x, y, w, h) ==
    draw_line(x, y, x + w - 2, y) \cup draw_line(x, y, x, y + h - 2)
    \cup draw_line(x + w - 1, y, x + w - 1, y + h - 1) \cup draw_line(x, y + h - 1, x + w - 1, y + h - 1)
    \cup draw_rect(x + 1, y + 1, w - 2, h - 2, TRUE)

-----------------------------------------------------------------------------
\* A figure is a record with a kind.
Draw(f) ==
    CASE f.kind = "line" -> draw_line(f.at[1], f.at[2], f.to[1], f.to[2])
      [] f.kind = "circle" -> draw_circle(f.at[1], f.at[2], f.radius, f.fill)
      [] f.kind = "ellipse" -> draw_ellipse_rect(f.at[1], f.at[2], f.to[1], f.to[2], f.fill)
      [] f.kind = "curve" -> draw_bezier2(f.points[1], f.points[2], f.points[3])
      [] f.kind = "cubic" -> draw_bezier3(f.points)
      [] f.kind = "polygon" -> draw_polygon(f.points, f.fill)
      [] f.kind = "text" -> draw_text(0, 0, f.str)
      [] f.kind = "window" -> [frame |-> WindowFrame(0, 0, f.w, f.h), bar |-> TitleBar(0, 0, f.w),
                               buttons |-> Buttons(0, 0), icons |-> Icons(0, 0)]
      [] f.kind = "frame" -> draw_frame(0, 0, f.w, f.h)
      [] f.kind = "blend" -> {blend_color(f.upper, f.lower, a, f.most) : a \in 0 .. f.most}

-----------------------------------------------------------------------------
(* What the figures are *)

Near(p, q) == Abs(p[1] - q[1]) <= 1 /\ Abs(p[2] - q[2]) <= 1
RECURSIVE Spread(_, _)
Spread(some, all) ==
    LET more == {p \in all \ some : \E q \in some : Near(p, q)}
    IN IF more = {} THEN some ELSE Spread(some \cup more, all)
Connects(p, q, pixels) == {p, q} \subseteq pixels /\ Spread({p}, pixels) = pixels

\* As many pixels as the longer side has, none further than half a pixel off.
IsLine(a, b, pixels) ==
    LET dx == b[1] - a[1]
        dy == b[2] - a[2]
        long == Greater(Abs(dx), Abs(dy))
    IN /\ Connects(a, b, pixels) /\ Cardinality(pixels) = long + 1
       /\ \A p \in pixels : 2 * Abs(dx * (p[2] - a[2]) - dy * (p[1] - a[1])) <= long

Filled(pixels) == {<<x, p[2]>> : x \in Lowest({q[1] : q \in pixels}) .. Highest({q[1] : q \in pixels}), p \in pixels}
RowsFilled(pixels) == UNION {Filled({q \in pixels : q[2] = y}) : y \in {p[2] : p \in pixels}}

\* The same on all eight sides, and within a pixel of the circle.
IsCircle(c, r, pixels) ==
    \A p \in pixels :
        LET x == p[1] - c[1]
            y == p[2] - c[2]
        IN /\ {<<c[1] + y, c[2] + x>>, <<c[1] - x, p[2]>>, <<p[1], c[2] - y>>} \subseteq pixels
           /\ Abs(x * x + y * y - r * r) <= r

\* The same on all four sides, within the box, and in each of its columns and
\* rows; but the tips of one that is at least twice as high as wide may lack.
IsEllipse(a, b, pixels) ==
    LET xs == Between(a[1], b[1])
        ys == Between(a[2], b[2])
        rows == {p[2] : p \in pixels}
        tips == {a[2], b[2]}
    IN /\ pixels \subseteq xs \X ys /\ {p[1] : p \in pixels} = xs /\ ys \ tips \subseteq rows
       /\ (Cardinality(ys) <= 2 \/ Cardinality(ys) < 2 * Cardinality(xs) - 1 => rows = ys)
       /\ \A p \in pixels : {<<a[1] + b[1] - p[1], p[2]>>, <<p[1], a[2] + b[2] - p[2]>>} \subseteq pixels

\* Whether a point is on a side, and how many sides are above it.
OnSide(p, e) ==
    /\ (e[2][1] - e[1][1]) * (p[2] - e[1][2]) = (e[2][2] - e[1][2]) * (p[1] - e[1][1])
    /\ p[1] \in Between(e[1][1], e[2][1]) /\ p[2] \in Between(e[1][2], e[2][2])
Above(p, pts) ==
    Cardinality({i \in DOMAIN pts :
        LET a == pts[i]
            b == After(pts, i)
            d == b[1] - a[1]
        IN /\ (a[1] <= p[1]) # (b[1] <= p[1])
           /\ IF d > 0 THEN (p[2] - a[2]) * d > (p[1] - a[1]) * (b[2] - a[2])
              ELSE (p[2] - a[2]) * d < (p[1] - a[1]) * (b[2] - a[2])})
Inner(pts) ==
    {p \in (0 .. width - 1) \X (0 .. height - 1) :
        Above(p, pts) % 2 = 1 /\ \A e \in Edges(pts) : ~OnSide(p, e)}

\* All that is inside of a polygon, and nothing else that is further away
\* from a side, to the left or to the right, than a pixel.
CloseTo(p, e) ==
    LET dy == e[2][2] - e[1][2]
    IN /\ p[2] \in Between(e[1][2], e[2][2])
       /\ Abs((p[1] - e[1][1]) * dy - (p[2] - e[1][2]) * (e[2][1] - e[1][1])) < Abs(dy)
IsPolygon(pts, pixels) ==
    /\ Inner(pts) \subseteq pixels
    /\ \A p \in pixels \ Inner(pts) : \E e \in Edges(pts) : OnSide(p, e) \/ CloseTo(p, e)

\* The bars and buttons of a window are inside of it and beside each other, a
\* mark is inside of its button, and the close button is where a click is one.
IsWindow(w, h, parts) ==
    /\ parts.frame = Rect(0, 0, w, h) /\ parts.bar \subseteq Rect(2, 2, w - 4, h - 4)
    /\ \A i \in 0 .. 2 :
          /\ parts.buttons[i] = Rect(4 + 20 * i, 4, 20, 20) /\ parts.buttons[i] \subseteq parts.bar
          /\ parts.icons[i] \subseteq Rect(8 + 20 * i, 8, 12, 12)
          /\ \A j \in 0 .. 2 \ {i} : parts.buttons[i] \cap parts.buttons[j] = {}

\* Each character of a text stays in its own cells, if its glyph is as wide.
IsText(str, pixels) ==
    (\A i \in DOMAIN str : Glyph(str[i]).wide = 8 * str[i].cells) =>
        \A i, j \in DOMAIN str : i # j =>
            draw_char(Begins(0, str, i), 0, str[i]) \cap draw_char(Begins(0, str, j), 0, str[j]) = {}

(* Lines and curves go in one piece from one end to the other and stay       *)
(* close to where they should, circles and ellipses are round, filled        *)
(* figures have all that is inside of them and nothing far outside, whatever *)
(* the figure; and the stack of a cubic curve has room for its parts.        *)
IsFigure(f, d) ==
    CASE f.kind = "line" -> IsLine(f.at, f.to, d)
      [] f.kind = "circle" -> IF f.fill THEN d = RowsFilled(draw_circle(f.at[1], f.at[2], f.radius, FALSE))
                                     ELSE IsCircle(f.at, f.radius, d)
      [] f.kind = "ellipse" ->
                  IF f.fill THEN d = RowsFilled(draw_ellipse_rect(f.at[1], f.at[2], f.to[1], f.to[2], FALSE))
                  ELSE IsEllipse(f.at, f.to, d)
      [] f.kind = "curve" -> Connects(f.points[1], f.points[3], d)
      [] f.kind = "cubic" -> Connects(f.points[1], f.points[4], d.pixels) /\ d.high <= MaxSplit
      [] f.kind = "polygon" -> IF f.fill THEN IsPolygon(f.points, d)
                                      ELSE Connects(f.points[1], f.points[2], d)
      [] f.kind = "text" -> IsText(f.str, d)
      [] f.kind = "window" -> IsWindow(f.w, f.h, d)
      [] f.kind = "frame" -> d = Rect(0, 0, f.w, f.h)
      [] f.kind = "blend" -> \A n \in d : n \in Lesser(f.upper, f.lower) - 1 .. Greater(f.upper, f.lower)
=============================================================================
