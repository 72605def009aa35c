------------------------------- MODULE Drawing -------------------------------
(***************************************************************************)
(* The monochrome canvas and what draws on it: lines, rectangles, circles, *)
(* glyphs and aligned text.  A shape is the sequence of the points it      *)
(* touches, in the order of the code and with its repetitions, because the *)
(* operation Invert sees them.                                             *)
(***************************************************************************)
EXTENDS Integers, SequencesExt

CONSTANTS
    CanvasWidth, CanvasHeight,
    Bits,           \* pixels in a byte of the buffer, 8 in the code
    GlyphWidth, GlyphHeight, horizontalSpacing,
    Shapes, Clips, Texts,   \* what callers draw, and the clips they set
    MaxDrawn        \* bound: the drawing calls followed

DrawingAssumption ==
    LET Spot == [x : Int, y : Int]
        Area == [x : Int, y : Int, width : Int, height : Int]
    IN  /\ CanvasWidth \in Nat /\ CanvasHeight \in Nat /\ Bits \in Nat \ {0}
        /\ GlyphWidth \in Nat /\ GlyphHeight \in Nat /\ horizontalSpacing \in Nat
        /\ Shapes \subseteq
              [kind : {"line"}, from : Spot, to : Spot, on : Nat, off : Nat]
              \cup [kind : {"across", "down"}, at : Spot, length : Int]
              \cup [kind : {"rectangle", "filled"}, box : Area]
              \cup [kind : {"circle", "disc"}, at : Spot, radius : Int]
              \cup [kind : {"glyph"}, box : Area,
                    glyph : {"ArrowLeft", "ArrowRight", "ArrowUp", "ArrowDown",
                             "Check", "Cross", "Plus", "Minus"}]
        /\ Clips \subseteq Area
        /\ Texts \subseteq [box : Area, length : Nat,
                style : [horizontal : {"Left", "Center", "Right"},
                         vertical : {"Top", "Middle", "Bottom"},
                         mode : {"Normal", "Inverted"}, clipToBounds : BOOLEAN]]

VARIABLES
    lit,     \* the bits of the buffer that are set
    clip,    \* clip_
    call,    \* history: the last drawing call
    drawn    \* the number of drawing calls

sketch == <<lit, clip, call, drawn>>

-----------------------------------------------------------------------------
(***************************************************************************)
(* geometry.hpp.                                                           *)
(***************************************************************************)
Point(x, y) == [x |-> x, y |-> y]
Rectangle(x, y, width, height) == [x |-> x, y |-> y, width |-> width, height |-> height]

right(r) == r.x + r.width
bottom(r) == r.y + r.height
valid(r) == r.width > 0 /\ r.height > 0
contains(r, p) == valid(r) /\ p.x \in r.x .. right(r) - 1 /\ p.y \in r.y .. bottom(r) - 1

Least(a, b) == IF a < b THEN a ELSE b
Greatest(a, b) == IF a > b THEN a ELSE b
Absolute(a) == IF a < 0 THEN -a ELSE a

intersect(a, b) ==
    LET left == Greatest(a.x, b.x)
        top  == Greatest(a.y, b.y)
    IN  Rectangle(left, top, Greatest(Least(right(a), right(b)) - left, 0),
                             Greatest(Least(bottom(a), bottom(b)) - top, 0))

(***************************************************************************)
(* The canvas: its buffer has whole bytes for every row.                   *)
(***************************************************************************)
bounds == Rectangle(0, 0, CanvasWidth, CanvasHeight)
RowStride == (CanvasWidth + Bits - 1) \div Bits
Buffer == {Point(x, y) : x \in 0 .. RowStride * Bits - 1, y \in 0 .. CanvasHeight - 1}
Pixels == {p \in Buffer : contains(bounds, p)}

(***************************************************************************)
(* applyPixel() of each pixel in turn: one that is touched twice is set or *)
(* cleared once, and inverted twice.                                       *)
(***************************************************************************)
Applied(canvas, touched, operation, within) ==
    LET area == {p \in ToSet(touched) : contains(within, p)}
        odd  == {p \in area :
                    Cardinality({i \in DOMAIN touched : touched[i] = p}) % 2 = 1}
    IN  CASE operation = "Clear"  -> canvas \ area
          [] operation = "Set"    -> canvas \cup area
          [] operation = "Invert" -> (canvas \ odd) \cup (odd \ canvas)

-----------------------------------------------------------------------------
(***************************************************************************)
(* drawing.cpp.  A length below 0 draws to the left, or upwards.           *)
(***************************************************************************)
drawHorizontalLine(x, y, length) ==
    LET first == IF length < 0 THEN x + length + 1 ELSE x
    IN  [i \in 1 .. Absolute(length) |-> Point(first + i - 1, y)]

drawVerticalLine(x, y, length) ==
    LET first == IF length < 0 THEN y + length + 1 ELSE y
    IN  [i \in 1 .. Absolute(length) |-> Point(x, first + i - 1)]

patternDraws(on, off, position) ==
    on # 0 /\ (off = 0 \/ position % (on + off) < on)

\* One step of the loop of drawLine(), from point and error at.
Advance(at, end, deltaX, deltaY, stepX, stepY) ==
    LET along == 2 * at.error >= deltaY
        down  == 2 * at.error <= deltaX
    IN  [x     |-> IF along THEN at.x + stepX ELSE at.x,
         y     |-> IF down THEN at.y + stepY ELSE at.y,
         error |-> at.error + (IF along THEN deltaY ELSE 0) + (IF down THEN deltaX ELSE 0)]

Steps(start, end) == Absolute(end.x - start.x) + Absolute(end.y - start.y)

Walk(start, end) ==
    LET deltaX == Absolute(end.x - start.x)
        deltaY == -Absolute(end.y - start.y)
        stepX  == IF start.x < end.x THEN 1 ELSE -1
        stepY  == IF start.y < end.y THEN 1 ELSE -1
        walk[n \in 0 .. Steps(start, end)] ==
            IF n = 0 THEN [x |-> start.x, y |-> start.y, error |-> deltaX + deltaY]
            ELSE Advance(walk[n - 1], end, deltaX, deltaY, stepX, stepY)
    IN  walk

drawLine(start, end, on, off) ==
    LET Spot(n) == Point(Walk(start, end)[n].x, Walk(start, end)[n].y)
        last == CHOOSE n \in 0 .. Steps(start, end) :
                    Spot(n) = end /\ \A m \in 0 .. n - 1 : Spot(m) # end
    IN  FlattenSeq([i \in 1 .. last + 1 |->
            IF patternDraws(on, off, i - 1) THEN <<Spot(i - 1)>> ELSE <<>>])

\* Faulty: the vertical edges go from corner to corner.
RectangleWithCorners(r) ==
    IF ~valid(r) THEN <<>>
    ELSE drawHorizontalLine(r.x, r.y, r.width)
         \o (IF r.height > 1 THEN drawHorizontalLine(r.x, bottom(r) - 1, r.width) ELSE <<>>)
         \o (IF r.height > 2 THEN drawVerticalLine(r.x, r.y, r.height)
                                  \o drawVerticalLine(right(r) - 1, r.y, r.height) ELSE <<>>)

drawRectangle(r) ==
    IF ~valid(r) THEN <<>>
    ELSE drawHorizontalLine(r.x, r.y, r.width)
         \o (IF r.height > 1 THEN drawHorizontalLine(r.x, bottom(r) - 1, r.width) ELSE <<>>)
         \o (IF r.height > 2 THEN drawVerticalLine(r.x, r.y + 1, r.height - 2) ELSE <<>>)
         \o (IF r.height > 2 /\ r.width > 1
             THEN drawVerticalLine(right(r) - 1, r.y + 1, r.height - 2) ELSE <<>>)

fillRectangle(r) ==
    IF ~valid(r) THEN <<>>
    ELSE FlattenSeq([i \in 1 .. r.height |-> drawHorizontalLine(r.x, r.y + i - 1, r.width)])

\* The first octant, x from the radius down and y up from 0, while x >= y.
Arc(radius) ==
    LET at[n \in 0 .. radius] ==
            IF n = 0 THEN [x |-> radius, y |-> 0, error |-> 1 - radius]
            ELSE LET was == at[n - 1] IN
                 IF was.error < 0
                 THEN [was EXCEPT !.y = n, !.error = @ + 2 * n + 1]
                 ELSE [x |-> was.x - 1, y |-> n, error |-> was.error + 2 * (n - was.x + 1) + 1]
    IN  at

Octant(radius) ==
    LET last == CHOOSE n \in 0 .. radius :
                    /\ Arc(radius)[n].x >= n
                    /\ n < radius => Arc(radius)[n + 1].x < n + 1
    IN  [i \in 1 .. last + 1 |-> Arc(radius)[i - 1]]

Reflected(c, x, y) ==
    <<Point(c.x + x, c.y + y), Point(c.x + y, c.y + x), Point(c.x - y, c.y + x),
      Point(c.x - x, c.y + y), Point(c.x - x, c.y - y), Point(c.x - y, c.y - x),
      Point(c.x + y, c.y - x), Point(c.x + x, c.y - y)>>

drawCircle(c, radius) ==
    CASE radius < 0 -> <<>>
      [] radius = 0 -> <<c>>
      [] radius > 0 -> FlattenSeq([i \in DOMAIN Octant(radius) |->
                           Reflected(c, Octant(radius)[i].x, Octant(radius)[i].y)])

Chords(c, x, y) ==
    drawHorizontalLine(c.x - x, c.y + y, 2 * x + 1)
    \o drawHorizontalLine(c.x - x, c.y - y, 2 * x + 1)
    \o drawHorizontalLine(c.x - y, c.y + x, 2 * y + 1)
    \o drawHorizontalLine(c.x - y, c.y - x, 2 * y + 1)

fillCircle(c, radius) ==
    IF radius < 0 THEN <<>>
    ELSE FlattenSeq([i \in DOMAIN Octant(radius) |->
            Chords(c, Octant(radius)[i].x, Octant(radius)[i].y)])

(***************************************************************************)
(* glyphs.cpp: solid lines between the middle and the edges of a box.      *)
(***************************************************************************)
drawGlyph(r, glyph) ==
    LET l == r.x  t == r.y
        e == r.x + Greatest(r.width - 1, 0)
        b == r.y + Greatest(r.height - 1, 0)
        cx == r.x + r.width \div 2
        cy == r.y + r.height \div 2
        Line(x1, y1, x2, y2) == drawLine(Point(x1, y1), Point(x2, y2), 1, 0)
    IN  CASE ~valid(r) -> <<>>
          [] valid(r) /\ glyph = "ArrowLeft"  -> Line(e, cy, l, cy) \o Line(l, cy, cx, t) \o Line(l, cy, cx, b)
          [] valid(r) /\ glyph = "ArrowRight" -> Line(l, cy, e, cy) \o Line(e, cy, cx, t) \o Line(e, cy, cx, b)
          [] valid(r) /\ glyph = "ArrowUp"    -> Line(cx, b, cx, t) \o Line(cx, t, l, cy) \o Line(cx, t, e, cy)
          [] valid(r) /\ glyph = "ArrowDown"  -> Line(cx, t, cx, b) \o Line(cx, b, l, cy) \o Line(cx, b, e, cy)
          [] valid(r) /\ glyph = "Check"      -> Line(l, cy, cx, b) \o Line(cx, b, e, t)
          [] valid(r) /\ glyph = "Cross"      -> Line(l, t, e, b) \o Line(l, b, e, t)
          [] valid(r) /\ glyph = "Plus"       -> drawHorizontalLine(l, cy, r.width)
                                                 \o drawVerticalLine(cx, t, r.height)
          [] valid(r) /\ glyph = "Minus"      -> drawHorizontalLine(l, cy, r.width)

Touched(s) ==
    CASE s.kind = "line"      -> drawLine(s.from, s.to, s.on, s.off)
      [] s.kind = "across"    -> drawHorizontalLine(s.at.x, s.at.y, s.length)
      [] s.kind = "down"      -> drawVerticalLine(s.at.x, s.at.y, s.length)
      [] s.kind = "rectangle" -> drawRectangle(s.box)
      [] s.kind = "filled"    -> fillRectangle(s.box)
      [] s.kind = "circle"    -> drawCircle(s.at, s.radius)
      [] s.kind = "disc"      -> fillCircle(s.at, s.radius)
      [] s.kind = "glyph"     -> drawGlyph(s.box, s.glyph)

(***************************************************************************)
(* text.cpp: measureText(), alignedOrigin() and drawText(), of characters  *)
(* that fill their cell.                                                   *)
(***************************************************************************)
measureText(length) ==
    IF length = 0 THEN 0
    ELSE length * (GlyphWidth + horizontalSpacing) - horizontalSpacing

\* The division of C++ rounds to zero.
Half(n) == IF n < 0 THEN -((-n) \div 2) ELSE n \div 2

alignedOrigin(r, width, style) ==
    Point(r.x + CASE style.horizontal = "Left"   -> 0
                  [] style.horizontal = "Center" -> Half(r.width - width)
                  [] style.horizontal = "Right"  -> r.width - width,
          r.y + CASE style.vertical = "Top"    -> 0
                  [] style.vertical = "Middle" -> Half(r.height - GlyphHeight)
                  [] style.vertical = "Bottom" -> r.height - GlyphHeight)

Characters(origin, length) ==
    FlattenSeq([i \in 1 .. length |->
        fillRectangle(Rectangle(origin.x + (i - 1) * (GlyphWidth + horizontalSpacing),
                                origin.y, GlyphWidth, GlyphHeight))])

TextClip(r, style) == IF style.clipToBounds THEN intersect(bounds, r) ELSE clip

Written(r, length, style) ==
    LET text  == Characters(alignedOrigin(r, measureText(length), style), length)
        paper == Applied(lit, fillRectangle(r), "Set", TextClip(r, style))
    IN  IF style.mode = "Inverted"
        THEN Applied(paper, text, "Clear", TextClip(r, style))
        ELSE Applied(lit, text, "Set", TextClip(r, style))

-----------------------------------------------------------------------------
(***************************************************************************)
(* The calls.                                                              *)
(***************************************************************************)
NoCall == [of |-> "canvas"]

SketchInit ==
    /\ lit \in {{}, {p \in Pixels : p.x % 2 = 0}} /\ clip = bounds
    /\ call = NoCall /\ drawn = 0

DrawCall(canvas, how) ==
    /\ drawn < MaxDrawn /\ drawn' = drawn + 1
    /\ lit' = canvas /\ call' = how
    /\ UNCHANGED clip

draw(s, operation) ==
    DrawCall(Applied(lit, Touched(s), operation, clip),
            [of |-> "shape", shape |-> s, operation |-> operation])
drawText(t) == DrawCall(Written(t.box, t.length, t.style), [of |-> "text", text |-> t])
clear == DrawCall({}, NoCall)
fill == DrawCall(Pixels, NoCall)
invert == DrawCall((Buffer \ lit) \cap Pixels, NoCall)

setClipRect(r) == clip' = intersect(bounds, r) /\ UNCHANGED <<lit, call, drawn>>
resetClipRect == clip' = bounds /\ UNCHANGED <<lit, call, drawn>>

SketchNext ==
    \/ \E s \in Shapes, operation \in {"Clear", "Set", "Invert"} : draw(s, operation)
    \/ \E t \in Texts : drawText(t)
    \/ clear \/ fill \/ invert
    \/ \E r \in Clips : setClipRect(r)
    \/ resetClipRect

-----------------------------------------------------------------------------
(***************************************************************************)
(* What a shape is: of a line one point in each column (or row, if it is   *)
(* steep), no farther than half a pixel from the straight line; of a       *)
(* circle points no farther than half a pixel from the round one, without  *)
(* gaps; a disc between two such circles; a rectangle, its border.         *)
(***************************************************************************)
Flat(s) == Absolute(s.to.x - s.from.x) >= Absolute(s.to.y - s.from.y)

IsLine(s, area) ==
    LET dx == s.to.x - s.from.x
        dy == s.to.y - s.from.y
        n  == Greatest(Absolute(dx), Absolute(dy))
        Away(p) == (p.x - s.from.x) * dy - (p.y - s.from.y) * dx
        Along(p) == IF Flat(s) THEN (p.x - s.from.x) * (IF dx < 0 THEN -1 ELSE 1)
                               ELSE (p.y - s.from.y) * (IF dy < 0 THEN -1 ELSE 1)
        Wanted == {k \in 0 .. n : s.on > 0 /\ (s.off = 0 \/ k % (s.on + s.off) < s.on)}
    IN  /\ \A p \in area : 2 * Absolute(Away(p)) <= n
        /\ {Along(p) : p \in area} = Wanted
        /\ \A p, q \in area : Along(p) = Along(q) => p = q

Distance(s, p) == (p.x - s.at.x) * (p.x - s.at.x) + (p.y - s.at.y) * (p.y - s.at.y)

IsCircle(s, area) ==
    /\ \A p \in area : Absolute(Distance(s, p) - s.radius * s.radius)
                           <= Greatest(Absolute(p.x - s.at.x), Absolute(p.y - s.at.y))
    /\ \A k \in -s.radius .. s.radius :
          \E p, q \in area : p.x = s.at.x + k /\ q.y = s.at.y + k

IsDisc(s, area) ==
    \A x \in s.at.x - s.radius - 1 .. s.at.x + s.radius + 1,
       y \in s.at.y - s.radius - 1 .. s.at.y + s.radius + 1 :
        /\ Distance(s, Point(x, y)) <= s.radius * (s.radius - 1) => Point(x, y) \in area
        /\ Point(x, y) \in area => Distance(s, Point(x, y)) <= s.radius * (s.radius + 1)

Inside(r, area) == \A p \in area : contains(r, p)
Box(r) == {Point(x, y) : x \in r.x .. right(r) - 1, y \in r.y .. bottom(r) - 1}
Border(r) == {p \in Box(r) : p.x \in {r.x, right(r) - 1} \/ p.y \in {r.y, bottom(r) - 1}}

IsShape(s, area) ==
    CASE s.kind = "line"      -> IsLine(s, area)
      [] s.kind = "circle"    -> IF s.radius < 0 THEN area = {} ELSE IsCircle(s, area)
      [] s.kind = "disc"      -> IF s.radius < 0 THEN area = {} ELSE IsDisc(s, area)
      [] s.kind = "rectangle" -> area = Border(s.box)
      [] s.kind = "filled"    -> area = Box(s.box)
      [] s.kind = "glyph"     -> Inside(s.box, area)
      [] OTHER -> TRUE

PixelWise(area, operation) ==
    CASE operation = "Clear"  -> lit \ area
      [] operation = "Set"    -> lit \cup area
      [] operation = "Invert" -> (lit \ area) \cup (area \ lit)

(***************************************************************************)
(* A primitive draws the shape it is named for and draws every pixel of it *)
(* once, the part that is inside the clip and nothing else, so that two    *)
(* Inverts restore the canvas; circles and glyphs touch some points twice, *)
(* and for them this is said of Set and Clear only.  A text changes        *)
(* nothing outside its rectangle unless clipToBounds is off.  And the      *)
(* unused bits at the end of a row, which a flush must not see, stay 0.    *)
(***************************************************************************)
Once(s, operation) == operation # "Invert" \/ s.kind \notin {"circle", "disc", "glyph"}

DrawsTheShape ==
    [][ drawn' # drawn =>
        /\ (call'.of = "shape" /\ Once(call'.shape, call'.operation)) =>
               \E area \in {{Touched(call'.shape)[i] : i \in DOMAIN Touched(call'.shape)}} :
                   /\ IsShape(call'.shape, area)
                   /\ lit' = PixelWise({p \in area : contains(clip, p)}, call'.operation)
        /\ (call'.of = "text" /\ call'.text.style.clipToBounds) =>
               PixelWise(lit', "Invert") \subseteq Box(call'.text.box)
        /\ lit' \subseteq Pixels ]_sketch
=============================================================================
