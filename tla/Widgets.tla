------------------------------- MODULE Widgets -------------------------------
(***************************************************************************)
(* The widgets.  What a widget paints is a sequence of areas that are      *)
(* filled, framed or written on, in the order of the code, in the built-in *)
(* font.  Of a text its length matters, of a wrapped message where its     *)
(* spaces are.  All coordinates fit 16 bits.                               *)
(***************************************************************************)
EXTENDS Drawing, FiniteSets

CONSTANTS
    Boxes,        \* the rectangles widgets are given
    Lengths,      \* lengths of labels, values and titles
    Messages,     \* sequences of characters, of which Space is one
    Space,
    MaxItems,     \* bound: items of a menu
    rowHeight,
    Quarters      \* normalized values, in quarters; outside 0 .. 4 they are clamped

WidgetsAssumption ==
    /\ DrawingAssumption
    /\ GlyphWidth = 5 /\ GlyphHeight = 7 /\ horizontalSpacing = 1   \* font5x7()
    /\ rowHeight \in Nat \ {0} /\ MaxItems \in Nat
    /\ Lengths \subseteq Nat /\ Quarters \subseteq Int
    /\ \A message \in Messages : Len(message) \in Nat
    /\ Boxes \subseteq [x : Int, y : Int, width : Int, height : Int]

VARIABLES
    menu,      \* the MenuListView an application keeps
    painted    \* history: the widget drawn last, its box, and what it painted

widgets == <<menu, painted>>

-----------------------------------------------------------------------------
(***************************************************************************)
(* The pieces of widgets.cpp.                                              *)
(***************************************************************************)
clampNormalized(n) == Greatest(0, Least(4, n))

inset(r, amount) ==
    Rectangle(r.x + amount, r.y + amount,
              Greatest(0, r.width - 2 * amount), Greatest(0, r.height - 2 * amount))

Paint(kind, box, what) ==
    IF valid(box) THEN <<[kind |-> kind, box |-> box, what |-> what]>> ELSE <<>>

Style(horizontal, vertical, inverted) ==
    [horizontal |-> horizontal, vertical |-> vertical,
     mode |-> IF inverted THEN "Inverted" ELSE "Normal"]

\* drawText() of text.cpp with clipToBounds; an inverted text fills its box first.
Text(r, length, style, what) ==
    LET width  == measureText(length)
        origin == alignedOrigin(r, width, style)
    IN  (IF style.mode = "Inverted" THEN Paint("fill", r, what) ELSE <<>>)
        \o Paint("text", intersect(r, Rectangle(origin.x, origin.y, width, GlyphHeight)), what)

drawSelectionFrame(r, selected) == IF selected THEN Paint("frame", r, "frame") ELSE <<>>

drawLabelAndValue(r, label, value, inverted) ==
    LET half == r.width \div 2 IN
    Text(Rectangle(r.x, r.y, half, r.height), label, Style("Left", "Middle", inverted), "label")
    \o Text(Rectangle(r.x + half, r.y, r.width - half, r.height), value,
            Style("Right", "Middle", inverted), "value")

drawButton(r, length, selected, what) ==
    (IF selected THEN <<>> ELSE Paint("frame", r, what))
    \o Text(r, length, Style("Center", "Middle", selected), what)

(***************************************************************************)
(* drawWrappedMessage(): the lines as the first and the number of their    *)
(* characters; positions are counted from 0 as in the code.                *)
(***************************************************************************)
SpaceAt(message, i) == message[i + 1] = Space

LineLength(message, start, columns) ==
    LET window == Least(columns, Len(message) - start)
        spaces == {k \in 1 .. window - 1 : SpaceAt(message, start + k)}
    IN  IF start + window < Len(message) /\ spaces # {}
        THEN CHOOSE k \in spaces : \A m \in spaces : m <= k
        ELSE window

\* Faulty: one character is always skipped, as if every line ended at a space.
SkippedOneMore(message, from) == Least(Len(message), from + 1)
Skipped(message, from) ==
    CHOOSE i \in from .. Len(message) :
        /\ i < Len(message) => ~SpaceAt(message, i)
        /\ \A j \in from .. i - 1 : SpaceAt(message, j)

Starts(message, columns) ==
    LET start[n \in 0 .. Len(message)] ==
            IF n = 0 THEN 0
            ELSE IF start[n - 1] >= Len(message) THEN Len(message)
            ELSE Skipped(message, start[n - 1] + LineLength(message, start[n - 1], columns))
    IN  start

Rows(height) == IF height < 7 THEN 0 ELSE (height - 7) \div 8 + 1

Lines(r, message) ==
    LET columns == r.width \div 6
        starts  == Starts(message, columns)
    IN  IF r.width <= 0 \/ columns = 0 THEN <<>>
        ELSE [n \in 1 .. Cardinality({m \in 0 .. Least(Rows(r.height), Len(message)) - 1 :
                                          starts[m] < Len(message)}) |->
                 [from |-> starts[n - 1],
                  length |-> LineLength(message, starts[n - 1], columns)]]

drawWrappedMessage(r, message) ==
    FlattenSeq([n \in DOMAIN Lines(r, message) |->
        Paint("text", Rectangle(r.x, r.y + 8 * (n - 1),
                                measureText(Lines(r, message)[n].length), GlyphHeight), "line")])

-----------------------------------------------------------------------------
(***************************************************************************)
(* The scrolling of a menu.                                                *)
(***************************************************************************)
visibleMenuRowCount(r) == IF r.height <= 0 THEN 0 ELSE r.height \div rowHeight

maximumFirst(count, rows) == IF count > rows THEN count - rows ELSE 0

\* Faulty: the list is not pulled down when it has become shorter.
ClampedNever(first, count, rows) == first
Clamped(first, count, rows) == Least(first, maximumFirst(count, rows))

ensureMenuSelectionVisible(selectedIndex, currentFirst, count, rows) ==
    LET selected == Least(selectedIndex, count - 1)
        first    == Clamped(currentFirst, count, rows)
    IN  IF count = 0 \/ rows = 0 THEN 0
        ELSE Clamped(CASE selected < first         -> selected
                       [] selected >= first + rows -> selected - rows + 1
                       [] OTHER                    -> first, count, rows)

drawMenuList(r, m) ==
    LET bar   == IF m.count > 1 THEN 3 ELSE 0
        rows  == visibleMenuRowCount(r)
        first == ensureMenuSelectionVisible(m.selected, m.first, m.count, rows)
        last  == Least(m.count, first + rows) - 1
        RowBox(i) == Rectangle(r.x, r.y + (i - first) * rowHeight, r.width - bar, rowHeight)
        Row(i) ==
            LET chosen == i = m.selected IN
            (IF chosen THEN Paint("fill", RowBox(i), "row") ELSE <<>>)
            \o Text(inset(RowBox(i), 1), m.label, Style("Left", "Middle", chosen), "label")
            \o Text(inset(RowBox(i), 1), m.value, Style("Right", "Middle", chosen), "value")
        thumb  == Greatest(2, (r.height * rows) \div m.count)
        offset == (Greatest(0, r.height - thumb) * first) \div (m.count - rows)
    IN  IF m.count = 0 \/ rows = 0 THEN <<>>
        ELSE FlattenSeq([n \in 1 .. last - first + 1 |-> Row(first + n - 1)])
             \o IF m.count <= rows THEN <<>>
                ELSE Paint("frame", Rectangle(right(r) - 2, r.y, 2, r.height), "track")
                     \o Paint("fill", Rectangle(right(r) - 2, r.y + offset, 2, thumb), "thumb")

-----------------------------------------------------------------------------
(***************************************************************************)
(* The other widgets.                                                      *)
(***************************************************************************)
drawParameter(r, v) ==
    LET inner  == inset(r, IF v.selected THEN 1 ELSE 0)
        height == Least(8, inner.height)
    IN  drawSelectionFrame(r, v.selected)
        \o Text(Rectangle(inner.x, inner.y, inner.width, height), v.label,
                Style("Center", "Top", FALSE), "label")
        \o Text(Rectangle(inner.x, inner.y + height, inner.width, inner.height - height),
                Least(31, v.value), Style("Center", "Middle", v.selected), "value")

\* The needle ends inside the circle and is left out.
drawPotentiometer(r, v) ==
    LET inner    == inset(r, IF v.selected THEN 1 ELSE 0)
        diameter == Greatest(5, Least(inner.width, Greatest(5, inner.height - 9)))
        radius   == diameter \div 2
        cx == inner.x + inner.width \div 2
        cy == inner.y + radius + 1
        below == cy + radius + 1
    IN  drawSelectionFrame(r, v.selected)
        \o Paint("circle", Rectangle(cx - radius, cy - radius, 2 * radius + 1, 2 * radius + 1), "knob")
        \o Text(Rectangle(inner.x, below, inner.width, Greatest(0, bottom(inner) - below)),
                IF v.value = 0 THEN v.label ELSE v.value, Style("Center", "Bottom", FALSE), "label")

drawEncoder(r, v) ==
    drawPotentiometer(r, [v EXCEPT !.value = 0])
    \o IF v.wrap THEN Paint("glyph", Rectangle(right(r) - 7, r.y, 7, 7), "arrow") ELSE <<>>

drawProgressBar(r, v) ==
    LET inner  == IF v.selected THEN inset(r, 1) ELSE r   \* showFrame
        filled == (2 * clampNormalized(v.normalized) * inner.width + 4) \div 8
        Rest   == Rectangle(inner.x + filled, inner.y, inner.width - filled, inner.height)
    IN  drawSelectionFrame(r, v.selected)
        \o IF v.wrap   \* inverted
           THEN Paint("fill", inner, "bar") \o Paint("fill", Rest, "rest")
           ELSE Paint("fill", Rectangle(inner.x, inner.y, filled, inner.height), "bar")

drawTopBar(r, v) == drawLabelAndValue(r, v.label, v.value, v.selected)

drawFooterBar(r, v) ==
    (IF v.selected THEN Paint("fill", r, "bar") ELSE <<>>)
    \o Text(r, v.label, Style("Left", "Middle", v.selected), "left")
    \o Text(r, v.value, Style("Center", "Middle", v.selected), "center")
    \o Text(r, v.label, Style("Right", "Middle", v.selected), "right")

drawConfirmationOverlay(r, v, message) ==
    LET inner == inset(r, 2)
        width == (inner.width - 2) \div 2
        y     == bottom(inner) - 10
    IN  Paint("fill", r, "background") \o Paint("frame", r, "frame")
        \o Text(Rectangle(inner.x, inner.y, inner.width, 9), v.label,
                Style("Center", "Top", TRUE), "title")
        \o drawWrappedMessage(Rectangle(inner.x, inner.y + 10, inner.width,
                                        Greatest(0, inner.height - 20)), message)
        \o drawButton(Rectangle(inner.x, y, width, 10), 3, v.selected, "Yes")
        \o drawButton(Rectangle(inner.x + width + 2, y, width, 10), 6, ~v.selected, "Cancel")

drawErrorOverlay(r, v, message) ==
    LET inner == inset(r, 2) IN
    Paint("fill", r, "background") \o Paint("frame", r, "frame")
    \o Paint("glyph", Rectangle(inner.x, inner.y, 9, 9), "cross")
    \o Text(Rectangle(inner.x + 11, inner.y, inner.width - 11, 9), v.label,
            Style("Left", "Middle", TRUE), "title")
    \o drawWrappedMessage(Rectangle(inner.x, inner.y + 11, inner.width,
                                    Greatest(0, inner.height - 21)), message)
    \o drawButton(Rectangle(inner.x, bottom(inner) - 10, inner.width, 10), v.value, TRUE, "action")

-----------------------------------------------------------------------------
(***************************************************************************)
(* An application: it keeps a menu, whose items come and go, stores the    *)
(* scroll position it was given, and draws widgets.                        *)
(***************************************************************************)
View == [label : Lengths, value : Lengths, selected : BOOLEAN, wrap : BOOLEAN,
         normalized : Quarters]

Nothing == [widget |-> "none", box |-> bounds, marks |-> <<>>, message |-> <<>>]
Painting(widget, r, marks, message) ==
    painted' = [widget |-> widget, box |-> r, marks |-> marks, message |-> message]

WidgetsInit ==
    /\ \E length \in Lengths :
          menu = [count |-> 0, selected |-> 0, first |-> 0, label |-> length, value |-> length]
    /\ painted = Nothing

\* Only the menu has a state that lasts: the others are drawn before there is one.
MenuOnly == painted.widget \in {"none", "menu"}
NoMenu == painted = Nothing /\ menu.count = 0 /\ menu.selected = 0 /\ menu.first = 0

moveSelection ==
    /\ MenuOnly
    /\ \E i \in 0 .. menu.count - 1 : menu' = [menu EXCEPT !.selected = i]
    /\ UNCHANGED painted

changeItems ==
    /\ MenuOnly
    /\ \E n \in 0 .. MaxItems : menu' = [menu EXCEPT !.count = n]
    /\ UNCHANGED painted

closeWidget == painted # Nothing /\ painted' = Nothing /\ UNCHANGED menu

showMenu(r) ==
    /\ MenuOnly
    /\ menu' = [menu EXCEPT !.first =
            ensureMenuSelectionVisible(menu.selected, menu.first, menu.count, visibleMenuRowCount(r))]
    /\ Painting("menu", r, drawMenuList(r, menu), <<>>)

show(r, v) ==
    /\ UNCHANGED menu
    /\ \/ Painting("parameter", r, drawParameter(r, v), <<>>)
       \/ Painting("potentiometer", r, drawPotentiometer(r, v), <<>>)
       \/ Painting("encoder", r, drawEncoder(r, v), <<>>)
       \/ Painting("progress", r, drawProgressBar(r, v), <<>>)
       \/ Painting("top bar", r, drawTopBar(r, v), <<>>)
       \/ Painting("footer", r, drawFooterBar(r, v), <<>>)

showOverlay(r, v, message) ==
    /\ UNCHANGED menu
    /\ \/ Painting("confirmation", r, drawConfirmationOverlay(r, v, message), message)
       \/ Painting("error", r, drawErrorOverlay(r, v, message), message)

WidgetsNext ==
    \/ moveSelection \/ changeItems \/ closeWidget
    \/ \E r \in Boxes : showMenu(r)
    \/ /\ NoMenu
       /\ \E r \in Boxes, v \in View :
             show(r, v) \/ \E message \in Messages : showOverlay(r, v, message)

-----------------------------------------------------------------------------
(***************************************************************************)
(* A menu that is drawn has the selected item on the screen, or the last   *)
(* one if the selection is stale, leaves no row empty that an item could   *)
(* fill, and does not scroll while the selection can be seen without it.   *)
(***************************************************************************)
Seen(m, first, rows) == Least(m.selected, m.count - 1) \in first .. first + rows - 1

MenuShowsSelection ==
    [][ \A r \in Boxes :
            (menu.count > 0 /\ visibleMenuRowCount(r) > 0
               /\ painted' # painted /\ painted'.widget = "menu" /\ painted'.box = r) =>
                LET rows == visibleMenuRowCount(r)
                    most == maximumFirst(menu.count, rows)
                IN  /\ Seen(menu, menu'.first, rows)
                    /\ menu'.first <= most
                    /\ (menu.first <= most /\ Seen(menu, menu.first, rows)) =>
                            menu'.first = menu.first ]_widgets

(***************************************************************************)
(* "Overlays clear and frame only their assigned rectangle"                *)
(* (ui-widgets.md), and no widget paints outside its box, also where it    *)
(* writes without a clip, with one exception: the circle of a              *)
(* potentiometer or of an encoder that fills an even width takes one       *)
(* column on the right that is not its own.  And a message that is wrapped *)
(* loses no letter: its lines follow each other without overlap, a         *)
(* character between them is a space, and nothing is cut off at the end    *)
(* while there is room.                                                    *)
(*                                                                         *)
(* The boxes for which it is claimed: the widgets that draw something of a *)
(* fixed size, the others in any box.                                      *)
(***************************************************************************)
HasRoom(widget, r) ==
    /\ r.width >= 0 /\ r.height >= 0
    /\ widget = "menu" => r.width >= 2 /\ r.height >= 2           \* its scroll bar
    /\ widget \in {"potentiometer", "encoder"} => r.width >= 7 /\ r.height >= 8
    /\ widget \in {"confirmation", "error"} => r.width >= 13 /\ r.height >= 14

KnobSticksOut(r) == r.width % 2 = 0 /\ r.width <= r.height - 9

Reach(r, what) ==
    IF what = "knob" /\ KnobSticksOut(r) THEN [r EXCEPT !.width = @ + 1] ELSE r

Within(r, box) ==
    /\ box.x >= r.x /\ right(box) <= right(r)
    /\ box.y >= r.y /\ bottom(box) <= bottom(r)

End(line) == line.from + line.length

LosesNoLetter(lines, message, rows) ==
    /\ \A n \in DOMAIN lines : End(lines[n]) <= Len(message)
    /\ \A m, n \in DOMAIN lines : m < n => End(lines[m]) <= lines[n].from
    /\ \A i \in 0 .. Len(message) - 1 :
          (~SpaceAt(message, i) /\ (Len(lines) < rows \/ \E n \in DOMAIN lines : i < End(lines[n]))) =>
              \E n \in DOMAIN lines : i \in lines[n].from .. End(lines[n]) - 1

PaintsWhatItShould ==
  HasRoom(painted.widget, painted.box) =>
    /\ \A i \in DOMAIN painted.marks :
          Within(Reach(painted.box, painted.marks[i].what), painted.marks[i].box)
    /\ painted.widget \in {"confirmation", "error"} =>
           LET inner == inset(painted.box, 2)
               title == IF painted.widget = "confirmation" THEN 10 ELSE 11
               room  == Rectangle(inner.x, inner.y + title, inner.width,
                                  Greatest(0, inner.height - 10 - title))
           IN  LosesNoLetter(Lines(room, painted.message), painted.message, Rows(room.height))

(***************************************************************************)
(* "Each visible item is drawn with MenuItemView::label left-aligned and   *)
(* MenuItemView::value right-aligned within its row; the selected row is   *)
(* filled solid with inverted text" (widgets.hpp): no text of a menu is    *)
(* filled over by what the same call draws after it.                       *)
(***************************************************************************)
MenuItemsAreLegible ==
    painted.widget = "menu" =>
        \A i, j \in DOMAIN painted.marks :
            (i < j /\ painted.marks[i].kind = "text" /\ painted.marks[j].kind = "fill") =>
                ~valid(intersect(painted.marks[i].box, painted.marks[j].box))
=============================================================================
