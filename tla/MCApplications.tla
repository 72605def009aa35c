---------------------------- MODULE MCApplications ----------------------------
(***************************************************************************)
(* Applications with a port expander of one pin in each bank, whose        *)
(* setters are called with no pin and with both; shapes that end inside,   *)
(* outside and on the edge of the canvas and of its clip; boxes for        *)
(* widgets that are large, small, the smallest there is room in, and one   *)
(* that a knob sticks out of; and messages with a word that is too long    *)
(* for a line, with spaces in front, in a row and at the end.              *)
(***************************************************************************)
EXTENDS Applications, Integers, Sequences

At(x, y) == [x |-> x, y |-> y]
Area(x, y, width, height) == [x |-> x, y |-> y, width |-> width, height |-> height]

SomeMasks == {{}, Pin}

Spot == {At(-1, 0), At(0, 2), At(2, 1), At(5, 3),
         At(9, 0)}
SomeAreas ==
    {Area(0, 0, 9, 4), Area(1, 1, 1, 3), Area(1, 0, 4, 2),
     Area(-1, 1, 3, 3), Area(2, 2, 3, 0)}
SomeGlyphs == {"ArrowLeft", "ArrowRight", "ArrowUp", "ArrowDown", "Check", "Cross", "Plus", "Minus"}
SomeShapes ==
    [kind : {"line"}, from : Spot, to : Spot, on : {1}, off : {0, 2}]
        \cup [kind : {"across", "down"}, at : {At(2, 1)}, length : {-3, 0, 2}]
        \cup [kind : {"rectangle", "filled"}, box : SomeAreas]
        \cup [kind : {"circle", "disc"}, at : {At(2, 1)}, radius : -1 .. 4]
        \cup [kind : {"glyph"}, box : {Area(0, 0, 5, 4)}, glyph : SomeGlyphs]
SomeClips == {Area(1, 1, 3, 2), Area(-2, 0, 4, 9)}
SomeTexts ==
    [box : {Area(0, 0, 9, 4), Area(1, 1, 2, 1)}, length : 0 .. 2,
     style : [horizontal : {"Left", "Center", "Right"}, vertical : {"Top", "Middle", "Bottom"},
              mode : {"Normal", "Inverted"}, clipToBounds : {TRUE}]]

SomeBoxes ==
    {Area(10, 4, 50, 58), Area(0, 0, 31, 27), Area(3, 2, 32, 48),
     Area(0, 0, 13, 14), Area(1, 1, 7, 8), Area(0, 0, 2, 9)}
Long == <<1, 1, Space, 2, 2, 2, 2, 2, 2, 2, 2, 2, 2, Space, 3>>
Spaced == <<Space, 1, 2, 3, Space, Space, 1, 2, Space>>
SomeMessages == {<<>>, Long, Spaced, Long \o Spaced}
SomeQuarters == {-1, 2, 5}
=============================================================================
