----------------------------- MODULE PagedDisplay -----------------------------
(***************************************************************************)
(* The SSD1306 and SH1106 displays: flush() sends the canvas page by page, *)
(* each page as a packet of commands that sets the address and packets of  *)
(* data of at most MaxChunk columns.  The controller writes data at an     *)
(* address pointer of its own, which a packet that fails leaves anywhere   *)
(* in the middle.                                                          *)
(*                                                                         *)
(* A byte of a page is abstracted to its place and to the drawing it is    *)
(* from, so that a byte in the wrong place can be told from a right one.   *)
(* The controller drops a command whose arguments were cut.  Contrast,     *)
(* inversion and display power are single commands that do not meet the    *)
(* address pointer, and are left out.                                      *)
(***************************************************************************)
EXTENDS ChipDriver, Naturals

CONSTANTS
    Pages,         \* pages of eight rows, 0 .. Pages - 1
    Width,         \* columns, 0 .. Width - 1
    MaxChunk,      \* MAX_I2C_PAYLOAD, MAX_DATA_CHUNK
    ColumnOffset,  \* config_.columnOffset of the SH1106
    Drawing        \* drawings, interchangeable

DisplayAssumption ==
    /\ Pages \in Nat \ {0} /\ Width \in Nat \ {0} /\ MaxChunk \in Nat \ {0}
    /\ ColumnOffset \in Nat

VARIABLES
    canvas,       \* the drawing on the canvas
    memory,       \* the display memory: what is at each page and column
    pointer,      \* where the controller puts the next byte of data
    window,       \* first column, last column, first page, last page
    initialized,  \* initialized_
    page,         \* the page flush() is at
    offset        \* offset of writeData()

display == <<canvas, memory, pointer, window, initialized, page, offset>>

DisplayChips == {"SSD1306", "SH1106"}
Offset == IF chip = "SH1106" THEN ColumnOffset ELSE 0

Page == 0 .. Pages - 1
RamColumn == 0 .. Width + ColumnOffset - 1
Byte == [drawing : Drawing, page : Page, column : 0 .. Width - 1]
Undefined == [drawing |-> "Undefined"]
Pointer == [page : Page, column : 0 .. Width + ColumnOffset]
Window == [first : RamColumn, last : RamColumn, top : Page, bottom : Page]

DisplayTypeOK ==
    /\ canvas \in Drawing
    /\ memory \in [Page \X RamColumn -> Byte \cup {Undefined}]
    /\ pointer \in Pointer
    /\ window \in Window
    /\ initialized \in BOOLEAN
    /\ page \in Page
    /\ offset \in 0 .. Width

(***************************************************************************)
(* The controller after its reset: the whole memory is the window.         *)
(***************************************************************************)
DisplayInit ==
    /\ canvas \in Drawing
    /\ memory = [a \in Page \X RamColumn |-> Undefined]
    /\ pointer = [page |-> 0, column |-> 0]
    /\ window = [first |-> 0, last |-> Width + ColumnOffset - 1, top |-> 0, bottom |-> Pages - 1]
    /\ initialized = FALSE
    /\ page = 0 /\ offset = 0

draw(drawing) ==
    /\ Idle
    /\ canvas' = drawing
    /\ UNCHANGED <<driver, memory, pointer, window, initialized, page, offset>>

(***************************************************************************)
(* The commands the controller understands.  Setting the window puts the   *)
(* pointer at its start; the SH1106 has only the pointer.                  *)
(***************************************************************************)
SetColumns(first, last) ==
    /\ window' = [window EXCEPT !.first = first, !.last = last]
    /\ pointer' = [pointer EXCEPT !.column = first]

SetWindow(first, last, top, bottom) ==
    /\ window' = [first |-> first, last |-> last, top |-> top, bottom |-> bottom]
    /\ pointer' = [page |-> top, column |-> first]

SetPage(p) ==
    /\ pointer' = [pointer EXCEPT !.page = p]
    /\ UNCHANGED window

SetPointer(p, column) ==
    /\ pointer' = [page |-> p, column |-> column]
    /\ UNCHANGED window

(***************************************************************************)
(* initialize(): on the SSD1306 a packet that does not touch the address,  *)
(* the window of the whole panel, and a last packet; on the SH1106 one     *)
(* packet.  Only the last result changes initialized_ on the SSD1306.      *)
(***************************************************************************)
InitializeFailsEarly ==
    /\ Idle
    /\ \/ UNCHANGED <<pointer, window>>
       \/ chip = "SSD1306" /\ SetColumns(0, Width - 1)
    /\ Return("Error")
    /\ UNCHANGED <<chip, canvas, memory, initialized, page, offset>>

InitializeEnds(r) ==
    /\ Idle
    /\ IF chip = "SSD1306" THEN SetWindow(0, Width - 1, 0, Pages - 1)
                           ELSE UNCHANGED <<pointer, window>>
    /\ initialized' = (r = "Success")
    /\ Return(r)
    /\ UNCHANGED <<chip, canvas, memory, page, offset>>

(***************************************************************************)
(* flush(), and its answer before initialize().                            *)
(***************************************************************************)
Busy ==
    /\ Idle /\ ~initialized
    /\ Return("Error")
    /\ UNCHANGED <<chip, display>>

flush ==
    /\ Idle /\ initialized
    /\ pc' = "Address" /\ page' = 0
    /\ UNCHANGED <<chip, result, canvas, memory, pointer, window, initialized, offset>>

\* Faulty: the address is set for the first page only, and the window is the panel.
AddressOnce(p) ==
    IF p > 0 THEN UNCHANGED <<pointer, window>>
    ELSE IF chip = "SSD1306" THEN SetWindow(0, Width - 1, 0, Pages - 1)
    ELSE SetPointer(p, ColumnOffset)
SetAddress(p) ==
    IF chip = "SSD1306" THEN SetWindow(0, Width - 1, p, p) ELSE SetPointer(p, ColumnOffset)

Address ==
    /\ pc = "Address"
    /\ SetAddress(page)
    /\ pc' = "Data" /\ offset' = 0
    /\ UNCHANGED <<chip, result, canvas, memory, initialized, page>>

AddressFails ==
    /\ pc = "Address"
    /\ \/ UNCHANGED <<pointer, window>>
       \/ IF chip = "SSD1306" THEN SetColumns(0, Width - 1) ELSE SetPage(page)
       \/ SetAddress(page)
    /\ Return("Error")
    /\ UNCHANGED <<chip, canvas, memory, initialized, page, offset>>

(***************************************************************************)
(* count bytes of data, which the controller stores from its pointer on.   *)
(* The SSD1306 goes on at the start of the window at its end; the SH1106   *)
(* stays behind the last column.                                           *)
(***************************************************************************)
Chunk == IF Width - offset < MaxChunk THEN Width - offset ELSE MaxChunk

Content(column) == [drawing |-> canvas, page |-> page, column |-> column]

Advance(at) ==
    IF chip = "SH1106" \/ at.column < window.last THEN [at EXCEPT !.column = @ + 1]
    ELSE [page |-> IF at.page < window.bottom THEN at.page + 1 ELSE window.top,
          column |-> window.first]

Place[n \in Nat] == IF n = 0 THEN pointer ELSE Advance(Place[n - 1])

Stored(count) ==
    [a \in Page \X RamColumn |->
        LET hits == {n \in 0 .. count - 1 : Place[n] = [page |-> a[1], column |-> a[2]]}
        IN  IF hits = {} THEN memory[a]
            ELSE Content(offset + CHOOSE n \in hits : \A m \in hits : m <= n)]

Data ==
    /\ pc = "Data" /\ offset < Width
    /\ memory' = Stored(Chunk)
    /\ pointer' = Place[Chunk]
    /\ offset' = offset + Chunk
    /\ UNCHANGED <<driver, canvas, window, initialized, page>>

DataFails(count) ==
    /\ pc = "Data" /\ offset < Width /\ count <= Chunk
    /\ memory' = Stored(count)
    /\ pointer' = Place[count]
    /\ Return("Error")
    /\ UNCHANGED <<chip, canvas, window, initialized, page, offset>>

PageDone ==
    /\ pc = "Data" /\ offset = Width
    /\ \/ page < Pages - 1 /\ page' = page + 1 /\ pc' = "Address" /\ UNCHANGED result
       \/ page = Pages - 1 /\ Return("Success") /\ UNCHANGED page
    /\ UNCHANGED <<chip, canvas, memory, pointer, window, initialized, offset>>

DisplayNext ==
    /\ chip \in DisplayChips
    /\ \/ \E drawing \in Drawing : draw(drawing)
       \/ InitializeFailsEarly \/ Busy \/ flush
       \/ \E r \in {"Success", "Error"} : InitializeEnds(r)
       \/ Address \/ AddressFails \/ Data \/ PageDone
       \/ \E count \in 0 .. MaxChunk : DataFails(count)

-----------------------------------------------------------------------------
(***************************************************************************)
(* Whatever failed before, in a page, a packet or initialize(), and        *)
(* wherever it left the address pointer: no visible byte is ever at a      *)
(* wrong place, and when flush() returns Success the panel shows the       *)
(* canvas, all of it.                                                      *)
(***************************************************************************)
Visible(p, column) == memory[<<p, column + Offset>>]

NothingMisplaced ==
    \A p \in Page, column \in 0 .. Width - 1 :
        \/ Visible(p, column) = Undefined
        \/ Visible(p, column).page = p /\ Visible(p, column).column = column

ShowsCanvas ==
    \A p \in Page, column \in 0 .. Width - 1 :
        Visible(p, column) = [drawing |-> canvas, page |-> p, column |-> column]

FlushSucceeds == pc = "Data" /\ pc' = "Idle" /\ result' = "Success"

DisplayFollowsCanvas ==
    [][(chip \in DisplayChips) =>
          NothingMisplaced' /\ (FlushSucceeds => ShowsCanvas')]_<<driver, display>>
=============================================================================
