-------------------------------- MODULE VgaText --------------------------------
(***************************************************************************)
(* drivers/vga.c: the text screen as vga_putchar keeps it, one whole call  *)
(* at a time.  A screen s has the cells `buf' in the order of memory, the  *)
(* driver's `row' and `col', and what the display controller was told: its *)
(* index register and the two bytes of its cursor position.                *)
(*                                                                         *)
(* Stores behind the last visible cell go to display memory that is never  *)
(* shown; they are dropped.  Colours are left out.                         *)
(***************************************************************************)
EXTENDS Integers, Sequences

CONSTANTS
  VGA_WIDTH, VGA_HEIGHT,
  TAB,           \* the distance of tab stops (4)
  BYTE           \* the values of a byte (256)

ASSUME VgaParameters ==
  /\ VGA_WIDTH \in Nat \ {0} /\ VGA_HEIGHT \in Nat \ {0, 1}
  /\ TAB \in 1..VGA_WIDTH /\ BYTE \in Nat \ {0, 1}

space == " "

CellsShown == 0..(VGA_WIDTH * VGA_HEIGHT - 1)
LastLine == VGA_WIDTH * (VGA_HEIGHT - 1)

Stored(buf, index, c) == [i \in CellsShown |-> IF i = index THEN c ELSE buf[i]]

(* One store of vga_scroll: the cell below moves up, or a blank comes in.  *)
ScrolledCell(buf, i) == [buf EXCEPT ![i] = IF i < LastLine THEN buf[i + VGA_WIDTH] ELSE space]

Scrolled(buf) ==
  [i \in CellsShown |-> IF i < LastLine THEN buf[i + VGA_WIDTH] ELSE space]

(* Seeded fault: the last line is scrolled away too late.                  *)
NewRowLate(s) ==
  IF s.row = VGA_HEIGHT THEN [s EXCEPT !.buf = Scrolled(@), !.row = VGA_HEIGHT - 1]
  ELSE [s EXCEPT !.row = @ + 1]

(* if (++vga_row == VGA_HEIGHT) vga_scroll();                              *)
NewRow(s) ==
  IF s.row + 1 = VGA_HEIGHT THEN [s EXCEPT !.buf = Scrolled(@), !.row = VGA_HEIGHT - 1]
  ELSE [s EXCEPT !.row = @ + 1]

Low(pos) == pos % BYTE
High(pos) == (pos \div BYTE) % BYTE

(* Seeded fault: only the low byte of the position is sent.                *)
UpdateLow(s) == [s EXCEPT !.lo = Low(s.row * VGA_WIDTH + s.col), !.port = "lo"]

UpdateCursor(s) ==
  LET pos == s.row * VGA_WIDTH + s.col
  IN  [s EXCEPT !.lo = Low(pos), !.hi = High(pos), !.port = "hi"]

Tabbed(col) == (col \div TAB + 1) * TAB

(* A character where the position is, and the position it leaves.          *)
Laid(s, c) ==
  CASE c = "nl"  -> NewRow([s EXCEPT !.col = 0])
    [] c = "cr"  -> [s EXCEPT !.col = 0]
    [] c = "bs"  -> IF s.col = 0 THEN s
                    ELSE [s EXCEPT !.col = @ - 1,
                                   !.buf = Stored(@, s.row * VGA_WIDTH + s.col - 1, space)]
    [] c = "tab" -> IF Tabbed(s.col) >= VGA_WIDTH THEN NewRow([s EXCEPT !.col = 0])
                    ELSE [s EXCEPT !.col = Tabbed(@)]
    [] OTHER ->
         LET t == [s EXCEPT !.buf = Stored(@, s.row * VGA_WIDTH + s.col, c)]
         IN  IF s.col + 1 = VGA_WIDTH THEN NewRow([t EXCEPT !.col = 0])
             ELSE [t EXCEPT !.col = @ + 1]

Putchar(s, c) == UpdateCursor(Laid(s, c))

(* vga_init, on the display the loader left: it sets the position and      *)
(* touches neither the cells nor the controller, whose cursor may stand    *)
(* anywhere.  (No byte is sent before an index, so that an index register  *)
(* with any other value behaves like these.)                               *)
PoweredOn ==
  [buf : {[i \in CellsShown |-> "old"]}, row : {0}, col : {0},
   port : {"lo", "hi"}, lo : 0..(BYTE - 1), hi : 0..(BYTE - 1)]

-----------------------------------------------------------------------------
(* What the screen should show: the text laid out on a sheet without end,  *)
(* of which the screen is the last VGA_HEIGHT rows.                        *)
Write(sheet, c) ==
  LET wrap == [sheet EXCEPT !.row = @ + 1, !.col = 0]
      put  == [sheet EXCEPT !.text = [p \in DOMAIN @ \cup {<<sheet.row, sheet.col>>} |->
                                        IF p = <<sheet.row, sheet.col>> THEN c ELSE @[p]]]
  IN  CASE c = "nl" -> wrap
        [] c = "cr" -> [sheet EXCEPT !.col = 0]
        [] c = "bs" /\ sheet.col > 0 ->
             LET p == <<sheet.row, sheet.col - 1>>
             IN  [sheet EXCEPT !.col = @ - 1,
                    !.text = [q \in DOMAIN @ \cup {p} |-> IF q = p THEN space ELSE @[q]]]
        [] c = "bs" /\ sheet.col = 0 -> sheet
        [] c = "tab" -> IF sheet.col + TAB - (sheet.col % TAB) >= VGA_WIDTH THEN wrap
                        ELSE [sheet EXCEPT !.col = @ + TAB - (@ % TAB)]
        [] OTHER -> IF sheet.col + 1 = VGA_WIDTH THEN [put EXCEPT !.row = @ + 1, !.col = 0]
                    ELSE [put EXCEPT !.col = @ + 1]

EmptySheet == [text |-> [p \in {} |-> space], row |-> 0, col |-> 0]

(* The cells that show the sheet on a screen that held `paper' before.     *)
LastRows(sheet, paper) ==
  LET top   == IF sheet.row < VGA_HEIGHT THEN 0 ELSE sheet.row - VGA_HEIGHT + 1
      cell(r, c) == IF <<r, c>> \in DOMAIN sheet.text THEN sheet.text[<<r, c>>]
                    ELSE IF r < VGA_HEIGHT THEN paper ELSE space
  IN  [i \in CellsShown |-> cell(top + i \div VGA_WIDTH, i % VGA_WIDTH)]
=============================================================================
