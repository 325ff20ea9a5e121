------------------------------- MODULE Screen -------------------------------
(***************************************************************************)
(* The text display (devices/vga.c).  A screen is [fb, cx, cy], fb a       *)
(* function from cells <<x, y>> to characters; the attribute, always       *)
(* GRAY_ON_BLACK once written, is left out.  '\a' beeps and changes none.  *)
(***************************************************************************)
EXTENDS Integers, Sequences, SequencesExt

CONSTANTS COL_CNT, ROW_CNT,   \* 80 and 25 in the source
          TAB                 \* width of a tab stop, 8

Rows == 0..ROW_CNT - 1
Cols == 0..COL_CNT - 1
Space == " "

clear_row(s, y) == [s EXCEPT !.fb = [c \in Cols \X Rows |-> IF c[2] = y THEN Space ELSE @[c]]]
cls(s) == [fb |-> [c \in Cols \X Rows |-> Space], cx |-> 0, cy |-> 0]

\* Fault: the last row is not cleared when the screen scrolls.
newline_dirty(s) ==
  IF s.cy + 1 < ROW_CNT THEN [s EXCEPT !.cx = 0, !.cy = @ + 1]
  ELSE [s EXCEPT !.cx = 0, !.cy = ROW_CNT - 1,
          !.fb = [c \in Cols \X Rows |-> IF c[2] + 1 < ROW_CNT THEN @[<<c[1], c[2] + 1>>] ELSE @[c]]]
newline(s) ==
  IF s.cy + 1 < ROW_CNT THEN [s EXCEPT !.cx = 0, !.cy = @ + 1]
  ELSE clear_row([s EXCEPT !.cx = 0, !.cy = ROW_CNT - 1,
          !.fb = [c \in Cols \X Rows |-> IF c[2] + 1 < ROW_CNT THEN @[<<c[1], c[2] + 1>>] ELSE @[c]]],
          ROW_CNT - 1)

\* The hardware cursor holds one number; init () finds cx and cy from it.
move_cursor(s) == s.cx + (COL_CNT * s.cy)
find_cursor(s, cp) == [s EXCEPT !.cx = cp % COL_CNT, !.cy = cp \div COL_CNT]

\* The cursor moved to column x, on the next line if there is no such column.
Column(s, x) == IF x >= COL_CNT THEN newline(s) ELSE [s EXCEPT !.cx = x]
vga_putc(s, c) ==
  CASE c = "newline" -> newline(s)
    [] c = "formfeed" -> cls(s)
    [] c = "backspace" -> IF s.cx > 0 THEN [s EXCEPT !.cx = @ - 1] ELSE s
    [] c = "return" -> [s EXCEPT !.cx = 0]
    [] c = "tab" -> Column(s, ((s.cx \div TAB) + 1) * TAB)
    [] c = "alert" -> s
    [] OTHER -> Column([s EXCEPT !.fb[<<s.cx, s.cy>>] = c], s.cx + 1)

\* A page without end that the same characters are typed on: [text, x, y], text a
\* set of <<x, y, character>>.
Typed(p, c) ==
  LET turn == [p EXCEPT !.x = 0, !.y = @ + 1]
      col(q, x) == IF x >= COL_CNT THEN [q EXCEPT !.x = 0, !.y = @ + 1] ELSE [q EXCEPT !.x = x]
      struck == {t \in p.text : t[1] = p.x /\ t[2] = p.y}
  IN CASE c = "newline" -> turn
       [] c = "formfeed" -> [text |-> {}, x |-> 0, y |-> 0]
       [] c = "backspace" -> [p EXCEPT !.x = IF @ = 0 THEN 0 ELSE @ - 1]
       [] c = "return" -> [p EXCEPT !.x = 0]
       [] c = "tab" -> col(p, CHOOSE x \in p.x + 1..p.x + TAB : x % TAB = 0)
       [] c = "alert" -> p
       [] OTHER -> col([p EXCEPT !.text = (@ \ struck) \cup {<<p.x, p.y, c>>}], p.x + 1)

\* After any characters, from an empty screen, the screen shows the last ROW_CNT
\* rows up to the cursor's of what was written since the last form feed, the
\* cursor is in that window, and the hardware's cursor tells where.
ScreenFaithful(chars) ==
  LET s == FoldLeft(vga_putc, cls([fb |-> << >>, cx |-> 0, cy |-> 0]), chars)
      p == FoldLeft(Typed, [text |-> {}, x |-> 0, y |-> 0], chars)
      first == IF p.y < ROW_CNT THEN 0 ELSE p.y - (ROW_CNT - 1)
  IN /\ s.cx = p.x /\ s.cy = p.y - first
     /\ s.cx \in Cols /\ s.cy \in Rows
     /\ find_cursor(s, move_cursor(s)) = s
     /\ \A x \in Cols, y \in Rows :
          IF \E t \in p.text : t[1] = x /\ t[2] = first + y
          THEN <<x, first + y, s.fb[<<x, y>>]>> \in p.text ELSE s.fb[<<x, y>>] = Space
=============================================================================
