----------------------------- MODULE TtyScreenProofs -----------------------------
(***************************************************************************)
(* The tty driver implements Terminal, for screens, rings and numbers of   *)
(* ttys of any size the types allow.                                       *)
(***************************************************************************)
EXTENDS TtyScreen, TLAPS

\* The rows of a screen are different lines of the ring.
LEMMA TTY_POSFacts ==
    ASSUME NEW s \in Lines
    PROVE  /\ \A y \in Rows : TTY_POS(s, y) \in Lines
           /\ \A y, z \in Rows : TTY_POS(s, y) = TTY_POS(s, z) => y = z
BY SizeAssumption, MemLinesAssumption DEF TTY_POS, Lines, Rows

\* print_tty finds the same lines as the writes do.
LEMMA ViewLineIsTTY_POS ==
    ASSUME NEW s \in Lines, NEW y \in Rows
    PROVE  ViewLine(s, y) = TTY_POS(s, y)
BY SizeAssumption, MemLinesAssumption DEF ViewLine, TTY_POS, Lines, Rows

\* Advancing scrln moves every row up by one.
LEMMA NextLineFacts ==
    ASSUME NEW s \in Lines
    PROVE  /\ NextLine(s) \in Lines
           /\ Height - 1 \in Rows
           /\ \A y \in Rows : y # Height - 1 =>
                y + 1 \in Rows /\ TTY_POS(NextLine(s), y) = TTY_POS(s, y + 1)
BY SizeAssumption, MemLinesAssumption DEF NextLine, TTY_POS, Lines, Rows

\* A byte leaves the cursor on the screen.
LEMMA MovedType ==
    ASSUME NEW c \in Cursor, NEW b
    PROVE  Moved(c, b) \in Cursor
<1>1. c.x \in Cols /\ c.y \in Rows
  BY DEF Cursor
<1>2. PICK x \in Nat, y \in Nat : /\ ByteCursor(c, b) = [x |-> x, y |-> y]
                                  /\ x <= Width /\ y <= Height
                                  /\ x = Width => y < Height
  <2> DEFINE B == ByteCursor(c, b)
  <2>1. /\ B.x \in Nat /\ B.y \in Nat /\ B.x <= Width /\ B.y <= Height
        /\ B.x = Width => B.y < Height
    <3>1. CASE b = "BS"
      BY <1>1, <3>1, SizeAssumption DEF ByteCursor, AtLeast, Cursor, Cols, Rows
    <3>2. CASE b = "TAB"
      <4> DEFINE t == AtMost(8 * ((c.x + 8) \div 8), Width - 1)
      <4>1. t \in Cols
        BY <1>1, SizeAssumption DEF AtMost, Cols
      <4>2. B = [c EXCEPT !.x = t]
        BY <3>2 DEF ByteCursor
      <4> HIDE DEF t, B
      <4> QED
        BY <1>1, <4>1, <4>2, SizeAssumption DEF Cursor, Cols, Rows
    <3>3. CASE b \in {"LF", "VT", "CR"}
      BY <1>1, <3>3, SizeAssumption DEF ByteCursor, Cursor, Cols, Rows
    <3>4. CASE b \notin {"BS", "TAB", "LF", "VT", "CR"}
      BY <1>1, <3>4, SizeAssumption DEF ByteCursor, Cursor, Cols, Rows
    <3> QED BY <3>1, <3>2, <3>3, <3>4
  <2>2. ByteCursor(c, b) = [x |-> ByteCursor(c, b).x, y |-> ByteCursor(c, b).y]
    BY DEF ByteCursor, Cursor
  <2> QED BY <2>1, <2>2
<1>3. PICK u \in Cols, v \in Nat : Wrapped(ByteCursor(c, b)) = [x |-> u, y |-> v] /\ v <= Height
  BY <1>2, SizeAssumption DEF Wrapped, Cols
<1> QED
  BY <1>3, SizeAssumption DEF Moved, Scrolls, Cursor, Rows

\* An escape sequence leaves the cursor on the screen.
LEMMA EscapeCursorType ==
    ASSUME NEW c \in Cursor, NEW s \in Cursor, NEW cmd,
           NEW p \in Numbers, NEW q \in Numbers \cup {ABSENT}
    PROVE  EscapeCursor(c, s, cmd, p, q) \in Cursor
<1> DEFINE n == Default(p, 1)
           m == Default(q, 1)
           E == EscapeCursor(c, s, cmd, p, q)
<1>1. n \in Nat /\ m \in Nat
  BY NumbersAssumption DEF Default, ABSENT
<1>2. PICK x \in Cols, y \in Rows : c = [x |-> x, y |-> y]
  BY DEF Cursor
<1>3. /\ AtLeast(y - n, 0) \in Rows /\ AtMost(y + n, Height - 1) \in Rows
      /\ AtLeast(x - n, 0) \in Cols /\ AtMost(x + n, Width - 1) \in Cols
      /\ AtMost(AtLeast(n, 1), Width) - 1 \in Cols
      /\ AtMost(AtLeast(m, 1), Height) - 1 \in Rows
      /\ 0 \in Cols
  <2> HIDE DEF n, m
  <2> QED BY <1>1, SizeAssumption DEF AtLeast, AtMost, Rows, Cols
<1>4. /\ cmd = "A" => E = [x |-> x, y |-> AtLeast(y - n, 0)]
      /\ cmd = "B" => E = [x |-> x, y |-> AtMost(y + n, Height - 1)]
      /\ cmd = "C" => E = [x |-> AtMost(x + n, Width - 1), y |-> y]
      /\ cmd = "D" => E = [x |-> AtLeast(x - n, 0), y |-> y]
      /\ cmd = "E" => E = [x |-> 0, y |-> AtMost(y + n, Height - 1)]
      /\ cmd = "F" => E = [x |-> 0, y |-> AtLeast(y - n, 0)]
      /\ cmd = "G" => E = [x |-> AtMost(AtLeast(n, 1), Width) - 1, y |-> y]
      /\ cmd = "H" => E = [x |-> AtMost(AtLeast(n, 1), Width) - 1,
                           y |-> AtMost(AtLeast(m, 1), Height) - 1]
      /\ cmd = "u" => E = s
      /\ cmd \notin {"A", "B", "C", "D", "E", "F", "G", "H", "u"} => E = c
  BY <1>2 DEF EscapeCursor
<1> HIDE DEF n, m, E
<1> QED
  BY <1>2, <1>3, <1>4 DEF Cursor, E

\* The colours are colours.
LEMMA EscapeAttrType ==
    ASSUME NEW a \in Attr, NEW cmd, NEW p \in Numbers
    PROVE  EscapeAttr(a, cmd, p) \in Attr
<1> DEFINE n == Default(p, 0)
           S == tty_select_graphic_rendition(a, n)
<1>1. n \in Nat
  BY NumbersAssumption DEF Default, ABSENT
<1>2. \A i \in 0 .. 7 : ansi_col_map[i] \in Colour
  BY DEF ansi_col_map, Colour
<1>3. FG_DEF \in Colour /\ BG_DEF \in Colour /\ BRIGHT \in Colour
  BY DEF FG_DEF, BG_DEF, BRIGHT, Colour
<1>4. ASSUME NEW u \in Colour PROVE NewBackground(a, u) \in Attr
  BY DEF NewBackground, Attr, Colour
<1>5. ASSUME NEW u \in Colour PROVE [a EXCEPT !.fg = u] \in Attr
  BY DEF Attr
<1>6. \A u, v \in Colour : u \cup v \in Colour
  BY DEF Colour
<1>7. S \in Attr
  <2>1. CASE n = 0
    BY <1>3, <2>1 DEF tty_select_graphic_rendition, Attr
  <2>2. CASE n \in 30 .. 37
    BY <1>2, <1>5, <2>2 DEF tty_select_graphic_rendition
  <2>3. CASE n = 39
    BY <1>3, <1>5, <2>3 DEF tty_select_graphic_rendition
  <2>4. CASE n \in 40 .. 47
    BY <1>2, <1>4, <2>4 DEF tty_select_graphic_rendition
  <2>5. CASE n = 49
    BY <1>3, <1>4, <2>5 DEF tty_select_graphic_rendition
  <2>6. CASE n \in 90 .. 97
    BY <1>2, <1>3, <1>5, <1>6, <2>6 DEF tty_select_graphic_rendition
  <2>7. CASE n = 99
    BY <1>3, <1>5, <1>6, <2>7 DEF tty_select_graphic_rendition
  <2>8. CASE n \in 100 .. 107
    BY <1>2, <1>3, <1>4, <1>6, <2>8 DEF tty_select_graphic_rendition
  <2>9. CASE n = 109
    BY <1>3, <1>4, <1>6, <2>9 DEF tty_select_graphic_rendition
  <2>10. CASE n \notin {0, 39, 49, 99, 109} \cup 30 .. 37 \cup 40 .. 47 \cup 90 .. 97 \cup 100 .. 107
    BY <2>10 DEF tty_select_graphic_rendition
  <2> QED
    BY <2>1, <2>2, <2>3, <2>4, <2>5, <2>6, <2>7, <2>8, <2>9, <2>10
<1> QED
  BY <1>7 DEF EscapeAttr

-----------------------------------------------------------------------------
(***************************************************************************)
(* The screen under the operations on the ring.                            *)
(***************************************************************************)

\* What print_tty shows of a tty whose view is at the top.
LEMMA PrintIsScreen ==
    ASSUME NEW a \in Tty, a.viewln = a.scrln
    PROVE  print_tty(a) = [cells |-> Screen(a),
                           cursor |-> IF a.show_cursor THEN a.cursor ELSE NONE]
<1>1. a.scrln \in Lines
  BY DEF Tty
<1>2. \A y \in Rows : ViewLine(a.viewln, y) = TTY_POS(a.scrln, y)
  BY <1>1, ViewLineIsTTY_POS
<1> QED
  BY <1>2 DEF print_tty, tty_showcusor, Screen

\* A screen is made of cells.
LEMMA ScreenType ==
    ASSUME NEW a \in Tty
    PROVE  Screen(a) \in [Rows -> [Cols -> Cell]]
BY TTY_POSFacts DEF Screen, Tty

\* The operators of TtyCommands are the same ones in Terminal.
LEMMA SameOperators ==
    /\ Abstract!Blank = Blank /\ Abstract!Rows = Rows /\ Abstract!Cols = Cols
    /\ \A u, v : Abstract!AtLeast(u, v) = AtLeast(u, v)
    /\ \A u, v : Abstract!AtMost(u, v) = AtMost(u, v)
    /\ \A u, v : Abstract!Default(u, v) = Default(u, v)
    /\ \A cmd : Abstract!Second(cmd) = Second(cmd)
BY DEF Blank, Abstract!Blank, Rows, Abstract!Rows, Cols, Abstract!Cols,
       AtLeast, Abstract!AtLeast, AtMost, Abstract!AtMost, Default, Abstract!Default,
       ABSENT, Abstract!ABSENT, Second, Abstract!Second

\* Bytes move the cursor in Terminal as they do in the driver.
LEMMA SameMoves ==
    ASSUME NEW c, NEW b
    PROVE  /\ Abstract!Moved(c, b) = Moved(c, b)
           /\ Abstract!Scrolls(c, b) = Scrolls(c, b)
<1>1. Abstract!ByteCursor(c, b) = ByteCursor(c, b)
  BY SameOperators DEF ByteCursor, Abstract!ByteCursor
<1>2. \A w : Abstract!Wrapped(w) = Wrapped(w)
  BY DEF Wrapped, Abstract!Wrapped
<1> QED
  BY <1>1, <1>2 DEF Moved, Abstract!Moved, Scrolls, Abstract!Scrolls

\* Escape sequences mean in Terminal what they mean in the driver.
LEMMA SameEscapes ==
    ASSUME NEW c, NEW s, NEW a, NEW cmd, NEW p, NEW q
    PROVE  /\ Abstract!EscapeCursor(c, s, cmd, p, q) = EscapeCursor(c, s, cmd, p, q)
           /\ Abstract!EscapeAttr(a, cmd, p) = EscapeAttr(a, cmd, p)
           /\ \A x, y : Abstract!Erases(c, cmd, p, x, y) = Erases(c, cmd, p, x, y)
<1>1. Abstract!EscapeCursor(c, s, cmd, p, q) = EscapeCursor(c, s, cmd, p, q)
  BY SameOperators DEF EscapeCursor, Abstract!EscapeCursor
<1>2. Abstract!EscapeAttr(a, cmd, p) = EscapeAttr(a, cmd, p)
  <2>1. Abstract!ansi_col_map = ansi_col_map
    BY DEF ansi_col_map, Abstract!ansi_col_map
  <2>2. /\ Abstract!FG_DEF = FG_DEF /\ Abstract!BG_DEF = BG_DEF /\ Abstract!BRIGHT = BRIGHT
        /\ \A u, v : Abstract!NewBackground(u, v) = NewBackground(u, v)
    BY DEF FG_DEF, Abstract!FG_DEF, BG_DEF, Abstract!BG_DEF, BRIGHT, Abstract!BRIGHT,
           NewBackground, Abstract!NewBackground
  <2>3. \A n : Abstract!tty_select_graphic_rendition(a, n) = tty_select_graphic_rendition(a, n)
    BY <2>1, <2>2 DEF tty_select_graphic_rendition, Abstract!tty_select_graphic_rendition
  <2> QED
    BY <2>3, SameOperators DEF EscapeAttr, Abstract!EscapeAttr
<1>3. \A x, y : Abstract!Erases(c, cmd, p, x, y) = Erases(c, cmd, p, x, y)
  BY SameOperators DEF Erases, Abstract!Erases
<1> QED
  BY <1>1, <1>2, <1>3

\* A byte is stored where the cursor is on the screen.
LEMMA StoredFacts ==
    ASSUME NEW a \in Tty, NEW b \in Bytes \cup Chars
    PROVE  /\ Stored(a, b) \in [Lines -> [Cols -> Cell]]
           /\ [y \in Rows |-> Stored(a, b)[TTY_POS(a.scrln, y)]]
                = Abstract!Printed(Screen(a), a.cursor, a.attr, b)
<1> DEFINE line == TTY_POS(a.scrln, a.cursor.y)
           back == AtLeast(a.cursor.x - 1, 0)
<1>1. /\ a.scrln \in Lines /\ a.cursor \in Cursor /\ a.attr \in Attr
      /\ a.mem \in [Lines -> [Cols -> Cell]]
  BY DEF Tty
<1>2. a.cursor.x \in Cols /\ a.cursor.y \in Rows /\ back \in Cols
  BY <1>1, SizeAssumption DEF Cursor, Cols, AtLeast
<1>3. /\ line \in Lines
      /\ \A y \in Rows : TTY_POS(a.scrln, y) \in Lines
      /\ \A y \in Rows : TTY_POS(a.scrln, y) = line => y = a.cursor.y
  BY <1>1, <1>2, TTY_POSFacts
<1>4. b = "BS" => ByteCursor(a.cursor, b).x = back
  BY <1>1 DEF ByteCursor, Cursor
<1>5. ASSUME NEW x \in Cols, NEW v \in Cell
      PROVE  LET M == [a.mem EXCEPT ![line][x] = v]
             IN  /\ M \in [Lines -> [Cols -> Cell]]
                 /\ [y \in Rows |-> M[TTY_POS(a.scrln, y)]]
                      = [Screen(a) EXCEPT ![a.cursor.y][x] = v]
  <2> DEFINE M == [a.mem EXCEPT ![line][x] = v]
  <2>1. M \in [Lines -> [Cols -> Cell]]
    BY <1>1, <1>3
  <2>2. ASSUME NEW y \in Rows
        PROVE  M[TTY_POS(a.scrln, y)] = [Screen(a) EXCEPT ![a.cursor.y][x] = v][y]
    BY <1>1, <1>2, <1>3 DEF Screen
  <2>3. [y \in Rows |-> M[TTY_POS(a.scrln, y)]] = [Screen(a) EXCEPT ![a.cursor.y][x] = v]
    BY <2>2 DEF Screen
  <2> QED BY <2>1, <2>3
<1> HIDE DEF line, back
<1>6. CASE b \in Chars
  <2>1. [attr |-> a.attr, char |-> b] \in Cell
    BY <1>1, <1>6 DEF Cell
  <2>2. Stored(a, b) = [a.mem EXCEPT ![line][a.cursor.x] = [attr |-> a.attr, char |-> b]]
    BY <1>6, BytesAssumption DEF Stored, line, Controls
  <2>3. Abstract!Printed(Screen(a), a.cursor, a.attr, b)
          = [Screen(a) EXCEPT ![a.cursor.y][a.cursor.x] = [attr |-> a.attr, char |-> b]]
    BY <1>6, BytesAssumption DEF Abstract!Printed, Controls
  <2> QED
    BY <1>2, <1>5, <2>1, <2>2, <2>3
<1>7. CASE b = "BS"
  <2>1. [attr |-> a.attr, char |-> Blank] \in Cell
    BY <1>1 DEF Cell
  <2>2. b \notin Chars
    BY <1>7, BytesAssumption DEF Controls
  <2>3. Stored(a, b) = [a.mem EXCEPT ![line][back] = [attr |-> a.attr, char |-> Blank]]
    BY <1>4, <1>7, <2>2 DEF Stored, line
  <2>4. Abstract!Printed(Screen(a), a.cursor, a.attr, b)
          = [Screen(a) EXCEPT ![a.cursor.y][back] = [attr |-> a.attr, char |-> Blank]]
    BY <1>7, <2>2, SameOperators DEF Abstract!Printed, back
  <2> QED
    BY <1>2, <1>5, <2>1, <2>3, <2>4
<1>8. CASE b \notin Chars /\ b # "BS"
  BY <1>1, <1>8 DEF Stored, Abstract!Printed, Screen
<1> QED
  BY <1>6, <1>7, <1>8

\* Advancing scrln and blanking the line that enters is scrolling the screen up.
LEMMA ScrolledFacts ==
    ASSUME NEW a \in Tty
    PROVE  LET n == Scrolled(a)
           IN  /\ n \in Tty /\ n.viewln = n.scrln
               /\ n.cursor = a.cursor /\ n._cursor = a._cursor /\ n.attr = a.attr
               /\ n.show_cursor = a.show_cursor /\ n.echo = a.echo
               /\ Screen(n) = Abstract!ScrolledUp(Screen(a), a.attr)
<1> DEFINE s == NextLine(a.scrln)
           last == TTY_POS(s, Height - 1)
           row == [x \in Cols |-> [attr |-> a.attr, char |-> Blank]]
           M == [a.mem EXCEPT ![last] = row]
           n == Scrolled(a)
<1>1. a.scrln \in Lines /\ a.attr \in Attr /\ a.mem \in [Lines -> [Cols -> Cell]]
  BY DEF Tty
<1>2. s \in Lines /\ Height - 1 \in Rows /\ last \in Lines
  BY <1>1, NextLineFacts, TTY_POSFacts
<1>3. row \in [Cols -> Cell]
  BY <1>1 DEF Cell
<1>4. M \in [Lines -> [Cols -> Cell]]
  BY <1>1, <1>3
<1>5. n = [a EXCEPT !.scrln = s, !.viewln = s, !.mem = M]
  BY DEF Scrolled
<1>6. ASSUME NEW y \in Rows
      PROVE  M[TTY_POS(s, y)] = Abstract!ScrolledUp(Screen(a), a.attr)[y]
  <2>1. CASE y = Height - 1
    BY <1>1, <1>2, <2>1, SameOperators DEF Abstract!ScrolledUp
  <2>2. CASE y # Height - 1
    <3>1. /\ y + 1 \in Rows /\ TTY_POS(s, y) = TTY_POS(a.scrln, y + 1)
          /\ TTY_POS(s, y) \in Lines /\ TTY_POS(s, y) # last
      BY <1>1, <1>2, <2>2, NextLineFacts, TTY_POSFacts
    <3>2. M[TTY_POS(s, y)] = a.mem[TTY_POS(a.scrln, y + 1)]
      BY <1>1, <1>2, <3>1
    <3> QED
      BY <2>2, <3>1, <3>2, SameOperators DEF Abstract!ScrolledUp, Screen
  <2> QED BY <2>1, <2>2
<1> HIDE DEF s, last, row, M, n
<1>7. /\ n \in Tty /\ n.scrln = s /\ n.viewln = s /\ n.mem = M
      /\ n.cursor = a.cursor /\ n._cursor = a._cursor /\ n.attr = a.attr
      /\ n.show_cursor = a.show_cursor /\ n.echo = a.echo
  BY <1>2, <1>4, <1>5 DEF Tty
<1>8. Screen(n) = Abstract!ScrolledUp(Screen(a), a.attr)
  <2>1. Screen(n) = [y \in Rows |-> M[TTY_POS(s, y)]]
    BY <1>7 DEF Screen
  <2>2. Abstract!ScrolledUp(Screen(a), a.attr)
          = [y \in Rows |-> Abstract!ScrolledUp(Screen(a), a.attr)[y]]
    BY SameOperators DEF Abstract!ScrolledUp
  <2> QED BY <1>6, <2>1, <2>2
<1> QED
  BY <1>7, <1>8 DEF n

\* What a byte makes of a tty.
AfterByte(a, b) ==
    LET s == [a EXCEPT !.mem = Stored(a, b), !.cursor = Moved(a.cursor, b)]
    IN  IF Scrolls(a.cursor, b) THEN Scrolled(s) ELSE s

\* What a byte leaves of a tty, and the screen it makes.
LEMMA AfterByteFacts ==
    ASSUME NEW a \in Tty, a.viewln = a.scrln, NEW b \in Bytes \cup Chars
    PROVE  LET n == AfterByte(a, b)
               P == Abstract!Printed(Screen(a), a.cursor, a.attr, b)
           IN  /\ n \in Tty /\ n.viewln = n.scrln
               /\ n.cursor = Moved(a.cursor, b) /\ n._cursor = a._cursor /\ n.attr = a.attr
               /\ n.show_cursor = a.show_cursor /\ n.echo = a.echo
               /\ Screen(n) = IF Scrolls(a.cursor, b) THEN Abstract!ScrolledUp(P, a.attr)
                                                      ELSE P
<1> DEFINE s == [a EXCEPT !.mem = Stored(a, b), !.cursor = Moved(a.cursor, b)]
           P == Abstract!Printed(Screen(a), a.cursor, a.attr, b)
<1>1. /\ Stored(a, b) \in [Lines -> [Cols -> Cell]] /\ Moved(a.cursor, b) \in Cursor
      /\ [y \in Rows |-> Stored(a, b)[TTY_POS(a.scrln, y)]] = P
  BY StoredFacts, MovedType DEF Tty
<1>2. /\ s \in Tty /\ s.scrln = a.scrln /\ s.viewln = a.viewln /\ s.mem = Stored(a, b)
      /\ s.cursor = Moved(a.cursor, b) /\ s._cursor = a._cursor /\ s.attr = a.attr
      /\ s.show_cursor = a.show_cursor /\ s.echo = a.echo
  BY <1>1 DEF Tty
<1>3. AfterByte(a, b) = IF Scrolls(a.cursor, b) THEN Scrolled(s) ELSE s
  BY DEF AfterByte
<1> HIDE DEF s, P
<1>4. Screen(s) = P
  BY <1>1, <1>2 DEF Screen
<1> QED
  BY <1>2, <1>3, <1>4, ScrolledFacts DEF P

\* An escape sequence erases the rows of the screen it names.
LEMMA EscapeFacts ==
    ASSUME NEW a \in Tty, NEW cmd, NEW p \in Numbers, NEW q \in Numbers \cup {ABSENT}
    PROVE  LET n == tty_interpret_escape(a, cmd, p, q)
           IN  /\ n \in Tty /\ n.viewln = a.viewln /\ n.scrln = a.scrln
               /\ Screen(n) = [y \in Rows |-> [x \in Cols |->
                                IF Erases(a.cursor, cmd, p, x, y)
                                  THEN [attr |-> a.attr, char |-> Blank]
                                  ELSE Screen(a)[y][x]]]
<1> DEFINE n == tty_interpret_escape(a, cmd, p, q)
           E == Erased(a, cmd, p)
<1>1. /\ a.scrln \in Lines /\ a.viewln \in Lines /\ a.attr \in Attr /\ a.cursor \in Cursor
      /\ a._cursor \in Cursor /\ a.mem \in [Lines -> [Cols -> Cell]]
      /\ a.show_cursor \in BOOLEAN /\ a.echo \in BOOLEAN
  BY DEF Tty
<1>2. E \in [Lines -> [Cols -> Cell]]
  BY <1>1 DEF Erased, Cell
<1>3. ASSUME NEW y \in Rows, NEW x \in Cols
      PROVE  E[TTY_POS(a.scrln, y)][x] = IF Erases(a.cursor, cmd, p, x, y)
                                           THEN [attr |-> a.attr, char |-> Blank]
                                           ELSE Screen(a)[y][x]
  <2>1. /\ TTY_POS(a.scrln, y) \in Lines
        /\ \A z \in Rows : TTY_POS(a.scrln, z) = TTY_POS(a.scrln, y) => z = y
    BY <1>1, TTY_POSFacts
  <2> QED BY <2>1 DEF Erased, Screen
<1>4. EscapeCursor(a.cursor, a._cursor, cmd, p, q) \in Cursor /\ EscapeAttr(a.attr, cmd, p) \in Attr
  BY <1>1, EscapeCursorType, EscapeAttrType
<1> HIDE DEF E
<1>5. n \in Tty /\ n.viewln = a.viewln /\ n.scrln = a.scrln /\ n.mem = E
  BY <1>1, <1>2, <1>4 DEF tty_interpret_escape, Tty, E
<1> HIDE DEF n
<1>6. Screen(n) = [y \in Rows |-> [x \in Cols |-> E[TTY_POS(a.scrln, y)][x]]]
  <2>1. \A y \in Rows : TTY_POS(a.scrln, y) \in Lines
    BY <1>1, TTY_POSFacts
  <2> QED BY <1>2, <1>5, <2>1 DEF Screen
<1> QED
  BY <1>3, <1>5, <1>6 DEF n

-----------------------------------------------------------------------------
(***************************************************************************)
(* The steps: each keeps the invariant and is a step of Terminal.          *)
(***************************************************************************)

\* A picture is what the monitor may show.
LEMMA PictureFacts ==
    ASSUME NEW a \in Tty, a.viewln = a.scrln
    PROVE  /\ Abstract!Picture(AsTerm(a)) = print_tty(a)
           /\ print_tty(a) \in [cells : [Rows -> [Cols -> Cell]], cursor : Cursor \cup {NONE}]
<1>1. a.cursor \in Cursor /\ Screen(a) \in [Rows -> [Cols -> Cell]]
  BY ScreenType DEF Tty
<1> QED
  BY <1>1, PrintIsScreen DEF Abstract!Picture, AsTerm

\* A byte does to the screen what Terminal says.
LEMMA ByteIsByte ==
    ASSUME NEW a \in Tty, a.viewln = a.scrln, NEW b \in Bytes \cup Chars
    PROVE  LET t == AsTerm(a)
               s == Abstract!Printed(t.screen, t.cursor, t.attr, b)
           IN  AsTerm(AfterByte(a, b)) =
                 [screen |-> IF Abstract!Scrolls(t.cursor, b)
                               THEN Abstract!ScrolledUp(s, t.attr) ELSE s,
                  cursor |-> Abstract!Moved(t.cursor, b), saved |-> t.saved,
                  show_cursor |-> t.show_cursor, echo |-> t.echo, attr |-> t.attr]
<1> DEFINE P == Abstract!Printed(Screen(a), a.cursor, a.attr, b)
           Q == IF Scrolls(a.cursor, b) THEN Abstract!ScrolledUp(P, a.attr) ELSE P
           n == AfterByte(a, b)
<1>1. /\ n.cursor = Moved(a.cursor, b) /\ n._cursor = a._cursor /\ n.attr = a.attr
      /\ n.show_cursor = a.show_cursor /\ n.echo = a.echo
      /\ Screen(n) = Q
  BY AfterByteFacts
<1> HIDE DEF Q, n
<1>2. AsTerm(n) = [screen |-> Q, cursor |-> Moved(a.cursor, b), saved |-> a._cursor,
                   show_cursor |-> a.show_cursor, echo |-> a.echo, attr |-> a.attr]
  BY <1>1 DEF AsTerm
<1> QED
  BY <1>2, SameMoves DEF Q, P, n, AsTerm

\* An escape sequence does to the screen what Terminal says.
LEMMA EscapeIsEscape ==
    ASSUME NEW a \in Tty, NEW cmd, NEW p \in Numbers, NEW q \in Numbers \cup {ABSENT}
    PROVE  LET t == AsTerm(a)
           IN  AsTerm(tty_interpret_escape(a, cmd, p, q)) =
                 [screen |-> [y \in Abstract!Rows |-> [x \in Abstract!Cols |->
                                IF Abstract!Erases(t.cursor, cmd, p, x, y)
                                  THEN [attr |-> t.attr, char |-> Abstract!Blank]
                                  ELSE t.screen[y][x]]],
                  cursor |-> Abstract!EscapeCursor(t.cursor, t.saved, cmd, p, q),
                  saved  |-> IF cmd = "s" THEN t.cursor ELSE t.saved,
                  show_cursor |-> (t.show_cursor \/ cmd = "h") /\ cmd # "l",
                  echo   |-> IF cmd = "e" THEN Abstract!Default(p, 1) # 0 ELSE t.echo,
                  attr   |-> Abstract!EscapeAttr(t.attr, cmd, p)]
<1> DEFINE n == tty_interpret_escape(a, cmd, p, q)
           R == [y \in Rows |-> [x \in Cols |->
                   IF Erases(a.cursor, cmd, p, x, y)
                     THEN [attr |-> a.attr, char |-> Blank] ELSE Screen(a)[y][x]]]
           R1 == [y \in Abstract!Rows |-> [x \in Abstract!Cols |->
                   IF Abstract!Erases(a.cursor, cmd, p, x, y)
                     THEN [attr |-> a.attr, char |-> Abstract!Blank] ELSE Screen(a)[y][x]]]
<1>1. Screen(n) = R
  BY EscapeFacts
<1>2. R1 = R
  <2>1. \A x, y : Abstract!Erases(a.cursor, cmd, p, x, y) = Erases(a.cursor, cmd, p, x, y)
    BY SameEscapes
  <2>2. Abstract!Rows = Rows /\ Abstract!Cols = Cols /\ Abstract!Blank = Blank
    BY SameOperators
  <2> QED BY <2>1, <2>2
<1>3. /\ n.cursor = Abstract!EscapeCursor(a.cursor, a._cursor, cmd, p, q)
      /\ n._cursor = IF cmd = "s" THEN a.cursor ELSE a._cursor
      /\ n.show_cursor = ((a.show_cursor \/ cmd = "h") /\ cmd # "l")
      /\ n.echo = IF cmd = "e" THEN Abstract!Default(p, 1) # 0 ELSE a.echo
      /\ n.attr = Abstract!EscapeAttr(a.attr, cmd, p)
  BY SameOperators, SameEscapes DEF tty_interpret_escape
<1> HIDE DEF n, R
<1>4. AsTerm(n) = [screen |-> R1, cursor |-> n.cursor, saved |-> n._cursor,
                   show_cursor |-> n.show_cursor, echo |-> n.echo, attr |-> n.attr]
  BY <1>1, <1>2 DEF AsTerm
<1> QED
  BY <1>3, <1>4 DEF AsTerm, n

\* create_tty makes a tty with an empty screen.
LEMMA CreateFacts ==
    ASSUME NEW c \in Cursor
    PROVE  LET a == create_tty(c)
           IN  a \in Tty /\ a.viewln = a.scrln /\ AsTerm(a) = Abstract!Fresh(c)
<1> DEFINE a == create_tty(c)
           M == [l \in Lines |-> [x \in Cols |-> EmptyCell]]
<1>1. a = [mem |-> M, scrln |-> 0, viewln |-> 0, cursor |-> c, _cursor |-> [x |-> 0, y |-> 0],
           show_cursor |-> FALSE, echo |-> FALSE, attr |-> [fg |-> FG_DEF, bg |-> BG_DEF]]
  BY DEF create_tty
<1>2. 0 \in Lines /\ [x |-> 0, y |-> 0] \in Cursor
  BY SizeAssumption, MemLinesAssumption DEF Lines, Cursor, Cols, Rows
<1>3. EmptyCell \in Cell /\ [fg |-> FG_DEF, bg |-> BG_DEF] \in Attr
  BY DEF EmptyCell, Cell, Attr, Colour, FG_DEF, BG_DEF
<1>4. M \in [Lines -> [Cols -> Cell]]
  BY <1>3
<1> HIDE DEF M
<1>5. a \in Tty /\ a.viewln = a.scrln
  BY <1>1, <1>2, <1>3, <1>4 DEF Tty
<1>6. Screen(a) = [y \in Rows |-> [x \in Cols |-> EmptyCell]]
  <2>1. \A y \in Rows : TTY_POS(0, y) \in Lines
    BY <1>2, TTY_POSFacts
  <2>2. a.mem = M /\ a.scrln = 0
    BY <1>1
  <2> HIDE DEF a
  <2> QED BY <2>1, <2>2 DEF Screen, M
<1>7. Abstract!Fresh(c) =
        [screen |-> [y \in Rows |-> [x \in Cols |-> EmptyCell]],
         cursor |-> c, saved |-> [x |-> 0, y |-> 0], show_cursor |-> FALSE,
         echo |-> FALSE, attr |-> [fg |-> FG_DEF, bg |-> BG_DEF]]
  <2>1. /\ Abstract!EmptyCell = EmptyCell /\ Abstract!FG_DEF = FG_DEF
        /\ Abstract!BG_DEF = BG_DEF
    BY DEF Abstract!EmptyCell, EmptyCell, Abstract!Blank, Blank, Abstract!FG_DEF, FG_DEF,
           Abstract!BG_DEF, BG_DEF
  <2> QED BY <2>1, SameOperators DEF Abstract!Fresh
<1>8. AsTerm(a) = Abstract!Fresh(c)
  <2>1. /\ a.cursor = c /\ a._cursor = [x |-> 0, y |-> 0] /\ a.show_cursor = FALSE
        /\ a.echo = FALSE /\ a.attr = [fg |-> FG_DEF, bg |-> BG_DEF]
    BY <1>1
  <2> HIDE DEF a
  <2> QED BY <1>6, <1>7, <2>1 DEF AsTerm
<1> QED
  BY <1>5, <1>8

\* The initial states have the invariant and are initial states of Terminal.
LEMMA InitFacts ==
    ASSUME Init
    PROVE  IInv /\ Abstract!Init
<1> DEFINE home == [x |-> 0, y |-> 0]
<1>1. PICK c \in Cursor : ttys = [t \in Ttys |-> create_tty(IF t = 0 THEN c ELSE home)]
  BY DEF Init
<1>2. home \in Cursor /\ 0 \in Ttys
  BY SizeAssumption, TtysAssumption DEF Cursor, Cols, Rows, Ttys
<1> HIDE DEF home
<1>3. ASSUME NEW t \in Ttys
      PROVE  /\ ttys[t] \in Tty /\ ttys[t].viewln = ttys[t].scrln
             /\ AsTerm(ttys[t]) = Abstract!Fresh(IF t = 0 THEN c ELSE home)
  <2>1. PICK d \in Cursor : d = IF t = 0 THEN c ELSE home
    BY <1>2
  <2>2. ttys[t] = create_tty(d)
    BY <1>1, <2>1
  <2> QED BY <2>1, <2>2, CreateFacts
<1>4. /\ ttys \in [Ttys -> Tty] /\ ViewAtTop
  BY <1>1, <1>3 DEF ViewAtTop
<1>5. current_tty = 0 /\ video = print_tty(ttys[0]) /\ writing = NONE
  BY DEF Init
<1>6. /\ print_tty(ttys[0]) = Abstract!Picture(AsTerm(ttys[0]))
      /\ print_tty(ttys[0]) \in [cells : [Rows -> [Cols -> Cell]], cursor : Cursor \cup {NONE}]
  BY <1>2, <1>3, PictureFacts
<1>7. IInv
  BY <1>2, <1>4, <1>5, <1>6 DEF IInv, TypeOK, CurrentIsShown
<1>8. Abstract!Init
  <2>1. Abstract!Cursor = Cursor
    BY SameOperators DEF Cursor, Abstract!Cursor
  <2>2. [t \in Ttys |-> AsTerm(ttys[t])]
          = [t \in Ttys |-> Abstract!Fresh(IF t = 0 THEN c ELSE home)]
    BY <1>3
  <2> QED
    BY <1>2, <1>5, <1>6, <2>1, <2>2 DEF Abstract!Init, home
<1> QED BY <1>7, <1>8

\* A step that changes nothing but the tty being written to keeps the invariant:
\* the monitor has to follow that tty only when the write ends.
LEMMA WritingStep ==
    ASSUME IInv, writing \in Ttys, NEW n \in Tty, n.viewln = n.scrln,
           ttys' = [ttys EXCEPT ![writing] = n],
           UNCHANGED <<current_tty, video, writing>>
    PROVE  IInv'
<1>1. ttys' \in [Ttys -> Tty] /\ ViewAtTop'
  BY DEF IInv, TypeOK, ViewAtTop
<1>2. CurrentIsShown'
  BY DEF IInv, TypeOK, CurrentIsShown
<1> QED
  BY <1>1, <1>2 DEF IInv, TypeOK

\* The abstract image of a change of one tty.
LEMMA TermOfUpdate ==
    ASSUME ttys \in [Ttys -> Tty], NEW t \in Ttys, NEW n,
           ttys' = [ttys EXCEPT ![t] = n]
    PROVE  [u \in Ttys |-> AsTerm(ttys[u])]' = [[u \in Ttys |-> AsTerm(ttys[u])] EXCEPT ![t] = AsTerm(n)]
<1>1. \A u \in Ttys : ttys'[u] = IF u = t THEN n ELSE ttys[u]
  OBVIOUS
<1> QED
  BY <1>1

\* A write begins.
LEMMA StartWriteStep ==
    ASSUME IInv, NEW t \in Ttys, StartWrite(t)
    PROVE  IInv' /\ Abstract!StartWrite(t)
<1>1. /\ ttys \in [Ttys -> Tty] /\ ttys[t] \in Tty /\ ttys[t].viewln = ttys[t].scrln
      /\ writing = NONE /\ writing' = t /\ UNCHANGED <<current_tty, video>>
  BY DEF IInv, TypeOK, ViewAtTop, StartWrite
<1>2. ttys' = ttys
  <2>1. [ttys[t] EXCEPT !.viewln = ttys[t].scrln] = ttys[t]
    BY <1>1 DEF Tty
  <2> QED BY <1>1, <2>1 DEF StartWrite
<1>3. current_tty \in Ttys /\ writing # current_tty
  BY <1>1, TtysAssumption DEF IInv, TypeOK, Ttys
<1>4. IInv'
  BY <1>1, <1>2, <1>3 DEF IInv, TypeOK, ViewAtTop, CurrentIsShown
<1>5. Abstract!StartWrite(t)
  BY <1>1, <1>2 DEF Abstract!StartWrite
<1> QED BY <1>4, <1>5

\* A byte is written.
LEMMA ByteStep ==
    ASSUME IInv, NEW b \in Bytes \cup Chars, Byte(b)
    PROVE  IInv' /\ Abstract!Byte(b)
<1> DEFINE a == ttys[writing]
           n == AfterByte(a, b)
<1>1. /\ writing \in Ttys /\ ttys \in [Ttys -> Tty] /\ a \in Tty /\ a.viewln = a.scrln
      /\ writing # NONE /\ UNCHANGED <<current_tty, video, writing>>
  BY DEF IInv, TypeOK, ViewAtTop, Byte
<1>2. ttys' = [ttys EXCEPT ![writing] = n]
  BY DEF Byte, AfterByte
<1>3. n \in Tty /\ n.viewln = n.scrln
  BY <1>1, AfterByteFacts
<1> HIDE DEF n
<1>4. IInv'
  BY <1>1, <1>2, <1>3, WritingStep
<1>5. [u \in Ttys |-> AsTerm(ttys[u])]'
        = [[u \in Ttys |-> AsTerm(ttys[u])] EXCEPT ![writing] = AsTerm(n)]
  BY <1>1, <1>2, TermOfUpdate
<1>6. [u \in Ttys |-> AsTerm(ttys[u])][writing] = AsTerm(a)
  BY <1>1
<1>7. Abstract!Byte(b)
  <2>1. LET t == AsTerm(a)
            s == Abstract!Printed(t.screen, t.cursor, t.attr, b)
        IN  AsTerm(n) =
              [screen |-> IF Abstract!Scrolls(t.cursor, b)
                            THEN Abstract!ScrolledUp(s, t.attr) ELSE s,
               cursor |-> Abstract!Moved(t.cursor, b), saved |-> t.saved,
               show_cursor |-> t.show_cursor, echo |-> t.echo, attr |-> t.attr]
    BY <1>1, ByteIsByte DEF n
  <2> QED
    BY <1>1, <1>5, <1>6, <2>1 DEF Abstract!Byte
<1> QED BY <1>4, <1>7

\* An escape sequence is written.
LEMMA EscapeStep ==
    ASSUME IInv, NEW cmd, NEW p \in Numbers, NEW q \in Numbers \cup {ABSENT}, Escape(cmd, p, q)
    PROVE  IInv' /\ Abstract!Escape(cmd, p, q)
<1> DEFINE a == ttys[writing]
           n == tty_interpret_escape(a, cmd, p, q)
<1>1. /\ writing \in Ttys /\ ttys \in [Ttys -> Tty] /\ a \in Tty /\ a.viewln = a.scrln
      /\ writing # NONE /\ UNCHANGED <<current_tty, video, writing>>
  BY DEF IInv, TypeOK, ViewAtTop, Escape
<1>2. ttys' = [ttys EXCEPT ![writing] = n]
  BY <1>1 DEF Escape
<1>3. n \in Tty /\ n.viewln = n.scrln
  <2>1. n \in Tty /\ n.viewln = a.viewln /\ n.scrln = a.scrln
    BY <1>1, EscapeFacts
  <2> HIDE DEF n
  <2> QED BY <1>1, <2>1
<1> HIDE DEF n
<1>4. IInv'
  BY <1>1, <1>2, <1>3, WritingStep
<1>5. [u \in Ttys |-> AsTerm(ttys[u])]'
        = [[u \in Ttys |-> AsTerm(ttys[u])] EXCEPT ![writing] = AsTerm(n)]
  BY <1>1, <1>2, TermOfUpdate
<1>6. [u \in Ttys |-> AsTerm(ttys[u])][writing] = AsTerm(a)
  BY <1>1
<1>7. Abstract!Escape(cmd, p, q)
  <2>1. LET t == AsTerm(a)
        IN  AsTerm(n) =
              [screen |-> [y \in Abstract!Rows |-> [x \in Abstract!Cols |->
                             IF Abstract!Erases(t.cursor, cmd, p, x, y)
                               THEN [attr |-> t.attr, char |-> Abstract!Blank]
                               ELSE t.screen[y][x]]],
               cursor |-> Abstract!EscapeCursor(t.cursor, t.saved, cmd, p, q),
               saved  |-> IF cmd = "s" THEN t.cursor ELSE t.saved,
               show_cursor |-> (t.show_cursor \/ cmd = "h") /\ cmd # "l",
               echo   |-> IF cmd = "e" THEN Abstract!Default(p, 1) # 0 ELSE t.echo,
               attr   |-> Abstract!EscapeAttr(t.attr, cmd, p)]
    BY <1>1, EscapeIsEscape, SMTT(30) DEF n
  <2> HIDE DEF a
  <2> QED
    BY <1>1, <1>5, <1>6, <2>1 DEF Abstract!Escape
<1> QED BY <1>4, <1>7

\* A write ends.
LEMMA EndWriteStep ==
    ASSUME IInv, EndWrite
    PROVE  IInv' /\ Abstract!EndWrite
<1>1. /\ writing \in Ttys /\ ttys \in [Ttys -> Tty] /\ ViewAtTop /\ writing # NONE
      /\ writing' = NONE /\ UNCHANGED <<ttys, current_tty>> /\ current_tty \in Ttys
      /\ video' = IF writing = current_tty THEN print_tty(ttys[writing]) ELSE video
  BY DEF IInv, TypeOK, EndWrite
<1>2. /\ Abstract!Picture(AsTerm(ttys[writing])) = print_tty(ttys[writing])
      /\ print_tty(ttys[writing]) \in
           [cells : [Rows -> [Cols -> Cell]], cursor : Cursor \cup {NONE}]
  BY <1>1, PictureFacts DEF ViewAtTop
<1>3. IInv'
  BY <1>1, <1>2 DEF IInv, TypeOK, ViewAtTop, CurrentIsShown
<1>4. Abstract!EndWrite
  BY <1>1, <1>2 DEF Abstract!EndWrite
<1> QED BY <1>3, <1>4

\* Another tty is selected.
LEMMA SelectStep ==
    ASSUME IInv, NEW t \in Ttys, set_current_tty(t)
    PROVE  IInv' /\ Abstract!Select(t)
<1>1. /\ ttys \in [Ttys -> Tty] /\ ViewAtTop /\ writing = NONE /\ current_tty' = t
      /\ video' = print_tty(ttys[t]) /\ UNCHANGED <<ttys, writing>>
  BY DEF IInv, TypeOK, set_current_tty
<1>2. /\ Abstract!Picture(AsTerm(ttys[t])) = print_tty(ttys[t])
      /\ print_tty(ttys[t]) \in
           [cells : [Rows -> [Cols -> Cell]], cursor : Cursor \cup {NONE}]
  BY <1>1, PictureFacts DEF ViewAtTop
<1>3. IInv'
  BY <1>1, <1>2 DEF IInv, TypeOK, ViewAtTop, CurrentIsShown
<1>4. Abstract!Select(t)
  BY <1>1, <1>2 DEF Abstract!Select
<1> QED BY <1>3, <1>4

\* Every step keeps the invariant and is a step of Terminal, or changes nothing.
LEMMA NextStep ==
    ASSUME IInv, [Next]_vars
    PROVE  IInv' /\ [Abstract!Next]_(Abstract!vars)
<1>1. CASE UNCHANGED vars
  BY <1>1 DEF vars, IInv, TypeOK, ViewAtTop, CurrentIsShown, Abstract!vars
<1>2. CASE EndWrite
  BY <1>2, EndWriteStep DEF Abstract!Next
<1>3. ASSUME NEW t \in Ttys, StartWrite(t)
      PROVE  IInv' /\ [Abstract!Next]_(Abstract!vars)
  BY <1>3, StartWriteStep DEF Abstract!Next
<1>4. ASSUME NEW t \in Ttys, set_current_tty(t)
      PROVE  IInv' /\ [Abstract!Next]_(Abstract!vars)
  BY <1>4, SelectStep DEF Abstract!Next
<1>5. ASSUME NEW b \in Bytes \cup Chars, Byte(b)
      PROVE  IInv' /\ [Abstract!Next]_(Abstract!vars)
  BY <1>5, ByteStep DEF Abstract!Next
<1>6. ASSUME NEW cmd \in Commands, NEW p \in Numbers, NEW q \in Second(cmd), Escape(cmd, p, q)
      PROVE  IInv' /\ [Abstract!Next]_(Abstract!vars)
  <2>1. q \in Numbers \cup {ABSENT} /\ q \in Abstract!Second(cmd)
    BY SameOperators DEF Second
  <2>2. IInv' /\ Abstract!Escape(cmd, p, q)
    BY <1>6, <2>1, EscapeStep
  <2> QED BY <2>1, <2>2 DEF Abstract!Next
<1> QED
  BY <1>1, <1>2, <1>3, <1>4, <1>5, <1>6 DEF Next

(***************************************************************************)
(* The cursors never leave the screen nor the lines the ring, and outside  *)
(* of a write the monitor shows the current tty.                           *)
(***************************************************************************)
THEOREM TtyScreenSafe == Spec => [](TypeOK /\ MonitorShowsCurrent)
<1>1. IInv => TypeOK /\ MonitorShowsCurrent
  BY TtysAssumption DEF IInv, TypeOK, CurrentIsShown, MonitorShowsCurrent, Ttys
<1>2. Init => IInv
  BY InitFacts
<1>3. IInv /\ [Next]_vars => IInv'
  BY NextStep
<1> QED
  BY <1>1, <1>2, <1>3, PTL DEF Spec

(***************************************************************************)
(* The driver, with its ring of lines, implements Terminal.                *)
(***************************************************************************)
THEOREM TtyScreenImplements == Spec => ImplementsTerminal
<1>1. Init => IInv /\ Abstract!Init
  BY InitFacts
<1>2. IInv /\ [Next]_vars => IInv' /\ [Abstract!Next]_(Abstract!vars)
  BY NextStep
<1> QED
  BY <1>1, <1>2, PTL DEF Spec, ImplementsTerminal, Abstract!Spec

\* The parts of it, each by its name: the cursors of all ttys stay on the screen, and
\* their lines in the ring.
THEOREM TtyScreenTypes == Spec => []TypeOK
BY TtyScreenSafe, PTL

\* Outside of a write the monitor shows the current tty.
THEOREM TtyScreenShown == Spec => []MonitorShowsCurrent
BY TtyScreenSafe, PTL

=============================================================================
