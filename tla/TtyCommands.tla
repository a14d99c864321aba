------------------------------ MODULE TtyCommands ------------------------------
(***************************************************************************)
(* What a byte and an escape sequence mean for the cursor and the colours  *)
(* of a tty: the cursor arithmetic of do_tty_write and of                  *)
(* tty_interpret_escape (drivers/tty/tty.c), which the abstract Terminal   *)
(* and the tty driver have in common.                                      *)
(*                                                                         *)
(* An escape sequence is taken as a whole: its command and its parameters  *)
(* as atoi reads them, ABSENT for an empty one.  H and f use two           *)
(* parameters and the others one.                                          *)
(***************************************************************************)
EXTENDS Integers

CONSTANTS
    Width, Height,  \* of the screen (80 and 25 in tty.h)
    Chars,          \* printable characters, the blank not among them
    Bytes,          \* control characters that programs write
    Commands,       \* escape sequences that programs write
    Numbers         \* their parameters

Blank == " "
ABSENT == -1
Controls == {"BS", "TAB", "LF", "VT", "CR"}

\* cursor.x and cursor.y are of type char, which bounds the screen.  Numbers that
\* overflow the int of atoi are left out.
ASSUME SizeAssumption == Width \in 1 .. 119 /\ Height \in 1 .. 119
ASSUME NumbersAssumption == Numbers \subseteq Nat \cup {ABSENT}
ASSUME CharsAssumption == Blank \notin Chars
ASSUME BytesAssumption == Bytes \subseteq Controls /\ Controls \cap Chars = {}

Cols == 0 .. Width - 1
Rows == 0 .. Height - 1
Cursor == [x : Cols, y : Rows]

AtMost(a, b) == IF a >= b THEN b ELSE a
AtLeast(a, b) == IF a < b THEN b ELSE a

-----------------------------------------------------------------------------
(***************************************************************************)
(* Bytes outside of escape sequences                                       *)
(***************************************************************************)

\* The switch of do_tty_write; form feed is like vertical tab, and a null byte
\* does nothing.
ByteCursor(c, b) ==
    CASE b = "BS"  -> [c EXCEPT !.x = AtLeast(c.x - 1, 0)]
      [] b = "TAB" -> [c EXCEPT !.x = AtMost(8 * ((c.x + 8) \div 8), Width - 1)]
      [] b = "LF"  -> [x |-> 0, y |-> c.y + 1]
      [] b = "VT"  -> [c EXCEPT !.y = c.y + 1]
      [] b = "CR"  -> [c EXCEPT !.x = 0]
      [] OTHER     -> [c EXCEPT !.x = c.x + 1]

\* if (cursor.x >= width) ...
Wrapped(c) == IF c.x >= Width THEN [x |-> 0, y |-> c.y + 1] ELSE c

\* if (cursor.y == height) ...: does the byte scroll, and where is the cursor then?
Scrolls(c, b) == Wrapped(ByteCursor(c, b)).y = Height
Moved(c, b) ==
    LET w == Wrapped(ByteCursor(c, b))
    IN  IF Scrolls(c, b) THEN [w EXCEPT !.y = w.y - 1] ELSE w

-----------------------------------------------------------------------------
(***************************************************************************)
(* Escape sequences                                                        *)
(***************************************************************************)

\* The values of the second parameter.
Second(cmd) == IF cmd = "H" THEN Numbers ELSE {ABSENT}

Default(p, d) == IF p = ABSENT THEN d ELSE p

\* Mutant of EscapeCursor: H does not raise a parameter 0 to 1.
EscapeCursorHome(c, s, cmd, p, q) ==
    LET n == Default(p, 1)
        m == Default(q, 1)
    IN  CASE cmd = "H" -> [x |-> AtMost(n, Width) - 1, y |-> AtMost(m, Height) - 1]
          [] cmd = "u" -> s
          [] OTHER     -> c

\* The cursor after command cmd with parameters p and q; s is the saved cursor.
\* It is on the screen, so the tests that follow every byte find nothing to do.
EscapeCursor(c, s, cmd, p, q) ==
    LET n == Default(p, 1)
        m == Default(q, 1)
    IN  CASE cmd = "A" -> [c EXCEPT !.y = AtLeast(c.y - n, 0)]
          [] cmd = "B" -> [c EXCEPT !.y = AtMost(c.y + n, Height - 1)]
          [] cmd = "C" -> [c EXCEPT !.x = AtMost(c.x + n, Width - 1)]
          [] cmd = "D" -> [c EXCEPT !.x = AtLeast(c.x - n, 0)]
          [] cmd = "E" -> [x |-> 0, y |-> AtMost(c.y + n, Height - 1)]
          [] cmd = "F" -> [x |-> 0, y |-> AtLeast(c.y - n, 0)]
          [] cmd = "G" -> [c EXCEPT !.x = AtMost(AtLeast(n, 1), Width) - 1]
          [] cmd = "H" -> [x |-> AtMost(AtLeast(n, 1), Width) - 1,
                           y |-> AtMost(AtLeast(m, 1), Height) - 1]
          [] cmd = "u" -> s
          [] OTHER     -> c

\* Does J or K with parameter p blank the cell in column x of row y?
Erases(c, cmd, p, x, y) ==
    LET n      == Default(p, 0)
        before == cmd = "J" /\ y < c.y
        behind == cmd = "J" /\ y > c.y
    IN  /\ cmd \in {"J", "K"}
        /\ CASE n = 0 -> behind \/ (y = c.y /\ x >= c.x)
             [] n = 1 -> before \/ (y = c.y /\ x <= c.x)
             [] n = 2 -> before \/ behind \/ y = c.y
             [] OTHER -> FALSE

(***************************************************************************)
(* Colours are sets of bits, so that the bitwise or is the union.          *)
(***************************************************************************)
Colour == SUBSET (0 .. 3)
Attr == [fg : Colour, bg : Colour]
BRIGHT == {3}
FG_DEF == {0, 1, 2}
BG_DEF == {}

ansi_col_map == [i \in 0 .. 7 |->
    CASE i = 0 -> {} [] i = 1 -> {2} [] i = 2 -> {1} [] i = 3 -> {1, 2}
      [] i = 4 -> {0} [] i = 5 -> {0, 2} [] i = 6 -> {0, 1} [] i = 7 -> {0, 1, 2}]

\* The background of a whose old bits come back with the foreground: fg is taken
\* as (attr >> 8) & 0xFF and so holds the old background too.
NewBackground(a, colour) == [a EXCEPT !.bg = a.bg \cup colour]

tty_select_graphic_rendition(a, n) ==
    CASE n = 0          -> [fg |-> FG_DEF, bg |-> BG_DEF]
      [] n \in 30 .. 37 -> [a EXCEPT !.fg = ansi_col_map[n - 30]]
      [] n = 39         -> [a EXCEPT !.fg = FG_DEF]
      [] n \in 40 .. 47 -> NewBackground(a, ansi_col_map[n - 40])
      [] n = 49         -> NewBackground(a, BG_DEF)
      [] n \in 90 .. 97 -> [a EXCEPT !.fg = ansi_col_map[n - 90] \cup BRIGHT]
      [] n = 99         -> [a EXCEPT !.fg = FG_DEF \cup BRIGHT]
      [] n \in 100 .. 107 -> NewBackground(a, ansi_col_map[n - 100] \cup BRIGHT)
      [] n = 109        -> NewBackground(a, BG_DEF \cup BRIGHT)
      [] OTHER          -> a

EscapeAttr(a, cmd, p) ==
    IF cmd = "m" THEN tty_select_graphic_rendition(a, Default(p, 0)) ELSE a

Cell == [attr : Attr, char : Chars \cup {Blank}]
=============================================================================
