------------------------------ MODULE Console ------------------------------
(***************************************************************************)
(* The console the kernel prints to before it has ttys (kernel/ktextio.c): *)
(* _kout, _kclear and _ksetcursor on the text memory of the VGA card.      *)
(*                                                                         *)
(* An output is printed one character a step.  The memory goes on behind   *)
(* the screen and is read there but never written: a cell from there is    *)
(* OffScreen.  Colours are left out, all is white.                         *)
(***************************************************************************)
EXTENDS Integers, Sequences

CONSTANTS
    TXT_WIDTH, TXT_HEIGHT,  \* size of the screen, 80 and 25
    TAB_WIDTH,              \* 8
    Letters,                \* the printable characters
    Outputs                 \* the strings that are printed

VARIABLES
    con,            \* mem, x and y of _kout; stray: written beside the screen
    _cursor_pos,    \* where the next output begins
    output,         \* what is left of the string that is being printed
    rows,           \* the text as rows of a terminal, the last TXT_HEIGHT of them
    plain           \* only text, new lines and tabulators have been printed

consoleVars == <<con, _cursor_pos, output, rows, plain>>

Space == "space"
OffScreen == "off"
NL == "nl"
CR == "cr"
TAB == "tab"
BS == "bs"
FF == "ff"      \* and the vertical tabulator, which does the same

\* x and y are of one byte
ASSUME ConsoleAssumption ==
    /\ TXT_WIDTH \in Nat \ {0} /\ TXT_HEIGHT \in 1 .. 254 /\ TAB_WIDTH \in 1 .. TXT_WIDTH - 1
    /\ TXT_WIDTH + TAB_WIDTH <= 255
    /\ Letters \cap {NL, CR, TAB, BS, FF} = {}
    /\ Outputs \subseteq Seq(Letters \cup {NL, CR, TAB, BS, FF})

Cells == 0 .. TXT_WIDTH * TXT_HEIGHT - 1
CellAt(mem, i) == IF i \in Cells THEN mem[i] ELSE OffScreen

\* _ksetcursor corrects a position beside the screen, or leaves the cursor where
\* it was when there is no row to go to
_ksetcursor(cx, cy) ==
    LET last == cx = TXT_WIDTH
        x == IF last THEN 0 ELSE IF cx > TXT_WIDTH THEN TXT_WIDTH - 1 ELSE cx
        y == IF last THEN cy + 1 ELSE IF cx > TXT_WIDTH THEN cy - 1 ELSE cy
    IN  IF (last /\ cy = TXT_HEIGHT - 1) \/ (cx > TXT_WIDTH /\ cy = 0) THEN _cursor_pos
        ELSE [x |-> x, y |-> IF y > TXT_HEIGHT THEN 0 ELSE IF y = TXT_HEIGHT THEN y - 1 ELSE y]

Position(c) == c.y * TXT_WIDTH + c.x

_kclear == [mem |-> [i \in Cells |-> Space], x |-> 0, y |-> 0, stray |-> FALSE]

\* A new line pulls everything below it to the left by x cells
NewLine(c) ==
    [mem |-> [i \in Cells |->
                IF i >= (c.y + 1) * TXT_WIDTH THEN CellAt(c.mem, i + c.x) ELSE c.mem[i]],
     x |-> 0, y |-> c.y + 1, stray |-> c.stray]

\* One cell further than the next tabulator position
Tabulator(c) == [c EXCEPT !.x = c.x + (TAB_WIDTH - (c.x % TAB_WIDTH)) + 1]

\* The cell before the cursor is taken out, the rest of the screen follows
Backspace(c) ==
    LET back == IF c.x = 0 THEN [c EXCEPT !.y = c.y - 1, !.x = TXT_WIDTH - 1]
                ELSE [c EXCEPT !.x = c.x - 1]
    IN  IF c.x = 0 /\ c.y = 0 THEN c
        ELSE [back EXCEPT !.mem = [i \in Cells |->
                IF i >= Position(back) THEN CellAt(c.mem, i + 1) ELSE c.mem[i]]]

Printed(c, chr) ==
    CASE chr = NL -> NewLine(c)
      [] chr = CR -> [c EXCEPT !.x = 0]
      [] chr = TAB -> Tabulator(c)
      [] chr = BS -> Backspace(c)
      [] chr = FF -> [c EXCEPT !.y = c.y + 1]
      [] OTHER      -> [c EXCEPT !.mem = [i \in Cells |-> IF i = Position(c) THEN chr ELSE @[i]],
                               !.stray = @ \/ Position(c) \notin Cells,
                               !.x = c.x + 1]

Wrapped(c) ==
    IF c.x >= TXT_WIDTH THEN [c EXCEPT !.x = c.x - TXT_WIDTH, !.y = c.y + 1] ELSE c

\* Mutant: the last row keeps its text
ScrolledUncleared(c) ==
    IF c.y < TXT_HEIGHT THEN c
    ELSE [c EXCEPT !.y = TXT_HEIGHT - 1,
                   !.mem = [i \in Cells |-> IF i < TXT_WIDTH * (TXT_HEIGHT - 1)
                                            THEN c.mem[i + TXT_WIDTH] ELSE c.mem[i]]]

\* The rows move up and the last one is set to blanks
Scrolled(c) ==
    IF c.y < TXT_HEIGHT THEN c
    ELSE [c EXCEPT !.y = TXT_HEIGHT - 1,
                   !.mem = [i \in Cells |-> IF i < TXT_WIDTH * (TXT_HEIGHT - 1)
                                            THEN c.mem[i + TXT_WIDTH] ELSE Space]]

-----------------------------------------------------------------------------
(* What the text looks like: rows of at most TXT_WIDTH cells, a new row    *)
(* when one is full or a new line comes.                                   *)
Lower(rs) == rs[Len(rs)]
Upper(rs) == SubSeq(rs, 1, Len(rs) - 1)
Blanks(n) == [i \in 1..n |-> Space]
Added(rs, cells) == Append(Upper(rs), Lower(rs) \o cells)
Broken(rs) ==
    IF Len(Lower(rs)) < TXT_WIDTH THEN rs
    ELSE Upper(rs) \o <<SubSeq(Lower(rs), 1, TXT_WIDTH),
                        SubSeq(Lower(rs), TXT_WIDTH + 1, Len(Lower(rs)))>>
Bottom(rs) == IF Len(rs) > TXT_HEIGHT THEN Tail(rs) ELSE rs
Typeset(rs, chr) ==
    Bottom(Broken(IF chr = NL THEN Append(rs, <<>>)
                  ELSE Added(rs, IF chr = TAB THEN Blanks(TAB_WIDTH - (Len(Lower(rs)) % TAB_WIDTH) + 1)
                                 ELSE <<chr>>)))

PlainText == Letters \cup {NL, TAB}

-----------------------------------------------------------------------------
ConsoleInit ==
    /\ con = _kclear
    /\ _cursor_pos = [x |-> 0, y |-> 0]
    /\ output = <<>>
    /\ rows = <<<<>>>>
    /\ plain = TRUE

_kout(text) ==
    /\ output = <<>>
    /\ output' = text
    /\ con' = [con EXCEPT !.x = _cursor_pos.x, !.y = _cursor_pos.y]
    /\ UNCHANGED <<_cursor_pos, rows, plain>>

\* A round of the loop of _kout; after the last one the cursor is set
_kout_round ==
    /\ output # <<>>
    /\ con' = Scrolled(Wrapped(Printed(con, Head(output))))
    /\ output' = Tail(output)
    /\ _cursor_pos' = IF Tail(output) = <<>> THEN _ksetcursor(con'.x, con'.y) ELSE _cursor_pos
    /\ plain' = (plain /\ Head(output) \in PlainText)
    /\ rows' = IF plain' THEN Typeset(rows, Head(output)) ELSE <<<<>>>>

ConsoleNext == _kout_round \/ \E text \in Outputs : _kout(text)

ConsoleSpec == ConsoleInit /\ [][ConsoleNext]_consoleVars

-----------------------------------------------------------------------------
\* Whatever is printed, control characters in any order, no character is ever
\* written beside the screen, not even in the middle of an output, and the
\* cursor is left on the screen.
ConsoleInside ==
    ~con.stray /\ _cursor_pos.x \in 0 .. TXT_WIDTH - 1 /\ _cursor_pos.y \in 0 .. TXT_HEIGHT - 1

\* The text at a place of the screen, and the cells that look like it
TextAt(rs, y, x) == IF y < Len(rs) /\ x < Len(rs[y + 1]) THEN rs[y + 1][x + 1] ELSE Space
LooksLike(cell, chr) == cell = chr \/ (chr = Space /\ cell = OffScreen)

\* While text, new lines and tabulators are printed, the screen shows the last
\* rows of it, scrolled by whole rows, and nothing else: the pulling up of what
\* is below a new line moves nothing but blanks and cells from behind the screen.
\* Whatever is printed stays inside the screen.
ConsoleShowsText ==
    /\ ConsoleInside
    /\ plain => \A y \in 0 .. TXT_HEIGHT - 1, x \in 0 .. TXT_WIDTH - 1 :
         LooksLike(con.mem[y * TXT_WIDTH + x], TextAt(rows, y, x))
=============================================================================
