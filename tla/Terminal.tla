-------------------------------- MODULE Terminal --------------------------------
(***************************************************************************)
(* What the ttys promise: each is a screen of Height rows that moves up    *)
(* by one row when the cursor leaves it at the bottom, and outside of a    *)
(* write the monitor shows the current one, with its cursor if that is     *)
(* switched on.                                                            *)
(***************************************************************************)
EXTENDS TtyCommands

CONSTANTS Ttys, NONE

VARIABLES
    term,           \* screen, cursors, colours and modes of every tty
    current_tty,
    shown,          \* what the monitor shows
    writing         \* the tty of the write under way, or NONE

vars == <<term, current_tty, shown, writing>>

EmptyCell == [attr |-> [fg |-> {}, bg |-> {}], char |-> Blank]

\* What the monitor shows of a tty, and its cursor: NONE if it is hidden.
Picture(t) ==
    [cells |-> t.screen, cursor |-> IF t.show_cursor THEN t.cursor ELSE NONE]

Fresh(c) ==
    [screen |-> [y \in Rows |-> [x \in Cols |-> EmptyCell]],
     cursor |-> c, saved |-> [x |-> 0, y |-> 0], show_cursor |-> FALSE,
     echo |-> FALSE, attr |-> [fg |-> FG_DEF, bg |-> BG_DEF]]

Init ==
    /\ \E c \in Cursor :
         term = [t \in Ttys |-> Fresh(IF t = 0 THEN c ELSE [x |-> 0, y |-> 0])]
    /\ current_tty = 0
    /\ shown = Picture(term[0])
    /\ writing = NONE

-----------------------------------------------------------------------------
StartWrite(t) ==
    /\ writing = NONE
    /\ writing' = t
    /\ UNCHANGED <<term, current_tty, shown>>

\* The screen s after byte b, written at cursor c with colours a: a printable
\* byte appears at the cursor, a backspace blanks the cell it moves to.
Printed(s, c, a, b) ==
    CASE b \in Chars -> [s EXCEPT ![c.y][c.x] = [attr |-> a, char |-> b]]
      [] b = "BS"    -> [s EXCEPT ![c.y][AtLeast(c.x - 1, 0)] = [attr |-> a, char |-> Blank]]
      [] OTHER       -> s

ScrolledUp(s, a) ==
    [y \in Rows |-> IF y = Height - 1 THEN [x \in Cols |-> [attr |-> a, char |-> Blank]]
                                      ELSE s[y + 1]]

Byte(b) ==
    /\ writing # NONE
    /\ LET t == term[writing]
           s == Printed(t.screen, t.cursor, t.attr, b)
       IN  term' = [term EXCEPT ![writing] =
             [screen |-> IF Scrolls(t.cursor, b) THEN ScrolledUp(s, t.attr) ELSE s,
              cursor |-> Moved(t.cursor, b), saved |-> t.saved,
              show_cursor |-> t.show_cursor, echo |-> t.echo, attr |-> t.attr]]
    /\ UNCHANGED <<current_tty, shown, writing>>

Escape(cmd, p, q) ==
    /\ writing # NONE
    /\ LET t == term[writing]
       IN  term' = [term EXCEPT ![writing] =
             [screen |-> [y \in Rows |-> [x \in Cols |->
                            IF Erases(t.cursor, cmd, p, x, y)
                              THEN [attr |-> t.attr, char |-> Blank] ELSE t.screen[y][x]]],
              cursor |-> EscapeCursor(t.cursor, t.saved, cmd, p, q),
              saved  |-> IF cmd = "s" THEN t.cursor ELSE t.saved,
              show_cursor |-> (t.show_cursor \/ cmd = "h") /\ cmd # "l",
              echo   |-> IF cmd = "e" THEN Default(p, 1) # 0 ELSE t.echo,
              attr   |-> EscapeAttr(t.attr, cmd, p)]]
    /\ UNCHANGED <<current_tty, shown, writing>>

EndWrite ==
    /\ writing # NONE
    /\ writing' = NONE
    /\ shown' = IF writing = current_tty THEN Picture(term[writing]) ELSE shown
    /\ UNCHANGED <<term, current_tty>>

Select(t) ==
    /\ writing = NONE
    /\ current_tty' = t
    /\ shown' = Picture(term[t])
    /\ UNCHANGED <<term, writing>>

Next ==
    \/ EndWrite
    \/ \E t \in Ttys : StartWrite(t) \/ Select(t)
    \/ \E b \in Bytes \cup Chars : Byte(b)
    \/ \E cmd \in Commands, p \in Numbers : \E q \in Second(cmd) : Escape(cmd, p, q)

Spec == Init /\ [][Next]_vars
=============================================================================
