------------------------------- MODULE TtyScreen -------------------------------
(***************************************************************************)
(* The output side of the tty driver: do_tty_write, tty_interpret_escape,  *)
(* print_tty and set_current_tty (drivers/tty/tty.c).                      *)
(*                                                                         *)
(* The memory of a tty is a ring of MemLines lines.  scrln is the line     *)
(* shown at the top of the screen; scrolling advances it and blanks the    *)
(* line that enters at the bottom, the oldest of the ring.  The model has  *)
(* one cell per character of the memory, as [line][column]: no access of   *)
(* the code crosses the end of a line.                                     *)
(*                                                                         *)
(* A write system call runs with interrupts off, so the keyboard cannot    *)
(* select another tty in the middle of it; its bytes are one action each.  *)
(***************************************************************************)
EXTENDS TtyCommands

CONSTANTS
    MemLines,       \* lines of a tty's memory (75 in tty.h)
    NR_TTYS,        \* number of ttys (4 in tty.h)
    NONE

ASSUME MemLinesAssumption == MemLines \in Nat /\ MemLines >= Height
ASSUME TtysAssumption == NR_TTYS \in Nat \ {0} /\ NONE \notin Int

Ttys == 0 .. NR_TTYS - 1
Lines == 0 .. MemLines - 1

VARIABLES
    ttys,           \* the tty structures
    current_tty,
    video,          \* the video memory and the cursor of the VGA
    writing         \* the tty of the write under way, or NONE

vars == <<ttys, current_tty, video, writing>>

Tty == [mem : [Lines -> [Cols -> Cell]], scrln : Lines, viewln : Lines,
        cursor : Cursor, _cursor : Cursor, show_cursor : BOOLEAN, echo : BOOLEAN,
        attr : Attr]

EmptyCell == [attr |-> [fg |-> {}, bg |-> {}], char |-> Blank]

-----------------------------------------------------------------------------
(***************************************************************************)
(* The ring of lines                                                       *)
(***************************************************************************)

\* The line of the ring that is row y of the screen.
TTY_POS(scrln, y) == scrln + y - (IF scrln + y >= MemLines THEN MemLines ELSE 0)

\* The two memcpy of print_tty: the line copied to row y of the monitor.
ViewLine(viewln, y) ==
    IF MemLines - viewln < Height /\ y >= MemLines - viewln
      THEN y - (MemLines - viewln) ELSE viewln + y

tty_showcusor(a) ==
    IF a.show_cursor /\ a.viewln = a.scrln THEN a.cursor ELSE NONE

print_tty(a) ==
    [cells  |-> [y \in Rows |-> a.mem[ViewLine(a.viewln, y)]],
     cursor |-> tty_showcusor(a)]

-----------------------------------------------------------------------------
(***************************************************************************)
(* do_tty_write                                                            *)
(***************************************************************************)

\* if (!handle) return -EINVAL is for callers before setup_tty.
StartWrite(t) ==
    /\ writing = NONE
    /\ writing' = t
    /\ ttys' = [ttys EXCEPT ![t].viewln = ttys[t].scrln]
    /\ UNCHANGED <<current_tty, video>>

\* What the switch stores into the memory of tty a.
Stored(a, b) ==
    LET line == TTY_POS(a.scrln, a.cursor.y)
    IN  CASE b \in Chars -> [a.mem EXCEPT ![line][a.cursor.x] = [attr |-> a.attr, char |-> b]]
          [] b = "BS"    -> [a.mem EXCEPT ![line][ByteCursor(a.cursor, b).x] =
                               [attr |-> a.attr, char |-> Blank]]
          [] OTHER       -> a.mem

NextLine(scrln) == IF scrln + 1 = MemLines THEN 0 ELSE scrln + 1

\* Mutant of Scrolled: the line that enters keeps what it held MemLines ago.
ScrolledDirty(a) ==
    LET s == NextLine(a.scrln)
    IN  [a EXCEPT !.scrln = s, !.viewln = s]

\* The screen moves up.
Scrolled(a) ==
    LET s == NextLine(a.scrln)
    IN  [a EXCEPT !.scrln = s, !.viewln = s,
                  !.mem = [a.mem EXCEPT ![TTY_POS(s, Height - 1)] =
                             [x \in Cols |-> [attr |-> a.attr, char |-> Blank]]]]

Byte(b) ==
    /\ writing # NONE
    /\ LET a == ttys[writing]
           s == [a EXCEPT !.mem = Stored(a, b), !.cursor = Moved(a.cursor, b)]
       IN  ttys' = [ttys EXCEPT ![writing] =
                      IF Scrolls(a.cursor, b) THEN Scrolled(s) ELSE s]
    /\ UNCHANGED <<current_tty, video, writing>>

-----------------------------------------------------------------------------
(***************************************************************************)
(* tty_interpret_escape                                                    *)
(***************************************************************************)

\* The calls of memsetw for J and K.
Erased(a, cmd, p) ==
    [l \in Lines |-> [x \in Cols |->
       IF \E y \in Rows : TTY_POS(a.scrln, y) = l /\ Erases(a.cursor, cmd, p, x, y)
         THEN [attr |-> a.attr, char |-> Blank] ELSE a.mem[l][x]]]

tty_interpret_escape(a, cmd, p, q) ==
    [mem         |-> Erased(a, cmd, p),
     scrln       |-> a.scrln,
     viewln      |-> a.viewln,
     cursor      |-> EscapeCursor(a.cursor, a._cursor, cmd, p, q),
     _cursor     |-> IF cmd = "s" THEN a.cursor ELSE a._cursor,
     show_cursor |-> (a.show_cursor \/ cmd = "h") /\ cmd # "l",
     echo        |-> IF cmd = "e" THEN Default(p, 1) # 0 ELSE a.echo,
     attr        |-> EscapeAttr(a.attr, cmd, p)]

Escape(cmd, p, q) ==
    /\ writing # NONE
    /\ ttys' = [ttys EXCEPT ![writing] = tty_interpret_escape(@, cmd, p, q)]
    /\ UNCHANGED <<current_tty, video, writing>>

\* Mutant of EndWrite: every write is printed, whatever tty it was for.
EndWriteAlways ==
    /\ writing # NONE
    /\ writing' = NONE
    /\ video' = print_tty(ttys[writing])
    /\ UNCHANGED <<ttys, current_tty>>

\* if (handle == current_tty) print_tty();
EndWrite ==
    /\ writing # NONE
    /\ writing' = NONE
    /\ video' = IF writing = current_tty THEN print_tty(ttys[writing]) ELSE video
    /\ UNCHANGED <<ttys, current_tty>>

\* The keyboard handler selects a tty; a number that is not a tty's is ignored.
set_current_tty(nr) ==
    /\ writing = NONE
    /\ nr \in Ttys
    /\ current_tty' = nr
    /\ video' = print_tty(ttys[nr])
    /\ UNCHANGED <<ttys, writing>>

-----------------------------------------------------------------------------
(***************************************************************************)
(* The specification                                                       *)
(***************************************************************************)

\* A new tty, whose cursor is then set to c.
create_tty(c) ==
    [mem |-> [l \in Lines |-> [x \in Cols |-> EmptyCell]], scrln |-> 0, viewln |-> 0,
     cursor |-> c, _cursor |-> [x |-> 0, y |-> 0],
     show_cursor |-> FALSE, echo |-> FALSE, attr |-> [fg |-> FG_DEF, bg |-> BG_DEF]]

\* setup_tty: tty 0 goes on where the boot messages end.  Their text is left out.
Init ==
    /\ \E c \in Cursor :
         ttys = [t \in Ttys |-> create_tty(IF t = 0 THEN c ELSE [x |-> 0, y |-> 0])]
    /\ current_tty = 0
    /\ video = print_tty(ttys[0])
    /\ writing = NONE

Next ==
    \/ EndWrite
    \/ \E t \in Ttys : StartWrite(t) \/ set_current_tty(t)
    \/ \E b \in Bytes \cup Chars : Byte(b)
    \/ \E cmd \in Commands, p \in Numbers : \E q \in Second(cmd) : Escape(cmd, p, q)

Spec == Init /\ [][Next]_vars

-----------------------------------------------------------------------------
(***************************************************************************)
(* Properties                                                              *)
(***************************************************************************)

\* The types of the variables: whatever is written, both cursors stay on the
\* screen and scrln and viewln in the ring, so no access leaves the memory.
TypeOK ==
    /\ ttys \in [Ttys -> Tty]
    /\ current_tty \in Ttys
    /\ video \in [cells : [Rows -> [Cols -> Cell]], cursor : Cursor \cup {NONE}]
    /\ writing \in Ttys \cup {NONE}

\* The screen of tty a, row by row.
Screen(a) == [y \in Rows |-> a.mem[TTY_POS(a.scrln, y)]]

\* What Terminal keeps of tty a.
AsTerm(a) ==
    [screen |-> Screen(a), cursor |-> a.cursor, saved |-> a._cursor,
     show_cursor |-> a.show_cursor, echo |-> a.echo, attr |-> a.attr]

Abstract == INSTANCE Terminal WITH
    term  <- [t \in Ttys |-> AsTerm(ttys[t])],
    shown <- video

\* The ring of lines, its two memcpy and the blanking of the line that enters
\* are a screen that scrolls: the driver implements Terminal.
ImplementsTerminal == Abstract!Spec

\* Outside of a write the monitor shows the current tty, however the writes to
\* the ttys and the selections of the keyboard follow each other.
MonitorShowsCurrent == writing = NONE => video = print_tty(ttys[current_tty])

(***************************************************************************)
(* The inductive invariant of TtyScreenProofs: a tty that is not written   *)
(* to is on the monitor if it is the current one, and nobody looks back    *)
(* into the ring.                                                          *)
(***************************************************************************)
ViewAtTop == \A t \in Ttys : ttys[t].viewln = ttys[t].scrln
CurrentIsShown == writing # current_tty => video = print_tty(ttys[current_tty])

IInv ==
    /\ TypeOK
    /\ ViewAtTop
    /\ CurrentIsShown

=============================================================================
