------------------------------- MODULE MCTtyInput -------------------------------
(***************************************************************************)
(* Keyboards for TLC.  The run of the ring types many keys of a small      *)
(* keyboard at one tty, that of the modifiers few keys of a whole keyboard *)
(* at two: desk says which of them a behaviour is.                         *)
(***************************************************************************)
EXTENDS TtyInput

VARIABLE desk

left_key(row) == [row |-> row, ext |-> FALSE, tty |-> 0]
right_key(row) == [row |-> row, ext |-> TRUE, tty |-> 0]
function_key(i) == [row |-> "F", ext |-> FALSE, tty |-> i]

\* One character key: the ring alone.
CharKey == {left_key("char")}

\* Characters, keys that select tty 1 and a tty too many, and every modifier on
\* both sides; no CapsLock.
AllKeys == {left_key("char"), right_key("char"), function_key(1), function_key(2),
            left_key("SHIFT"), left_key("CTRL"), left_key("ALT"),
            right_key("CTRL"), right_key("ALT")}

\* Bound: one key, and tty 0 alone is read
AtRing == held' \subseteq CharKey /\ \A t \in Ttys \ {0} : pc'[t] = "user"

\* Bound: two characters, read one at a time
AtKeyboard == \A t \in Ttys : typed'[t] \subseteq 1..2 /\ left'[t] <= 1

DeskInit == Init /\ desk \in {"ring", "keyboard"}

DeskNext ==
    /\ Next
    /\ desk = "ring" => AtRing
    /\ desk = "keyboard" => AtKeyboard
    /\ UNCHANGED desk

DeskSpec == DeskInit /\ [][DeskNext]_<<vars, desk>>
=============================================================================
