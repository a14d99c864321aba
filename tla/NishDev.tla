------------------------------ MODULE NishDev ------------------------------
(***************************************************************************)
(* The device /dev/nish (kernel/nish.c): the commands that shells write to *)
(* it are collected in one buffer, nish_buf, which all of them share.      *)
(*                                                                         *)
(* A system call runs with interrupts off, so a write is one step up to an *)
(* exec command: sys_fork, called by nish_exec, switches them on, and from *)
(* there to its return nish_write can be interrupted by other writers,     *)
(* also between any two bytes that its memset clears.  "exec" stands for   *)
(* every command that lets others in.  A write is that of usr/sh/main.c, a *)
(* command and the zero behind it; a write that went on behind the zero is *)
(* not modelled.                                                           *)
(***************************************************************************)
EXTENDS Integers, Sequences, SequencesExt

CONSTANTS
    STRLEN,         \* size of nish_buf (255 in ktextio.h)
    Shells,         \* the processes that write commands
    NishChars,      \* the characters of commands
    Commands        \* what they write, without the zero at the end

NUL == "0"
ExecLetter == "e"   \* a command that begins with it is an exec, others are built in

ASSUME NishAssumption ==
    /\ STRLEN \in Nat \ {0}
    /\ NUL \notin NishChars
    /\ Commands \subseteq Seq(NishChars)

VARIABLES
    nish_buf, buf_pos,  \* the buffer and the number of bytes in it
    at,                 \* where each shell is: "user", "exec" or "memset"
    cleared,            \* the bytes that its memset has set to zero
    run,                \* the command interpreted last, and whether a shell was clearing
    clipped             \* some command found no room

nishVars == <<nish_buf, buf_pos, at, cleared, run, clipped>>

Zeros == [i \in 1..STRLEN |-> NUL]

NishInit ==
    /\ nish_buf = Zeros /\ buf_pos = 0
    /\ at = [p \in Shells |-> "user"] /\ cleared = [p \in Shells |-> 0]
    /\ run = [text |-> <<>>, clearing |-> FALSE] /\ clipped = FALSE

\* Mutant: the last byte of the buffer is given away, too
RoomWithLast(size) == IF buf_pos + size > STRLEN THEN STRLEN - buf_pos ELSE size

\* size, cut to the room there is with one byte to spare
Room(size) == IF buf_pos + size + 1 > STRLEN THEN STRLEN - 1 - buf_pos ELSE size

\* The buffer with bytes at buf_pos
Appended(bytes) ==
    [i \in 1..STRLEN |->
        IF i \in buf_pos + 1 .. buf_pos + Len(bytes) THEN bytes[i - buf_pos] ELSE nish_buf[i]]

\* The command _nish_interpret finds in the buffer: all before the first zero
Command(buf) == SubSeq(buf, 1, SelectInSeq(buf, LAMBDA c : c = NUL) - 1)

\* Some shell's memset has set a part of the buffer to zero
Clearing == \E p \in Shells : cleared[p] > 0

\* nish_write up to the end of the call or to the sti in an exec command.  An
\* empty command is none (*str < 32).
nish_write(p, command) ==
    LET bytes == SubSeq(Append(command, NUL), 1, Room(Len(command) + 1))
        whole == Len(bytes) = Len(command) + 1
        text  == Command(Appended(bytes))
        execs == text # <<>> /\ text[1] = ExecLetter
    IN  /\ at[p] = "user"
        /\ clipped' = (clipped \/ ~whole)
        /\ run' = IF whole THEN [text |-> text, clearing |-> Clearing] ELSE run
        /\ UNCHANGED cleared
        /\ at' = [at EXCEPT ![p] = IF whole /\ execs THEN "exec" ELSE "user"]
        /\ IF whole /\ ~execs
           THEN nish_buf' = Zeros /\ buf_pos' = 0
           ELSE nish_buf' = Appended(bytes) /\ buf_pos' = buf_pos + Len(bytes)

\* nish_exec returns, at once when the command ended in &, else when its child
\* has exited
ExecReturns(p) ==
    /\ at[p] = "exec"
    /\ at' = [at EXCEPT ![p] = "memset"]
    /\ UNCHANGED <<nish_buf, buf_pos, cleared, run, clipped>>

\* Mutant: the buffer is given back without being set to zero
ClearNothing(p) ==
    /\ at[p] = "memset" /\ cleared[p] = 0
    /\ cleared' = [cleared EXCEPT ![p] = STRLEN]
    /\ UNCHANGED <<nish_buf, buf_pos, at, run, clipped>>

\* One turn of the loop of memset
ClearByte(p) ==
    /\ at[p] = "memset" /\ cleared[p] < STRLEN
    /\ nish_buf' = [nish_buf EXCEPT ![cleared[p] + 1] = NUL]
    /\ cleared' = [cleared EXCEPT ![p] = @ + 1]
    /\ UNCHANGED <<buf_pos, at, run, clipped>>

\* memset is done: the position is set back, and nish_write returns
ResetPosition(p) ==
    /\ at[p] = "memset" /\ cleared[p] = STRLEN
    /\ buf_pos' = 0
    /\ at' = [at EXCEPT ![p] = "user"]
    /\ cleared' = [cleared EXCEPT ![p] = 0]
    /\ UNCHANGED <<nish_buf, run, clipped>>

NishNext ==
    \E p \in Shells :
        \/ \E c \in Commands : nish_write(p, c)
        \/ ExecReturns(p) \/ ClearByte(p) \/ ResetPosition(p)

NishSpec == NishInit /\ [][NishNext]_nishVars

-----------------------------------------------------------------------------
\* _nish_interpret always finds the end of the string it is given: whoever
\* writes while others are executing commands, the last byte stays zero.
NishTerminated == buf_pos \in 0 .. STRLEN - 1 /\ nish_buf[STRLEN] = NUL

\* text is the front of a command
FrontOfOne(text) == \E c \in Commands : IsPrefix(text, c)

\* Though all shells write to one buffer and an exec lets others in, what is
\* interpreted is a command as some shell wrote it, never parts of two, never a
\* later part of one and never the front of one that found no room.  Only while
\* the memset of another shell is under way the end of a command can be missing:
\* it may clear bytes that were written after it passed by their front.
CommandsWhole ==
    \/ run.text \in Commands \cup {<<>>}
    \/ run.clearing /\ FrontOfOne(run.text)

\* Every string that _nish_interpret is given ends, and is a command some shell wrote,
\* or its front while another shell clears the buffer.
CommandsRun == NishTerminated /\ CommandsWhole

\* When no shell is inside the device, it waits for a new command with an empty
\* buffer, unless a command found no room (its front then stays for good).
NishReady == ~clipped /\ (\A p \in Shells : at[p] = "user") => nish_buf = Zeros /\ buf_pos = 0
=============================================================================
