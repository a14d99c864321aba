-------------------------------- MODULE TtyInput --------------------------------
(***************************************************************************)
(* Keyboard input: the interrupt handler irq_tty_keyboard                  *)
(* (drivers/tty/kbd.c), which decodes scan codes and puts characters into  *)
(* the ring of the current tty, and tty_read (drivers/tty/tty.c), which    *)
(* takes them out.                                                         *)
(*                                                                         *)
(* tty_read turns interrupts on at the head of its loop, so the handler    *)
(* can strike between any two of its accesses to the ring: each access is  *)
(* one action.  The handler is one action for each byte the keyboard       *)
(* sends.  Every tty has one reader, as getty sets it up.  A character is  *)
(* represented by its number in the order of typing.                       *)
(***************************************************************************)
EXTENDS Integers, Sequences, FiniteSets

CONSTANTS
    TTY_INBUF_LEN,  \* entries of a ring (16 in tty.h)
    NR_TTYS,        \* number of ttys (4 in tty.h)
    Keys,           \* the keys of the keyboard
    MaxSize,        \* bound: the largest size given to read
    MaxKeys         \* bound: characters typed

Ttys == 0 .. NR_TTYS - 1

(***************************************************************************)
(* A key sends the number of its row of the keymap.  The keys on the right *)
(* that share a row with one on the left (AltGr with Alt) send the byte    *)
(* 0xE0 first.  Row "F" stands for the function keys: tty says which.      *)
(***************************************************************************)
Rows == {"SHIFT", "CTRL", "ALT", "CALOCK", "F", "char"}
Key == [row : Rows, ext : BOOLEAN, tty : Nat]

ASSUME RingAssumption == TTY_INBUF_LEN \in Nat /\ TTY_INBUF_LEN >= 2
ASSUME TtysAssumption == NR_TTYS \in Nat \ {0}
ASSUME KeysAssumption == Keys \subseteq Key
ASSUME BoundAssumption == MaxSize \in Nat /\ MaxKeys \in Nat

VARIABLES
    mod,            \* the static variables of kbd.c: modifiers, key_state, escape
    held, pending,  \* the keyboard: keys held down, and the key whose 0xE0 is out
    current_tty,
    ring,           \* in_s, in_e and input_buffer of every tty
    pc, idx, left,  \* the reader of every tty: its place, in_s as loaded, and i
    typed,          \* history: characters stored for a tty,
    delivered,      \* ... those its reader got,
    dropped         \* ... and those the overflow branch of the handler gave up

vars == <<mod, held, pending, current_tty, ring, pc, idx, left, typed, delivered, dropped>>

hardware == <<held, pending>>
reader == <<pc, idx, left, delivered>>

(***************************************************************************)
(* "user"     outside of tty_read                                          *)
(* "test"     if (in_e != in_s)                                            *)
(* "index"    about to load in_s for input_buffer[in_s++]                  *)
(* "indexed"  in_s is loaded: the character and the increment come next,   *)
(*            in the order the compiler likes                              *)
(* "advance"  the character is loaded, in_s not yet stored                 *)
(* "fetch"    in_s is stored, the character not yet loaded                 *)
(* "wrap"     if (in_s == TTY_INBUF_LEN) in_s = 0                          *)
(***************************************************************************)
Places == {"user", "test", "index", "indexed", "advance", "fetch", "wrap"}

-----------------------------------------------------------------------------
(***************************************************************************)
(* Decoding                                                                *)
(***************************************************************************)

\* The column of the keymap that create_key_state selects.
create_key_state(m) ==
    CASE m.ctrl  -> 5
      [] m.altgr /\ ~m.ctrl -> 3
      [] OTHER   -> (IF m.shift THEN 1 ELSE 0) + (IF m.alt THEN 2 ELSE 0)

WithKeyState(m) == [m EXCEPT !.key_state = create_key_state(m)]

\* Does a function key select a tty in column s of the keymap (AF1 .. AF12)?
SelectsTty(s) == s \in {2, 3}

\* Mutant of handle_key: releasing AltGr does not clear it.
handle_keyAltGrSticks(m, row, up) ==
    LET e == [m EXCEPT !.altgr = m.altgr \/ (m.escape /\ row = "ALT" /\ ~up),
                       !.escape = FALSE]
    IN  CASE row = "SHIFT"  -> WithKeyState([e EXCEPT !.shift = ~up])
          [] row = "CTRL"   -> WithKeyState([e EXCEPT !.ctrl = ~up])
          [] row = "ALT"    -> WithKeyState([e EXCEPT !.alt = ~up])
          [] row = "CALOCK" -> WithKeyState([e EXCEPT !.shift = ~e.shift])
          [] OTHER          -> e

\* What handle_key does to the static variables for a byte that is not 0xE0.
handle_key(m, row, up) ==
    LET e == [m EXCEPT !.altgr = IF m.escape /\ row = "ALT" THEN ~up ELSE m.altgr,
                       !.escape = FALSE]
    IN  CASE row = "SHIFT"  -> WithKeyState([e EXCEPT !.shift = ~up])
          [] row = "CTRL"   -> WithKeyState([e EXCEPT !.ctrl = ~up])
          [] row = "ALT"    -> WithKeyState([e EXCEPT !.alt = ~up])
          [] row = "CALOCK" -> WithKeyState([e EXCEPT !.shift = ~e.shift])
          [] OTHER          -> e

-----------------------------------------------------------------------------
(***************************************************************************)
(* The interrupt handler                                                   *)
(***************************************************************************)

Forward(i) == IF i + 1 = TTY_INBUF_LEN THEN 0 ELSE i + 1

\* The character c goes into the ring of tty t.
Store(t, c) ==
    LET r    == ring[t]
        e    == Forward(r.in_e)
        full == e = r.in_s
    IN  /\ ring' = [ring EXCEPT ![t] =
                      [input_buffer |-> [r.input_buffer EXCEPT ![r.in_e] = c],
                       in_e |-> e,
                       in_s |-> IF full THEN Forward(r.in_s) ELSE r.in_s]]
        /\ dropped' = [dropped EXCEPT ![t] =
                         IF full THEN @ \cup {r.input_buffer[r.in_s]} ELSE @]
        /\ typed' = [typed EXCEPT ![t] = @ \cup {c}]

NrTyped == Cardinality(UNION {typed[t] : t \in Ttys})

\* set_current_tty, which ignores a number that is not a tty's.
set_current_tty(nr) == current_tty' = IF nr \in Ttys THEN nr ELSE current_tty

\* irq_tty_keyboard for the code of key k.  Released, extended and function keys
\* store nothing.
irq_tty_keyboard(k, up) ==
    /\ mod' = handle_key(mod, k.row, up)
    /\ LET silent == up \/ mod.escape
       IN  /\ IF k.row = "F" /\ SelectsTty(mod.key_state) /\ ~silent
                THEN set_current_tty(k.tty) ELSE UNCHANGED current_tty
           /\ IF k.row = "char" /\ ~silent
                THEN NrTyped < MaxKeys /\ Store(current_tty, NrTyped + 1)
                ELSE UNCHANGED <<ring, dropped, typed>>

\* The first byte of an extended key: the handler remembers it and returns.
EscapeByte(k, up) ==
    /\ pending = {} /\ k.ext
    /\ up => k \in held
    /\ held' = IF up THEN held \ {k} ELSE held \cup {k}
    /\ pending' = {k}
    /\ mod' = [mod EXCEPT !.escape = TRUE]
    /\ UNCHANGED <<current_tty, ring, typed, dropped, reader>>

\* ... and its second.
ExtendedKey(k) ==
    /\ k \in pending
    /\ pending' = {}
    /\ irq_tty_keyboard(k, k \notin held)
    /\ UNCHANGED <<held, reader>>

\* A key is pressed, repeats or is released.
PlainKey(k, up) ==
    /\ pending = {} /\ ~k.ext
    /\ up => k \in held
    /\ held' = IF up THEN held \ {k} ELSE held \cup {k}
    /\ irq_tty_keyboard(k, up)
    /\ UNCHANGED <<pending, reader>>

-----------------------------------------------------------------------------
(***************************************************************************)
(* tty_read                                                                *)
(***************************************************************************)

Goto(t, l) == pc' = [pc EXCEPT ![t] = l]
kernel == <<mod, current_tty, typed, dropped>>

Read(t, size) ==
    /\ pc[t] = "user"
    /\ left' = [left EXCEPT ![t] = size]
    /\ Goto(t, IF size = 0 THEN "user" ELSE "test")
    /\ UNCHANGED <<kernel, hardware, ring, idx, delivered>>

\* Mutant of Test: a character is taken whether or not there is one.
TestNothing(t) ==
    /\ pc[t] = "test"
    /\ Goto(t, "index")
    /\ UNCHANGED <<kernel, hardware, ring, idx, left, delivered>>

\* Two loads; no interrupt between them can make the ring look fuller than it is.
Test(t) ==
    /\ pc[t] = "test"
    /\ ring[t].in_e # ring[t].in_s
    /\ Goto(t, "index")
    /\ UNCHANGED <<kernel, hardware, ring, idx, left, delivered>>

Index(t) ==
    /\ pc[t] = "index"
    /\ idx' = [idx EXCEPT ![t] = ring[t].in_s]
    /\ Goto(t, "indexed")
    /\ UNCHANGED <<kernel, hardware, ring, left, delivered>>

\* *buffer = input_buffer[...]
Fetch(t) ==
    /\ pc[t] \in {"indexed", "fetch"}
    /\ delivered' = [delivered EXCEPT ![t] = Append(@, ring[t].input_buffer[idx[t]])]
    /\ Goto(t, IF pc[t] = "indexed" THEN "advance" ELSE "wrap")
    /\ UNCHANGED <<kernel, hardware, ring, idx, left>>

\* in_s++, whose result may be TTY_INBUF_LEN
Advance(t) ==
    /\ pc[t] \in {"indexed", "advance"}
    /\ ring' = [ring EXCEPT ![t].in_s = idx[t] + 1]
    /\ Goto(t, IF pc[t] = "indexed" THEN "fetch" ELSE "wrap")
    /\ UNCHANGED <<kernel, hardware, idx, left, delivered>>

\* Mutant of Wrap: the comparison is off by one.
WrapLate(t) ==
    /\ pc[t] = "wrap"
    /\ ring' = [ring EXCEPT ![t].in_s = IF @ > TTY_INBUF_LEN THEN 0 ELSE @]
    /\ left' = [left EXCEPT ![t] = @ - 1]
    /\ Goto(t, IF left[t] = 1 THEN "user" ELSE "test")
    /\ UNCHANGED <<kernel, hardware, idx, delivered>>

\* The handler leaves in_s alone while it is TTY_INBUF_LEN, so the test and the
\* store are one step.  The echo before it does not touch the ring.
Wrap(t) ==
    /\ pc[t] = "wrap"
    /\ ring' = [ring EXCEPT ![t].in_s = IF @ = TTY_INBUF_LEN THEN 0 ELSE @]
    /\ left' = [left EXCEPT ![t] = @ - 1]
    /\ Goto(t, IF left[t] = 1 THEN "user" ELSE "test")
    /\ UNCHANGED <<kernel, hardware, idx, delivered>>

-----------------------------------------------------------------------------
(***************************************************************************)
(* The specification                                                       *)
(***************************************************************************)

NO_CHAR == -1       \* an entry of the ring nothing was stored in

Init ==
    /\ mod = [shift |-> FALSE, alt |-> FALSE, altgr |-> FALSE, ctrl |-> FALSE,
              escape |-> FALSE, key_state |-> 0]
    /\ held = {} /\ pending = {}
    /\ current_tty = 0
    /\ ring = [t \in Ttys |-> [input_buffer |-> [i \in 0 .. TTY_INBUF_LEN - 1 |-> NO_CHAR],
                               in_s |-> 0, in_e |-> 0]]
    /\ pc = [t \in Ttys |-> "user"]
    /\ idx = [t \in Ttys |-> 0]
    /\ left = [t \in Ttys |-> 0]
    /\ typed = [t \in Ttys |-> {}]
    /\ delivered = [t \in Ttys |-> <<>>]
    /\ dropped = [t \in Ttys |-> {}]

Next ==
    \/ \E k \in Keys : \/ ExtendedKey(k)
                       \/ \E up \in BOOLEAN : EscapeByte(k, up) \/ PlainKey(k, up)
    \/ \E t \in Ttys : \/ \E size \in 0 .. MaxSize : Read(t, size)
                       \/ Test(t) \/ Index(t) \/ Fetch(t) \/ Advance(t) \/ Wrap(t)

Spec == Init /\ [][Next]_vars

-----------------------------------------------------------------------------
(***************************************************************************)
(* Properties                                                              *)
(***************************************************************************)

Modifiers == [shift : BOOLEAN, alt : BOOLEAN, altgr : BOOLEAN, ctrl : BOOLEAN,
              escape : BOOLEAN, key_state : 0 .. 5]
Char == Nat \cup {NO_CHAR}
Ring == [input_buffer : [0 .. TTY_INBUF_LEN - 1 -> Char],
         in_s : 0 .. TTY_INBUF_LEN, in_e : 0 .. TTY_INBUF_LEN - 1]

\* The types of the variables: the indices stay inside the ring, except that
\* in_s may be one past its end while tty_read is about to wrap it, and the
\* index tty_read reads from never is.
TypeOK ==
    /\ mod \in Modifiers
    /\ held \subseteq Keys /\ pending \subseteq Keys
    /\ current_tty \in Ttys
    /\ ring \in [Ttys -> Ring]
    /\ pc \in [Ttys -> Places]
    /\ idx \in [Ttys -> 0 .. TTY_INBUF_LEN - 1]
    /\ left \in [Ttys -> Nat]
    /\ typed \in [Ttys -> SUBSET Nat]
    /\ delivered \in [Ttys -> Seq(Char)]
    /\ dropped \in [Ttys -> SUBSET Char]

\* However the handler strikes into tty_read, a reader gets nothing but what was
\* typed on its own tty; and until the overflow branch is taken it gets each
\* character at most once and in the order of typing, also when the handler
\* misses an overflow because it finds in_s past the end of the ring.
InOrder ==
    \A t \in Ttys :
      /\ \A i \in 1 .. Len(delivered[t]) : delivered[t][i] \in typed[t]
      /\ dropped[t] = {} =>
           \A i, j \in 1 .. Len(delivered[t]) : i < j => delivered[t][i] < delivered[t][j]

\* No modifier sticks: with no key held down (and no CapsLock on the keyboard)
\* handle_key is back in the unshifted column, in whatever order the modifiers
\* on both sides were pressed and released.
NoStuckModifier ==
    held = {} /\ pending = {} =>
      mod.key_state = 0 /\ ~(mod.shift \/ mod.alt \/ mod.altgr \/ mod.ctrl \/ mod.escape)

\* The characters now in the ring of tty t.
Buffered(t) ==
    LET r == ring[t]
        n == (r.in_e - r.in_s + TTY_INBUF_LEN) % TTY_INBUF_LEN
    IN  {r.input_buffer[(r.in_s + i) % TTY_INBUF_LEN] : i \in 0 .. n - 1}

\* Characters are given up in the branch of the handler that says "Buffer
\* overflow" and nowhere else: until it is taken, whatever was typed has been
\* delivered or is still in the ring.
LossOnlyOnOverflow ==
    \A t \in Ttys :
      dropped[t] = {} /\ pc[t] \in {"user", "test"} =>
        typed[t] \subseteq
          {delivered[t][i] : i \in 1 .. Len(delivered[t])} \cup Buffered(t)

=============================================================================
