----------------------------- MODULE TtyInputProofs -----------------------------
(***************************************************************************)
(* Keyboard and ring, for rings of any length, any number of ttys and any  *)
(* keyboard: indices stay inside, what is read was typed, in its order,    *)
(* and no modifier sticks.                                                 *)
(***************************************************************************)
EXTENDS TtyInput, FiniteSetTheorems, SequenceTheorems, TLAPS

Last == TTY_INBUF_LEN - 1

\* Characters are numbered as they come, over all ttys.
Numbered == \E n \in Nat : UNION {typed[t] : t \in Ttys} = 1 .. n

\* Between reads nothing is left to be counted down, and only tty_read between its
\* increment and its test leaves in_s behind the end of the ring.
ReaderOK(t) ==
    /\ pc[t] # "user" => left[t] > 0
    /\ ring[t].in_s = TTY_INBUF_LEN => pc[t] \in {"fetch", "wrap"}

\* Every entry holds a character, or the handler has not come to the end of the ring
\* yet and the reader is behind it.
Written(t) ==
    LET r == ring[t]
    IN  \/ \A i \in 0 .. Last : r.input_buffer[i] \in typed[t]
        \/ /\ r.in_s <= r.in_e
           /\ \A i \in 0 .. Last :
                r.input_buffer[i] \in (IF i < r.in_e THEN typed[t] ELSE {NO_CHAR})
           /\ pc[t] = "index" => r.in_s < r.in_e
           /\ pc[t] \in {"indexed", "fetch", "advance"} => idx[t] < r.in_e

\* From in_e on around the ring, younger characters follow older ones.
Ordered(t) ==
    LET r == ring[t]
        b == r.input_buffer
    IN  \A i, j \in 0 .. Last : i < j =>
          /\ j < r.in_e => b[i] < b[j]
          /\ r.in_e <= i => b[i] < b[j] \/ b[j] = NO_CHAR
          /\ i < r.in_e /\ r.in_e <= j => b[j] < b[i]

\* The entries that the reader has still to come to.
Unread(t) ==
    LET r == ring[t]
        s == IF r.in_s = TTY_INBUF_LEN THEN 0 ELSE r.in_s
    IN  {i \in 0 .. Last : IF s <= r.in_e THEN s <= i /\ i < r.in_e ELSE s <= i \/ i < r.in_e}

\* All that tty t's reader got is older than c.
OlderThan(t, c) == \A i \in 1 .. Len(delivered[t]) : delivered[t][i] < c

\* Until the overflow branch is taken: what is unread is younger than what was read,
\* and than what is just being read.  The entry that is being read is only overwritten
\* while in_s is past the end of the ring, and then there is nothing unread.
Ahead(t) ==
    LET r == ring[t]
    IN  dropped[t] = {} =>
          /\ \A i, j \in 1 .. Len(delivered[t]) : i < j => delivered[t][i] < delivered[t][j]
          /\ pc[t] \in {"index", "indexed", "advance"} => r.in_s # r.in_e
          /\ pc[t] \in {"indexed", "advance"} => idx[t] = r.in_s
          /\ pc[t] = "fetch" =>
               /\ r.in_s = idx[t] + 1
               /\ OlderThan(t, r.input_buffer[idx[t]])
               /\ \A i \in Unread(t) : r.input_buffer[idx[t]] < r.input_buffer[i]
          /\ \A i \in Unread(t) :
               (pc[t] = "advance" /\ i = idx[t]) \/ OlderThan(t, r.input_buffer[i])

ReadsTyped(t) == \A i \in 1 .. Len(delivered[t]) : delivered[t][i] \in typed[t]

RingInv(t) == ReaderOK(t) /\ Written(t) /\ Ordered(t) /\ ReadsTyped(t) /\ Ahead(t)

IInv == TypeOK /\ Numbered /\ \A t \in Ttys : RingInv(t)

-----------------------------------------------------------------------------
(***************************************************************************)
(* The ring of one tty                                                     *)
(***************************************************************************)

\* What the type invariant says of tty t.
LEMMA TtyTypes ==
    ASSUME TypeOK, NEW t \in Ttys
    PROVE  /\ TTY_INBUF_LEN \in Nat /\ TTY_INBUF_LEN >= 2
           /\ ring[t].input_buffer \in [0 .. Last -> Char]
           /\ ring[t].in_s \in 0 .. TTY_INBUF_LEN /\ ring[t].in_e \in 0 .. Last
           /\ pc[t] \in Places /\ idx[t] \in 0 .. Last /\ left[t] \in Nat
           /\ typed[t] \in SUBSET Nat /\ delivered[t] \in Seq(Char)
           /\ Len(delivered[t]) \in Nat
           /\ \A i \in 1 .. Len(delivered[t]) : delivered[t][i] \in Char
BY RingAssumption DEF TypeOK, Ring, Last

\* Nothing but the state of tty t matters for its part of the invariant.
LEMMA SameTty ==
    ASSUME NEW t \in Ttys, RingInv(t), ring'[t] = ring[t], pc'[t] = pc[t], idx'[t] = idx[t],
           left'[t] = left[t], typed'[t] = typed[t], delivered'[t] = delivered[t],
           dropped'[t] = dropped[t]
    PROVE  RingInv(t)'
BY DEF RingInv, ReaderOK, Written, Ordered, ReadsTyped, Ahead, Unread, OlderThan

\* The handler stores a character younger than all before, wherever the reader is.
LEMMA StoreKeeps ==
    ASSUME TypeOK, NEW t \in Ttys, RingInv(t), NEW c \in Nat, \A d \in typed[t] : d < c,
           Store(t, c), UNCHANGED reader
    PROVE  RingInv(t)'
<1> DEFINE b == ring[t].input_buffer
           s == ring[t].in_s
           e == ring[t].in_e
           e2 == Forward(e)
           full == e2 = s
           b2 == ring'[t].input_buffer
<1>1. /\ ring'[t].in_e = e2 /\ ring'[t].in_s = (IF full THEN Forward(s) ELSE s)
      /\ b2 = [b EXCEPT ![e] = c]
      /\ typed'[t] = typed[t] \cup {c}
      /\ dropped'[t] = IF full THEN dropped[t] \cup {b[s]} ELSE dropped[t]
  BY DEF Store, TypeOK
<1>2. /\ TTY_INBUF_LEN \in Nat /\ TTY_INBUF_LEN >= 2 /\ b \in [0 .. Last -> Char]
      /\ s \in 0 .. TTY_INBUF_LEN /\ e \in 0 .. Last /\ pc[t] \in Places /\ idx[t] \in 0 .. Last
      /\ Last = TTY_INBUF_LEN - 1 /\ Len(delivered[t]) \in Nat
  BY TtyTypes DEF Last
<1>3. /\ e2 \in 0 .. Last /\ (IF e = Last THEN e2 = 0 ELSE e2 = e + 1)
      /\ full => s \in 0 .. Last /\ Forward(s) \in 0 .. Last
  <2>1. \A i \in 0 .. Last : Forward(i) \in 0 .. Last /\ (IF i = Last THEN Forward(i) = 0 ELSE Forward(i) = i + 1)
    BY <1>2 DEF Forward
  <2> QED
    BY <1>2, <2>1
<1>4. /\ b2[e] = c /\ \A i \in 0 .. Last : i # e => b2[i] = b[i]
      /\ b2 \in [0 .. Last -> Char]
  BY <1>1, <1>2 DEF Char
<1>5. \A i \in 0 .. Last : b[i] < c /\ b[i] \in Int
  <2>1. \A i \in 0 .. Last : b[i] \in typed[t] \cup {NO_CHAR}
    BY <1>2 DEF RingInv, Written
  <2>2. typed[t] \subseteq Nat
    BY TtyTypes
  <2> QED
    BY <2>1, <2>2 DEF NO_CHAR
<1>6. pc' = pc /\ idx' = idx /\ left' = left /\ delivered' = delivered
  BY DEF reader
<1> HIDE DEF b, s, e, e2, full, b2
<1>7. ReaderOK(t)'
  BY <1>1, <1>2, <1>3, <1>6 DEF RingInv, ReaderOK, s
<1>8. Written(t)'
  <2>1. CASE \A i \in 0 .. Last : b[i] \in typed[t]
    BY <1>1, <1>2, <1>4, <2>1 DEF Written, b2
  <2>2. CASE ~ \A i \in 0 .. Last : b[i] \in typed[t]
    <3>1. /\ s <= e
          /\ \A i \in 0 .. Last : b[i] \in (IF i < e THEN typed[t] ELSE {NO_CHAR})
          /\ pc[t] = "index" => s < e
          /\ pc[t] \in {"indexed", "fetch", "advance"} => idx[t] < e
      BY <2>2 DEF RingInv, Written, b, s, e
    <3>2. CASE e = Last
      BY <1>1, <1>2, <1>4, <3>1, <3>2 DEF Written, b2
    <3>3. CASE e # Last
      <4>1. e2 = e + 1 /\ ~full
        BY <1>2, <1>3, <3>1, <3>3 DEF full
      <4> QED
        BY <1>1, <1>2, <1>4, <1>6, <3>1, <4>1 DEF Written, b2
    <3> QED
      BY <3>2, <3>3
  <2> QED
    BY <2>1, <2>2
<1>9. Ordered(t)'
  <2>1. \A i, j \in 0 .. Last : i < j =>
          /\ j < e => b[i] < b[j]
          /\ e <= i => b[i] < b[j] \/ b[j] = NO_CHAR
          /\ i < e /\ e <= j => b[j] < b[i]
    BY DEF RingInv, Ordered, b, e
  <2>2. \A i, j \in 0 .. Last : i < j =>
          /\ j < e2 => b2[i] < b2[j]
          /\ e2 <= i => b2[i] < b2[j] \/ b2[j] = NO_CHAR
          /\ i < e2 /\ e2 <= j => b2[j] < b2[i]
    BY <1>2, <1>3, <1>4, <1>5, <2>1
  <2> QED
    BY <1>1, <2>2 DEF Ordered, b2
<1>10. ReadsTyped(t)'
  BY <1>1, <1>6 DEF RingInv, ReadsTyped
<1>11. Ahead(t)'
  <2> SUFFICES ASSUME dropped[t] = {}, ~full PROVE Ahead(t)'
    BY <1>1 DEF Ahead
  <2> DEFINE n == IF s = TTY_INBUF_LEN THEN 0 ELSE s
  <2>1. Unread(t) = {i \in 0 .. Last : IF n <= e THEN n <= i /\ i < e ELSE n <= i \/ i < e}
    BY DEF Unread, s, e
  <2>2. Unread(t)' = {i \in 0 .. Last : IF n <= e2 THEN n <= i /\ i < e2 ELSE n <= i \/ i < e2}
    BY <1>1 DEF Unread
  <2>3. \A i \in Unread(t)' : i = e \/ (i # e /\ i \in Unread(t))
    BY <1>2, <1>3, <2>1, <2>2 DEF full
  <2>4. OlderThan(t, c)
    BY <1>2 DEF RingInv, ReadsTyped, OlderThan
  <2>5. /\ \A i, j \in 1 .. Len(delivered[t]) : i < j => delivered[t][i] < delivered[t][j]
        /\ pc[t] \in {"index", "indexed", "advance"} => s # e
        /\ pc[t] \in {"indexed", "advance"} => idx[t] = s
        /\ pc[t] = "fetch" =>
             /\ s = idx[t] + 1
             /\ OlderThan(t, b[idx[t]])
             /\ \A i \in Unread(t) : b[idx[t]] < b[i]
        /\ \A i \in Unread(t) : (pc[t] = "advance" /\ i = idx[t]) \/ OlderThan(t, b[i])
    BY DEF RingInv, Ahead, b, s, e
  <2>6. \A x : OlderThan(t, x)' <=> OlderThan(t, x)
    BY <1>6 DEF OlderThan
  <2>7. pc[t] \in {"index", "indexed", "advance"} => s # e2
    BY DEF full
  <2>8. ASSUME pc[t] = "fetch"
        PROVE  /\ OlderThan(t, b2[idx[t]])
               /\ \A i \in Unread(t)' : b2[idx[t]] < b2[i]
    <3>1. CASE idx[t] = e
      <4>1. s = TTY_INBUF_LEN /\ e = Last /\ e2 = 0
        BY <1>2, <1>3, <2>5, <2>8, <3>1 DEF full
      <4>2. Unread(t)' = {}
        BY <1>2, <2>2, <4>1
      <4>3. b2[idx[t]] = c
        BY <1>4, <3>1
      <4> QED
        BY <2>4, <4>2, <4>3
    <3>2. CASE idx[t] # e
      <4>1. b2[idx[t]] = b[idx[t]] /\ OlderThan(t, b[idx[t]])
        BY <1>2, <1>4, <2>5, <2>8, <3>2
      <4>2. ASSUME NEW i \in Unread(t)' PROVE b[idx[t]] < b2[i]
        <5>1. i \in 0 .. Last
          BY <2>2
        <5> QED
          BY <1>2, <1>4, <1>5, <2>3, <2>5, <2>8, <5>1
      <4> QED
        BY <4>1, <4>2
    <3> QED
      BY <3>1, <3>2
  <2>9. \A i \in Unread(t)' : (pc[t] = "advance" /\ i = idx[t]) \/ OlderThan(t, b2[i])
    <3>1. Unread(t)' \subseteq 0 .. Last
      BY <2>2
    <3> QED
      BY <1>2, <1>4, <2>3, <2>4, <2>5, <3>1
  <2> HIDE DEF n
  <2> QED
    BY <1>1, <1>6, <2>5, <2>6, <2>7, <2>8, <2>9 DEF Ahead, b2, OlderThan
<1> QED
  BY <1>7, <1>8, <1>9, <1>10, <1>11 DEF RingInv

\* tty_read begins, finds a character and loads in_s.
LEMMA ReaderBegins ==
    ASSUME TypeOK, NEW t \in Ttys, RingInv(t),
           \/ \E size \in 0 .. MaxSize : Read(t, size)
           \/ Test(t) \/ Index(t)
    PROVE  RingInv(t)'
<1> USE BoundAssumption
<1>1. ring' = ring /\ typed' = typed /\ dropped' = dropped /\ delivered' = delivered
  BY DEF Read, Test, Index, kernel
<1>2. Ordered(t)' /\ ReadsTyped(t)' /\ Unread(t)' = Unread(t) /\ \A x : OlderThan(t, x)' <=> OlderThan(t, x)
  BY <1>1 DEF RingInv, Ordered, ReadsTyped, Unread, OlderThan
<1>3. ReaderOK(t)'
  BY <1>1, TtyTypes DEF RingInv, ReaderOK, Read, Test, Index, Goto, TypeOK
<1>4. \/ pc[t] = "user" /\ pc'[t] \in {"user", "test"}
      \/ pc[t] = "test" /\ pc'[t] = "index" /\ ring[t].in_e # ring[t].in_s /\ idx'[t] = idx[t]
      \/ pc[t] = "index" /\ pc'[t] = "indexed" /\ idx'[t] = ring[t].in_s
  BY DEF Read, Test, Index, Goto, TypeOK
<1>5. Written(t)'
  BY <1>1, <1>4, TtyTypes DEF RingInv, Written
<1>6. Ahead(t)'
  BY <1>1, <1>2, <1>4 DEF RingInv, Ahead
<1> QED
  BY <1>2, <1>3, <1>5, <1>6 DEF RingInv

\* The character is older than all that is unread behind it.
LEMMA OldestFirst ==
    ASSUME TypeOK, NEW t \in Ttys, RingInv(t), pc[t] \in {"indexed", "advance"}, dropped[t] = {}
    PROVE  LET b == ring[t].input_buffer
           IN  idx[t] \in Unread(t) /\ \A i \in Unread(t) : i # idx[t] => b[idx[t]] < b[i]
<1> DEFINE b == ring[t].input_buffer
           s == ring[t].in_s
           e == ring[t].in_e
<1>1. /\ TTY_INBUF_LEN \in Nat /\ TTY_INBUF_LEN >= 2 /\ b \in [0 .. Last -> Char]
      /\ s \in 0 .. Last /\ e \in 0 .. Last /\ Last = TTY_INBUF_LEN - 1
  BY TtyTypes DEF RingInv, ReaderOK, Last
<1>2. idx[t] = s /\ s # e
  BY DEF RingInv, Ahead
<1>3. Unread(t) = {i \in 0 .. Last : IF s <= e THEN s <= i /\ i < e ELSE s <= i \/ i < e}
  BY <1>1 DEF Unread
<1>4. \A i, j \in 0 .. Last : i < j =>
          /\ j < e => b[i] < b[j]
          /\ e <= i => b[i] < b[j] \/ b[j] = NO_CHAR
          /\ i < e /\ e <= j => b[j] < b[i]
  BY DEF RingInv, Ordered
<1>5. \A i \in Unread(t) : b[i] # NO_CHAR
  BY <1>1, <1>3, TtyTypes DEF RingInv, Written, NO_CHAR
<1> HIDE DEF b, s, e
<1>6. \A i \in Unread(t) : i # s => b[s] < b[i]
  BY <1>1, <1>2, <1>3, <1>4, <1>5
<1> QED
  BY <1>1, <1>2, <1>3, <1>6 DEF b

\* The reader takes the character it has the index of.
LEMMA FetchKeeps ==
    ASSUME TypeOK, NEW t \in Ttys, RingInv(t), Fetch(t)
    PROVE  RingInv(t)'
<1> DEFINE b == ring[t].input_buffer
           c == b[idx[t]]
<1>1. /\ ring' = ring /\ typed' = typed /\ dropped' = dropped /\ idx' = idx /\ left' = left
      /\ delivered'[t] = Append(delivered[t], c)
      /\ \/ pc[t] = "indexed" /\ pc'[t] = "advance"
         \/ pc[t] = "fetch" /\ pc'[t] = "wrap"
  BY DEF Fetch, Goto, kernel, TypeOK
<1>2. c \in typed[t] /\ c \in Char
  BY <1>1, TtyTypes DEF RingInv, Written, Char
<1>3. /\ Len(delivered[t]) \in Nat /\ Len(delivered'[t]) = Len(delivered[t]) + 1
      /\ \A i \in 1 .. Len(delivered[t]) : delivered'[t][i] = delivered[t][i]
      /\ delivered'[t][Len(delivered[t]) + 1] = c
  BY <1>1, <1>2, TtyTypes, AppendProperties
<1> HIDE DEF c
<1>4. Ordered(t)' /\ Unread(t)' = Unread(t)
  BY <1>1 DEF RingInv, Ordered, Unread
<1>5. ReaderOK(t)' /\ Written(t)'
  BY <1>1 DEF RingInv, ReaderOK, Written
<1>6. ReadsTyped(t)'
  BY <1>1, <1>2, <1>3 DEF RingInv, ReadsTyped
<1>7. ASSUME dropped[t] = {}
      PROVE  OlderThan(t, c) /\ \A i \in Unread(t) : i # idx[t] \/ pc[t] = "fetch" => OlderThan(t, b[i]) /\ c < b[i]
  <2>1. CASE pc[t] = "indexed"
    BY <1>7, <2>1, OldestFirst DEF RingInv, Ahead, c
  <2>2. CASE pc[t] = "fetch"
    BY <1>7, <2>2 DEF RingInv, Ahead, c
  <2> QED
    BY <1>1, <2>1, <2>2
<1>8. Ahead(t)'
  <2> SUFFICES ASSUME dropped[t] = {} PROVE Ahead(t)'
    BY <1>1 DEF Ahead
  <2>1. \A x : OlderThan(t, x)' <=> OlderThan(t, x) /\ c < x
    BY <1>3, SMTT(30) DEF OlderThan
  <2>2. \A i, j \in 1 .. Len(delivered'[t]) : i < j => delivered'[t][i] < delivered'[t][j]
    <3> SUFFICES ASSUME NEW i \in 1 .. Len(delivered'[t]), NEW j \in 1 .. Len(delivered'[t]), i < j
                 PROVE  delivered'[t][i] < delivered'[t][j]
      OBVIOUS
    <3>1. CASE j = Len(delivered[t]) + 1
      BY <1>3, <1>7, <3>1 DEF OlderThan
    <3>2. CASE j # Len(delivered[t]) + 1
      BY <1>3, <3>2, SMTT(30) DEF RingInv, Ahead
    <3> QED
      BY <3>1, <3>2
  <2>3. \A i \in Unread(t) : (pc'[t] = "advance" /\ i = idx[t]) \/ OlderThan(t, b[i])'
    BY <1>1, <1>7, <2>1
  <2>4. pc[t] = "indexed" => idx[t] = ring[t].in_s /\ ring[t].in_s # ring[t].in_e
    BY DEF RingInv, Ahead
  <2> HIDE DEF b
  <2> QED
    BY <1>1, <1>4, <2>2, <2>3, <2>4 DEF Ahead, OlderThan, b
<1> QED
  BY <1>4, <1>5, <1>6, <1>8 DEF RingInv

\* in_s goes on, perhaps past the end of the ring.
LEMMA AdvanceKeeps ==
    ASSUME TypeOK, NEW t \in Ttys, RingInv(t), Advance(t)
    PROVE  RingInv(t)'
<1> DEFINE b == ring[t].input_buffer
           e == ring[t].in_e
<1>1. /\ typed' = typed /\ dropped' = dropped /\ idx' = idx /\ left' = left /\ delivered' = delivered
      /\ ring'[t].input_buffer = b /\ ring'[t].in_e = e /\ ring'[t].in_s = idx[t] + 1
      /\ \/ pc[t] = "indexed" /\ pc'[t] = "fetch"
         \/ pc[t] = "advance" /\ pc'[t] = "wrap"
  BY DEF Advance, Goto, kernel, TypeOK, Ring
<1>2. /\ TTY_INBUF_LEN \in Nat /\ TTY_INBUF_LEN >= 2 /\ b \in [0 .. Last -> Char]
      /\ idx[t] \in 0 .. Last /\ e \in 0 .. Last /\ Last = TTY_INBUF_LEN - 1
  BY TtyTypes DEF Last
<1>3. Ordered(t)' /\ ReadsTyped(t)' /\ ReaderOK(t)'
  BY <1>1 DEF RingInv, Ordered, ReadsTyped, ReaderOK
<1>4. Written(t)'
  BY <1>1, <1>2, SMTT(30) DEF RingInv, Written
<1>5. Ahead(t)'
  <2> SUFFICES ASSUME dropped[t] = {} PROVE Ahead(t)'
    BY <1>1 DEF Ahead
  <2>1. idx[t] = ring[t].in_s /\ ring[t].in_s # e
    BY <1>1 DEF RingInv, Ahead
  <2>2. \A i \in Unread(t)' : i \in Unread(t) /\ i # idx[t]
    BY <1>1, <1>2, <2>1 DEF Unread
  <2>3. idx[t] \in Unread(t) /\ \A i \in Unread(t) : i # idx[t] => b[idx[t]] < b[i]
    BY <1>1, OldestFirst
  <2>4. \A x : OlderThan(t, x)' <=> OlderThan(t, x)
    BY <1>1 DEF OlderThan
  <2>5. /\ \A i \in Unread(t) : (pc[t] = "advance" /\ i = idx[t]) \/ OlderThan(t, b[i])
        /\ \A i, j \in 1 .. Len(delivered[t]) : i < j => delivered[t][i] < delivered[t][j]
    BY DEF RingInv, Ahead
  <2> HIDE DEF b, e
  <2> QED
    BY <1>1, <2>2, <2>3, <2>4, <2>5 DEF Ahead, OlderThan, b
<1> QED
  BY <1>3, <1>4, <1>5 DEF RingInv

\* ... and comes back to its begin.
LEMMA WrapKeeps ==
    ASSUME TypeOK, NEW t \in Ttys, RingInv(t), Wrap(t)
    PROVE  RingInv(t)' /\ left'[t] \in Nat
<1> DEFINE s == ring[t].in_s
<1>1. /\ typed' = typed /\ dropped' = dropped /\ idx' = idx /\ delivered' = delivered
      /\ ring'[t].input_buffer = ring[t].input_buffer /\ ring'[t].in_e = ring[t].in_e
      /\ ring'[t].in_s = (IF s = TTY_INBUF_LEN THEN 0 ELSE s)
      /\ pc[t] = "wrap" /\ left'[t] = left[t] - 1
      /\ pc'[t] = IF left[t] = 1 THEN "user" ELSE "test"
  BY DEF Wrap, Goto, kernel, TypeOK, Ring
<1>2. /\ TTY_INBUF_LEN \in Nat /\ TTY_INBUF_LEN >= 2 /\ left[t] \in Nat
      /\ s \in 0 .. TTY_INBUF_LEN /\ ring[t].in_e \in 0 .. Last /\ Last = TTY_INBUF_LEN - 1
  BY TtyTypes DEF Last
<1>3. left[t] > 0
  BY <1>1 DEF RingInv, ReaderOK
<1> HIDE DEF s
<1>4. Ordered(t)' /\ ReadsTyped(t)' /\ ReaderOK(t)' /\ left'[t] \in Nat
  BY <1>1, <1>2, <1>3, SMTT(30) DEF RingInv, Ordered, ReadsTyped, ReaderOK
<1>5. Written(t)'
  BY <1>1, <1>2 DEF RingInv, Written, s
<1>6. Unread(t)' = Unread(t)
  BY <1>1, <1>2 DEF Unread, s
<1>7. Ahead(t)'
  BY <1>1, <1>6 DEF RingInv, Ahead, OlderThan
<1> QED
  BY <1>4, <1>5, <1>7 DEF RingInv

-----------------------------------------------------------------------------
(***************************************************************************)
(* All ttys                                                                *)
(***************************************************************************)

\* The number of the next character is larger than all in use, which it continues.
LEMMA NextNumber ==
    ASSUME TypeOK, Numbered, NEW t \in Ttys,
           typed' = [typed EXCEPT ![t] = @ \cup {NrTyped + 1}]
    PROVE  /\ NrTyped + 1 \in Nat /\ Numbered'
           /\ \A d \in typed[t] : d < NrTyped + 1
<1> DEFINE U == UNION {typed[u] : u \in Ttys}
<1>1. PICK n \in Nat : U = 1 .. n
  BY DEF Numbered
<1>2. NrTyped = n
  <2>1. Cardinality(1 .. n) = IF 1 > n THEN 0 ELSE n - 1 + 1
    BY FS_Interval
  <2>2. Cardinality(1 .. n) = n
    BY <2>1
  <2> QED
    BY <1>1, <2>2 DEF NrTyped
<1>3. \A d \in typed[t] : d \in 1 .. n
  BY <1>1
<1>4. UNION {typed'[u] : u \in Ttys} = U \cup {n + 1}
  BY <1>2 DEF TypeOK
<1>5. U \cup {n + 1} = 1 .. n + 1
  BY <1>1
<1> QED
  BY <1>2, <1>3, <1>4, <1>5 DEF Numbered

\* The decoder keeps the types of its variables.
LEMMA KeyTypes ==
    ASSUME NEW m \in Modifiers, NEW k \in Key, NEW up \in BOOLEAN
    PROVE  handle_key(m, k.row, up) \in Modifiers
<1>1. ASSUME NEW e \in Modifiers PROVE WithKeyState(e) \in Modifiers
  <2>1. create_key_state(e) \in 0 .. 5
    BY DEF create_key_state, Modifiers
  <2> QED
    BY <2>1 DEF WithKeyState, Modifiers
<1> DEFINE e == [m EXCEPT !.altgr = IF m.escape /\ k.row = "ALT" THEN ~up ELSE m.altgr,
                          !.escape = FALSE]
<1>2. e \in Modifiers /\ e.shift \in BOOLEAN
  BY DEF Modifiers
<1>3. handle_key(m, k.row, up) =
        CASE k.row = "SHIFT"  -> WithKeyState([e EXCEPT !.shift = ~up])
          [] k.row = "CTRL"   -> WithKeyState([e EXCEPT !.ctrl = ~up])
          [] k.row = "ALT"    -> WithKeyState([e EXCEPT !.alt = ~up])
          [] k.row = "CALOCK" -> WithKeyState([e EXCEPT !.shift = ~e.shift])
          [] OTHER            -> e
  BY DEF handle_key
<1> HIDE DEF e
<1>4. /\ [e EXCEPT !.shift = ~up] \in Modifiers /\ [e EXCEPT !.ctrl = ~up] \in Modifiers
      /\ [e EXCEPT !.alt = ~up] \in Modifiers /\ [e EXCEPT !.shift = ~e.shift] \in Modifiers
  BY <1>2 DEF Modifiers
<1> QED
  BY <1>1, <1>2, <1>3, <1>4

\* The handler stores at most one character, for the current tty.
LEMMA HandlerKeeps ==
    ASSUME IInv, NEW k \in Keys, NEW up \in BOOLEAN, irq_tty_keyboard(k, up), UNCHANGED reader,
           held' \subseteq Keys, pending' \subseteq Keys
    PROVE  IInv'
<1>1. mod' \in Modifiers
  BY KeyTypes, KeysAssumption DEF irq_tty_keyboard, IInv, TypeOK
<1>2. current_tty \in Ttys /\ current_tty' \in Ttys
  BY DEF irq_tty_keyboard, set_current_tty, IInv, TypeOK
<1>3. pc' = pc /\ idx' = idx /\ left' = left /\ delivered' = delivered
  BY DEF reader
<1>4. CASE UNCHANGED <<ring, dropped, typed>>
  <2>1. TypeOK' /\ Numbered'
    BY <1>1, <1>2, <1>3, <1>4 DEF IInv, TypeOK, Numbered
  <2>2. \A t \in Ttys : RingInv(t)'
    BY <1>3, <1>4, SameTty DEF IInv
  <2> QED
    BY <2>1, <2>2 DEF IInv
<1>5. CASE Store(current_tty, NrTyped + 1)
  <2>0. NrTyped + 1 \in Nat
    <3>1. typed' = [typed EXCEPT ![current_tty] = @ \cup {NrTyped + 1}]
      BY <1>5 DEF Store
    <3> QED
      BY <1>2, <3>1, NextNumber DEF IInv
  <2>a. PICK t \in Ttys, c \in Nat : t = current_tty /\ c = NrTyped + 1
    BY <1>2, <2>0
  <2> DEFINE r == ring[t]
  <2>b. Store(t, c)
    BY <1>5, <2>a
  <2>1. typed' = [typed EXCEPT ![t] = @ \cup {c}]
    BY <2>b DEF Store
  <2>2. c \in Nat /\ Numbered' /\ \A d \in typed[t] : d < c
    BY <2>a, <2>1, NextNumber DEF IInv
  <2>3. RingInv(t)'
    <3>1. TypeOK /\ RingInv(t) /\ UNCHANGED reader
      BY DEF IInv
    <3> QED
      BY <2>b, <2>2, <3>1, StoreKeeps
  <2>4. \A u \in Ttys \ {t} : ring'[u] = ring[u] /\ typed'[u] = typed[u] /\ dropped'[u] = dropped[u]
    BY <2>b DEF Store, IInv, TypeOK
  <2>5. \A u \in Ttys \ {t} : RingInv(u)'
    BY <1>3, <2>4, SameTty DEF IInv
  <2>6. TypeOK'
    <3>1. /\ TTY_INBUF_LEN \in Nat /\ TTY_INBUF_LEN >= 2 /\ r.input_buffer \in [0 .. Last -> Char]
          /\ r.in_s \in 0 .. TTY_INBUF_LEN /\ r.in_e \in 0 .. Last /\ Last = TTY_INBUF_LEN - 1
      BY <1>2, TtyTypes DEF IInv, Last
    <3>2. \A i \in 0 .. Last : Forward(i) \in 0 .. Last
      BY <3>1 DEF Forward
    <3>3. PICK full \in BOOLEAN :
            /\ full => Forward(r.in_e) = r.in_s
            /\ ring' = [ring EXCEPT ![t] =
                          [input_buffer |-> [r.input_buffer EXCEPT ![r.in_e] = c],
                           in_e |-> Forward(r.in_e),
                           in_s |-> IF full THEN Forward(r.in_s) ELSE r.in_s]]
            /\ dropped' = [dropped EXCEPT ![t] = IF full THEN @ \cup {r.input_buffer[r.in_s]} ELSE @]
      BY <2>b DEF Store
    <3>4. [r.input_buffer EXCEPT ![r.in_e] = c] \in [0 .. Last -> Char]
      BY <2>2, <3>1 DEF Char
    <3> DEFINE r2 == [input_buffer |-> [r.input_buffer EXCEPT ![r.in_e] = c],
                      in_e |-> Forward(r.in_e),
                      in_s |-> IF full THEN Forward(r.in_s) ELSE r.in_s]
               d2 == IF full THEN dropped[t] \cup {r.input_buffer[r.in_s]} ELSE dropped[t]
    <3>a. full => r.in_s \in 0 .. Last
      BY <3>1, <3>2, <3>3
    <3>b. r2 \in Ring
      <4>1. (IF full THEN Forward(r.in_s) ELSE r.in_s) \in 0 .. TTY_INBUF_LEN
        BY <3>1, <3>2, <3>a
      <4> QED
        BY <3>1, <3>2, <3>4, <4>1 DEF Ring, Last
    <3>c. d2 \in SUBSET Char
      BY <3>1, <3>a DEF IInv, TypeOK
    <3>d. ring' = [ring EXCEPT ![t] = r2] /\ dropped' = [dropped EXCEPT ![t] = d2]
      BY <3>3
    <3> HIDE DEF r2, d2
    <3>5. ring' \in [Ttys -> Ring]
      BY <3>b, <3>d DEF IInv, TypeOK
    <3>6. dropped' \in [Ttys -> SUBSET Char]
      BY <3>c, <3>d DEF IInv, TypeOK
    <3>7. typed' \in [Ttys -> SUBSET Nat]
      BY <1>2, <2>1, <2>2 DEF IInv, TypeOK
    <3> QED
      BY <1>1, <1>2, <1>3, <3>5, <3>6, <3>7 DEF IInv, TypeOK
  <2> QED
    BY <2>2, <2>3, <2>5, <2>6 DEF IInv
<1> QED
  BY <1>4, <1>5 DEF irq_tty_keyboard

\* A step of the reader of tty t.
LEMMA ReaderKeeps ==
    ASSUME IInv, NEW t \in Ttys,
           \/ \E size \in 0 .. MaxSize : Read(t, size)
           \/ Test(t) \/ Index(t) \/ Fetch(t) \/ Advance(t) \/ Wrap(t)
    PROVE  IInv'
<1>1. RingInv(t)'
  BY ReaderBegins, FetchKeeps, AdvanceKeeps, WrapKeeps DEF IInv
<1>2. /\ UNCHANGED <<kernel, hardware>>
      /\ \A u \in Ttys \ {t} : /\ ring'[u] = ring[u] /\ pc'[u] = pc[u] /\ idx'[u] = idx[u]
                               /\ left'[u] = left[u] /\ delivered'[u] = delivered[u]
  BY DEF Read, Test, Index, Fetch, Advance, Wrap, Goto, IInv, TypeOK
<1>3. \A u \in Ttys \ {t} : RingInv(u)'
  BY <1>2, SameTty DEF IInv, kernel
<1>4. Numbered'
  BY <1>2 DEF IInv, Numbered, kernel
<1>5. TypeOK'
  <2>1. /\ TTY_INBUF_LEN \in Nat /\ TTY_INBUF_LEN >= 2 /\ ring[t].input_buffer \in [0 .. Last -> Char]
        /\ ring[t].in_s \in 0 .. TTY_INBUF_LEN /\ ring[t].in_e \in 0 .. Last /\ Last = TTY_INBUF_LEN - 1
        /\ idx[t] \in 0 .. Last /\ ring[t] \in Ring
    BY TtyTypes DEF IInv, Last, TypeOK
  <2>2. pc' \in [Ttys -> Places]
    BY DEF Read, Test, Index, Fetch, Advance, Wrap, Goto, IInv, TypeOK, Places
  <2>3. left' \in [Ttys -> Nat]
    <3>1. CASE Wrap(t)
      BY <3>1, WrapKeeps DEF Wrap, IInv, TypeOK
    <3>2. ASSUME NEW size \in 0 .. MaxSize, Read(t, size) PROVE left' \in [Ttys -> Nat]
      BY <3>2, BoundAssumption DEF Read, IInv, TypeOK
    <3>3. CASE Test(t) \/ Index(t) \/ Fetch(t) \/ Advance(t)
      BY <3>3 DEF Test, Index, Fetch, Advance, IInv, TypeOK
    <3> QED
      BY <3>1, <3>2, <3>3
  <2>4. idx' \in [Ttys -> 0 .. TTY_INBUF_LEN - 1]
    <3>1. CASE Index(t)
      <4>1. ring[t].in_s \in 0 .. TTY_INBUF_LEN - 1
        BY <2>1, <3>1 DEF Index, IInv, RingInv, ReaderOK
      <4> QED
        BY <3>1, <4>1 DEF Index, IInv, TypeOK
    <3>2. CASE \E size \in 0 .. MaxSize : Read(t, size)
      BY <3>2 DEF Read, IInv, TypeOK
    <3>3. CASE Test(t) \/ Fetch(t) \/ Advance(t) \/ Wrap(t)
      BY <3>3 DEF Test, Fetch, Advance, Wrap, IInv, TypeOK
    <3> QED
      BY <3>1, <3>2, <3>3
  <2>5. ring' \in [Ttys -> Ring]
    <3>1. ASSUME NEW i \in 0 .. TTY_INBUF_LEN, ring' = [ring EXCEPT ![t].in_s = i]
          PROVE  ring' \in [Ttys -> Ring]
      <4>1. [ring[t] EXCEPT !.in_s = i] \in Ring
        BY <2>1 DEF Ring
      <4> QED
        BY <3>1, <4>1 DEF IInv, TypeOK
    <3>2. CASE Advance(t)
      <4>1. idx[t] + 1 \in 0 .. TTY_INBUF_LEN /\ ring' = [ring EXCEPT ![t].in_s = idx[t] + 1]
        BY <2>1, <3>2 DEF Advance
      <4> QED
        BY <3>1, <4>1
    <3>3. CASE Wrap(t)
      <4>1. PICK i \in 0 .. TTY_INBUF_LEN : i = IF ring[t].in_s = TTY_INBUF_LEN THEN 0 ELSE ring[t].in_s
        BY <2>1
      <4>2. ring' = [ring EXCEPT ![t].in_s = i]
        BY <3>3, <4>1 DEF Wrap
      <4> QED
        BY <3>1, <4>2
    <3>4. CASE (\E size \in 0 .. MaxSize : Read(t, size)) \/ Test(t) \/ Index(t) \/ Fetch(t)
      BY <3>4 DEF Read, Test, Index, Fetch, IInv, TypeOK
    <3> QED
      BY <3>2, <3>3, <3>4
  <2>6. delivered' \in [Ttys -> Seq(Char)]
    <3>1. ring[t].input_buffer[idx[t]] \in Char /\ delivered[t] \in Seq(Char)
      BY <2>1, TtyTypes DEF IInv
    <3>2. Append(delivered[t], ring[t].input_buffer[idx[t]]) \in Seq(Char)
      BY <3>1, AppendProperties
    <3> QED
      BY <3>2 DEF Read, Test, Index, Fetch, Advance, Wrap, IInv, TypeOK
  <2> QED
    BY <1>2, <2>2, <2>3, <2>4, <2>5, <2>6 DEF IInv, TypeOK, kernel, hardware
<1> QED
  BY <1>1, <1>3, <1>4, <1>5 DEF IInv

\* The first state.
LEMMA InitKeeps == Init => IInv
<1> SUFFICES ASSUME Init PROVE IInv
  OBVIOUS
<1>1. TypeOK
  BY TtysAssumption, RingAssumption DEF Init, TypeOK, Modifiers, Ttys, Ring, Char, Places, NO_CHAR
<1>2. Numbered
  <2>1. UNION {typed[t] : t \in Ttys} = 1 .. 0
    BY DEF Init
  <2> QED
    BY <2>1 DEF Numbered
<1>3. ASSUME NEW t \in Ttys PROVE RingInv(t)
  <2>1. /\ TTY_INBUF_LEN \in Nat /\ TTY_INBUF_LEN >= 2 /\ Last = TTY_INBUF_LEN - 1
        /\ \A i \in 0 .. Last : ring[t].input_buffer[i] = NO_CHAR
        /\ ring[t].in_s = 0 /\ ring[t].in_e = 0 /\ pc[t] = "user" /\ delivered[t] = <<>>
    BY RingAssumption DEF Init, Last
  <2>2. Len(delivered[t]) = 0
    BY <2>1
  <2> QED
    BY <2>1, <2>2 DEF RingInv, ReaderOK, Written, Ordered, ReadsTyped, Ahead, Unread, OlderThan, NO_CHAR
<1> QED
  BY <1>1, <1>2, <1>3 DEF IInv

\* Every step.
LEMMA NextKeeps == IInv /\ [Next]_vars => IInv'
<1> SUFFICES ASSUME IInv, [Next]_vars PROVE IInv'
  OBVIOUS
<1>1. CASE UNCHANGED vars
  <2>1. \A t \in Ttys : RingInv(t)'
    BY <1>1, SameTty DEF IInv, vars
  <2> QED
    BY <1>1, <2>1 DEF vars, IInv, TypeOK, Numbered
<1>2. ASSUME NEW k \in Keys, ExtendedKey(k) PROVE IInv'
  BY <1>2, HandlerKeeps DEF ExtendedKey, IInv, TypeOK
<1>3. ASSUME NEW k \in Keys, NEW up \in BOOLEAN, PlainKey(k, up) PROVE IInv'
  BY <1>3, HandlerKeeps DEF PlainKey, IInv, TypeOK
<1>4. ASSUME NEW k \in Keys, NEW up \in BOOLEAN, EscapeByte(k, up) PROVE IInv'
  <2>1. TypeOK' /\ Numbered'
    BY <1>4 DEF EscapeByte, reader, IInv, TypeOK, Modifiers, Numbered
  <2>2. \A t \in Ttys : RingInv(t)'
    BY <1>4, SameTty DEF EscapeByte, reader, IInv
  <2> QED
    BY <2>1, <2>2 DEF IInv
<1>5. ASSUME NEW t \in Ttys,
             \/ \E size \in 0 .. MaxSize : Read(t, size)
             \/ Test(t) \/ Index(t) \/ Fetch(t) \/ Advance(t) \/ Wrap(t)
      PROVE  IInv'
  BY <1>5, ReaderKeeps
<1> QED
  BY <1>1, <1>2, <1>3, <1>4, <1>5 DEF Next

\* For rings of any length: tty_read and the handler never index input_buffer outside
\* of it, although in_s is past its end for a moment.
THEOREM TtyInputTypes == Spec => []TypeOK
<1>1. IInv => TypeOK
  BY DEF IInv
<1> QED
  BY <1>1, InitKeeps, NextKeeps, PTL DEF Spec

\* For rings of any length, any number of ttys and any interleaving of handler and
\* readers: a reader gets what was typed on its tty, and until the overflow branch is
\* taken each character at most once and in the order of typing.
THEOREM TtyInputInOrder == Spec => []InOrder
<1>1. IInv => InOrder
  BY DEF IInv, RingInv, ReadsTyped, Ahead, InOrder
<1> QED
  BY <1>1, InitKeeps, NextKeeps, PTL DEF Spec

-----------------------------------------------------------------------------
(***************************************************************************)
(* The modifiers, for a keyboard without CapsLock                          *)
(***************************************************************************)

\* A key of the row is down, or the second byte of its release is still to come.
Down(row) == \E k \in held \cup pending : k.row = row

\* The static variables of kbd.c say of a modifier that it is on only while a key
\* of its row is down, and key_state is never older than they are.
KeyInv ==
    /\ mod.escape <=> pending # {}
    /\ \A k \in pending : k.ext /\ pending = {k}
    /\ mod.key_state = create_key_state(mod)
    /\ mod.shift => Down("SHIFT")
    /\ mod.ctrl => Down("CTRL")
    /\ mod.alt => Down("ALT")
    /\ mod.altgr => \E k \in held \cup pending : k.row = "ALT" /\ k.ext

\* h is what a byte of key k makes of the static variables m.
KeyFields(m, k, up, h) ==
    /\ h.escape = FALSE
    /\ h.shift = (IF k.row = "SHIFT" THEN ~up ELSE m.shift)
    /\ h.ctrl = (IF k.row = "CTRL" THEN ~up ELSE m.ctrl)
    /\ h.alt = (IF k.row = "ALT" THEN ~up ELSE m.alt)
    /\ h.altgr = (IF m.escape /\ k.row = "ALT" THEN ~up ELSE m.altgr)
    /\ h.key_state = create_key_state(h)

\* handle_key, field by field, for a key other than CapsLock.
LEMMA HandleKeyFields ==
    ASSUME NEW m \in Modifiers, NEW k \in Key, NEW up \in BOOLEAN, k.row # "CALOCK",
           m.key_state = create_key_state(m)
    PROVE  KeyFields(m, k, up, handle_key(m, k.row, up))
<1> DEFINE h == handle_key(m, k.row, up)
<1> SUFFICES KeyFields(m, k, up, h)
  OBVIOUS
<1> DEFINE e == [m EXCEPT !.altgr = IF m.escape /\ k.row = "ALT" THEN ~up ELSE m.altgr,
                          !.escape = FALSE]
<1>1. /\ e.shift = m.shift /\ e.ctrl = m.ctrl /\ e.alt = m.alt /\ e.escape = FALSE
      /\ e.altgr = (IF m.escape /\ k.row = "ALT" THEN ~up ELSE m.altgr)
      /\ e.key_state = m.key_state /\ e \in Modifiers
  BY DEF Modifiers
<1>2. h = (CASE k.row = "SHIFT"  -> WithKeyState([e EXCEPT !.shift = ~up])
             [] k.row = "CTRL"   -> WithKeyState([e EXCEPT !.ctrl = ~up])
             [] k.row = "ALT"    -> WithKeyState([e EXCEPT !.alt = ~up])
             [] k.row = "CALOCK" -> WithKeyState([e EXCEPT !.shift = ~e.shift])
             [] OTHER            -> e)
  BY DEF handle_key
<1> HIDE DEF e, h
<1>3. ASSUME NEW f \in Modifiers
      PROVE  LET w == WithKeyState(f)
             IN  /\ w.shift = f.shift /\ w.ctrl = f.ctrl /\ w.alt = f.alt /\ w.escape = f.escape
                 /\ w.altgr = f.altgr /\ w.key_state = create_key_state(w)
  BY DEF WithKeyState, Modifiers, create_key_state
<1>4. CASE k.row = "SHIFT"
  <2> DEFINE f == [e EXCEPT !.shift = ~up]
  <2>1. /\ f \in Modifiers /\ f.shift = ~up /\ f.ctrl = e.ctrl /\ f.alt = e.alt
        /\ f.escape = e.escape /\ f.altgr = e.altgr
    BY <1>1 DEF Modifiers
  <2>2. h = WithKeyState(f)
    BY <1>2, <1>4
  <2> HIDE DEF f
  <2> QED
    BY <1>1, <1>3, <1>4, <2>1, <2>2 DEF KeyFields
<1>5. CASE k.row = "CTRL"
  <2> DEFINE f == [e EXCEPT !.ctrl = ~up]
  <2>1. /\ f \in Modifiers /\ f.shift = e.shift /\ f.ctrl = ~up /\ f.alt = e.alt
        /\ f.escape = e.escape /\ f.altgr = e.altgr
    BY <1>1 DEF Modifiers
  <2>2. h = WithKeyState(f)
    BY <1>2, <1>5
  <2> HIDE DEF f
  <2> QED
    BY <1>1, <1>3, <1>5, <2>1, <2>2 DEF KeyFields
<1>6. CASE k.row = "ALT"
  <2> DEFINE f == [e EXCEPT !.alt = ~up]
  <2>1. /\ f \in Modifiers /\ f.shift = e.shift /\ f.ctrl = e.ctrl /\ f.alt = ~up
        /\ f.escape = e.escape /\ f.altgr = e.altgr
    BY <1>1 DEF Modifiers
  <2>2. h = WithKeyState(f)
    BY <1>2, <1>6
  <2> HIDE DEF f
  <2> QED
    BY <1>1, <1>3, <1>6, <2>1, <2>2 DEF KeyFields
<1>7. CASE k.row \notin {"SHIFT", "CTRL", "ALT"}
  <2>1. h = e
    BY <1>2, <1>7
  <2> QED
    BY <1>1, <1>7, <2>1 DEF create_key_state, KeyFields
<1> QED
  BY <1>4, <1>5, <1>6, <1>7

\* Every step keeps the modifiers true to the keys.
LEMMA KeysKeep ==
    ASSUME \A k \in Keys : k.row # "CALOCK", TypeOK, KeyInv, [Next]_vars
    PROVE  KeyInv'
<1>1. CASE UNCHANGED <<mod, held, pending>>
  BY <1>1 DEF KeyInv, Down, create_key_state
<1>2. ASSUME NEW k \in Keys, ExtendedKey(k) PROVE KeyInv'
  <2> DEFINE up == k \notin held
  <2>1. /\ mod' = handle_key(mod, k.row, up) /\ held' = held /\ pending = {k} /\ pending' = {}
        /\ k.ext /\ mod.escape
    BY <1>2 DEF ExtendedKey, irq_tty_keyboard, KeyInv
  <2>2. KeyFields(mod, k, up, mod')
    <3>1. /\ mod \in Modifiers /\ k \in Key /\ up \in BOOLEAN /\ k.row # "CALOCK"
          /\ mod.key_state = create_key_state(mod)
      BY KeysAssumption DEF TypeOK, KeyInv
    <3> HIDE DEF up
    <3> QED
      BY <2>1, <3>1, HandleKeyFields
  <2>3. \A l \in held \cup pending : l # k => l \in held'
    BY <2>1
  <2> QED
    BY <2>1, <2>2, <2>3, ZenonT(30) DEF KeyInv, KeyFields, Down, create_key_state
<1>3. ASSUME NEW k \in Keys, NEW up \in BOOLEAN, PlainKey(k, up) PROVE KeyInv'
  <2>1. /\ mod' = handle_key(mod, k.row, up) /\ pending = {} /\ pending' = {} /\ ~k.ext
        /\ held' = (IF up THEN held \ {k} ELSE held \cup {k}) /\ ~mod.escape
    BY <1>3 DEF PlainKey, irq_tty_keyboard, KeyInv
  <2>2. KeyFields(mod, k, up, mod')
    <3>1. /\ mod \in Modifiers /\ k \in Key /\ up \in BOOLEAN /\ k.row # "CALOCK"
          /\ mod.key_state = create_key_state(mod)
      BY KeysAssumption DEF TypeOK, KeyInv
    <3> QED
      BY <2>1, <3>1, HandleKeyFields
  <2>3. /\ \A l \in held \cup pending : l # k => l \in held'
        /\ ~up => k \in held'
    BY <2>1
  <2> QED
    BY <2>1, <2>2, <2>3 DEF KeyInv, KeyFields, Down, create_key_state
<1>4. ASSUME NEW k \in Keys, NEW up \in BOOLEAN, EscapeByte(k, up) PROVE KeyInv'
  <2>1. /\ pending = {} /\ k.ext /\ pending' = {k} /\ mod' = [mod EXCEPT !.escape = TRUE]
        /\ held \cup pending \subseteq held' \cup pending'
    BY <1>4 DEF EscapeByte
  <2>2. /\ mod'.shift = mod.shift /\ mod'.ctrl = mod.ctrl /\ mod'.alt = mod.alt
        /\ mod'.altgr = mod.altgr /\ mod'.key_state = mod.key_state /\ mod'.escape = TRUE
    BY <2>1 DEF TypeOK, Modifiers
  <2> QED
    BY <2>1, <2>2 DEF KeyInv, Down, create_key_state
<1>5. ASSUME NEW t \in Ttys,
             \/ \E size \in 0 .. MaxSize : Read(t, size)
             \/ Test(t) \/ Index(t) \/ Fetch(t) \/ Advance(t) \/ Wrap(t)
      PROVE  UNCHANGED <<mod, held, pending>>
  BY <1>5 DEF Read, Test, Index, Fetch, Advance, Wrap, kernel, hardware
<1> QED
  BY <1>1, <1>2, <1>3, <1>4, <1>5 DEF Next, vars

\* For any keyboard without CapsLock, in whatever order its keys are pressed and
\* released and wherever the readers are: no modifier of kbd.c outlives its keys.
THEOREM TtyInputNoStuckModifier ==
    ASSUME \A k \in Keys : k.row # "CALOCK"
    PROVE  Spec => []NoStuckModifier
<1>1. Init => KeyInv
  BY DEF Init, KeyInv, create_key_state
<1>2. TypeOK /\ KeyInv /\ [Next]_vars => KeyInv'
  BY KeysKeep
<1>3. TypeOK /\ KeyInv => NoStuckModifier
  BY DEF TypeOK, Modifiers, KeyInv, Down, NoStuckModifier, create_key_state
<1> QED
  BY <1>1, <1>2, <1>3, TtyInputTypes, PTL DEF Spec
=============================================================================
