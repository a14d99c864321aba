---------------------------- MODULE DeviceProofs ----------------------------
(***************************************************************************)
(* /dev/nish: its buffer is never overrun, holds one command at a time and *)
(* is given back, for every size of it, every number of shells and all     *)
(* commands.  The floppy disk: every request moves its own sectors and no  *)
(* others, for every geometry and length of requests.  The early console:  *)
(* it writes inside the screen and shows the end of the text, for every    *)
(* size of the screen and all outputs.  The clock: time() and sleep() are  *)
(* right for every date and all ticks.                                     *)
(***************************************************************************)
EXTENDS NishDev, Floppy, Console, Calendar, FiniteSetTheorems, SequenceTheorems, TLAPS

-----------------------------------------------------------------------------
(***************************************************************************)
(* The command device                                                      *)
(***************************************************************************)

Bytes == NishChars \cup {NUL}

FirstZero(buf, k) == buf[k] = NUL /\ \A j \in 1 .. k - 1 : buf[j] # NUL

\* What may be interpreted: a command, or its front if a shell is clearing
Whole(text, clearing) == text \in Commands \cup {<<>>} \/ (clearing /\ FrontOfOne(text))

\* The front of what is in the buffer is a command already interpreted or its front,
\* unless the buffer is free or filled by a command that did not fit
FrontOK ==
    \/ buf_pos \in {0, STRLEN - 1}
    \/ \E k \in 1 .. buf_pos : FirstZero(nish_buf, k) /\ Whole(SubSeq(nish_buf, 1, k - 1), Clearing)

NishInv ==
    /\ NishTerminated /\ CommandsWhole /\ FrontOK
    /\ nish_buf \in [1 .. STRLEN -> Bytes] /\ cleared \in [Shells -> 0 .. STRLEN]

\* A buffer is a sequence, and the command in it ends before its first zero.
LEMMA CommandBefore ==
    ASSUME NEW buf \in [1 .. STRLEN -> Bytes], NEW k \in 1 .. STRLEN, FirstZero(buf, k)
    PROVE  Command(buf) = SubSeq(buf, 1, k - 1)
<1> DEFINE I == {i \in 1 .. Len(buf) : buf[i] = NUL}
<1>0. STRLEN \in Nat
  BY NishAssumption
<1>1. Len(buf) = STRLEN
  BY <1>0
<1>2. k \in I /\ \A i \in I : k <= i
  BY <1>0, <1>1 DEF FirstZero
<1>3. Min(I) = k
  BY <1>0, <1>1, <1>2 DEF Min
<1>4. SelectInSeq(buf, LAMBDA c : c = NUL) = k
  BY <1>2, <1>3 DEF SelectInSeq
<1>5. QED
  BY <1>4 DEF Command

\* What a write leaves of a command: all of it with its zero, or its front.
LEMMA BytesOfCommand ==
    ASSUME NEW c \in Commands, buf_pos \in 0 .. STRLEN - 1
    PROVE  LET bytes == SubSeq(Append(c, NUL), 1, Room(Len(c) + 1))
           IN  /\ Len(bytes) \in Nat /\ Len(c) \in Nat
               /\ \A i \in 1 .. Len(bytes) :
                     bytes[i] \in Bytes /\ bytes[i] = IF i <= Len(c) THEN c[i] ELSE NUL
               /\ \A i \in 1 .. Len(c) : c[i] \in NishChars
               /\ Len(bytes) # Len(c) + 1 => buf_pos + Len(bytes) = STRLEN - 1
               /\ buf_pos + Len(bytes) <= STRLEN - 1
<1> DEFINE line == Append(c, NUL)
           size == Room(Len(c) + 1)
<1>1. c \in Seq(NishChars) /\ c \in Seq(Bytes) /\ STRLEN \in Nat \ {0}
  BY NishAssumption DEF Bytes
<1>2. NUL \in Bytes
  BY DEF Bytes
<1>3. /\ Len(c) \in Nat /\ Len(line) = Len(c) + 1
      /\ \A i \in 1 .. Len(line) : line[i] \in Bytes /\ line[i] = IF i <= Len(c) THEN c[i] ELSE NUL
  BY <1>1, <1>2, AppendProperties, LenProperties, ElementOfSeq
<1>4. /\ size \in 0 .. Len(line) /\ buf_pos + size <= STRLEN - 1
      /\ size # Len(c) + 1 => buf_pos + size = STRLEN - 1
  BY <1>1, <1>3 DEF Room
<1>5. \A i \in 1 .. Len(c) : c[i] \in NishChars
  BY <1>1, ElementOfSeq
<1> HIDE DEF line, size
<1>6. /\ Len(SubSeq(line, 1, size)) = size
      /\ \A i \in 1 .. size : SubSeq(line, 1, size)[i] = line[i]
  BY <1>3, <1>4, SubSeqProperties
<1>7. QED
  BY <1>3, <1>4, <1>5, <1>6 DEF line, size

\* A write keeps the invariant: a whole command is interpreted as it was written if
\* the buffer was free, and else the one in front of it is interpreted once more.
LEMMA WriteKeeps ==
    ASSUME NishInv, NEW p \in Shells, NEW c \in Commands, nish_write(p, c)
    PROVE  NishInv'
<1> DEFINE bytes == SubSeq(Append(c, NUL), 1, Room(Len(c) + 1))
           whole == Len(bytes) = Len(c) + 1
           new == Appended(bytes)
           text == Command(new)
<1>1. /\ STRLEN \in Nat \ {0} /\ buf_pos \in 0 .. STRLEN - 1 /\ NUL \notin NishChars
      /\ nish_buf \in [1 .. STRLEN -> Bytes] /\ c \in Seq(NishChars)
  BY NishAssumption DEF NishInv, NishTerminated
<1>2. /\ Len(bytes) \in Nat /\ Len(c) \in Nat
      /\ \A i \in 1 .. Len(bytes) :
            bytes[i] \in Bytes /\ bytes[i] = IF i <= Len(c) THEN c[i] ELSE NUL
      /\ \A i \in 1 .. Len(c) : c[i] \in NishChars
      /\ ~whole => buf_pos + Len(bytes) = STRLEN - 1
      /\ buf_pos + Len(bytes) <= STRLEN - 1
  BY <1>1, BytesOfCommand
<1>3. /\ run' = IF whole THEN [text |-> text, clearing |-> Clearing] ELSE run
      /\ cleared' = cleared
      /\ \/ whole /\ nish_buf' = Zeros /\ buf_pos' = 0
         \/ nish_buf' = new /\ buf_pos' = buf_pos + Len(bytes)
  BY Zenon DEF nish_write
<1> HIDE DEF bytes
<1>4. /\ new \in [1 .. STRLEN -> Bytes]
      /\ \A i \in 1 .. buf_pos : new[i] = nish_buf[i]
      /\ \A i \in 1 .. Len(bytes) : new[buf_pos + i] = bytes[i]
      /\ new[STRLEN] = nish_buf[STRLEN]
  BY <1>1, <1>2 DEF Appended
<1> HIDE DEF new
<1>5. ASSUME whole
      PROVE  \E k \in 1 .. buf_pos + Len(bytes) :
                FirstZero(new, k) /\ Whole(SubSeq(new, 1, k - 1), Clearing)
  <2>1. CASE buf_pos = 0
    <3>1. FirstZero(new, Len(c) + 1)
      BY <1>1, <1>2, <1>4, <1>5, <2>1, SMTT(30) DEF FirstZero
    <3>2. \A i \in 1 .. Len(c) : new[i] = c[i] /\ new[i] \in NishChars
      BY <1>1, <1>2, <1>4, <1>5, <2>1
    <3>3. /\ SubSeq(new, 1, Len(c)) \in Seq(NishChars) /\ Len(SubSeq(new, 1, Len(c))) = Len(c)
          /\ \A i \in 1 .. Len(c) : SubSeq(new, 1, Len(c))[i] = new[i]
      BY <1>2, <3>2, SubSeqProperties
    <3>4. SubSeq(new, 1, Len(c)) = c
      BY <1>1, <3>2, <3>3, SeqEqual
    <3>5. Len(c) + 1 \in 1 .. buf_pos + Len(bytes) /\ (Len(c) + 1) - 1 = Len(c)
      BY <1>2, <1>5, <2>1
    <3>6. QED
      BY <3>1, <3>4, <3>5 DEF Whole
  <2>2. CASE buf_pos = STRLEN - 1
    BY <1>1, <1>2, <1>5, <2>2
  <2>3. CASE \E k \in 1 .. buf_pos :
               FirstZero(nish_buf, k) /\ Whole(SubSeq(nish_buf, 1, k - 1), Clearing)
    <3>1. PICK k \in 1 .. buf_pos :
               FirstZero(nish_buf, k) /\ Whole(SubSeq(nish_buf, 1, k - 1), Clearing)
      BY <2>3
    <3>2. FirstZero(new, k)
      BY <1>1, <1>4, <3>1 DEF FirstZero
    <3>3. \A i \in 1 .. k - 1 : new[i] = nish_buf[i] /\ new[i] \in Bytes
      BY <1>1, <1>4, <3>1
    <3>4. /\ SubSeq(new, 1, k - 1) \in Seq(Bytes) /\ SubSeq(nish_buf, 1, k - 1) \in Seq(Bytes)
          /\ Len(SubSeq(new, 1, k - 1)) = k - 1 /\ Len(SubSeq(nish_buf, 1, k - 1)) = k - 1
          /\ \A i \in 1 .. k - 1 : /\ SubSeq(new, 1, k - 1)[i] = new[i]
                                   /\ SubSeq(nish_buf, 1, k - 1)[i] = nish_buf[i]
      BY <1>1, <3>1, <3>3, SubSeqProperties
    <3>5. SubSeq(new, 1, k - 1) = SubSeq(nish_buf, 1, k - 1)
      BY <3>3, <3>4, SeqEqual
    <3>6. k \in 1 .. buf_pos + Len(bytes)
      BY <1>1, <1>2
    <3>7. QED
      BY <3>1, <3>2, <3>5, <3>6
  <2>4. QED
    BY <2>1, <2>2, <2>3 DEF NishInv, FrontOK
<1>6. CommandsWhole'
  <2>1. CASE ~whole
    BY <1>3, <2>1 DEF NishInv, CommandsWhole
  <2>2. CASE whole
    <3>1. PICK k \in 1 .. buf_pos + Len(bytes) :
             FirstZero(new, k) /\ Whole(SubSeq(new, 1, k - 1), Clearing)
      BY <1>5, <2>2
    <3>2. k \in 1 .. STRLEN
      BY <1>1, <1>2
    <3>3. text = SubSeq(new, 1, k - 1)
      BY <1>4, <3>1, <3>2, CommandBefore, Zenon
    <3>4. QED
      BY <1>3, <2>2, <3>1, <3>3 DEF CommandsWhole, Whole
  <2>3. QED
    BY <2>1, <2>2
<1>7. FrontOK'
  <2>1. CASE nish_buf' = Zeros /\ buf_pos' = 0
    BY <2>1 DEF FrontOK
  <2>2. CASE nish_buf' = new /\ buf_pos' = buf_pos + Len(bytes)
    <3>1. CASE ~whole
      BY <1>2, <2>2, <3>1 DEF FrontOK
    <3>2. CASE whole
      BY <1>3, <1>5, <2>2, <3>2 DEF FrontOK, FirstZero, Clearing
    <3>3. QED
      BY <3>1, <3>2
  <2>3. QED
    BY <1>3, <2>1, <2>2
<1>8. nish_buf' \in [1 .. STRLEN -> Bytes]
  BY <1>3, <1>4 DEF Zeros, Bytes
<1>9. NishTerminated'
  BY <1>1, <1>2, <1>3, <1>4 DEF NishInv, NishTerminated, Zeros
<1>10. QED
  BY <1>3, <1>6, <1>7, <1>8, <1>9 DEF NishInv

\* What a front of a command is, place by place.
LEMMA FrontMeans ==
    ASSUME NEW buf \in [1 .. STRLEN -> Bytes], NEW k \in 1 .. STRLEN, NEW c \in Commands
    PROVE  IsPrefix(SubSeq(buf, 1, k - 1), c)
              <=> k - 1 <= Len(c) /\ \A j \in 1 .. k - 1 : buf[j] = c[j]
<1> DEFINE front == SubSeq(buf, 1, k - 1)
           first == SubSeq(c, 1, k - 1)
<1>1. c \in Seq(NishChars) /\ Len(c) \in Nat /\ STRLEN \in Nat
  BY NishAssumption
<1>2. \A j \in 1 .. k - 1 : buf[j] \in Bytes
  BY <1>1
<1>3. front \in Seq(Bytes) /\ Len(front) = k - 1 /\ \A j \in 1 .. k - 1 : front[j] = buf[j]
  BY <1>1, <1>2, SubSeqProperties
<1>4. SubSeq(front, 1, Len(front)) = front
  <2>1. \A j \in 1 .. k - 1 : front[j] \in Bytes
    BY <1>2, <1>3
  <2> HIDE DEF front
  <2>2. /\ SubSeq(front, 1, k - 1) \in Seq(Bytes) /\ Len(SubSeq(front, 1, k - 1)) = k - 1
        /\ \A j \in 1 .. k - 1 : SubSeq(front, 1, k - 1)[j] = front[j]
    BY <1>1, <1>3, <2>1, SubSeqProperties
  <2>3. QED
    BY <1>3, <2>2, SeqEqual
<1>5. ASSUME k - 1 <= Len(c)
      PROVE  first \in Seq(NishChars) /\ Len(first) = k - 1 /\ \A j \in 1 .. k - 1 : first[j] = c[j]
  <2>1. \A j \in 1 .. k - 1 : c[j] \in NishChars
    BY <1>1, <1>5, ElementOfSeq
  <2>2. QED
    BY <1>1, <1>5, <2>1, SubSeqProperties
<1> HIDE DEF front, first
<1>6. IsPrefix(front, c) <=> k - 1 <= Len(c) /\ front = first
  BY <1>3, <1>4 DEF IsPrefix, first
<1>7. ASSUME k - 1 <= Len(c)
      PROVE  front = first <=> \A j \in 1 .. k - 1 : buf[j] = c[j]
  <2>1. ASSUME \A j \in 1 .. k - 1 : buf[j] = c[j]
        PROVE  front = first
    BY <1>1, <1>3, <1>5, <1>7, <2>1, SeqEqual
  <2>2. QED
    BY <1>3, <1>5, <1>7, <2>1
<1>8. QED
  BY <1>6, <1>7 DEF front

\* memset leaves a shorter front of the command, and then a shell is clearing.
LEMMA ClearKeeps ==
    ASSUME NishInv, NEW p \in Shells, ClearByte(p)
    PROVE  NishInv'
<1> DEFINE i == cleared[p] + 1
<1>1. /\ STRLEN \in Nat \ {0} /\ buf_pos \in 0 .. STRLEN - 1 /\ i \in 1 .. STRLEN
      /\ nish_buf \in [1 .. STRLEN -> Bytes] /\ cleared \in [Shells -> 0 .. STRLEN]
  BY NishAssumption DEF NishInv, NishTerminated, ClearByte
<1>2. /\ nish_buf' = [nish_buf EXCEPT ![i] = NUL] /\ buf_pos' = buf_pos /\ run' = run
      /\ cleared' = [cleared EXCEPT ![p] = i]
  BY DEF ClearByte
<1>3. Clearing'
  BY <1>1, <1>2 DEF Clearing
<1> HIDE DEF i
<1>4. nish_buf' \in [1 .. STRLEN -> Bytes] /\ cleared' \in [Shells -> 0 .. STRLEN]
  BY <1>1, <1>2 DEF Bytes
<1>5. NishTerminated' /\ CommandsWhole'
  BY <1>1, <1>2 DEF NishInv, NishTerminated, CommandsWhole
<1>6. ASSUME NEW k \in 1 .. buf_pos, FirstZero(nish_buf, k),
             Whole(SubSeq(nish_buf, 1, k - 1), Clearing)
      PROVE  FrontOK'
  <2> DEFINE m == IF i < k THEN i ELSE k
  <2>1. m \in 1 .. buf_pos' /\ m \in 1 .. STRLEN /\ k \in 1 .. STRLEN /\ m <= k
    BY <1>1, <1>2
  <2>2. FirstZero(nish_buf', m) /\ \A j \in 1 .. m - 1 : nish_buf'[j] = nish_buf[j]
    BY <1>1, <1>2, <1>6, <2>1 DEF FirstZero
  <2>3. Whole(SubSeq(nish_buf', 1, m - 1), TRUE)
    <3>1. CASE SubSeq(nish_buf, 1, k - 1) = <<>>
      <4>1. \A j \in 1 .. k - 1 : nish_buf[j] \in Bytes
        BY <1>1, <2>1
      <4>2. Len(SubSeq(nish_buf, 1, k - 1)) = k - 1
        BY <2>1, <4>1, SubSeqProperties
      <4>3. k - 1 = 0
        BY <2>1, <3>1, <4>2
      <4>4. m = 1
        BY <1>1, <2>1, <4>3
      <4>5. SubSeq(nish_buf', 1, 1 - 1) = <<>>
        BY SubSeqEmpty
      <4>6. QED
        BY <4>4, <4>5 DEF Whole
    <3>2. CASE FrontOfOne(SubSeq(nish_buf, 1, k - 1))
      <4>1. PICK c \in Commands : IsPrefix(SubSeq(nish_buf, 1, k - 1), c)
        BY <3>2 DEF FrontOfOne
      <4>2. k - 1 <= Len(c) /\ \A j \in 1 .. k - 1 : nish_buf[j] = c[j]
        BY <1>1, <2>1, <4>1, FrontMeans
      <4>3. Len(c) \in Nat
        BY NishAssumption
      <4>4. m - 1 <= Len(c) /\ \A j \in 1 .. m - 1 : nish_buf'[j] = c[j]
        BY <2>1, <2>2, <4>2, <4>3
      <4>5. IsPrefix(SubSeq(nish_buf', 1, m - 1), c)
        BY <1>4, <2>1, <4>4, FrontMeans
      <4>6. QED
        BY <4>5 DEF Whole, FrontOfOne
    <3>3. CASE SubSeq(nish_buf, 1, k - 1) \in Commands
      <4>1. \A j \in 1 .. k - 1 : nish_buf[j] \in Bytes
        BY <1>1, <2>1
      <4>2. /\ Len(SubSeq(nish_buf, 1, k - 1)) = k - 1
            /\ \A j \in 1 .. k - 1 : SubSeq(nish_buf, 1, k - 1)[j] = nish_buf[j]
        BY <2>1, <4>1, SubSeqProperties
      <4>3. PICK c \in Commands : c = SubSeq(nish_buf, 1, k - 1)
        BY <3>3
      <4>4. k - 1 <= Len(c) /\ \A j \in 1 .. k - 1 : nish_buf[j] = c[j]
        BY <2>1, <4>2, <4>3
      <4>5. IsPrefix(SubSeq(nish_buf, 1, k - 1), c)
        BY <1>1, <2>1, <4>4, FrontMeans
      <4>6. QED
        BY <3>2, <4>5 DEF FrontOfOne
    <3>4. QED
      BY <1>6, <3>1, <3>2, <3>3 DEF Whole
  <2> HIDE DEF m
  <2>4. QED
    BY <1>3, <2>1, <2>2, <2>3 DEF FrontOK, FirstZero, Whole, FrontOfOne
<1>7. FrontOK'
  BY <1>2, <1>6 DEF NishInv, FrontOK
<1>8. QED
  BY <1>4, <1>5, <1>7 DEF NishInv

\* The invariant of the device.
LEMMA NishInvariant == NishSpec => []NishInv
<1>1. NishInit => NishInv
  BY NishAssumption DEF NishInit, NishInv, NishTerminated, CommandsWhole, FrontOK, Zeros, Bytes
<1>2. NishInv /\ [NishNext]_nishVars => NishInv'
  <2> SUFFICES ASSUME NishInv, [NishNext]_nishVars
               PROVE  NishInv'
    OBVIOUS
  <2>1. CASE UNCHANGED nishVars
    BY <2>1 DEF nishVars, NishInv, NishTerminated, CommandsWhole, FrontOK, FirstZero, Clearing
  <2>2. ASSUME NEW p \in Shells, NEW c \in Commands, nish_write(p, c)
        PROVE  NishInv'
    BY <2>2, WriteKeeps
  <2>3. ASSUME NEW p \in Shells, ExecReturns(p)
        PROVE  NishInv'
    BY <2>3 DEF ExecReturns, NishInv, NishTerminated, CommandsWhole, FrontOK, FirstZero, Clearing
  <2>4. ASSUME NEW p \in Shells, ClearByte(p)
        PROVE  NishInv'
    BY <2>4, ClearKeeps
  <2>5. ASSUME NEW p \in Shells, ResetPosition(p)
        PROVE  NishInv'
    BY <2>5, NishAssumption DEF ResetPosition, NishInv, NishTerminated, CommandsWhole, FrontOK
  <2>6. QED
    BY <2>1, <2>2, <2>3, <2>4, <2>5 DEF NishNext
<1>3. QED
  BY <1>1, <1>2, PTL DEF NishSpec

\* For every size of the buffer, every number of shells and all commands: what is
\* interpreted is a command as one shell wrote it, or the front of one while another
\* shell clears the buffer byte by byte, and its end is inside the buffer, whatever
\* the shells write between the steps of one another.
THEOREM NishSafe == NishSpec => []CommandsRun
<1>1. NishInv => CommandsRun
  BY DEF NishInv, CommandsRun
<1>2. QED
  BY <1>1, NishInvariant, PTL

\* Whoever left something in the buffer is on the way to clear it, unless a
\* command found no room: for every byte that is not zero there is a shell that has
\* not come to it yet.
Owed ==
    ~clipped =>
      /\ \A i \in 1 .. STRLEN : nish_buf[i] # NUL =>
            \E p \in Shells : at[p] = "exec" \/ (at[p] = "memset" /\ cleared[p] < i)
      /\ buf_pos = 0 \/ \E p \in Shells : at[p] # "user"

PlacesOK ==
    /\ at \in [Shells -> {"user", "exec", "memset"}]
    /\ cleared \in [Shells -> 0 .. STRLEN] /\ \A p \in Shells : at[p] # "memset" => cleared[p] = 0
    /\ nish_buf \in [1 .. STRLEN -> NishChars \cup {NUL}]

\* Between commands that fit, the device always comes back to an empty buffer,
\* for every size of it and every number of shells.
THEOREM NishComesBack == NishSpec => []NishReady
<1> DEFINE I == Owed /\ PlacesOK
<1>0. STRLEN \in Nat \ {0}
  BY NishAssumption
<1>1. NishInit => I
  BY <1>0 DEF NishInit, Owed, PlacesOK, Zeros
<1>2. NishInv /\ I /\ [NishNext]_nishVars => I'
  <2> SUFFICES ASSUME NishInv, Owed, PlacesOK, [NishNext]_nishVars
               PROVE  Owed' /\ PlacesOK'
    OBVIOUS
  <2>1. CASE UNCHANGED nishVars
    BY <2>1 DEF nishVars, Owed, PlacesOK
  <2>2. ASSUME NEW p \in Shells, NEW c \in Commands, nish_write(p, c)
        PROVE  Owed' /\ PlacesOK'
    <3>1. \E whole, execs \in BOOLEAN :
            /\ clipped' = (clipped \/ ~whole) /\ cleared' = cleared
            /\ at' = [at EXCEPT ![p] = IF whole /\ execs THEN "exec" ELSE "user"]
            /\ whole /\ ~execs => nish_buf' = Zeros /\ buf_pos' = 0
      BY <2>2, Zenon DEF nish_write
    <3>2. at[p] = "user"
      BY <2>2 DEF nish_write
    <3>3. nish_buf' \in [1 .. STRLEN -> NishChars \cup {NUL}]
      <4>1. NishInv'
        BY <2>2, WriteKeeps
      <4>2. QED
        BY <4>1 DEF NishInv, Bytes
    <3>4. PlacesOK'
      BY <3>1, <3>2, <3>3 DEF PlacesOK
    <3>5. Owed'
      BY <3>1, <3>2 DEF PlacesOK, Owed, Zeros
    <3>6. QED
      BY <3>4, <3>5
  <2>3. ASSUME NEW p \in Shells, ExecReturns(p)
        PROVE  Owed' /\ PlacesOK'
    <3>1. PlacesOK'
      BY <2>3 DEF ExecReturns, PlacesOK
    <3>2. ASSUME ~clipped', NEW i \in 1 .. STRLEN, nish_buf'[i] # NUL
          PROVE  \E q \in Shells : at'[q] = "exec" \/ (at'[q] = "memset" /\ cleared'[q] < i)
      <4>1. at'[p] = "memset" /\ cleared'[p] = 0
        BY <2>3 DEF ExecReturns, PlacesOK
      <4>2. QED
        BY <1>0, <4>1
    <3>3. Owed'
      BY <2>3, <3>2 DEF ExecReturns, PlacesOK, Owed
    <3>4. QED
      BY <3>1, <3>3
  <2>4. ASSUME NEW p \in Shells, ClearByte(p)
        PROVE  Owed' /\ PlacesOK'
    <3>1. PlacesOK'
      BY <1>0, <2>4 DEF ClearByte, PlacesOK
    <3>2. ASSUME ~clipped', NEW i \in 1 .. STRLEN, nish_buf'[i] # NUL
          PROVE  \E q \in Shells : at'[q] = "exec" \/ (at'[q] = "memset" /\ cleared'[q] < i)
      <4>1. i # cleared[p] + 1 /\ nish_buf[i] # NUL /\ ~clipped
        BY <1>0, <2>4, <3>2 DEF ClearByte, PlacesOK
      <4>2. PICK q \in Shells : at[q] = "exec" \/ (at[q] = "memset" /\ cleared[q] < i)
        BY <4>1 DEF Owed
      <4>3. QED
        BY <1>0, <2>4, <4>1, <4>2 DEF ClearByte, PlacesOK
    <3>3. Owed'
      BY <2>4, <3>2 DEF ClearByte, Owed
    <3>4. QED
      BY <3>1, <3>3
  <2>5. ASSUME NEW p \in Shells, ResetPosition(p)
        PROVE  Owed' /\ PlacesOK'
    <3>1. PlacesOK'
      BY <1>0, <2>5 DEF ResetPosition, PlacesOK
    <3>2. ASSUME ~clipped', NEW i \in 1 .. STRLEN, nish_buf'[i] # NUL
          PROVE  \E q \in Shells : at'[q] = "exec" \/ (at'[q] = "memset" /\ cleared'[q] < i)
      <4>1. PICK q \in Shells : at[q] = "exec" \/ (at[q] = "memset" /\ cleared[q] < i)
        BY <2>5, <3>2 DEF ResetPosition, Owed
      <4>2. QED
        BY <1>0, <2>5, <4>1 DEF ResetPosition, PlacesOK
    <3>3. Owed'
      BY <2>5, <3>2 DEF ResetPosition, Owed
    <3>4. QED
      BY <3>1, <3>3
  <2>6. QED
    BY <2>1, <2>2, <2>3, <2>4, <2>5 DEF NishNext
<1>3. I => NishReady
  <2> SUFFICES ASSUME Owed, PlacesOK, ~clipped, \A p \in Shells : at[p] = "user"
               PROVE  nish_buf = Zeros /\ buf_pos = 0
    BY DEF NishReady
  <2>1. \A i \in 1 .. STRLEN : nish_buf[i] = NUL
    BY DEF Owed
  <2>2. QED
    BY <2>1 DEF Owed, PlacesOK, Zeros
<1>4. QED
  BY <1>1, <1>2, <1>3, NishInvariant, PTL DEF NishSpec

-----------------------------------------------------------------------------
(***************************************************************************)
(* The floppy disk                                                         *)
(***************************************************************************)

\* The number of a sector comes back from its head, its track and its place there.
LEMMA GeometryRight ==
    ASSUME NEW block \in Nat
    PROVE  LET hts == block2hts(block)
           IN  /\ hts.head \in Nat /\ hts.track \in Nat /\ hts.sector \in Nat \ {0}
               /\ hts.track * Heads * Spt + hts.head * Spt + hts.sector - 1 = block
<1>1. Heads \in Nat \ {0} /\ Spt \in Nat \ {0}
  BY FloppyAssumption
<1> DEFINE c == Spt * Heads
           t == block \div c
           r == block % c
           h == r \div Spt
           s == r % Spt
<1>2. c \in Nat \ {0}
  BY <1>1
<1>3. t \in Nat /\ r \in Nat /\ r < c /\ block = c * t + r
  <2> HIDE DEF c
  <2> QED
    BY <1>2
<1>4. h \in Nat /\ s \in Nat /\ s < Spt /\ r = Spt * h + s
  <2> HIDE DEF r
  <2> QED
    BY <1>1, <1>3
<1>5. block % Spt = s
  <2> HIDE DEF t, r, h, s
  <2>1. block = Spt * (Heads * t + h) + s /\ Heads * t + h \in Nat
    BY <1>1, <1>3, <1>4
  <2>2. ASSUME NEW q \in Nat, block = Spt * q + s PROVE block % Spt = s
    <3>1. block = Spt * (block \div Spt) + (block % Spt) /\ block % Spt \in 0 .. Spt - 1
          /\ block \div Spt \in Nat
      BY <1>1
    <3>2. q = block \div Spt
      BY <1>1, <1>4, <2>2, <3>1
    <3> QED
      BY <1>1, <1>4, <2>2, <3>1, <3>2
  <2> QED
    BY <2>1, <2>2
<1>6. block = t * Heads * Spt + h * Spt + s
  <2> HIDE DEF t, r, h, s
  <2> QED
    BY <1>1, <1>3, <1>4
<1>7. block2hts(block) = [head |-> h, track |-> t, sector |-> s + 1]
  BY <1>5 DEF block2hts
<1> HIDE DEF t, r, h, s
<1>8. PICK a \in Nat, b \in Nat : a = t * Heads * Spt /\ b = h * Spt
  BY <1>1, <1>3, <1>4
<1>9. t * Heads * Spt + h * Spt + (s + 1) - 1 = block
  BY <1>4, <1>6, <1>8
<1> DEFINE hts == block2hts(block)
<1>10. hts.head = h /\ hts.track = t /\ hts.sector = s + 1
  BY <1>7
<1> HIDE DEF hts
<1>11. /\ hts.head \in Nat /\ hts.track \in Nat /\ hts.sector \in Nat \ {0}
       /\ hts.track * Heads * Spt + hts.head * Spt + hts.sector - 1 = block
  BY <1>3, <1>4, <1>9, <1>10
<1> QED
  BY <1>11 DEF hts

FloppyCalls == [block : Nat, at : Nat, n : Nat]
FloppyDriver == [pc : {"idle", "try"}, todo : Seq(FloppyCalls), tries : Nat, fdc_track : Nat]
FloppyDrive == [cyl : Nat, line : BOOLEAN, changes : Nat, disk : [0..SectorCount - 1 -> Int]]
FloppyRequests == [cmd : {"none", "read", "write"}, sector : Nat, count : Nat, failed : BOOLEAN,
                   buffer : [1..MaxCount -> Int]]

FloppyTypes ==
    /\ fd \in FloppyDriver /\ drive \in FloppyDrive /\ req \in FloppyRequests
    /\ tb \in [1..MaxCount -> Int]

\* A call of fdc_rw moves a part of the request, from and to where it belongs.
PartOfRequest(c) ==
    /\ c.at \in 1..req.count /\ c.n \in 1..req.count - c.at + 1
    /\ c.block = req.sector + c.at - 1

InCall(i, c) == c.at <= i /\ i <= c.at + c.n - 1

RequestFits == req.sector + req.count <= SectorCount /\ req.count <= MaxCount

CallsRight ==
    /\ \A k \in 1..Len(fd.todo) : PartOfRequest(fd.todo[k])
    /\ fd.pc = "try" <=> fd.todo # <<>>
    /\ fd.pc = "try" => req.cmd # "none"

\* What a read has still to fetch is in a call to come; nothing on the disk changes.
ReadRight ==
    req.cmd # "write" =>
      /\ \A b \in 0..SectorCount - 1 : drive.disk[b] = Old(b)
      /\ ~req.failed => \A i \in 1..req.count :
           \/ \E k \in 1..Len(fd.todo) : InCall(i, fd.todo[k])
           \/ req.buffer[i] = drive.disk[req.sector + i - 1]

\* A write is one call, whose data stays in the track buffer.
WriteRight ==
    req.cmd = "write" =>
      /\ \A i \in 1..req.count : tb[i] = New(i)
      /\ Len(fd.todo) <= 1
      /\ \A k \in 1..Len(fd.todo) : fd.todo[k].at = 1 /\ fd.todo[k].n = req.count
      /\ fd.pc = "idle" /\ ~req.failed =>
           \A i \in 1..req.count : drive.disk[req.sector + i - 1] = New(i)

FloppyInv ==
    /\ FloppyTypes /\ RequestFits /\ CallsRight /\ ReadRight /\ WriteRight
    /\ OthersKept /\ HeadWhereBelieved

\* The sizes of the disk.
LEMMA FloppyConstants ==
    /\ SectorCount \in Nat /\ MaxCount \in Nat \ {0} /\ Heads \in Nat \ {0} /\ Spt \in Nat \ {0}
    /\ Unknown \in Nat
<1>1. Heads \in Nat \ {0} /\ Tracks \in Nat \ {0} /\ Spt \in Nat \ {0} /\ MaxCount \in Nat \ {0}
  BY FloppyAssumption
<1>2. SectorCount \in Nat
  BY <1>1 DEF SectorCount
<1> QED
  BY <1>1, <1>2 DEF Unknown

\* What moving the head leaves alone.
HeadMoves(d, f, s) ==
    /\ s.d \in FloppyDrive /\ s.f \in FloppyDriver
    /\ s.d.disk = d.disk /\ s.f.pc = f.pc /\ s.f.todo = f.todo /\ s.f.tries = f.tries

\* seek moves the head to the track, and nothing else.
LEMMA SeeksMoves ==
    ASSUME NEW d \in FloppyDrive, NEW f \in FloppyDriver, NEW track \in Nat, NEW early \in BOOLEAN
    PROVE  /\ HeadMoves(d, f, Seeks(d, f, track, early))
           /\ f.fdc_track # track =>
                /\ Seeks(d, f, track, early).d.cyl = track
                /\ Seeks(d, f, track, early).f.fdc_track = IF early THEN Unknown ELSE track
<1> DEFINE s == Seeks(d, f, track, early)
<1>1. CASE f.fdc_track = track
  <2>1. s.d = d /\ s.f = f
    BY <1>1 DEF Seeks
  <2> QED
    BY <1>1, <2>1 DEF HeadMoves
<1>2. CASE f.fdc_track # track
  <2>1. /\ s.d = [d EXCEPT !.cyl = track, !.line = FALSE]
        /\ s.f = [f EXCEPT !.fdc_track = IF early THEN Unknown ELSE track]
    BY <1>2 DEF Seeks, waitfdc
  <2>2. (IF early THEN Unknown ELSE track) \in Nat
    BY FloppyConstants
  <2> HIDE DEF s
  <2>3. s.d \in FloppyDrive /\ s.d.disk = d.disk /\ s.d.cyl = track
    BY <2>1 DEF FloppyDrive
  <2>4. /\ s.f \in FloppyDriver /\ s.f.pc = f.pc /\ s.f.todo = f.todo /\ s.f.tries = f.tries
        /\ s.f.fdc_track = IF early THEN Unknown ELSE track
    BY <2>1, <2>2 DEF FloppyDriver
  <2> QED
    BY <1>2, <2>3, <2>4 DEF HeadMoves, s
<1> QED
  BY <1>1, <1>2

\* recalibrate moves the head to cylinder 0.
LEMMA RecalibrateMoves ==
    ASSUME NEW d \in FloppyDrive, NEW f \in FloppyDriver, NEW early \in BOOLEAN
    PROVE  /\ HeadMoves(d, f, recalibrate(d, f, early))
           /\ recalibrate(d, f, early).d.cyl = 0
           /\ recalibrate(d, f, early).f.fdc_track \in {0, Unknown}
<1> DEFINE s == recalibrate(d, f, early)
<1>1. /\ s.d = [d EXCEPT !.cyl = 0]
      /\ s.f = [f EXCEPT !.fdc_track = IF early THEN Unknown ELSE 0]
  BY DEF recalibrate, waitfdc
<1>2. (IF early THEN Unknown ELSE 0) \in Nat
  BY FloppyConstants
<1> HIDE DEF s
<1>3. s.d \in FloppyDrive /\ s.d.disk = d.disk /\ s.d.cyl = 0
  BY <1>1 DEF FloppyDrive
<1>4. /\ s.f \in FloppyDriver /\ s.f.pc = f.pc /\ s.f.todo = f.todo /\ s.f.tries = f.tries
      /\ s.f.fdc_track \in {0, Unknown}
  BY <1>1, <1>2 DEF FloppyDriver
<1> QED
  BY <1>3, <1>4 DEF HeadMoves, s

\* A call is over: the next one comes, or the request is.
LEMMA OverFields ==
    ASSUME NEW f \in FloppyDriver, f.todo # <<>>
    PROVE  /\ Over(f) \in FloppyDriver /\ Over(f).todo = Tail(f.todo)
           /\ Over(f).pc = IF Len(f.todo) = 1 THEN "idle" ELSE "try"
           /\ Over(f).fdc_track = f.fdc_track
<1>1. f.todo \in Seq(FloppyCalls) /\ Tail(f.todo) \in Seq(FloppyCalls)
  BY HeadTailProperties DEF FloppyDriver
<1> QED
  BY <1>1 DEF Over, FloppyDriver

\* The next call and the ones behind it.
LEMMA TodoFields ==
    ASSUME FloppyInv, fd.pc = "try"
    PROVE  /\ fd.todo # <<>> /\ fd.todo \in Seq(FloppyCalls) /\ Len(fd.todo) \in Nat \ {0}
           /\ Head(fd.todo) = fd.todo[1] /\ Head(fd.todo) \in FloppyCalls
           /\ PartOfRequest(Head(fd.todo))
           /\ Len(Tail(fd.todo)) = Len(fd.todo) - 1
           /\ \A k \in 1..Len(Tail(fd.todo)) : Tail(fd.todo)[k] = fd.todo[k + 1]
           /\ Len(fd.todo) = 1 <=> Tail(fd.todo) = <<>>
           /\ req.sector \in Nat /\ req.count \in Nat /\ req.cmd \in {"read", "write"}
<1>1. fd.todo # <<>> /\ fd.todo \in Seq(FloppyCalls) /\ Len(fd.todo) \in Nat \ {0}
  BY DEF FloppyInv, FloppyTypes, FloppyDriver, CallsRight
<1>2. /\ Head(fd.todo) = fd.todo[1] /\ Head(fd.todo) \in FloppyCalls
      /\ Tail(fd.todo) \in Seq(FloppyCalls)
      /\ Len(Tail(fd.todo)) = Len(fd.todo) - 1
      /\ \A k \in 1..Len(Tail(fd.todo)) : Tail(fd.todo)[k] = fd.todo[k + 1]
  BY <1>1, HeadTailProperties
<1>3. PartOfRequest(Head(fd.todo))
  BY <1>1, <1>2 DEF FloppyInv, CallsRight
<1>4. Len(fd.todo) = 1 <=> Tail(fd.todo) = <<>>
  <2>1. Tail(fd.todo) = <<>> <=> Len(Tail(fd.todo)) = 0
    BY <1>2, EmptySeq
  <2> QED
    BY <1>1, <1>2, <2>1
<1>5. req.sector \in Nat /\ req.count \in Nat /\ req.cmd \in {"read", "write"}
  BY DEF FloppyInv, FloppyTypes, FloppyRequests, CallsRight
<1> QED
  BY <1>1, <1>2, <1>3, <1>4, <1>5

\* Behind a call that is over the others are parts of the request still.
LEMMA AfterCall ==
    ASSUME FloppyInv, fd.pc = "try", fd'.todo = Tail(fd.todo),
           fd'.pc = IF Len(fd.todo) = 1 THEN "idle" ELSE "try",
           req'.cmd = req.cmd, req'.sector = req.sector, req'.count = req.count
    PROVE  CallsRight'
<1>1. \A c : PartOfRequest(c)' <=> PartOfRequest(c)
  BY DEF PartOfRequest
<1>2. \A k \in 1..Len(fd.todo) - 1 : PartOfRequest(fd.todo[k + 1])
  BY TodoFields DEF FloppyInv, CallsRight
<1> QED
  BY <1>1, <1>2, TodoFields DEF CallsRight

\* A step that only moves the head, or nothing.
LEMMA OnlyHeadMoves ==
    ASSUME FloppyInv, fd'.pc = fd.pc, fd'.todo = fd.todo, drive'.disk = drive.disk,
           req' = req, tb' = tb, FloppyTypes', HeadWhereBelieved'
    PROVE  FloppyInv'
<1>1. \A c : PartOfRequest(c)' <=> PartOfRequest(c)
  BY DEF PartOfRequest
<1>2. RequestFits' /\ CallsRight'
  BY <1>1 DEF FloppyInv, RequestFits, CallsRight
<1>3. ReadRight'
  BY DEF FloppyInv, ReadRight
<1>4. WriteRight' /\ OthersKept'
  BY DEF FloppyInv, WriteRight, OthersKept
<1> QED
  BY <1>2, <1>3, <1>4 DEF FloppyInv

\* fdc_rw finds the disk changed.
LEMMA DiskChangedKeeps ==
    ASSUME FloppyInv, NEW early \in BOOLEAN, DiskChanged(early)
    PROVE  FloppyInv'
<1> DEFINE s == Seeks(drive, fd, 1, early)
           r == recalibrate(s.d, s.f, early)
<1>1. drive' = r.d /\ fd' = [r.f EXCEPT !.tries = 0] /\ tb' = tb /\ req' = req
  BY DEF DiskChanged
<1>2. HeadMoves(drive, fd, s)
  BY SeeksMoves DEF FloppyInv, FloppyTypes
<1> HIDE DEF s
<1>3. HeadMoves(s.d, s.f, r) /\ r.d.cyl = 0 /\ r.f.fdc_track \in {0, Unknown}
  BY <1>2, RecalibrateMoves DEF HeadMoves
<1> HIDE DEF r
<1>4. /\ fd' \in FloppyDriver /\ fd'.pc = fd.pc /\ fd'.todo = fd.todo
      /\ fd'.fdc_track \in {0, Unknown} /\ drive' \in FloppyDrive
      /\ drive'.cyl = 0 /\ drive'.disk = drive.disk
  BY <1>1, <1>2, <1>3 DEF HeadMoves, FloppyDriver
<1>5. FloppyTypes' /\ HeadWhereBelieved'
  BY <1>1, <1>4 DEF FloppyInv, FloppyTypes, HeadWhereBelieved
<1> QED
  BY <1>1, <1>4, <1>5, OnlyHeadMoves

\* Another disk is put into the drive.
LEMMA DiskIsChangedKeeps ==
    ASSUME FloppyInv, DiskIsChanged
    PROVE  FloppyInv'
<1>1. fd' = fd /\ tb' = tb /\ req' = req
  BY DEF DiskIsChanged
<1>2. drive' \in FloppyDrive /\ drive'.disk = drive.disk /\ drive'.cyl = drive.cyl
  <2>1. drive' = [drive EXCEPT !.line = TRUE, !.changes = drive.changes + 1]
    BY DEF DiskIsChanged
  <2>2. drive \in FloppyDrive /\ drive.changes + 1 \in Nat
    BY DEF FloppyInv, FloppyTypes, FloppyDrive
  <2> QED
    BY <2>1, <2>2 DEF FloppyDrive
<1>3. FloppyTypes' /\ HeadWhereBelieved'
  BY <1>1, <1>2 DEF FloppyInv, FloppyTypes, HeadWhereBelieved
<1> QED
  BY <1>1, <1>2, <1>3, OnlyHeadMoves

\* A call is over without the disk or the buffers changed: the request has failed.
LEMMA SeekFailsKeeps ==
    ASSUME FloppyInv, SeekFails
    PROVE  FloppyInv'
<1> DEFINE track == block2hts(Head(fd.todo).block).track
           s == Seeks(drive, fd, track, TRUE)
<1>1. /\ fd.pc = "try" /\ fd.fdc_track # track /\ drive' = s.d /\ fd' = Over(s.f)
      /\ req' = [req EXCEPT !.failed = TRUE] /\ tb' = tb
  BY DEF SeekFails
<1>2. track \in Nat
  BY <1>1, TodoFields, GeometryRight DEF FloppyCalls
<1> HIDE DEF track
<1>3. HeadMoves(drive, fd, s) /\ s.f.fdc_track = Unknown
  BY <1>1, <1>2, SeeksMoves DEF FloppyInv, FloppyTypes
<1> HIDE DEF s
<1>4. s.f \in FloppyDriver /\ s.f.todo = fd.todo /\ s.d \in FloppyDrive /\ s.d.disk = drive.disk
  BY <1>3 DEF HeadMoves
<1>5. /\ fd' \in FloppyDriver /\ fd'.todo = Tail(fd.todo) /\ fd'.fdc_track = Unknown
      /\ fd'.pc = IF Len(fd.todo) = 1 THEN "idle" ELSE "try"
  BY <1>1, <1>3, <1>4, TodoFields, OverFields
<1>6. /\ req' \in FloppyRequests /\ req'.failed = TRUE /\ req'.cmd = req.cmd
      /\ req'.sector = req.sector /\ req'.count = req.count /\ req'.buffer = req.buffer
  BY <1>1 DEF FloppyInv, FloppyTypes, FloppyRequests
<1>7. FloppyTypes' /\ HeadWhereBelieved'
  BY <1>1, <1>4, <1>5, <1>6 DEF FloppyInv, FloppyTypes, HeadWhereBelieved
<1>8. RequestFits' /\ OthersKept'
  BY <1>1, <1>4, <1>6 DEF FloppyInv, RequestFits, OthersKept
<1>9. CallsRight'
  BY <1>1, <1>5, <1>6, AfterCall
<1>10. ReadRight'
  BY <1>1, <1>4, <1>6 DEF FloppyInv, ReadRight
<1>11. WriteRight'
  <2>1. req.cmd = "write" => Len(fd'.todo) = 0
    BY <1>1, <1>5, TodoFields DEF FloppyInv, WriteRight
  <2> QED
    BY <1>1, <1>6, <2>1 DEF FloppyInv, WriteRight
<1> QED
  BY <1>7, <1>8, <1>9, <1>10, <1>11 DEF FloppyInv

\* A request is accepted.
LEMMA RequestKeeps ==
    ASSUME FloppyInv, NEW cmd \in {"read", "write"}, NEW sector \in 0..SectorCount,
           NEW asked \in 1..MaxCount, floppy_request(cmd, sector, asked)
    PROVE  FloppyInv'
<1> DEFINE count == IF sector + asked >= SectorCount THEN SectorCount - sector ELSE asked
           whole == [block |-> sector, at |-> 1, n |-> count]
           single == [i \in 1..count |-> [block |-> sector + i - 1, at |-> i, n |-> 1]]
           calls == IF cmd = "read" THEN fdc_read_block(sector, count) ELSE <<whole>>
<1>1. /\ sector < SectorCount
      /\ fd' = [fd EXCEPT !.pc = "try", !.tries = 0, !.todo = calls]
      /\ tb' = IF cmd = "read" THEN [i \in 1..MaxCount |-> Unread]
               ELSE [i \in 1..MaxCount |-> IF i <= count THEN New(i) ELSE Unread]
      /\ req' = [cmd |-> cmd, sector |-> sector, count |-> count, failed |-> FALSE,
                 buffer |-> [i \in 1..MaxCount |-> Unread]]
      /\ drive' = [drive EXCEPT !.disk = [b \in 0..SectorCount - 1 |-> Old(b)]]
  BY DEF floppy_request
<1>2. /\ sector \in Nat /\ count \in Nat \ {0} /\ sector + count <= SectorCount /\ count <= MaxCount
      /\ MaxCount \in Nat /\ SectorCount \in Nat
  BY <1>1, FloppyConstants
<1>3. calls = <<whole>> \/ (cmd = "read" /\ calls = single)
  BY DEF fdc_read_block
<1> HIDE DEF calls, count
<1>4. /\ \A k \in 1..count : single[k] = [block |-> sector + k - 1, at |-> k, n |-> 1]
      /\ single \in Seq(FloppyCalls) /\ Len(single) = count
  <2>1. \A k \in 1..count : [block |-> sector + k - 1, at |-> k, n |-> 1] \in FloppyCalls
    BY <1>2 DEF FloppyCalls
  <2>2. single \in [1..count -> FloppyCalls]
    BY <2>1
  <2> QED
    BY <1>2, <2>2
<1>5. whole \in FloppyCalls
  BY <1>2 DEF FloppyCalls
<1>6. calls \in Seq(FloppyCalls) /\ Len(calls) \in Nat \ {0} /\ calls # <<>>
  <2>1. CASE calls = <<whole>>
    <3> HIDE DEF whole
    <3> QED
      BY <1>5, <2>1
  <2>2. CASE calls = single
    <3> HIDE DEF single
    <3>1. Len(calls) # 0
      BY <1>2, <1>4, <2>2
    <3> QED
      BY <1>2, <1>4, <2>2, <3>1
  <2> QED
    BY <1>3, <2>1, <2>2
<1>7. /\ req'.cmd = cmd /\ req'.sector = sector /\ req'.count = count /\ req'.failed = FALSE
      /\ req' \in FloppyRequests
  <2>1. [i \in 1..MaxCount |-> Unread] \in [1..MaxCount -> Int]
    BY DEF Unread
  <2> QED
    BY <1>1, <1>2, <2>1 DEF FloppyRequests
<1>8. /\ fd' \in FloppyDriver /\ fd'.pc = "try" /\ fd'.todo = calls /\ fd'.fdc_track = fd.fdc_track
  BY <1>1, <1>6 DEF FloppyInv, FloppyTypes, FloppyDriver
<1>9. /\ drive' \in FloppyDrive /\ drive'.cyl = drive.cyl
      /\ drive'.disk = [b \in 0..SectorCount - 1 |-> Old(b)]
  <2>1. [b \in 0..SectorCount - 1 |-> Old(b)] \in [0..SectorCount - 1 -> Int]
    BY <1>2 DEF Old
  <2> QED
    BY <1>1, <2>1 DEF FloppyInv, FloppyTypes, FloppyDrive
<1>10. tb' \in [1..MaxCount -> Int] /\ (cmd = "write" => \A i \in 1..count : tb'[i] = New(i))
  <2>1. \A i \in 1..MaxCount : New(i) \in Int /\ Unread \in Int
    BY <1>2 DEF New, Unread
  <2> QED
    BY <1>1, <1>2, <2>1
<1>11. FloppyTypes' /\ HeadWhereBelieved'
  BY <1>7, <1>8, <1>9, <1>10 DEF FloppyInv, FloppyTypes, HeadWhereBelieved
<1>12. RequestFits' /\ OthersKept'
  BY <1>2, <1>7, <1>9 DEF RequestFits, OthersKept
<1>13. ASSUME NEW k \in 1..Len(calls) PROVE PartOfRequest(calls[k])'
  <2>1. CASE calls = <<whole>>
    <3>1. k = 1 /\ calls[k].block = sector /\ calls[k].at = 1 /\ calls[k].n = count
      BY <2>1
    <3> QED
      BY <1>2, <1>7, <3>1 DEF PartOfRequest
  <2>2. CASE calls = single
    <3>1. /\ k \in 1..count /\ calls[k].block = sector + k - 1 /\ calls[k].at = k
          /\ calls[k].n = 1
      BY <1>4, <2>2
    <3> QED
      BY <1>2, <1>7, <3>1 DEF PartOfRequest
  <2> QED
    BY <1>3, <2>1, <2>2
<1>14. CallsRight'
  BY <1>6, <1>7, <1>8, <1>13 DEF CallsRight
<1>15. ASSUME NEW i \in 1..count PROVE \E k \in 1..Len(calls) : InCall(i, calls[k])
  <2>1. CASE calls = <<whole>>
    <3>1. Len(calls) = 1 /\ calls[1].at = 1 /\ calls[1].n = count
      BY <2>1
    <3> QED
      BY <1>2, <3>1 DEF InCall
  <2>2. CASE calls = single
    <3>1. i \in 1..Len(calls) /\ calls[i].at = i /\ calls[i].n = 1
      BY <1>4, <2>2
    <3> QED
      BY <1>2, <3>1 DEF InCall
  <2> QED
    BY <1>3, <2>1, <2>2
<1>16. ReadRight'
  BY <1>7, <1>8, <1>9, <1>15 DEF ReadRight
<1>17. WriteRight'
  <2>1. cmd = "write" => /\ Len(calls) = 1
                         /\ \A k \in 1..Len(calls) : calls[k].at = 1 /\ calls[k].n = count
    <3>1. CASE cmd = "write"
      <4>1. calls = <<whole>> /\ whole.at = 1 /\ whole.n = count
        BY <1>3, <3>1
      <4> HIDE DEF whole
      <4> QED
        BY <4>1
    <3> QED
      BY <3>1
  <2>2. ASSUME req'.cmd = "write" PROVE WriteRight'
    <3>1. cmd = "write"
      BY <1>7, <2>2
    <3>2. \A i \in 1..req'.count : tb'[i] = New(i)
      BY <1>7, <1>10, <3>1
    <3>3. /\ Len(fd'.todo) <= 1 /\ fd'.pc # "idle"
          /\ \A k \in 1..Len(fd'.todo) : fd'.todo[k].at = 1 /\ fd'.todo[k].n = req'.count
      <4>1. fd'.todo = calls /\ fd'.pc # "idle" /\ req'.count = count
        BY <1>7, <1>8
      <4>2. /\ Len(calls) = 1
            /\ \A k \in 1..Len(calls) : calls[k].at = 1 /\ calls[k].n = count
        BY <2>1, <3>1
      <4>3. Len(calls) <= 1
        BY <4>2
      <4> QED
        BY <4>1, <4>2, <4>3, Zenon
    <3> QED
      BY <3>2, <3>3 DEF WriteRight, New
  <2> QED
    BY <2>2 DEF WriteRight
<1> QED
  BY <1>11, <1>12, <1>14, <1>16, <1>17 DEF FloppyInv

\* The drive counts on from the sector that it was given.
LEMMA SectorsFollow ==
    ASSUME NEW block \in Nat, NEW d, d.cyl = block2hts(block).track, NEW i \in Int
    PROVE  Sector(d, block2hts(block), i) = block + i
<1> DEFINE hts == block2hts(block)
           a == hts.track * Heads * Spt + hts.head * Spt + hts.sector - 1
<1>1. a = block
  BY GeometryRight
<1>2. Sector(d, hts, i) = a + i
  BY DEF Sector
<1> HIDE DEF a
<1> QED
  BY <1>1, <1>2

\* It moves at most what it was asked for, and nothing on another track.
LEMMA MovedBound ==
    ASSUME NEW block \in Nat, NEW d, NEW n \in Nat, NEW moved \in Nat,
           moved <= Moved(d, block2hts(block), n)
    PROVE  moved <= n /\ (moved > 0 => d.cyl = block2hts(block).track)
<1> DEFINE hts == block2hts(block)
           left == Heads * Spt - (hts.head * Spt + hts.sector - 1)
<1>1. left \in Int
  <2>1. hts.head \in Nat /\ hts.sector \in Nat /\ Heads \in Nat /\ Spt \in Nat
    BY GeometryRight, FloppyConstants
  <2> HIDE DEF hts
  <2> QED
    BY <2>1
<1>2. Moved(d, hts, n) = IF d.cyl # hts.track THEN 0 ELSE Min({n, left})
  BY DEF Moved
<1> HIDE DEF left
<1>3. Min({n, left}) <= n
  <2>1. \E x \in {n, left} : \A y \in {n, left} : x <= y
    BY <1>1
  <2> QED
    BY <2>1 DEF Min
<1>4. Min({n, left}) \in Int
  <2>1. \E x \in {n, left} : \A y \in {n, left} : x <= y
    BY <1>1
  <2> QED
    BY <1>1, <2>1 DEF Min
<1> QED
  BY <1>2, <1>3, <1>4

PartPlaced(sector, count, first, n, block, total, max) ==
    /\ first >= 1 /\ first + n - 1 <= count /\ n >= 1
    /\ \A m \in Nat : m <= n =>
         /\ \A i \in 1..m : block + (i - 1) = block + i - 1 /\ block + i - 1 \in 0..total - 1
         /\ \A b \in 0..total - 1 : block <= b /\ b <= block + m - 1 =>
              b \in sector..sector + count - 1
    /\ \A i \in 1..max : first <= i /\ i <= first + n - 1 =>
         /\ i - first + 1 \in 1..max /\ i - first + 1 \in 1..n
         /\ block + (i - first + 1) - 1 = sector + i - 1
    /\ \A i \in 1..count : i \in 1..max
    /\ first = 1 /\ n = count => \A i \in 1..count :
         /\ sector + i - 1 \in 0..total - 1 /\ (sector + i - 1) - block + 1 = i
         /\ block <= sector + i - 1 /\ sector + i - 1 <= block + n - 1

\* Where the sectors of a call lie on the disk, in the request and in the track buffer.
LEMMA PartArithmetic ==
    ASSUME NEW sector \in Nat, NEW count \in Nat, NEW first \in Nat, NEW n \in Nat, NEW block \in Nat,
           NEW total \in Nat, NEW max \in Nat,
           first \in 1..count, n \in 1..count - first + 1, block = sector + first - 1,
           sector + count <= total, count <= max
    PROVE  PartPlaced(sector, count, first, n, block, total, max)
<1>1. first >= 1 /\ first + n - 1 <= count /\ n >= 1
  OBVIOUS
<1>2. ASSUME NEW m \in Nat, m <= n, NEW i \in 1..m
      PROVE  block + (i - 1) = block + i - 1 /\ block + i - 1 \in 0..total - 1
  BY <1>1, <1>2
<1>3. ASSUME NEW m \in Nat, m <= n, NEW b \in 0..total - 1, block <= b, b <= block + m - 1
      PROVE  b \in sector..sector + count - 1
  BY <1>1, <1>3
<1>4. ASSUME NEW i \in 1..max, first <= i, i <= first + n - 1
      PROVE  /\ i - first + 1 \in 1..max /\ i - first + 1 \in 1..n
             /\ block + (i - first + 1) - 1 = sector + i - 1
  BY <1>1, <1>4
<1>5. \A i \in 1..count : i \in 1..max
  OBVIOUS
<1>6. ASSUME first = 1, n = count, NEW i \in 1..count
      PROVE  /\ sector + i - 1 \in 0..total - 1 /\ (sector + i - 1) - block + 1 = i
             /\ block <= sector + i - 1 /\ sector + i - 1 <= block + n - 1
  BY <1>1, <1>6
<1> QED
  BY <1>1, <1>2, <1>3, <1>4, <1>5, <1>6 DEF PartPlaced

\* A try of a call, with all that may go wrong with it.
LEMMA TransferKeeps ==
    ASSUME FloppyInv, NEW moved \in 0..MaxCount, NEW inTime \in BOOLEAN, NEW early \in BOOLEAN,
           Transfer(moved, inTime, early)
    PROVE  FloppyInv'
<1> DEFINE piece == Head(fd.todo)
           hts == block2hts(piece.block)
           s == Seeks(drive, fd, hts.track, FALSE)
           reading == req.cmd = "read"
           d == IF reading THEN s.d
                ELSE [s.d EXCEPT !.disk = [b \in DOMAIN s.d.disk |->
                        IF \E i \in 0..moved - 1 : b = Sector(s.d, hts, i)
                        THEN tb[b - Sector(s.d, hts, 0) + 1] ELSE s.d.disk[b]]]
           tbuf == IF ~reading THEN tb
                   ELSE [i \in 1..MaxCount |->
                           IF i <= moved THEN s.d.disk[Sector(s.d, hts, i - 1)] ELSE tb[i]]
           worked == inTime /\ moved = piece.n
           f == [s.f EXCEPT !.fdc_track = Unknown,
                            !.tries = IF worked THEN s.f.tries ELSE s.f.tries + 1]
           r == recalibrate(d, f, early)
           final == worked \/ f.tries = 3
<1>1. /\ fd.pc = "try" /\ moved <= Moved(s.d, hts, piece.n)
      /\ tb' = tbuf /\ drive' = IF worked THEN d ELSE r.d
      /\ fd' = IF final THEN Over(IF worked THEN f ELSE r.f) ELSE r.f
      /\ req' = IF ~final THEN req
                ELSE [req EXCEPT !.failed = req.failed \/ ~worked,
                                 !.buffer = IF reading THEN Taken(piece, req.buffer, tbuf) ELSE req.buffer]
  BY DEF Transfer
<1>2. /\ piece \in FloppyCalls /\ piece.block \in Nat /\ piece.n \in Nat /\ piece.at \in Nat
      /\ PartOfRequest(piece) /\ hts.track \in Nat /\ moved \in Nat /\ MaxCount \in Nat
      /\ SectorCount \in Nat
  <2>1. piece \in FloppyCalls /\ PartOfRequest(piece)
    BY <1>1, TodoFields
  <2> HIDE DEF piece
  <2>2. piece.block \in Nat /\ piece.n \in Nat /\ piece.at \in Nat
    BY <2>1 DEF FloppyCalls
  <2> QED
    BY <2>1, <2>2, GeometryRight, FloppyConstants
<1> HIDE DEF piece
<1>3. HeadMoves(drive, fd, s)
  BY <1>2, SeeksMoves DEF FloppyInv, FloppyTypes
<1>4. moved <= piece.n /\ (moved > 0 => s.d.cyl = hts.track)
  BY <1>1, <1>2, MovedBound
<1>5. moved > 0 => \A i \in Int : Sector(s.d, hts, i) = piece.block + i
  BY <1>2, <1>4, SectorsFollow
<1> HIDE DEF s, hts
<1>6. /\ s.d \in FloppyDrive /\ s.d.disk = drive.disk /\ s.f \in FloppyDriver
      /\ s.f.pc = fd.pc /\ s.f.todo = fd.todo
  BY <1>3 DEF HeadMoves
<1>7. /\ req.sector \in Nat /\ req.count \in Nat /\ req.cmd \in {"read", "write"}
      /\ drive.disk \in [0..SectorCount - 1 -> Int] /\ tb \in [1..MaxCount -> Int]
      /\ req \in FloppyRequests
  <2>1. req.sector \in Nat /\ req.count \in Nat /\ req.cmd \in {"read", "write"}
    BY <1>1, TodoFields
  <2>2. drive.disk \in [0..SectorCount - 1 -> Int] /\ tb \in [1..MaxCount -> Int] /\ req \in FloppyRequests
    BY DEF FloppyInv, FloppyTypes, FloppyDrive
  <2> QED
    BY <2>1, <2>2
<1>part. PartPlaced(req.sector, req.count, piece.at, piece.n, piece.block, SectorCount, MaxCount)
  <2>1. req.sector + req.count <= SectorCount /\ req.count <= MaxCount
    BY DEF FloppyInv, RequestFits
  <2>2. /\ piece.at \in 1..req.count /\ piece.n \in 1..req.count - piece.at + 1
        /\ piece.block = req.sector + piece.at - 1
    BY <1>2 DEF PartOfRequest
  <2> QED
    BY <1>2, <1>7, <2>1, <2>2, PartArithmetic, Zenon
<1>8. /\ d \in FloppyDrive
      /\ reading => d.disk = drive.disk
      /\ ~reading => \A b \in 0..SectorCount - 1 :
           d.disk[b] = IF piece.block <= b /\ b <= piece.block + moved - 1
                       THEN tb[b - piece.block + 1] ELSE drive.disk[b]
  <2>1. CASE reading
    BY <1>6, <2>1
  <2>2. CASE ~reading
    <3> DEFINE nd == [b \in DOMAIN s.d.disk |->
                        IF \E i \in 0..moved - 1 : b = Sector(s.d, hts, i)
                        THEN tb[b - Sector(s.d, hts, 0) + 1] ELSE s.d.disk[b]]
    <3>1. d = [s.d EXCEPT !.disk = nd]
      BY <2>2
    <3>2. DOMAIN s.d.disk = 0..SectorCount - 1
      BY <1>6, <1>7
    <3>3. ASSUME NEW b \in 0..SectorCount - 1
          PROVE  /\ nd[b] = IF piece.block <= b /\ b <= piece.block + moved - 1
                            THEN tb[b - piece.block + 1] ELSE drive.disk[b]
                 /\ nd[b] \in Int
      <4>1. CASE moved = 0
        <5>1. 0..moved - 1 = {} /\ ~(piece.block <= b /\ b <= piece.block + moved - 1)
          BY <1>2, <4>1
        <5>2. nd[b] = drive.disk[b]
          BY <1>6, <3>2, <5>1
        <5> QED
          BY <1>7, <5>1, <5>2
      <4>2. CASE moved > 0
        <5>1. \A i \in 0..moved - 1 : Sector(s.d, hts, i) = piece.block + i
          BY <1>2, <1>5, <4>2
        <5>2. (\E i \in 0..moved - 1 : b = Sector(s.d, hts, i))
                <=> piece.block <= b /\ b <= piece.block + moved - 1
          <6>1. ASSUME piece.block <= b, b <= piece.block + moved - 1
                PROVE  \E i \in 0..moved - 1 : b = Sector(s.d, hts, i)
            <7>1. b - piece.block \in 0..moved - 1 /\ b = piece.block + (b - piece.block)
              BY <1>2, <6>1
            <7> QED
              BY <5>1, <7>1
          <6> QED
            BY <1>2, <5>1, <6>1
        <5>3. Sector(s.d, hts, 0) = piece.block
          BY <1>2, <5>1, <4>2
        <5>4. nd[b] = IF piece.block <= b /\ b <= piece.block + moved - 1
                      THEN tb[b - piece.block + 1] ELSE drive.disk[b]
          BY <1>6, <3>2, <5>2, <5>3
        <5>5. piece.block <= b /\ b <= piece.block + moved - 1 => b - piece.block + 1 \in 1..MaxCount
          BY <1>2
        <5> HIDE DEF nd
        <5> QED
          BY <1>7, <5>4, <5>5
      <4> QED
        BY <1>2, <4>1, <4>2
    <3>4. nd \in [0..SectorCount - 1 -> Int]
      BY <3>2, <3>3
    <3> HIDE DEF nd, d
    <3>5. d \in FloppyDrive /\ d.disk = nd
      BY <1>6, <3>1, <3>4 DEF FloppyDrive
    <3> QED
      BY <2>2, <3>3, <3>5
  <2> QED
    BY <2>1, <2>2
<1>9. /\ tbuf \in [1..MaxCount -> Int]
      /\ ~reading => tbuf = tb
      /\ reading => \A i \in 1..moved : tbuf[i] = drive.disk[piece.block + i - 1]
  <2>1. CASE ~reading
    BY <1>7, <2>1
  <2>2. CASE reading
    <3>1. ASSUME NEW i \in 1..moved
          PROVE  /\ s.d.disk[Sector(s.d, hts, i - 1)] = drive.disk[piece.block + i - 1]
                 /\ drive.disk[piece.block + i - 1] \in Int
      <4>1. Sector(s.d, hts, i - 1) = piece.block + (i - 1)
        BY <1>2, <1>5
      <4>2. piece.block + (i - 1) = piece.block + i - 1 /\ piece.block + i - 1 \in 0..SectorCount - 1
        BY <1>2, <1>4, <1>part, Zenon DEF PartPlaced
      <4> QED
        BY <1>6, <1>7, <4>1, <4>2
    <3>2. tbuf = [i \in 1..MaxCount |->
                    IF i <= moved THEN s.d.disk[Sector(s.d, hts, i - 1)] ELSE tb[i]]
      BY <2>2
    <3>3. \A i \in 1..MaxCount : i <= moved => i \in 1..moved
      BY <1>2
    <3> HIDE DEF tbuf
    <3>4. tbuf \in [1..MaxCount -> Int]
      BY <1>7, <3>1, <3>2, <3>3
    <3>5. \A i \in 1..moved : i \in 1..MaxCount /\ i <= moved
      BY <1>2
    <3>6. \A i \in 1..moved : tbuf[i] = drive.disk[piece.block + i - 1]
      BY <3>1, <3>2, <3>5
    <3> QED
      BY <2>2, <3>4, <3>6
  <2> QED
    BY <2>1, <2>2
<1> HIDE DEF d, tbuf
<1>10. /\ f \in FloppyDriver /\ f.fdc_track = Unknown /\ f.pc = fd.pc /\ f.todo = fd.todo
  <2>1. (IF worked THEN s.f.tries ELSE s.f.tries + 1) \in Nat
    BY <1>6 DEF FloppyDriver
  <2> QED
    BY <1>6, <2>1, FloppyConstants DEF FloppyDriver
<1> HIDE DEF f
<1>11. /\ HeadMoves(d, f, r) /\ r.d.cyl = 0 /\ r.f.fdc_track \in {0, Unknown}
  BY <1>8, <1>10, RecalibrateMoves
<1> HIDE DEF r
<1>12. /\ drive' \in FloppyDrive /\ drive'.disk = d.disk
       /\ worked \/ drive'.cyl = 0
  BY <1>1, <1>8, <1>11 DEF HeadMoves
<1>13. /\ fd' \in FloppyDriver /\ fd'.todo = (IF final THEN Tail(fd.todo) ELSE fd.todo)
       /\ fd'.pc = (IF final /\ Len(fd.todo) = 1 THEN "idle" ELSE "try")
       /\ fd'.fdc_track \in (IF worked THEN {Unknown} ELSE {0, Unknown})
  <2> DEFINE g == IF worked THEN f ELSE r.f
  <2>1. /\ g \in FloppyDriver /\ g.todo = fd.todo /\ g.pc = fd.pc
        /\ g.fdc_track \in (IF worked THEN {Unknown} ELSE {0, Unknown})
    BY <1>10, <1>11 DEF HeadMoves
  <2>2. fd' = IF final THEN Over(g) ELSE r.f
    BY <1>1
  <2>3. ~final => ~worked
    OBVIOUS
  <2> HIDE DEF g, worked, final
  <2>4. CASE final
    BY <1>1, <2>1, <2>2, <2>4, TodoFields, OverFields
  <2>5. CASE ~final
    BY <1>1, <1>10, <1>11, <2>2, <2>3, <2>5 DEF HeadMoves
  <2> QED
    BY <2>4, <2>5
<1> DEFINE nb == IF final /\ reading THEN Taken(piece, req.buffer, tbuf) ELSE req.buffer
<1>14. /\ req' \in FloppyRequests /\ req'.cmd = req.cmd /\ req'.sector = req.sector
       /\ req'.count = req.count /\ req'.buffer = nb
       /\ req'.failed = (req.failed \/ (final /\ ~worked))
       /\ \A i \in 1..MaxCount : nb[i] = IF final /\ reading /\ InCall(i, piece)
                                         THEN tbuf[i - piece.at + 1] ELSE req.buffer[i]
  <2>1. req.buffer \in [1..MaxCount -> Int] /\ req.failed \in BOOLEAN
    BY <1>7 DEF FloppyRequests
  <2>2. \A i \in 1..MaxCount : i \in piece.at..piece.at + piece.n - 1 <=> InCall(i, piece)
    BY <1>2 DEF InCall
  <2>3. \A i \in 1..MaxCount : InCall(i, piece) => i - piece.at + 1 \in 1..MaxCount
    BY <1>part, Zenon DEF PartPlaced, InCall
  <2>4. nb \in [1..MaxCount -> Int]
    BY <1>9, <2>1, <2>2, <2>3 DEF Taken
  <2>5. \A i \in 1..MaxCount : nb[i] = IF final /\ reading /\ InCall(i, piece)
                                       THEN tbuf[i - piece.at + 1] ELSE req.buffer[i]
    BY <2>2 DEF Taken
  <2>6. ~final => nb = req.buffer
    OBVIOUS
  <2>7. final => nb = IF reading THEN Taken(piece, req.buffer, tbuf) ELSE req.buffer
    OBVIOUS
  <2> HIDE DEF nb, worked, final
  <2>8. CASE final
    <3>1. req' = [req EXCEPT !.failed = req.failed \/ ~worked, !.buffer = nb]
      BY <1>1, <2>7, <2>8
    <3>2. (req.failed \/ ~worked) \in BOOLEAN
      OBVIOUS
    <3> QED
      BY <1>7, <2>4, <2>5, <2>8, <3>1, <3>2 DEF FloppyRequests
  <2>9. CASE ~final
    BY <1>1, <1>7, <2>1, <2>5, <2>6, <2>9
  <2> QED
    BY <2>8, <2>9
<1>15. worked => final /\ moved = piece.n
  OBVIOUS
<1> HIDE DEF nb, worked, final
<1>16. FloppyTypes'
  BY <1>1, <1>9, <1>12, <1>13, <1>14 DEF FloppyTypes
<1>17. HeadWhereBelieved'
  BY <1>12, <1>13 DEF HeadWhereBelieved
<1>18. RequestFits'
  BY <1>14 DEF FloppyInv, RequestFits
<1>19. CallsRight'
  <2>1. CASE final
    BY <1>1, <1>13, <1>14, <2>1, AfterCall
  <2>2. CASE ~final
    BY <1>1, <1>13, <1>14, <2>2 DEF FloppyInv, CallsRight, PartOfRequest
  <2> QED
    BY <2>1, <2>2
<1>20. OthersKept'
  <2> SUFFICES ASSUME NEW b \in DOMAIN drive'.disk, drive'.disk[b] # Old(b)
               PROVE  req'.cmd = "write" /\ b \in req'.sector..req'.sector + req'.count - 1
    BY DEF OthersKept, Old
  <2>1. b \in 0..SectorCount - 1
    BY <1>12 DEF FloppyDrive
  <2>2. CASE drive'.disk[b] = drive.disk[b]
    BY <1>7, <1>14, <2>1, <2>2 DEF FloppyInv, OthersKept
  <2>3. CASE drive'.disk[b] # drive.disk[b]
    <3>1. ~reading /\ piece.block <= b /\ b <= piece.block + moved - 1
      BY <1>8, <1>12, <2>1, <2>3
    <3>2. b \in req.sector..req.sector + req.count - 1
      BY <1>2, <1>4, <1>part, <2>1, <3>1, Zenon DEF PartPlaced
    <3> QED
      BY <1>7, <1>14, <3>1, <3>2
  <2> QED
    BY <2>2, <2>3
<1>21. ReadRight'
  <2> SUFFICES ASSUME req.cmd # "write" PROVE ReadRight'
    BY <1>14 DEF ReadRight
  <2>1. reading /\ drive'.disk = drive.disk
    BY <1>7, <1>8, <1>12
  <2>2. \A b \in 0..SectorCount - 1 : drive'.disk[b] = Old(b)
    BY <2>1 DEF FloppyInv, ReadRight
  <2>3. ASSUME ~req'.failed, NEW i \in 1..req.count
        PROVE  \/ \E k \in 1..Len(fd'.todo) : InCall(i, fd'.todo[k])
               \/ nb[i] = drive.disk[req.sector + i - 1]
    <3>1. ~req.failed /\ (final => worked)
      BY <1>14, <2>3
    <3>2. i \in 1..MaxCount
      BY <1>part, Zenon DEF PartPlaced
    <3>3. \/ \E k \in 1..Len(fd.todo) : InCall(i, fd.todo[k])
          \/ req.buffer[i] = drive.disk[req.sector + i - 1]
      BY <3>1 DEF FloppyInv, ReadRight
    <3>4. CASE ~final
      BY <1>13, <1>14, <3>2, <3>3, <3>4
    <3>5. CASE final /\ InCall(i, piece)
      <4>1. moved = piece.n
        BY <1>15, <3>1, <3>5
      <4>2. nb[i] = tbuf[i - piece.at + 1]
        BY <1>14, <2>1, <3>2, <3>5
      <4>3. /\ i - piece.at + 1 \in 1..moved
            /\ piece.block + (i - piece.at + 1) - 1 = req.sector + i - 1
        BY <1>part, <3>2, <3>5, <4>1, Zenon DEF PartPlaced, InCall
      <4> QED
        BY <1>9, <2>1, <4>2, <4>3
    <3>6. CASE final /\ ~InCall(i, piece)
      <4>1. nb[i] = req.buffer[i]
        BY <1>14, <3>2, <3>6
      <4>2. ASSUME NEW k \in 1..Len(fd.todo), InCall(i, fd.todo[k])
            PROVE  \E m \in 1..Len(fd'.todo) : InCall(i, fd'.todo[m])
        <5>1. k # 1
          BY <1>1, <3>6, <4>2, TodoFields DEF piece
        <5>2. k - 1 \in 1..Len(Tail(fd.todo)) /\ Tail(fd.todo)[k - 1] = fd.todo[k]
          BY <1>1, <5>1, TodoFields, SMTT(30)
        <5>3. fd'.todo = Tail(fd.todo)
          BY <1>13, <3>6
        <5> QED
          BY <4>2, <5>2, <5>3
      <4> QED
        BY <3>3, <4>1, <4>2
    <3> QED
      BY <3>4, <3>5, <3>6
  <2> QED
    BY <1>14, <2>1, <2>2, <2>3 DEF ReadRight
<1>22. WriteRight'
  <2> SUFFICES ASSUME req.cmd = "write" PROVE WriteRight'
    BY <1>14 DEF WriteRight
  <2>1. ~reading /\ tb' = tb /\ \A i \in 1..req.count : tb[i] = New(i)
    BY <1>1, <1>9 DEF FloppyInv, WriteRight
  <2>2. Len(fd.todo) = 1 /\ piece.at = 1 /\ piece.n = req.count
    BY <1>1, TodoFields DEF FloppyInv, WriteRight, piece
  <2>3. /\ Len(fd'.todo) <= 1
        /\ \A k \in 1..Len(fd'.todo) : fd'.todo[k].at = 1 /\ fd'.todo[k].n = req.count
    <3>1. CASE final
      <4>1. Len(fd'.todo) = 0
        BY <1>1, <1>13, <2>2, <3>1, TodoFields
      <4> QED
        BY <4>1
    <3>2. CASE ~final
      BY <1>13, <3>2 DEF FloppyInv, WriteRight
    <3> QED
      BY <3>1, <3>2
  <2>4. ASSUME fd'.pc = "idle", ~req'.failed, NEW i \in 1..req.count
        PROVE  drive'.disk[req.sector + i - 1] = New(i)
    <3>1. final /\ worked /\ moved = piece.n
      BY <1>13, <1>14, <1>15, <2>4
    <3>2. /\ req.sector + i - 1 \in 0..SectorCount - 1
          /\ piece.block <= req.sector + i - 1 /\ req.sector + i - 1 <= piece.block + moved - 1
          /\ (req.sector + i - 1) - piece.block + 1 = i
      BY <1>part, <2>2, <3>1, Zenon DEF PartPlaced
    <3> DEFINE b == req.sector + i - 1
    <3>3. drive'.disk[b] = tb[b - piece.block + 1]
      <4>1. b \in 0..SectorCount - 1 /\ piece.block <= b /\ b <= piece.block + moved - 1
        BY <3>2
      <4> HIDE DEF b
      <4> QED
        BY <1>8, <1>12, <2>1, <4>1
    <3>4. b - piece.block + 1 = i
      BY <3>2
    <3>5. tb[i] = New(i)
      BY <2>1
    <3>6. drive'.disk[b] = New(i)
      <4> HIDE DEF b
      <4> QED
        BY <3>3, <3>4, <3>5
    <3> QED
      BY <3>6
  <2> QED
    BY <1>14, <2>1, <2>3, <2>4 DEF WriteRight, New
<1> QED
  BY <1>16, <1>17, <1>18, <1>19, <1>20, <1>21, <1>22 DEF FloppyInv

\* For every geometry of the disk and requests of every length, over retries, late
\* answers and changes of the disk: a finished request of which no transfer gave up has
\* moved every sector between its places, no request touches sectors besides its own,
\* and the driver is not mistaken about the head.
THEOREM FloppyDiskIntact == FloppySpec => []DiskIntact
<1>1. FloppyInit => FloppyInv
  <2> SUFFICES ASSUME FloppyInit PROVE FloppyInv
    OBVIOUS
  <2>1. /\ fd = [pc |-> "idle", todo |-> <<>>, tries |-> 0, fdc_track |-> Unknown]
        /\ tb = [i \in 1..MaxCount |-> Unread]
        /\ drive = [cyl |-> 0, line |-> FALSE, changes |-> 0,
                    disk |-> [b \in 0..SectorCount - 1 |-> Old(b)]]
        /\ req = [cmd |-> "none", sector |-> 0, count |-> 0, failed |-> FALSE,
                  buffer |-> [i \in 1..MaxCount |-> Unread]]
    BY DEF FloppyInit
  <2>2. [i \in 1..MaxCount |-> Unread] \in [1..MaxCount -> Int]
    BY DEF Unread
  <2>3. [b \in 0..SectorCount - 1 |-> Old(b)] \in [0..SectorCount - 1 -> Int]
    BY DEF Old
  <2>4. FloppyTypes
    BY <2>1, <2>2, <2>3, FloppyConstants, SMTT(30) DEF FloppyTypes, FloppyDriver, FloppyDrive, FloppyRequests
  <2>5. RequestFits /\ CallsRight /\ HeadWhereBelieved
    BY <2>1, FloppyConstants DEF RequestFits, CallsRight, HeadWhereBelieved
  <2>6. ReadRight /\ OthersKept
    BY <2>1 DEF ReadRight, OthersKept
  <2>7. WriteRight
    BY <2>1 DEF WriteRight
  <2> QED
    BY <2>4, <2>5, <2>6, <2>7 DEF FloppyInv
<1>2. FloppyInv /\ [FloppyNext]_floppyVars => FloppyInv'
  <2> SUFFICES ASSUME FloppyInv, [FloppyNext]_floppyVars PROVE FloppyInv'
    OBVIOUS
  <2>1. CASE UNCHANGED floppyVars
    <3>1. FloppyTypes' /\ HeadWhereBelieved'
      BY <2>1 DEF FloppyInv, FloppyTypes, HeadWhereBelieved, floppyVars
    <3> QED
      BY <2>1, <3>1, OnlyHeadMoves DEF floppyVars
  <2>2. ASSUME NEW cmd \in {"read", "write"}, NEW sector \in 0..SectorCount,
               NEW count \in 1..MaxCount, floppy_request(cmd, sector, count)
        PROVE  FloppyInv'
    BY <2>2, RequestKeeps
  <2>3. ASSUME NEW early \in BOOLEAN, DiskChanged(early) PROVE FloppyInv'
    BY <2>3, DiskChangedKeeps
  <2>4. CASE SeekFails
    BY <2>4, SeekFailsKeeps
  <2>5. ASSUME NEW moved \in 0..MaxCount, NEW inTime \in BOOLEAN, NEW early \in BOOLEAN,
               Transfer(moved, inTime, early)
        PROVE  FloppyInv'
    BY <2>5, TransferKeeps
  <2>6. CASE DiskIsChanged
    BY <2>6, DiskIsChangedKeeps
  <2> QED
    BY <2>1, <2>2, <2>3, <2>4, <2>5, <2>6 DEF FloppyNext
<1>3. FloppyInv => DiskIntact
  <2> SUFFICES ASSUME FloppyInv PROVE SectorsInPlace
    BY DEF FloppyInv, DiskIntact
  <2> SUFFICES ASSUME fd.pc = "idle", req.cmd # "none", ~req.failed, NEW i \in 1..req.count
               PROVE  drive.disk[req.sector + i - 1] = IF req.cmd = "read" THEN req.buffer[i] ELSE New(i)
    BY DEF SectorsInPlace
  <2>1. Len(fd.todo) = 0 /\ req.cmd \in {"read", "write"}
    BY DEF FloppyInv, CallsRight, FloppyTypes, FloppyRequests
  <2> QED
    BY <2>1 DEF FloppyInv, ReadRight, WriteRight
<1> QED
  BY <1>1, <1>2, <1>3, PTL DEF FloppySpec

-----------------------------------------------------------------------------
(***************************************************************************)
(* The console                                                             *)
(***************************************************************************)
Chars == Letters \cup {NL, CR, TAB, BS, FF}
Columns == 0 .. TXT_WIDTH - 1
Lines == 0 .. TXT_HEIGHT - 1

\* Where line y, column x is in the text memory.
Place(y, x) == y * TXT_WIDTH + x

Screens == [mem : [Cells -> Letters \cup {Space, OffScreen}], x : Int, y : Int, stray : BOOLEAN]

\* Rows of text
Glyphs == Letters \cup {Space}
Texts == Seq(Seq(Glyphs)) \ {<<>>}

\* The screen of c shows the rows rs, and the cursor is at their end.
Shows(c, rs) ==
    /\ rs \in Texts
    /\ c.y = Len(rs) - 1 /\ c.x = Len(Lower(rs))
    /\ \A y \in Lines, x \in Columns : LooksLike(c.mem[Place(y, x)], TextAt(rs, y, x))

\* The inductive invariant: x and y are on the screen in the middle of an output too,
\* and the cursor is where the last row ends.
ConsoleInv ==
    /\ con \in Screens /\ con.x \in Columns /\ con.y \in Lines /\ ~con.stray
    /\ _cursor_pos \in [x : Columns, y : Lines]
    /\ output \in Seq(Chars)
    /\ output = <<>> => con.x = _cursor_pos.x /\ con.y = _cursor_pos.y
    /\ plain \in BOOLEAN
    /\ plain => Shows(con, rows)

\* The size of the screen, as a proof needs it.
LEMMA ConsoleConstants ==
    /\ TXT_WIDTH \in Nat /\ TXT_WIDTH > 0 /\ TXT_HEIGHT \in Nat /\ TXT_HEIGHT > 0
    /\ TAB_WIDTH \in Nat /\ TAB_WIDTH > 0 /\ TAB_WIDTH < TXT_WIDTH
BY ConsoleAssumption

\* Lines and columns number the cells, in the order of the lines.
LEMMA Grid ==
    ASSUME NEW y \in Nat, NEW x \in Columns
    PROVE  /\ Place(y, x) \in Nat
           /\ y \in Lines => Place(y, x) \in Cells
           /\ y >= TXT_HEIGHT => Place(y, x) \notin Cells
           /\ Place(y + 1, x) = Place(y, x) + TXT_WIDTH
           /\ \A v \in Nat, u \in Columns :
                /\ Place(y, x) = Place(v, u) => y = v /\ x = u
                /\ Place(y, x) >= v * TXT_WIDTH <=> y >= v
                /\ Place(y, x) < v * TXT_WIDTH <=> y < v
<1> DEFINE w == TXT_WIDTH
           h == TXT_HEIGHT
<1>1. w \in Nat /\ w > 0 /\ h \in Nat /\ h > 0 /\ x \in Nat /\ x < w /\ Cells = 0 .. w * h - 1
  BY ConsoleConstants DEF Columns, Cells
<1> HIDE DEF w, h
<1>2. ASSUME NEW v \in Nat, y >= v PROVE y * w + x >= v * w
  <2>1. y - v \in Nat /\ y * w = v * w + (y - v) * w /\ (y - v) * w \in Nat /\ v * w \in Nat /\ y * w \in Nat
    BY <1>1, <1>2
  <2> QED
    BY <1>1, <2>1
<1>3. ASSUME NEW v \in Nat, y < v PROVE y * w + x < v * w
  <2>1. v - y - 1 \in Nat /\ v * w = y * w + w + (v - y - 1) * w /\ (v - y - 1) * w \in Nat
        /\ v * w \in Nat /\ y * w \in Nat
    BY <1>1, <1>3
  <2> QED
    BY <1>1, <2>1
<1>4. y * w \in Nat /\ y * w + x \in Nat
  BY <1>1
<1>5. h * w = w * h /\ h * w \in Nat
  BY <1>1
<1>6. y < h => y * w + x \in Cells
  BY <1>1, <1>3, <1>4, <1>5
<1>7. y >= h => y * w + x \notin Cells
  BY <1>1, <1>2, <1>4, <1>5
<1>8. (y + 1) * w + x = (y * w + x) + w
  BY <1>1
<1>9. ASSUME NEW v \in Nat, NEW u \in Columns
      PROVE  /\ y * w + x >= v * w <=> y >= v
             /\ y * w + x < v * w <=> y < v
  <2>1. v * w \in Nat
    BY <1>1
  <2> QED
    BY <1>2, <1>3, <1>4, <2>1
<1>10. ASSUME NEW v \in Nat, NEW u \in Columns, y * w + x = v * w + u PROVE y = v /\ x = u
  <2>1. u \in Nat /\ u < w
    BY <1>1 DEF Columns, w
  <2>2. v * w \in Nat /\ (v + 1) * w \in Nat /\ (v + 1) * w = v * w + w
    BY <1>1
  <2>3. ~(y < v)
    BY <1>3, <1>4, <1>10, <2>1, <2>2
  <2>4. ASSUME y >= v + 1 PROVE FALSE
    <3>1. v + 1 \in Nat
      OBVIOUS
    <3>2. y * w + x >= (v + 1) * w
      BY <1>2, <2>4, <3>1
    <3> QED
      BY <1>1, <1>10, <2>1, <2>2, <3>2
  <2>5. y = v
    BY <2>3, <2>4
  <2> QED
    BY <1>1, <1>10, <2>1, <2>2, <2>5
<1> QED
  <2>1. Place(y, x) = y * w + x /\ Place(y + 1, x) = (y + 1) * w + x /\ TXT_WIDTH = w /\ TXT_HEIGHT = h
    BY DEF Place, w, h
  <2>2. \A v \in Nat, u \in Columns : Place(v, u) = v * w + u
    BY DEF Place, w
  <2>3. y \in Lines => y < h
    BY <1>1 DEF Lines, h
  <2>4. Place(y, x) \in Nat /\ (y \in Lines => Place(y, x) \in Cells)
    BY <1>4, <1>6, <2>1, <2>3, Zenon
  <2>5. y >= TXT_HEIGHT => Place(y, x) \notin Cells
    BY <1>7, <2>1, Zenon
  <2>6. Place(y + 1, x) = Place(y, x) + TXT_WIDTH
    BY <1>8, <2>1, Zenon
  <2>7. ASSUME NEW v \in Nat, NEW u \in Columns
        PROVE  /\ Place(y, x) = Place(v, u) => y = v /\ x = u
               /\ Place(y, x) >= v * TXT_WIDTH <=> y >= v
               /\ Place(y, x) < v * TXT_WIDTH <=> y < v
    <3>1. Place(y, x) = Place(v, u) => y = v /\ x = u
      BY <1>10, <2>1, <2>2, ZenonT(30)
    <3>2. Place(y, x) >= v * TXT_WIDTH <=> y >= v
      BY <1>9, <2>1, Zenon
    <3>3. Place(y, x) < v * TXT_WIDTH <=> y < v
      BY <1>9, <2>1, Zenon
    <3> QED
      BY <3>1, <3>2, <3>3
  <2> QED
    BY <2>4, <2>5, <2>6, <2>7

\* What the tabulator adds.
LEMMA TabStop ==
    ASSUME NEW x \in Nat
    PROVE  TAB_WIDTH - (x % TAB_WIDTH) + 1 \in 1 .. TXT_WIDTH
<1>1. x % TAB_WIDTH \in 0 .. TAB_WIDTH - 1
  BY ConsoleConstants
<1> QED
  BY <1>1, ConsoleConstants

\* Where a character may leave x and y before they are corrected.
Loose(c) ==
    /\ c \in Screens /\ ~c.stray
    /\ c.x \in 0 .. 2 * TXT_WIDTH - 1 /\ c.y \in 0 .. TXT_HEIGHT
    /\ c.x >= TXT_WIDTH => c.y \in Lines

\* Every character is written on the screen, and leaves x and y near it.
LEMMA PrintedLoose ==
    ASSUME NEW c \in Screens, c.x \in Columns, c.y \in Lines, ~c.stray, NEW chr \in Chars
    PROVE  Loose(Printed(c, chr))
<1> DEFINE M == [Cells -> Letters \cup {Space, OffScreen}]
<1>1. /\ c.mem \in M /\ c.x \in Int /\ c.y \in Int /\ c.x >= 0 /\ c.x < TXT_WIDTH /\ c.y >= 0 /\ c.y < TXT_HEIGHT
      /\ c.stray \in BOOLEAN /\ ~c.stray
      /\ c = [mem |-> c.mem, x |-> c.x, y |-> c.y, stray |-> c.stray]
  BY ConsoleConstants DEF Screens, Columns, Lines
<1>2. \A i \in Int : CellAt(c.mem, i) \in Letters \cup {Space, OffScreen}
  BY <1>1 DEF CellAt
<1>3. Position(c) \in Cells
  <2>1. Position(c) = Place(c.y, c.x) /\ c.y \in Nat
    BY <1>1 DEF Position, Place
  <2> QED
    BY <2>1, Grid
<1>4. \A i \in Cells : i \in Int
  BY ConsoleConstants DEF Cells
<1>5. ASSUME NEW m \in M, NEW x \in Int, NEW y \in Int, x >= 0, y >= 0, y <= TXT_HEIGHT,
             x < 2 * TXT_WIDTH, x >= TXT_WIDTH => y < TXT_HEIGHT
      PROVE  Loose([mem |-> m, x |-> x, y |-> y, stray |-> FALSE])
  BY <1>5, ConsoleConstants DEF Loose, Screens, Lines
<1> HIDE DEF M
<1>6. CASE chr = NL
  <2> DEFINE m == [i \in Cells |-> IF i >= (c.y + 1) * TXT_WIDTH THEN CellAt(c.mem, i + c.x) ELSE c.mem[i]]
  <2>1. Printed(c, chr) = [mem |-> m, x |-> 0, y |-> c.y + 1, stray |-> FALSE]
    BY <1>1, <1>6 DEF Printed, NewLine, NL, CR, TAB, BS, FF
  <2>2. m \in M
    BY <1>1, <1>2, <1>4 DEF M
  <2> HIDE DEF m
  <2> QED
    BY <1>1, <1>5, <2>1, <2>2, ConsoleConstants
<1>7. CASE chr = CR
  <2>1. Printed(c, chr) = [mem |-> c.mem, x |-> 0, y |-> c.y, stray |-> FALSE]
    BY <1>1, <1>7 DEF Printed, NL, CR, TAB, BS, FF
  <2> QED
    BY <1>1, <1>5, <2>1, ConsoleConstants
<1>8. CASE chr = TAB
  <2> DEFINE n == TAB_WIDTH - (c.x % TAB_WIDTH) + 1
  <2>1. Printed(c, chr) = [mem |-> c.mem, x |-> c.x + n, y |-> c.y, stray |-> FALSE]
    <3>1. Printed(c, chr) = [c EXCEPT !.x = c.x + (TAB_WIDTH - (c.x % TAB_WIDTH)) + 1]
      BY <1>8 DEF Printed, Tabulator, NL, CR, TAB, BS, FF
    <3>2. c.x % TAB_WIDTH \in Int
      BY <1>1, ConsoleConstants
    <3>3. c.x + (TAB_WIDTH - (c.x % TAB_WIDTH)) + 1 = c.x + n
      BY <1>1, <3>2, ConsoleConstants
    <3> HIDE DEF n
    <3> QED
      BY <1>1, <3>1, <3>3
  <2>2. n \in 1 .. TXT_WIDTH
    BY <1>1, TabStop
  <2> HIDE DEF n
  <2> QED
    BY <1>1, <1>5, <2>1, <2>2, ConsoleConstants
<1>9. CASE chr = BS
  <2>1. Printed(c, chr) = Backspace(c)
    BY <1>9 DEF Printed, NL, CR, TAB, BS, FF
  <2>2. CASE c.x = 0 /\ c.y = 0
    <3>1. Backspace(c) = [mem |-> c.mem, x |-> 0, y |-> 0, stray |-> FALSE]
      BY <1>1, <2>2 DEF Backspace
    <3> QED
      BY <1>1, <1>5, <2>1, <3>1, ConsoleConstants
  <2>3. CASE ~(c.x = 0 /\ c.y = 0)
    <3> DEFINE back == IF c.x = 0 THEN [c EXCEPT !.y = c.y - 1, !.x = TXT_WIDTH - 1] ELSE [c EXCEPT !.x = c.x - 1]
               m == [i \in Cells |-> IF i >= Position(back) THEN CellAt(c.mem, i + 1) ELSE c.mem[i]]
    <3>1. Backspace(c) = [back EXCEPT !.mem = m]
      BY <2>3 DEF Backspace
    <3>2. m \in M
      <4> HIDE DEF back
      <4> QED
        BY <1>1, <1>2, <1>4 DEF M
    <3> HIDE DEF m
    <3>3. Backspace(c) = [mem |-> m, x |-> IF c.x = 0 THEN TXT_WIDTH - 1 ELSE c.x - 1,
                          y |-> IF c.x = 0 THEN c.y - 1 ELSE c.y, stray |-> FALSE]
      BY <1>1, <3>1
    <3> QED
      BY <1>1, <1>5, <2>1, <2>3, <3>2, <3>3, ConsoleConstants
  <2> QED
    BY <2>2, <2>3
<1>10. CASE chr = FF
  <2>1. Printed(c, chr) = [mem |-> c.mem, x |-> c.x, y |-> c.y + 1, stray |-> FALSE]
    BY <1>1, <1>10 DEF Printed, NL, CR, TAB, BS, FF
  <2> QED
    BY <1>1, <1>5, <2>1, ConsoleConstants
<1>11. CASE chr \notin {NL, CR, TAB, BS, FF}
  <2> DEFINE m == [i \in Cells |-> IF i = Position(c) THEN chr ELSE c.mem[i]]
  <2>1. Printed(c, chr) = [mem |-> m, x |-> c.x + 1, y |-> c.y, stray |-> FALSE]
    BY <1>1, <1>3, <1>11 DEF Printed
  <2>2. m \in M
    BY <1>1, <1>11 DEF M, Chars
  <2> HIDE DEF m
  <2> QED
    BY <1>1, <1>5, <2>1, <2>2, ConsoleConstants
<1> QED
  BY <1>6, <1>7, <1>8, <1>9, <1>10, <1>11

\* Wrapping and scrolling bring x and y back to the screen.
LEMMA BackInside ==
    ASSUME NEW c, Loose(c)
    PROVE  /\ Loose(Wrapped(c)) /\ Wrapped(c).x \in Columns
           /\ Scrolled(Wrapped(c)) \in Screens /\ ~Scrolled(Wrapped(c)).stray
           /\ Scrolled(Wrapped(c)).x \in Columns /\ Scrolled(Wrapped(c)).y \in Lines
<1> DEFINE w == Wrapped(c)
           M == [Cells -> Letters \cup {Space, OffScreen}]
<1>1. /\ c.x \in Int /\ c.y \in Int /\ c.x >= 0 /\ c.y >= 0 /\ c.y <= TXT_HEIGHT /\ c.x < 2 * TXT_WIDTH
      /\ c.x >= TXT_WIDTH => c.y < TXT_HEIGHT
      /\ c \in Screens /\ ~c.stray
  BY ConsoleConstants DEF Loose, Lines
<1>2. w \in Screens /\ ~w.stray /\ w.x \in Columns /\ w.y \in 0 .. TXT_HEIGHT
  <2>1. /\ c = [mem |-> c.mem, x |-> c.x, y |-> c.y, stray |-> c.stray]
        /\ c.mem \in M /\ c.stray = FALSE
    BY <1>1 DEF Screens
  <2>2. ASSUME NEW x \in Int, NEW y \in Int, w = [mem |-> c.mem, x |-> x, y |-> y, stray |-> FALSE]
        PROVE  w \in Screens /\ ~w.stray /\ w.x = x /\ w.y = y
    BY <2>1, <2>2 DEF Screens
  <2>3. CASE c.x >= TXT_WIDTH
    <3>1. w = [mem |-> c.mem, x |-> c.x - TXT_WIDTH, y |-> c.y + 1, stray |-> FALSE]
      BY <2>1, <2>3 DEF Wrapped
    <3> HIDE DEF w
    <3>2. c.x - TXT_WIDTH \in Columns /\ c.y + 1 \in 0 .. TXT_HEIGHT
      BY <1>1, <2>3, ConsoleConstants DEF Columns
    <3>3. c.x - TXT_WIDTH \in Int /\ c.y + 1 \in Int
      BY <1>1, ConsoleConstants
    <3>4. w \in Screens /\ ~w.stray /\ w.x = c.x - TXT_WIDTH /\ w.y = c.y + 1
      BY <2>2, <3>1, <3>3
    <3> QED
      BY <3>2, <3>4
  <2>4. CASE ~(c.x >= TXT_WIDTH)
    <3>1. w = c
      BY <2>4 DEF Wrapped
    <3> HIDE DEF w
    <3> QED
      BY <1>1, <2>4, <3>1, ConsoleConstants DEF Columns
  <2> QED
    BY <2>3, <2>4
<1> HIDE DEF w
<1>3. Loose(w)
  BY <1>2, ConsoleConstants DEF Loose, Columns
<1>4. CASE w.y < TXT_HEIGHT
  BY <1>2, <1>3, <1>4, ConsoleConstants DEF Scrolled, Lines, w
<1>5. CASE ~(w.y < TXT_HEIGHT)
  <2> DEFINE m == [i \in Cells |-> IF i < TXT_WIDTH * (TXT_HEIGHT - 1) THEN w.mem[i + TXT_WIDTH] ELSE Space]
  <2>1. Scrolled(w) = [w EXCEPT !.y = TXT_HEIGHT - 1, !.mem = m]
    BY <1>5 DEF Scrolled
  <2>2. m \in M
    <3>1. TXT_WIDTH * (TXT_HEIGHT - 1) \in Int /\ TXT_WIDTH * TXT_HEIGHT \in Int
          /\ TXT_WIDTH * (TXT_HEIGHT - 1) + TXT_WIDTH = TXT_WIDTH * TXT_HEIGHT
      BY ConsoleConstants
    <3>2. \A i \in Cells : i < TXT_WIDTH * (TXT_HEIGHT - 1) => i + TXT_WIDTH \in Cells
      BY <3>1, ConsoleConstants DEF Cells
    <3>3. w.mem \in M
      BY <1>2 DEF Screens
    <3> QED
      BY <3>2, <3>3
  <2> HIDE DEF m
  <2>3. Scrolled(w) \in Screens /\ ~Scrolled(w).stray /\ Scrolled(w).x = w.x /\ Scrolled(w).y = TXT_HEIGHT - 1
    <3>1. w = [mem |-> w.mem, x |-> w.x, y |-> w.y, stray |-> w.stray] /\ w.x \in Int /\ w.stray = FALSE
      BY <1>2 DEF Screens
    <3>2. Scrolled(w) = [mem |-> m, x |-> w.x, y |-> TXT_HEIGHT - 1, stray |-> FALSE]
      BY <2>1, <3>1
    <3> QED
      BY <2>2, <3>1, <3>2, ConsoleConstants DEF Screens
  <2> QED
    BY <1>2, <1>3, <2>3, ConsoleConstants DEF Lines, w
<1> QED
  BY <1>4, <1>5

\* Every cell is in a line and a column.
LEMMA GridCovers ==
    ASSUME NEW i \in Cells
    PROVE  \E v \in Lines, u \in Columns : i = Place(v, u)
<1> DEFINE w == TXT_WIDTH
           v == i \div w
           u == i % w
<1>1. w \in Nat /\ w > 0 /\ i \in Nat
  BY ConsoleConstants DEF Cells
<1>2. v \in Nat /\ u \in 0 .. w - 1 /\ i = w * v + u
  <2> HIDE DEF w
  <2> QED
    BY <1>1
<1>3. w * v = v * w
  <2> HIDE DEF w, v
  <2> QED
    BY <1>1, <1>2
<1>4. i = Place(v, u) /\ u \in Columns
  BY <1>2, <1>3 DEF Place, Columns
<1> HIDE DEF v, u, w
<1>5. v \in Lines
  <2>1. ~(v >= TXT_HEIGHT)
    BY <1>2, <1>4, Grid
  <2> QED
    BY <1>2, <2>1, ConsoleConstants DEF Lines
<1> QED
  BY <1>4, <1>5

-----------------------------------------------------------------------------
\* Where a row goes beyond the width of the screen, or is below it, it is blank.
BlankEnd(rs) ==
    \A j \in 1 .. Len(Lower(rs)) : j > TXT_WIDTH \/ Len(rs) > TXT_HEIGHT => Lower(rs)[j] = Space

\* There is a last row.
LEMMA LastRow ==
    ASSUME NEW rs \in Texts
    PROVE  /\ Len(rs) \in Nat /\ Len(rs) >= 1 /\ Lower(rs) = rs[Len(rs)] /\ Lower(rs) \in Seq(Glyphs)
           /\ Len(Lower(rs)) \in Nat /\ rs \in Seq(Seq(Glyphs))
           /\ \A k \in 1 .. Len(rs) : rs[k] \in Seq(Glyphs) /\ Len(rs[k]) \in Nat
<1>1. rs \in Seq(Seq(Glyphs)) /\ rs # <<>>
  BY DEF Texts
<1>2. Len(rs) \in Nat /\ Len(rs) >= 1
  BY <1>1, EmptySeq
<1>3. \A k \in 1 .. Len(rs) : rs[k] \in Seq(Glyphs)
  BY <1>1
<1> QED
  BY <1>1, <1>2, <1>3 DEF Lower

\* The rows above the last one
LEMMA UpperRows ==
    ASSUME NEW rs \in Texts
    PROVE  /\ Upper(rs) \in Seq(Seq(Glyphs)) /\ Len(Upper(rs)) = Len(rs) - 1
           /\ \A k \in 1 .. Len(rs) - 1 : Upper(rs)[k] = rs[k]
<1> DEFINE S == Seq(Glyphs)
           m == Len(rs) - 1
           up == SubSeq(rs, 1, m)
<1>1. m \in Int /\ m >= 0 /\ (\A k \in 1 .. m : rs[k] \in S)
  BY LastRow
<1> HIDE DEF S, m
<1>2. /\ up \in Seq(S)
      /\ Len(up) = IF 1 <= m THEN m - 1 + 1 ELSE 0
      /\ \A k \in 1 .. m - 1 + 1 : up[k] = rs[1 + k - 1]
  BY <1>1, SubSeqProperties
<1>3. up = Upper(rs)
  BY DEF Upper, m
<1> HIDE DEF up
<1>4. Len(up) = m /\ \A k \in 1 .. m : up[k] = rs[k]
  <2>1. m - 1 + 1 = m
    BY <1>1
  <2>2. \A k \in 1 .. m : 1 + k - 1 = k
    BY <1>1
  <2> QED
    BY <1>1, <1>2, <2>1, <2>2
<1> QED
  BY <1>2, <1>3, <1>4 DEF S, m

\* A new line
LEMMA TextNewLine ==
    ASSUME NEW rs \in Texts, Len(rs) <= TXT_HEIGHT
    PROVE  LET a == Append(rs, <<>>)
           IN  /\ a \in Texts /\ Len(a) = Len(rs) + 1 /\ Lower(a) = <<>> /\ BlankEnd(a)
               /\ \A y, x \in Nat : TextAt(a, y, x) = TextAt(rs, y, x)
<1> DEFINE a == Append(rs, <<>>)
<1>1. /\ Len(rs) \in Nat /\ Len(rs) >= 1 /\ rs \in Seq(Seq(Glyphs)) /\ <<>> \in Seq(Glyphs)
  BY LastRow
<1>2. /\ a \in Seq(Seq(Glyphs)) /\ Len(a) = Len(rs) + 1 /\ a[Len(rs) + 1] = <<>>
      /\ \A k \in 1 .. Len(rs) : a[k] = rs[k]
  BY <1>1, AppendProperties
<1> HIDE DEF a
<1>3. Lower(a) = <<>> /\ a \in Texts
  <2>1. a # <<>>
    BY <1>1, <1>2
  <2> QED
    BY <1>2, <2>1 DEF Lower, Texts
<1>4. ASSUME NEW y \in Nat, NEW x \in Nat PROVE TextAt(a, y, x) = TextAt(rs, y, x)
  <2>1. CASE y < Len(rs)
    <3>1. y + 1 \in 1 .. Len(rs)
      BY <1>1, <2>1
    <3>2. a[y + 1] = rs[y + 1] /\ y < Len(a)
      BY <1>1, <1>2, <2>1, <3>1, SMTT(30)
    <3> QED
      BY <2>1, <3>2 DEF TextAt
  <2>2. CASE y = Len(rs)
    <3>1. Len(a[y + 1]) = 0
      BY <1>2, <2>2, EmptySeq
    <3> QED
      BY <1>1, <2>2, <3>1 DEF TextAt
  <2>3. CASE y > Len(rs)
    BY <1>1, <1>2, <2>3 DEF TextAt
  <2> QED
    BY <1>1, <2>1, <2>2, <2>3
<1>5. BlankEnd(a)
  BY <1>3, EmptySeq DEF BlankEnd
<1> QED
  BY <1>2, <1>3, <1>4, <1>5 DEF a

\* Cells at the end of the last row
LEMMA TextAdded ==
    ASSUME NEW rs \in Texts, NEW cells \in Seq(Glyphs)
    PROVE  LET a == Added(rs, cells)
               n == Len(Lower(rs))
           IN  /\ a \in Texts /\ Len(a) = Len(rs) /\ Lower(a) = Lower(rs) \o cells
               /\ Len(Lower(a)) = n + Len(cells)
               /\ \A y, x \in Nat :
                    TextAt(a, y, x) = IF y = Len(rs) - 1 /\ n <= x /\ x < n + Len(cells)
                                      THEN cells[x - n + 1] ELSE TextAt(rs, y, x)
               /\ \A x \in Nat : n <= x => TextAt(rs, Len(rs) - 1, x) = Space
<1> DEFINE a == Added(rs, cells)
           l == Lower(rs)
           n == Len(l)
           up == Upper(rs)
           t == l \o cells
<1>1. /\ Len(rs) \in Nat /\ Len(rs) >= 1 /\ l = rs[Len(rs)] /\ l \in Seq(Glyphs) /\ n \in Nat
      /\ rs \in Seq(Seq(Glyphs))
  BY LastRow
<1>2. Len(cells) \in Nat
  OBVIOUS
<1>3. up \in Seq(Seq(Glyphs)) /\ Len(up) = Len(rs) - 1 /\ \A k \in 1 .. Len(rs) - 1 : up[k] = rs[k]
  BY UpperRows
<1>4. t \in Seq(Glyphs) /\ Len(t) = n + Len(cells)
      /\ \A j \in 1 .. n + Len(cells) : t[j] = IF j <= n THEN l[j] ELSE cells[j - n]
  <2> HIDE DEF l
  <2> QED
    BY <1>1, ConcatProperties
<1>5. a = Append(up, t)
  BY DEF Added
<1> HIDE DEF a, l, n, up, t
<1>6. /\ a \in Seq(Seq(Glyphs)) /\ Len(a) = Len(rs) /\ a[Len(rs)] = t
      /\ \A k \in 1 .. Len(rs) - 1 : a[k] = rs[k]
  <2>1. Len(a) = Len(up) + 1 /\ a[Len(up) + 1] = t /\ a \in Seq(Seq(Glyphs))
        /\ \A k \in 1 .. Len(up) : a[k] = up[k]
    BY <1>3, <1>4, <1>5, AppendProperties
  <2>2. Len(up) + 1 = Len(rs) /\ 1 .. Len(up) = 1 .. Len(rs) - 1
    BY <1>1, <1>3
  <2> QED
    BY <1>3, <2>1, <2>2, Zenon
<1>7. a \in Texts /\ Lower(a) = t
  <2>1. a # <<>>
    BY <1>1, <1>6
  <2> QED
    BY <1>6, <2>1 DEF Texts, Lower
<1>8. ASSUME NEW x \in Nat, n <= x PROVE TextAt(rs, Len(rs) - 1, x) = Space
  BY <1>1, <1>8 DEF TextAt, n
<1>9. ASSUME NEW y \in Nat, NEW x \in Nat
      PROVE  TextAt(a, y, x) = IF y = Len(rs) - 1 /\ n <= x /\ x < n + Len(cells)
                               THEN cells[x - n + 1] ELSE TextAt(rs, y, x)
  <2>1. CASE y < Len(rs) - 1
    <3>1. y + 1 \in 1 .. Len(rs) - 1 /\ y < Len(rs) /\ y # Len(rs) - 1
      BY <1>1, <2>1
    <3> QED
      BY <1>6, <3>1 DEF TextAt
  <2>2. CASE y >= Len(rs)
    BY <1>1, <1>6, <2>2 DEF TextAt
  <2>3. CASE y = Len(rs) - 1
    <3>1. y + 1 = Len(rs) /\ y < Len(rs) /\ y < Len(a)
      BY <1>1, <1>6, <2>3
    <3>2. TextAt(a, y, x) = IF x < n + Len(cells) THEN t[x + 1] ELSE Space
      BY <1>4, <1>6, <3>1 DEF TextAt
    <3>3. TextAt(rs, y, x) = IF x < n THEN l[x + 1] ELSE Space
      BY <1>1, <3>1 DEF TextAt, n
    <3>4. CASE x < n
      <4>1. x + 1 \in 1 .. n + Len(cells) /\ x + 1 <= n /\ x < n + Len(cells) /\ ~(n <= x)
        BY <1>1, <1>2, <3>4
      <4> QED
        BY <1>4, <3>2, <3>3, <3>4, <4>1
    <3>5. CASE n <= x /\ x < n + Len(cells)
      <4>1. x + 1 \in 1 .. n + Len(cells) /\ ~(x + 1 <= n) /\ (x + 1) - n = x - n + 1
        BY <1>1, <1>2, <3>5
      <4>2. t[x + 1] = cells[(x + 1) - n]
        BY <1>4, <4>1
      <4> QED
        BY <2>3, <3>2, <3>5, <4>1, <4>2
    <3>6. CASE ~(x < n + Len(cells))
      <4>1. ~(x < n)
        BY <1>1, <1>2, <3>6
      <4> QED
        BY <3>2, <3>3, <3>6, <4>1
    <3> QED
      BY <1>1, <1>2, <3>4, <3>5, <3>6
  <2> QED
    BY <1>1, <2>1, <2>2, <2>3
<1> QED
  BY <1>4, <1>6, <1>7, <1>8, <1>9 DEF a, l, n, t

\* Below the screen there is nothing to see.
LEMMA BelowBlank ==
    ASSUME NEW rs \in Texts, BlankEnd(rs), Len(rs) <= TXT_HEIGHT + 1, NEW x \in Nat
    PROVE  TextAt(rs, TXT_HEIGHT, x) = Space
<1>1. /\ Len(rs) \in Nat /\ Lower(rs) = rs[Len(rs)] /\ Len(Lower(rs)) \in Nat
  BY LastRow
<1>2. CASE Len(rs) = TXT_HEIGHT + 1
  <2>1. TextAt(rs, TXT_HEIGHT, x) = IF x < Len(Lower(rs)) THEN Lower(rs)[x + 1] ELSE Space
    BY <1>1, <1>2, ConsoleConstants DEF TextAt
  <2>2. ASSUME x < Len(Lower(rs)) PROVE Lower(rs)[x + 1] = Space
    <3>1. x + 1 \in 1 .. Len(Lower(rs)) /\ Len(rs) > TXT_HEIGHT
      BY <1>1, <1>2, <2>2, ConsoleConstants
    <3> QED
      BY <3>1 DEF BlankEnd
  <2> QED
    BY <2>1, <2>2
<1>3. CASE Len(rs) <= TXT_HEIGHT
  BY <1>1, <1>3, ConsoleConstants DEF TextAt
<1> QED
  BY <1>1, <1>2, <1>3, ConsoleConstants

\* A full row is broken: what goes over to the next row is blank, so the text looks
\* the same.
LEMMA TextBroken ==
    ASSUME NEW rs \in Texts, BlankEnd(rs)
    PROVE  LET b == Broken(rs)
               full == Len(Lower(rs)) >= TXT_WIDTH
           IN  /\ b \in Texts
               /\ Len(b) = IF full THEN Len(rs) + 1 ELSE Len(rs)
               /\ Len(Lower(b)) = IF full THEN Len(Lower(rs)) - TXT_WIDTH ELSE Len(Lower(rs))
               /\ \A y \in Nat, x \in Columns : TextAt(b, y, x) = TextAt(rs, y, x)
<1> DEFINE b == Broken(rs)
           l == Lower(rs)
           n == Len(l)
           w == TXT_WIDTH
           up == Upper(rs)
           first == SubSeq(l, 1, w)
           rest == SubSeq(l, w + 1, n)
           two == <<first, rest>>
           S == Seq(Glyphs)
           m == Len(rs)
<1>1. /\ m \in Nat /\ m >= 1 /\ l = rs[m] /\ l \in Seq(Glyphs) /\ n \in Nat
      /\ w \in Nat /\ w > 0
  BY LastRow, ConsoleConstants
<1>2. CASE n < w
  BY <1>1, <1>2 DEF Broken
<1>3. CASE ~(n < w)
  <2>1. \A j \in 1 .. n : l[j] \in Glyphs
    BY <1>1
  <2>2. \A j \in 1 .. n : j > w => l[j] = Space
    <3>1. TXT_WIDTH = w
      OBVIOUS
    <3> HIDE DEF w
    <3> QED
      BY <3>1 DEF BlankEnd, l, n
  <2>3. b = up \o two
    BY <1>3 DEF Broken
  <2>4. up \in Seq(S) /\ Len(up) = m - 1 /\ \A k \in 1 .. m - 1 : up[k] = rs[k]
    BY UpperRows
  <2>5. Columns = 0 .. w - 1 /\ (n >= TXT_WIDTH <=> n >= w) /\ n - TXT_WIDTH = n - w
    BY DEF Columns
  <2> HIDE DEF b, l, n, w, up, m
  <2>6. first \in S /\ Len(first) = w /\ \A j \in 1 .. w : first[j] = l[j]
    <3>1. \A j \in 1 .. w : l[j] \in Glyphs
      BY <1>1, <1>3, <2>1
    <3>2. /\ first \in Seq(Glyphs) /\ Len(first) = (IF 1 <= w THEN w - 1 + 1 ELSE 0)
          /\ \A j \in 1 .. w - 1 + 1 : first[j] = l[1 + j - 1]
      BY <1>1, <3>1, SubSeqProperties
    <3>3. w - 1 + 1 = w /\ 1 <= w /\ \A j \in 1 .. w : 1 + j - 1 = j
      BY <1>1
    <3> HIDE DEF first
    <3> QED
      BY <3>2, <3>3
  <2>7. rest \in S /\ Len(rest) = n - w /\ \A j \in 1 .. n - w : rest[j] = Space
    <3>1. \A j \in w + 1 .. n : l[j] \in Glyphs
      BY <1>1, <2>1
    <3>2. /\ rest \in Seq(Glyphs) /\ Len(rest) = (IF w + 1 <= n THEN n - (w + 1) + 1 ELSE 0)
          /\ \A j \in 1 .. n - (w + 1) + 1 : rest[j] = l[(w + 1) + j - 1]
      BY <1>1, <3>1, SubSeqProperties
    <3>3. n - (w + 1) + 1 = n - w /\ (~(w + 1 <= n) => n - w = 0)
      BY <1>1, <1>3
    <3>4. \A j \in 1 .. n - w : (w + 1) + j - 1 = w + j /\ w + j \in 1 .. n /\ w + j > w
      BY <1>1
    <3> HIDE DEF rest
    <3>5. \A j \in 1 .. n - w : rest[j] = Space
      BY <2>2, <3>2, <3>3, <3>4
    <3> QED
      BY <3>2, <3>3, <3>5
  <2> HIDE DEF first, rest, S
  <2>8. two \in Seq(S) /\ Len(two) = 2 /\ two[1] = first /\ two[2] = rest
    BY <2>6, <2>7
  <2> HIDE DEF two
  <2>9. /\ b \in Seq(S) /\ Len(b) = m + 1
        /\ b[m] = first /\ b[m + 1] = rest /\ \A k \in 1 .. m - 1 : b[k] = rs[k]
    <3>1. /\ b \in Seq(S) /\ Len(b) = (m - 1) + 2
          /\ \A k \in 1 .. (m - 1) + 2 : b[k] = IF k <= m - 1 THEN up[k] ELSE two[k - (m - 1)]
      <4>1. /\ up \o two \in Seq(S) /\ Len(up \o two) = Len(up) + Len(two)
            /\ \A k \in 1 .. Len(up) + Len(two) :
                 (up \o two)[k] = IF k <= Len(up) THEN up[k] ELSE two[k - Len(up)]
        BY <2>4, <2>8, ConcatProperties
      <4> QED
        BY <2>3, <2>4, <2>8, <4>1
    <3>2. /\ m \in 1 .. (m - 1) + 2 /\ ~(m <= m - 1) /\ m - (m - 1) = 1
          /\ m + 1 \in 1 .. (m - 1) + 2 /\ ~(m + 1 <= m - 1) /\ (m + 1) - (m - 1) = 2
          /\ (m - 1) + 2 = m + 1
      BY <1>1
    <3>3. \A k \in 1 .. m - 1 : k \in 1 .. (m - 1) + 2 /\ k <= m - 1
      BY <1>1
    <3> QED
      BY <2>4, <2>8, <3>1, <3>2, <3>3
  <2>10. b \in Texts /\ Lower(b) = rest
    <3>1. b # <<>>
      BY <1>1, <2>9
    <3> QED
      BY <2>9, <3>1 DEF Texts, Lower, S
  <2>11. ASSUME NEW y \in Nat, NEW x \in Columns PROVE TextAt(b, y, x) = TextAt(rs, y, x)
    <3>1. x \in Nat /\ x < w /\ x < n
      BY <1>1, <1>3, <2>5
    <3>2. CASE y < m - 1
      <4>1. y + 1 \in 1 .. m - 1 /\ y < m /\ y < m + 1
        BY <1>1, <3>2
      <4> QED
        BY <2>9, <4>1 DEF TextAt, m
    <3>3. CASE y = m - 1
      <4>1. y + 1 = m /\ y < m /\ y < m + 1 /\ x + 1 \in 1 .. w
        BY <1>1, <3>1, <3>3
      <4>2. TextAt(b, y, x) = first[x + 1]
        BY <2>6, <2>9, <3>1, <4>1 DEF TextAt
      <4>3. TextAt(rs, y, x) = l[x + 1]
        BY <1>1, <3>1, <4>1 DEF TextAt, m, n
      <4> QED
        BY <2>6, <4>1, <4>2, <4>3
    <3>4. CASE y = m
      <4>1. TextAt(rs, y, x) = Space
        BY <1>1, <3>4 DEF TextAt, m
      <4>2. y + 1 = m + 1 /\ y < m + 1
        BY <1>1, <3>4
      <4>3. TextAt(b, y, x) = IF x < n - w THEN rest[x + 1] ELSE Space
        BY <2>7, <2>9, <4>2 DEF TextAt
      <4>4. x < n - w => x + 1 \in 1 .. n - w
        BY <1>1, <3>1
      <4> QED
        BY <2>7, <4>1, <4>3, <4>4
    <3>5. CASE y > m
      BY <1>1, <2>9, <3>5 DEF TextAt, m
    <3> QED
      BY <1>1, <3>2, <3>3, <3>4, <3>5
  <2> QED
    BY <1>1, <1>3, <2>5, <2>7, <2>9, <2>10, <2>11 DEF b, l, n, m
<1> QED
  BY <1>2, <1>3

\* The first row leaves the screen.
LEMMA TextBottom ==
    ASSUME NEW rs \in Texts, Len(rs) > 1
    PROVE  /\ Tail(rs) \in Texts /\ Len(Tail(rs)) = Len(rs) - 1 /\ Lower(Tail(rs)) = Lower(rs)
           /\ \A y \in Nat, x \in Nat : TextAt(Tail(rs), y, x) = TextAt(rs, y + 1, x)
<1> DEFINE t == Tail(rs)
           m == Len(rs)
<1>1. m \in Nat /\ m > 1 /\ rs \in Seq(Seq(Glyphs)) /\ rs # <<>>
  BY LastRow DEF Texts
<1>2. t \in Seq(Seq(Glyphs)) /\ Len(t) = m - 1 /\ \A k \in 1 .. Len(t) : t[k] = rs[k + 1]
  BY <1>1, HeadTailProperties
<1> HIDE DEF t, m
<1>3. \A k \in 1 .. m - 1 : t[k] = rs[k + 1]
  BY <1>2
<1>4. t # <<>>
  BY <1>1, <1>2
<1>5. Lower(t) = Lower(rs)
  <2>1. m - 1 \in 1 .. m - 1 /\ (m - 1) + 1 = m
    BY <1>1
  <2> QED
    BY <1>2, <1>3, <2>1 DEF Lower, m
<1>6. ASSUME NEW y \in Nat, NEW x \in Nat PROVE TextAt(t, y, x) = TextAt(rs, y + 1, x)
  <2>1. CASE y < m - 1
    <3>1. y + 1 \in 1 .. m - 1 /\ y + 1 < m
      BY <1>1, <2>1
    <3>2. t[y + 1] = rs[(y + 1) + 1]
      BY <1>3, <3>1
    <3> QED
      BY <1>2, <2>1, <3>1, <3>2 DEF TextAt, m
  <2>2. CASE ~(y < m - 1)
    <3>1. ~(y + 1 < m)
      BY <1>1, <2>2
    <3> QED
      BY <1>2, <2>2, <3>1 DEF TextAt, m
  <2> QED
    BY <2>1, <2>2
<1> QED
  BY <1>2, <1>4, <1>5, <1>6 DEF t, m, Texts

-----------------------------------------------------------------------------
\* A step of the loop keeps the screen and the text together.  First the character:
LEMMA ShowsPrinted ==
    ASSUME NEW c \in Screens, NEW rs, NEW chr \in PlainText,
           Shows(c, rs), c.x \in Columns, c.y \in Lines
    PROVE  LET rs1 == IF chr = NL THEN Append(rs, <<>>)
                      ELSE Added(rs, IF chr = TAB THEN Blanks(TAB_WIDTH - (Len(Lower(rs)) % TAB_WIDTH) + 1)
                                     ELSE <<chr>>)
           IN  Shows(Printed(c, chr), rs1) /\ BlankEnd(rs1) /\ Len(rs1) <= TXT_HEIGHT + 1
<1>1. /\ rs \in Texts /\ c.y = Len(rs) - 1 /\ c.x = Len(Lower(rs))
      /\ \A y \in Lines, x \in Columns : LooksLike(c.mem[Place(y, x)], TextAt(rs, y, x))
  BY DEF Shows
<1>2. /\ Len(rs) \in Nat /\ Len(rs) >= 1 /\ Len(rs) <= TXT_HEIGHT /\ c.y \in Nat /\ c.x \in Nat
      /\ c.x < TXT_WIDTH /\ Len(rs) = c.y + 1
  BY <1>1, LastRow, ConsoleConstants DEF Lines, Columns
<1>3. \A v \in Nat, x \in Nat : v > c.y => TextAt(rs, v, x) = Space
  BY <1>2 DEF TextAt
<1>4. \A y \in Lines : y \in Nat
  BY ConsoleConstants DEF Lines
<1>5. \A x \in Columns : x \in Nat
  BY ConsoleConstants DEF Columns
<1>6. c = [mem |-> c.mem, x |-> c.x, y |-> c.y, stray |-> c.stray]
  BY DEF Screens
<1>7. CASE chr = NL
  <2> DEFINE a == Append(rs, <<>>)
             p == Printed(c, chr)
  <2>1. /\ a \in Texts /\ Len(a) = Len(rs) + 1 /\ Lower(a) = <<>> /\ BlankEnd(a)
        /\ \A y, x \in Nat : TextAt(a, y, x) = TextAt(rs, y, x)
    BY <1>1, <1>2, TextNewLine
  <2>2. /\ p.y = c.y + 1 /\ p.x = 0
        /\ \A i \in Cells : p.mem[i] = IF i >= (c.y + 1) * TXT_WIDTH THEN CellAt(c.mem, i + c.x) ELSE c.mem[i]
    <3>1. p = NewLine(c)
      BY <1>7 DEF Printed, NL, CR, TAB, BS, FF
    <3> HIDE DEF p
    <3> QED
      BY <3>1 DEF NewLine
  <2> HIDE DEF a, p
  <2>3. ASSUME NEW y \in Lines, NEW x \in Columns
        PROVE  LooksLike(p.mem[Place(y, x)], TextAt(a, y, x))
    <3>1. /\ Place(y, x) \in Cells /\ Place(y, x) \in Nat
          /\ Place(y, x) >= (c.y + 1) * TXT_WIDTH <=> y >= c.y + 1
      <4>1. y \in Nat /\ c.y + 1 \in Nat
        BY <1>2, <1>4
      <4> QED
        BY <4>1, Grid
    <3>2. TextAt(a, y, x) = TextAt(rs, y, x)
      BY <1>4, <1>5, <2>1
    <3>3. CASE y >= c.y + 1
      <4>1. TextAt(rs, y, x) = Space
        BY <1>2, <1>3, <1>4, <1>5, <3>3
      <4> DEFINE i == Place(y, x) + c.x
      <4>2. p.mem[Place(y, x)] = CellAt(c.mem, i)
        BY <2>2, <3>1, <3>3
      <4>3. i \in Nat /\ i >= Place(y, x)
        BY <1>2, <3>1
      <4> HIDE DEF i
      <4>4. CASE i \notin Cells
        BY <3>2, <4>1, <4>2, <4>4 DEF CellAt, LooksLike
      <4>5. CASE i \in Cells
        <5>1. PICK v \in Lines, u \in Columns : i = Place(v, u)
          BY <4>5, GridCovers
        <5>2. v \in Nat /\ c.y + 1 \in Nat /\ (c.y + 1) * TXT_WIDTH \in Nat /\ Place(y, x) >= (c.y + 1) * TXT_WIDTH
          BY <1>2, <1>4, <3>1, <3>3, ConsoleConstants
        <5>3. Place(v, u) >= (c.y + 1) * TXT_WIDTH
          BY <3>1, <4>3, <5>1, <5>2
        <5>4. v >= c.y + 1
          BY <5>2, <5>3, Grid
        <5>5. TextAt(rs, v, u) = Space
          BY <1>2, <1>3, <1>5, <5>2, <5>4
        <5>6. LooksLike(c.mem[i], Space)
          BY <1>1, <5>1, <5>5
        <5> QED
          BY <3>2, <4>1, <4>2, <4>5, <5>6 DEF CellAt
      <4> QED
        BY <4>4, <4>5
    <3>4. CASE ~(y >= c.y + 1)
      BY <1>1, <2>2, <3>1, <3>2, <3>4
    <3> QED
      BY <3>3, <3>4
  <2>4. Shows(p, a)
    <3>1. p.y = Len(a) - 1 /\ p.x = Len(Lower(a))
      BY <1>2, <2>1, <2>2
    <3> QED
      BY <2>1, <2>3, <3>1 DEF Shows
  <2>5. Len(a) <= TXT_HEIGHT + 1
    BY <1>2, <2>1, ConsoleConstants
  <2> QED
    BY <1>7, <2>1, <2>4, <2>5 DEF a, p
<1>8. CASE chr = TAB
  <2> DEFINE n == TAB_WIDTH - (Len(Lower(rs)) % TAB_WIDTH) + 1
             a == Added(rs, Blanks(n))
             p == Printed(c, chr)
             len == Len(Lower(rs))
  <2>1. n \in 1 .. TXT_WIDTH
    BY <1>1, <1>2, TabStop
  <2>2. /\ p.mem = c.mem /\ p.y = c.y /\ p.x = c.x + n
    <3>1. p = [c EXCEPT !.x = c.x + (TAB_WIDTH - (c.x % TAB_WIDTH)) + 1]
      BY <1>8 DEF Printed, Tabulator, NL, CR, TAB, BS, FF
    <3>2. c.x % TAB_WIDTH \in Int
      BY <1>2, ConsoleConstants
    <3>3. c.x + (TAB_WIDTH - (c.x % TAB_WIDTH)) + 1 = c.x + n
      BY <1>1, <1>2, <3>2, ConsoleConstants
    <3> HIDE DEF n, p
    <3> QED
      BY <1>6, <3>1, <3>3
  <2>3. n \in Nat
    <3> HIDE DEF n
    <3> QED
      BY <2>1, ConsoleConstants
  <2> HIDE DEF n
  <2>4. Blanks(n) \in Seq(Glyphs) /\ Len(Blanks(n)) = n /\ \A j \in 1 .. n : Blanks(n)[j] = Space
    BY <2>3 DEF Blanks, Glyphs
  <2>5. /\ a \in Texts /\ Len(a) = Len(rs) /\ Lower(a) = Lower(rs) \o Blanks(n) /\ Len(Lower(a)) = len + n
        /\ \A y, x \in Nat :
             TextAt(a, y, x) = IF y = Len(rs) - 1 /\ len <= x /\ x < len + n
                               THEN Blanks(n)[x - len + 1] ELSE TextAt(rs, y, x)
        /\ \A x \in Nat : len <= x => TextAt(rs, Len(rs) - 1, x) = Space
    <3> DEFINE bl == Blanks(n)
    <3>1. bl \in Seq(Glyphs) /\ Len(bl) = n
      BY <2>4
    <3> HIDE DEF bl
    <3>2. LET b == Added(rs, bl)
          IN  /\ b \in Texts /\ Len(b) = Len(rs) /\ Lower(b) = Lower(rs) \o bl
              /\ Len(Lower(b)) = len + Len(bl)
              /\ \A y, x \in Nat :
                   TextAt(b, y, x) = IF y = Len(rs) - 1 /\ len <= x /\ x < len + Len(bl)
                                     THEN bl[x - len + 1] ELSE TextAt(rs, y, x)
              /\ \A x \in Nat : len <= x => TextAt(rs, Len(rs) - 1, x) = Space
      BY <1>1, <3>1, TextAdded, Zenon
    <3> QED
      BY <3>1, <3>2, Zenon DEF bl
  <2>6. len \in Nat /\ Lower(rs) \in Seq(Glyphs) /\ len = c.x
    BY <1>1, LastRow
  <2> HIDE DEF p, a
  <2>7. ASSUME NEW y \in Lines, NEW x \in Columns
        PROVE  LooksLike(p.mem[Place(y, x)], TextAt(a, y, x))
    <3>1. y \in Nat /\ x \in Nat
      BY <1>4, <1>5
    <3>2. CASE y = Len(rs) - 1 /\ len <= x /\ x < len + n
      <4>1. x - len + 1 \in 1 .. n
        BY <2>3, <2>6, <3>1, <3>2
      <4>2. TextAt(a, y, x) = Space
        BY <2>4, <2>5, <3>1, <3>2, <4>1
      <4>3. TextAt(rs, y, x) = Space
        BY <2>5, <3>1, <3>2
      <4> QED
        BY <1>1, <2>2, <4>2, <4>3
    <3>3. CASE ~(y = Len(rs) - 1 /\ len <= x /\ x < len + n)
      <4>1. TextAt(a, y, x) = TextAt(rs, y, x)
        BY <2>5, <3>1, <3>3
      <4> QED
        BY <1>1, <2>2, <4>1
    <3> QED
      BY <3>2, <3>3
  <2>8. Shows(p, a)
    <3>1. p.y = Len(a) - 1 /\ p.x = Len(Lower(a))
      BY <1>1, <2>2, <2>5, <2>6
    <3> QED
      BY <2>5, <2>7, <3>1 DEF Shows
  <2>9. BlankEnd(a)
    <3> SUFFICES ASSUME NEW j \in 1 .. Len(Lower(a)), j > TXT_WIDTH \/ Len(a) > TXT_HEIGHT
                 PROVE  Lower(a)[j] = Space
      BY DEF BlankEnd
    <3>1. j > TXT_WIDTH /\ j \in 1 .. len + n
      BY <1>2, <2>5, ConsoleConstants
    <3>2. ~(j <= len) /\ j - len \in 1 .. n
      BY <1>2, <2>3, <2>6, <3>1, ConsoleConstants, SMTT(30)
    <3>3. (Lower(rs) \o Blanks(n))[j] = Blanks(n)[j - len]
      <4>1. \A k \in 1 .. Len(Lower(rs)) + Len(Blanks(n)) :
              (Lower(rs) \o Blanks(n))[k] =
                 IF k <= Len(Lower(rs)) THEN Lower(rs)[k] ELSE Blanks(n)[k - Len(Lower(rs))]
        BY <2>4, <2>6, ConcatProperties
      <4> QED
        BY <2>4, <3>1, <3>2, <4>1
    <3> QED
      BY <2>4, <2>5, <3>2, <3>3
  <2>10. Len(a) <= TXT_HEIGHT + 1
    BY <1>2, <2>5, ConsoleConstants
  <2> QED
    <3>1. chr # NL
      BY <1>8 DEF NL, TAB
    <3> QED
      BY <1>8, <2>8, <2>9, <2>10, <3>1 DEF a, p, n
<1>9. CASE chr \notin {NL, TAB}
  <2> DEFINE a == Added(rs, <<chr>>)
             p == Printed(c, chr)
             len == Len(Lower(rs))
  <2>1. chr \in Letters /\ chr \notin {NL, CR, TAB, BS, FF} /\ chr \in Glyphs
    BY <1>9, ConsoleAssumption DEF PlainText, Glyphs
  <2>2. /\ p.y = c.y /\ p.x = c.x + 1
        /\ \A i \in Cells : p.mem[i] = IF i = Place(c.y, c.x) THEN chr ELSE c.mem[i]
    <3>1. p = [c EXCEPT !.mem = [i \in Cells |-> IF i = Position(c) THEN chr ELSE @[i]],
                        !.stray = @ \/ Position(c) \notin Cells, !.x = c.x + 1]
      BY <2>1 DEF Printed
    <3>2. Position(c) = Place(c.y, c.x)
      BY DEF Position, Place
    <3> HIDE DEF p
    <3> QED
      BY <1>6, <3>1, <3>2
  <2>3. <<chr>> \in Seq(Glyphs) /\ Len(<<chr>>) = 1 /\ <<chr>>[1] = chr
    BY <2>1
  <2>4. /\ a \in Texts /\ Len(a) = Len(rs) /\ Len(Lower(a)) = len + 1
        /\ \A y, x \in Nat :
             TextAt(a, y, x) = IF y = Len(rs) - 1 /\ len <= x /\ x < len + 1
                               THEN <<chr>>[x - len + 1] ELSE TextAt(rs, y, x)
    <3> DEFINE one == <<chr>>
    <3>1. one \in Seq(Glyphs) /\ Len(one) = 1
      BY <2>3
    <3> HIDE DEF one
    <3>2. LET b == Added(rs, one)
          IN  /\ b \in Texts /\ Len(b) = Len(rs) /\ Len(Lower(b)) = len + Len(one)
              /\ \A y, x \in Nat :
                   TextAt(b, y, x) = IF y = Len(rs) - 1 /\ len <= x /\ x < len + Len(one)
                                     THEN one[x - len + 1] ELSE TextAt(rs, y, x)
      BY <1>1, <3>1, TextAdded, Zenon
    <3> QED
      BY <3>1, <3>2, Zenon DEF one
  <2>5. len \in Nat /\ len = c.x
    BY <1>1, LastRow
  <2> HIDE DEF p, a, len
  <2>6. ASSUME NEW y \in Lines, NEW x \in Columns
        PROVE  LooksLike(p.mem[Place(y, x)], TextAt(a, y, x))
    <3>1. y \in Nat /\ x \in Nat
      BY <1>4, <1>5
    <3>2. Place(y, x) \in Cells /\ (Place(y, x) = Place(c.y, c.x) => y = c.y /\ x = c.x)
      <4>1. /\ Place(y, x) \in Cells
            /\ \A v \in Nat, u \in Columns : Place(y, x) = Place(v, u) => y = v /\ x = u
        BY <3>1, Grid
      <4> QED
        BY <1>2, <4>1
    <3>3. CASE y = c.y /\ x = c.x
      <4>1. y = Len(rs) - 1 /\ len <= x /\ x < len + 1 /\ x - len + 1 = 1
        BY <1>1, <2>5, <3>1, <3>3
      <4>2. TextAt(a, y, x) = chr
        BY <2>3, <2>4, <3>1, <4>1
      <4> QED
        BY <2>2, <3>2, <3>3, <4>2 DEF LooksLike
    <3>4. CASE ~(y = c.y /\ x = c.x)
      <4>1. ~(y = Len(rs) - 1 /\ len <= x /\ x < len + 1)
        BY <1>1, <2>5, <3>1, <3>4
      <4>2. TextAt(a, y, x) = TextAt(rs, y, x)
        BY <2>4, <3>1, <4>1
      <4> QED
        BY <1>1, <2>2, <3>2, <3>4, <4>2
    <3> QED
      BY <3>3, <3>4
  <2>7. Shows(p, a)
    <3>1. p.y = Len(a) - 1 /\ p.x = Len(Lower(a))
      BY <1>1, <2>2, <2>4, <2>5
    <3> QED
      BY <2>4, <2>6, <3>1 DEF Shows
  <2>8. BlankEnd(a) /\ Len(a) <= TXT_HEIGHT + 1
    BY <1>2, <2>4, <2>5, ConsoleConstants DEF BlankEnd
  <2> QED
    BY <1>9, <2>7, <2>8 DEF a, p
<1> QED
  BY <1>7, <1>8, <1>9

\* then the line that is too long:
LEMMA ShowsWrapped ==
    ASSUME NEW c \in Screens, NEW rs, Shows(c, rs), BlankEnd(rs)
    PROVE  LET w == Wrapped(c)
               b == Broken(rs)
           IN  /\ Shows(w, b)
               /\ \A y \in Nat, x \in Columns : TextAt(b, y, x) = TextAt(rs, y, x)
<1> DEFINE w == Wrapped(c)
           b == Broken(rs)
           full == Len(Lower(rs)) >= TXT_WIDTH
<1>1. /\ rs \in Texts /\ c.y = Len(rs) - 1 /\ c.x = Len(Lower(rs))
      /\ \A y \in Lines, x \in Columns : LooksLike(c.mem[Place(y, x)], TextAt(rs, y, x))
  BY DEF Shows
<1>2. /\ b \in Texts
      /\ Len(b) = IF full THEN Len(rs) + 1 ELSE Len(rs)
      /\ Len(Lower(b)) = IF full THEN Len(Lower(rs)) - TXT_WIDTH ELSE Len(Lower(rs))
      /\ \A y \in Nat, x \in Columns : TextAt(b, y, x) = TextAt(rs, y, x)
  BY <1>1, TextBroken
<1>3. Len(rs) \in Nat /\ Len(Lower(rs)) \in Nat /\ (full <=> c.x >= TXT_WIDTH)
  BY <1>1, LastRow
<1>4. /\ w.mem = c.mem
      /\ w.x = IF full THEN c.x - TXT_WIDTH ELSE c.x
      /\ w.y = IF full THEN c.y + 1 ELSE c.y
  <2>1. c = [mem |-> c.mem, x |-> c.x, y |-> c.y, stray |-> c.stray]
    BY DEF Screens
  <2>2. w = IF full THEN [c EXCEPT !.x = c.x - TXT_WIDTH, !.y = c.y + 1] ELSE c
    BY <1>3 DEF Wrapped
  <2> HIDE DEF w, full
  <2> QED
    BY <2>1, <2>2
<1> HIDE DEF w, b, full
<1>5. w.y = Len(b) - 1 /\ w.x = Len(Lower(b))
  BY <1>1, <1>2, <1>3, <1>4
<1>6. \A y \in Lines, x \in Columns : LooksLike(w.mem[Place(y, x)], TextAt(b, y, x))
  <2>1. \A y \in Lines : y \in Nat
    BY ConsoleConstants DEF Lines
  <2> QED
    BY <1>1, <1>2, <1>4, <2>1
<1> QED
  BY <1>2, <1>5, <1>6 DEF Shows, w, b

\* and then the row below the screen.
LEMMA ShowsScrolled ==
    ASSUME NEW c \in Screens, NEW rs, Shows(c, rs), Len(rs) <= TXT_HEIGHT + 1,
           \A x \in Columns : TextAt(rs, TXT_HEIGHT, x) = Space
    PROVE  Shows(Scrolled(c), Bottom(rs))
<1> DEFINE s == Scrolled(c)
<1>1. /\ rs \in Texts /\ c.y = Len(rs) - 1 /\ c.x = Len(Lower(rs)) /\ Len(rs) \in Nat
      /\ \A y \in Lines, x \in Columns : LooksLike(c.mem[Place(y, x)], TextAt(rs, y, x))
  BY LastRow DEF Shows
<1>2. CASE Len(rs) <= TXT_HEIGHT
  <2>1. c.y < TXT_HEIGHT /\ ~(Len(rs) > TXT_HEIGHT)
    BY <1>1, <1>2, ConsoleConstants
  <2> QED
    BY <2>1 DEF Scrolled, Bottom
<1>3. CASE ~(Len(rs) <= TXT_HEIGHT)
  <2> DEFINE t == Tail(rs)
             m == [i \in Cells |-> IF i < TXT_WIDTH * (TXT_HEIGHT - 1) THEN c.mem[i + TXT_WIDTH] ELSE Space]
  <2>1. Len(rs) = TXT_HEIGHT + 1 /\ Len(rs) > TXT_HEIGHT /\ Len(rs) > 1 /\ ~(c.y < TXT_HEIGHT)
    BY <1>1, <1>3, ConsoleConstants
  <2>2. /\ t \in Texts /\ Len(t) = Len(rs) - 1 /\ Lower(t) = Lower(rs)
        /\ \A y \in Nat, x \in Nat : TextAt(t, y, x) = TextAt(rs, y + 1, x)
    BY <1>1, <2>1, TextBottom
  <2>3. Bottom(rs) = t
    BY <2>1 DEF Bottom
  <2>4. s.mem = m /\ s.x = c.x /\ s.y = TXT_HEIGHT - 1
    <3>1. s = [c EXCEPT !.y = TXT_HEIGHT - 1, !.mem = m]
      BY <2>1 DEF Scrolled
    <3>2. c = [mem |-> c.mem, x |-> c.x, y |-> c.y, stray |-> c.stray]
      BY DEF Screens
    <3> HIDE DEF s, m
    <3> QED
      BY <3>1, <3>2
  <2>5. \A i \in Cells : m[i] = IF i < TXT_WIDTH * (TXT_HEIGHT - 1) THEN c.mem[i + TXT_WIDTH] ELSE Space
    OBVIOUS
  <2> HIDE DEF s, t, m
  <2>6. ASSUME NEW y \in Lines, NEW x \in Columns
        PROVE  LooksLike(s.mem[Place(y, x)], TextAt(t, y, x))
    <3>1. y \in Nat /\ x \in Nat /\ y + 1 \in Nat /\ TXT_HEIGHT - 1 \in Nat /\ y <= TXT_HEIGHT - 1
      BY ConsoleConstants DEF Lines, Columns
    <3>2. /\ Place(y, x) \in Cells /\ Place(y + 1, x) = Place(y, x) + TXT_WIDTH
          /\ Place(y, x) < (TXT_HEIGHT - 1) * TXT_WIDTH <=> y < TXT_HEIGHT - 1
      <4>1. /\ Place(y, x) \in Cells /\ Place(y + 1, x) = Place(y, x) + TXT_WIDTH
            /\ \A v \in Nat, u \in Columns : Place(y, x) < v * TXT_WIDTH <=> y < v
        BY <3>1, Grid
      <4> DEFINE v == TXT_HEIGHT - 1
      <4>2. v \in Nat
        BY <3>1
      <4> HIDE DEF v
      <4>3. Place(y, x) < v * TXT_WIDTH <=> y < v
        BY <4>1, <4>2
      <4> QED
        BY <4>1, <4>3 DEF v
    <3>3. (TXT_HEIGHT - 1) * TXT_WIDTH = TXT_WIDTH * (TXT_HEIGHT - 1)
      BY <3>1, ConsoleConstants
    <3>4. TextAt(t, y, x) = TextAt(rs, y + 1, x)
      BY <2>2, <3>1
    <3>5. CASE y < TXT_HEIGHT - 1
      <4>1. s.mem[Place(y, x)] = c.mem[Place(y + 1, x)]
        BY <2>4, <2>5, <3>2, <3>3, <3>5
      <4>2. y + 1 \in Lines
        BY <3>1, <3>5, ConsoleConstants DEF Lines
      <4> QED
        BY <1>1, <3>4, <4>1, <4>2
    <3>6. CASE ~(y < TXT_HEIGHT - 1)
      <4>1. s.mem[Place(y, x)] = Space
        BY <2>4, <2>5, <3>2, <3>3, <3>6
      <4>2. y + 1 = TXT_HEIGHT
        BY <3>1, <3>6, ConsoleConstants
      <4> QED
        BY <3>4, <4>1, <4>2 DEF LooksLike
    <3> QED
      BY <3>5, <3>6
  <2>7. s.y = Len(t) - 1 /\ s.x = Len(Lower(t))
    BY <1>1, <2>1, <2>2, <2>4, ConsoleConstants
  <2>8. Shows(s, t)
    BY <2>2, <2>6, <2>7 DEF Shows
  <2> QED
    BY <2>3, <2>8 DEF s
<1> QED
  BY <1>2, <1>3

\* The three together are what Typeset does to the text.
LEMMA RoundShows ==
    ASSUME NEW c \in Screens, NEW rs, NEW chr \in PlainText, Shows(c, rs),
           c.x \in Columns, c.y \in Lines, ~c.stray
    PROVE  Shows(Scrolled(Wrapped(Printed(c, chr))), Typeset(rs, chr))
<1> DEFINE rs1 == IF chr = NL THEN Append(rs, <<>>)
                  ELSE Added(rs, IF chr = TAB THEN Blanks(TAB_WIDTH - (Len(Lower(rs)) % TAB_WIDTH) + 1)
                                 ELSE <<chr>>)
           p == Printed(c, chr)
           w == Wrapped(p)
           b == Broken(rs1)
<1>1. Shows(p, rs1) /\ BlankEnd(rs1) /\ Len(rs1) <= TXT_HEIGHT + 1
  BY ShowsPrinted
<1>2. chr \in Chars
  BY DEF PlainText, Chars
<1>3. Loose(p)
  BY <1>2, PrintedLoose
<1>4. Typeset(rs, chr) = Bottom(b)
  BY DEF Typeset
<1> HIDE DEF rs1, p
<1>5. p \in Screens
  BY <1>3 DEF Loose
<1>6. Shows(w, b) /\ \A y \in Nat, x \in Columns : TextAt(b, y, x) = TextAt(rs1, y, x)
  BY <1>1, <1>5, ShowsWrapped
<1>7. Loose(w)
  BY <1>3, BackInside
<1> HIDE DEF w, b
<1>8. w \in Screens /\ w.y \in 0 .. TXT_HEIGHT
  BY <1>7 DEF Loose
<1>9. Len(b) <= TXT_HEIGHT + 1
  <2>1. b \in Texts /\ w.y = Len(b) - 1
    BY <1>6 DEF Shows
  <2> QED
    BY <1>8, <2>1, LastRow, ConsoleConstants
<1>10. ASSUME NEW x \in Columns PROVE TextAt(b, TXT_HEIGHT, x) = Space
  <2>1. rs1 \in Texts
    BY <1>1 DEF Shows
  <2>2. x \in Nat /\ TXT_HEIGHT \in Nat
    BY ConsoleConstants DEF Columns
  <2>3. TextAt(rs1, TXT_HEIGHT, x) = Space
    BY <1>1, <2>1, <2>2, BelowBlank
  <2> QED
    BY <1>6, <2>2, <2>3
<1>11. Shows(Scrolled(w), Bottom(b))
  BY <1>6, <1>8, <1>9, <1>10, ShowsScrolled
<1> QED
  BY <1>4, <1>11 DEF w, p

\* The console begins with a blank screen and a blank text.
LEMMA ConsoleStarts == ConsoleInit => ConsoleInv
<1> SUFFICES ASSUME ConsoleInit PROVE ConsoleInv
  OBVIOUS
<1>1. /\ con = [mem |-> [i \in Cells |-> Space], x |-> 0, y |-> 0, stray |-> FALSE]
      /\ _cursor_pos = [x |-> 0, y |-> 0] /\ output = <<>> /\ rows = <<<<>>>> /\ plain = TRUE
  BY DEF ConsoleInit, _kclear
<1>2. 0 \in Columns /\ 0 \in Lines
  BY ConsoleConstants DEF Columns, Lines
<1>3. con \in Screens
  BY <1>1 DEF Screens
<1>4. rows \in Texts /\ Len(rows) = 1 /\ Lower(rows) = <<>>
  BY <1>1 DEF Texts, Lower
<1>5. ASSUME NEW y \in Lines, NEW x \in Columns PROVE con.mem[Place(y, x)] = Space /\ TextAt(rows, y, x) = Space
  <2>1. y \in Nat /\ x \in Nat
    BY ConsoleConstants DEF Lines, Columns
  <2>2. Place(y, x) \in Cells
    BY <2>1, Grid
  <2>3. con.mem[Place(y, x)] = Space
    BY <1>1, <2>2
  <2>4. y < Len(rows) => y = 0
    BY <1>4, <2>1
  <2>5. y < Len(rows) => Len(rows[y + 1]) = 0
    BY <1>1, <2>4
  <2> QED
    BY <2>1, <2>3, <2>5 DEF TextAt
<1>6. Shows(con, rows)
  <2>1. con.y = Len(rows) - 1 /\ con.x = Len(Lower(rows))
    BY <1>1, <1>4
  <2> QED
    BY <1>4, <1>5, <2>1 DEF Shows, LooksLike
<1> QED
  BY <1>1, <1>2, <1>3, <1>6 DEF ConsoleInv, Chars

\* Every step of _kout keeps the screen and the text together.
LEMMA ConsoleStep == ConsoleInv /\ [ConsoleNext]_consoleVars => ConsoleInv'
<1> SUFFICES ASSUME ConsoleInv, [ConsoleNext]_consoleVars PROVE ConsoleInv'
  OBVIOUS
<1>1. /\ con \in Screens /\ con.x \in Columns /\ con.y \in Lines /\ ~con.stray
      /\ _cursor_pos \in [x : Columns, y : Lines] /\ output \in Seq(Chars) /\ plain \in BOOLEAN
      /\ plain => Shows(con, rows)
      /\ output = <<>> => con.x = _cursor_pos.x /\ con.y = _cursor_pos.y
  BY DEF ConsoleInv
<1>2. ASSUME NEW text \in Outputs, _kout(text) PROVE ConsoleInv'
  <2>1. output = <<>> /\ output' = text /\ con' = [con EXCEPT !.x = _cursor_pos.x, !.y = _cursor_pos.y]
        /\ _cursor_pos' = _cursor_pos /\ rows' = rows /\ plain' = plain
    BY <1>2 DEF _kout
  <2>2. con' = con
    BY <1>1, <2>1 DEF Screens
  <2>3. text \in Seq(Chars)
    BY ConsoleAssumption DEF Chars
  <2> QED
    BY <1>1, <2>1, <2>2, <2>3 DEF ConsoleInv
<1>3. ASSUME _kout_round PROVE ConsoleInv'
  <2> DEFINE chr == Head(output)
  <2>1. /\ output # <<>> /\ con' = Scrolled(Wrapped(Printed(con, chr))) /\ output' = Tail(output)
        /\ _cursor_pos' = IF Tail(output) = <<>> THEN _ksetcursor(con'.x, con'.y) ELSE _cursor_pos
        /\ plain' = (plain /\ chr \in PlainText)
        /\ rows' = IF plain' THEN Typeset(rows, chr) ELSE <<<<>>>>
    BY <1>3 DEF _kout_round
  <2>2. chr \in Chars /\ Tail(output) \in Seq(Chars)
    BY <1>1, <2>1, HeadTailProperties
  <2> HIDE DEF chr
  <2>3. Loose(Printed(con, chr))
    BY <1>1, <2>2, PrintedLoose
  <2>4. con' \in Screens /\ ~con'.stray /\ con'.x \in Columns /\ con'.y \in Lines
    BY <2>1, <2>3, BackInside
  <2>5. _ksetcursor(con'.x, con'.y) = [x |-> con'.x, y |-> con'.y]
    <3>1. /\ con'.x \in Int /\ con'.y \in Int /\ con'.x >= 0 /\ con'.x < TXT_WIDTH
          /\ con'.y >= 0 /\ con'.y < TXT_HEIGHT
      BY <2>4, ConsoleConstants DEF Columns, Lines
    <3>2. /\ ~(con'.x = TXT_WIDTH) /\ ~(con'.x > TXT_WIDTH)
          /\ ~(con'.y > TXT_HEIGHT) /\ ~(con'.y = TXT_HEIGHT)
      BY <3>1, ConsoleConstants
    <3> QED
      BY <3>2 DEF _ksetcursor
  <2>6. /\ _cursor_pos' \in [x : Columns, y : Lines]
        /\ output' = <<>> => con'.x = _cursor_pos'.x /\ con'.y = _cursor_pos'.y
    BY <1>1, <2>1, <2>4, <2>5
  <2>7. plain' \in BOOLEAN
    BY <1>1, <2>1
  <2>8. plain' => Shows(con', rows')
    <3> SUFFICES ASSUME plain' PROVE Shows(con', rows')
      OBVIOUS
    <3>1. plain /\ chr \in PlainText /\ rows' = Typeset(rows, chr)
      BY <2>1
    <3> QED
      BY <1>1, <2>1, <3>1, RoundShows
  <2>9. (plain => Shows(con, rows))'
    BY <2>8 DEF Shows
  <2> QED
    BY <2>1, <2>2, <2>4, <2>6, <2>7, <2>9 DEF ConsoleInv
<1>4. CASE UNCHANGED consoleVars
  BY <1>1, <1>4 DEF consoleVars, ConsoleInv, Shows
<1> QED
  BY <1>2, <1>3, <1>4 DEF ConsoleNext

\* Whatever the kernel prints before it has ttys, on a screen and with a tabulator of
\* any size, the loop of _kout writes inside the text memory and leaves the cursor on
\* the screen; and of text, new lines and tabulators the screen shows the last rows.
THEOREM ConsoleShowsAll == ConsoleSpec => []ConsoleShowsText
<1>1. ConsoleInv => ConsoleShowsText
  BY DEF ConsoleInv, ConsoleShowsText, ConsoleInside, Shows, Place, Lines, Columns
<1> QED
  BY <1>1, ConsoleStarts, ConsoleStep, PTL DEF ConsoleSpec

-----------------------------------------------------------------------------
(***************************************************************************)
(* The clock                                                               *)
(***************************************************************************)
\* From one month to the next the year grows by the days of the month.
LEMMA YearDayNext ==
    ASSUME NEW y \in Nat, NEW m \in 2 .. 12
    PROVE  YearDay(m, 1, y) = YearDay(m - 1, 1, y) + DaysOf(y, m - 1)
<1> DEFINE L == IF Leap(y) THEN 1 ELSE 0
<1>1. L \in {0, 1} /\ (Leap(y) <=> L = 1)
  OBVIOUS
<1>2. \A n \in 1 .. 12 : YearDay(n, 1, y) =
        (n - 1) * 30 - (IF n > 2 THEN 2 ELSE 0)
          + (IF n < 7 THEN n \div 2 ELSE IF n = 7 THEN 3 ELSE (n - 7) \div 2 + 4)
          + (IF n > 2 THEN L ELSE 0)
  BY DEF YearDay
<1>3. DaysOf(y, m - 1) = IF m - 1 = 2 THEN 28 + L
                         ELSE IF m - 1 \in {4, 6, 9, 11} THEN 30 ELSE 31
  BY DEF DaysOf
<1> HIDE DEF L
<1>4. m \in {2, 3, 4, 5, 6, 7, 8, 9, 10, 11, 12}
  OBVIOUS
<1>5. m \in 1 .. 12 /\ m - 1 \in 1 .. 12
  OBVIOUS
<1> QED
  BY <1>1, <1>2, <1>3, <1>4, <1>5

\* The closed formula of getrtctime counts the days of the months before.
LEMMA YearDayCounts ==
    ASSUME NEW y \in Nat, NEW mon \in 1 .. 12
    PROVE  DaysBefore(y)[mon] = YearDay(mon, 1, y)
<1> DEFINE Rec(f) == f = [m \in 1 .. 12 |-> IF m = 1 THEN 0 ELSE f[m - 1] + DaysOf(y, m - 1)]
           t == [m \in 1 .. 12 |-> YearDay(m, 1, y)]
           d == DaysBefore(y)
<1>1. YearDay(1, 1, y) = 0
  BY DEF YearDay
<1>2. Rec(t)
  <2>1. ASSUME NEW m \in 1 .. 12
        PROVE  t[m] = IF m = 1 THEN 0 ELSE t[m - 1] + DaysOf(y, m - 1)
    <3>1. CASE m = 1
      BY <1>1, <3>1
    <3>2. CASE m # 1
      <4>1. m \in 2 .. 12 /\ m - 1 \in 1 .. 12
        BY <3>2
      <4> QED
        BY <4>1, <3>2, YearDayNext
    <3> QED
      BY <3>1, <3>2
  <2> QED
    BY <2>1
<1>3. Rec(d)
  <2>1. d = CHOOSE f : Rec(f)
    BY Zenon DEF DaysBefore
  <2> HIDE DEF Rec, d, t
  <2> QED
    BY <1>2, <2>1
<1> HIDE DEF d
<1>4. /\ d[1] = 0
      /\ \A m \in 2 .. 12 : d[m] = d[m - 1] + DaysOf(y, m - 1)
  BY <1>3
<1>5. ASSUME NEW m \in 2 .. 12, d[m - 1] = YearDay(m - 1, 1, y)
      PROVE  d[m] = YearDay(m, 1, y)
  BY <1>4, <1>5, YearDayNext
<1>6. /\ d[1] = YearDay(1, 1, y) /\ d[2] = YearDay(2, 1, y) /\ d[3] = YearDay(3, 1, y)
      /\ d[4] = YearDay(4, 1, y) /\ d[5] = YearDay(5, 1, y) /\ d[6] = YearDay(6, 1, y)
  BY <1>1, <1>4, <1>5
<1>7. /\ d[7] = YearDay(7, 1, y) /\ d[8] = YearDay(8, 1, y) /\ d[9] = YearDay(9, 1, y)
      /\ d[10] = YearDay(10, 1, y) /\ d[11] = YearDay(11, 1, y) /\ d[12] = YearDay(12, 1, y)
  BY <1>6, <1>5
<1>8. mon \in {1, 2, 3, 4, 5, 6, 7, 8, 9, 10, 11, 12}
  OBVIOUS
<1>9. d[mon] = YearDay(mon, 1, y)
  BY <1>6, <1>7, <1>8
<1> QED
  BY <1>9 DEF d

\* Two digits tell the leap years from 1970 to 2069.
LEMMA LeapOfDigits ==
    ASSUME NEW y \in 0 .. 99
    PROVE  Leap(y) <=> Leap(FullYear(y))
<1>1. CASE y >= 70
  BY <1>1 DEF Leap, FullYear
<1>2. CASE y < 70
  BY <1>2 DEF Leap, FullYear
<1> QED
  BY <1>1, <1>2

\* A register of the clock is read as it was set, in both number formats.
LEMMA RegisterReadsBack ==
    ASSUME NEW v \in 0 .. 99, NEW bcd \in BOOLEAN
    PROVE  DateBCD(IF bcd THEN ToBCD(v) ELSE v, bcd) = v
<1>1. CASE ~bcd
  BY <1>1 DEF DateBCD
<1>2. CASE bcd
  <2>1. PICK h \in 0 .. 9, l \in 0 .. 9 : v \div 10 = h /\ v % 10 = l /\ v = 10 * h + l
    OBVIOUS
  <2>2. ToBCD(v) = 16 * h + l
    BY <2>1 DEF ToBCD
  <2>3. (16 * h + l) % 16 = l /\ ((16 * h + l) \div 16) = h /\ h % 16 = h
    OBVIOUS
  <2> QED
    BY <1>2, <2>1, <2>2, <2>3 DEF DateBCD
<1> QED
  BY <1>1, <1>2

\* The days of mktime are those since 1970.
LEMMA DaysOfTheDate ==
    ASSUME NEW year \in 0 .. 99, NEW mon \in 1 .. 12, NEW mday \in 1 .. 31,
           NEW t, t.year = year, t.yday = YearDay(mon, mday, year)
    PROVE  MkDays(t) = DaysSince1970(FullYear(year), mon, mday)
<1> DEFINE full == FullYear(year)
           leaps == Cardinality({k \in 1970 .. full - 1 : Leap(k)})
<1>1. full \in Nat
  BY DEF FullYear
<1>2. DaysBefore(full)[mon] = YearDay(mon, 1, full)
  BY <1>1, YearDayCounts
<1>3. YearDay(mon, mday, year) = YearDay(mon, 1, full) + mday - 1
  BY LeapOfDigits DEF YearDay
<1>4. (IF year + 1899 < 1969 THEN year + 1899 + 100 ELSE year + 1899) = full - 1
  BY DEF FullYear
<1>5. (IF year >= 70 THEN year - 70 ELSE year + 30) = full - 1970
  BY DEF FullYear
<1> HIDE DEF full
<1>6. MkDays(t) = (full - 1970) * 365 + leaps + t.yday
  <2> DEFINE last == IF t.year + 1899 < 1969 THEN t.year + 1899 + 100 ELSE t.year + 1899
             years == IF t.year >= 70 THEN t.year - 70 ELSE t.year + 30
  <2>1. last = full - 1 /\ years = full - 1970
    BY <1>4, <1>5
  <2>2. MkDays(t) = years * 365 + Cardinality({k \in 1970 .. last : Leap(k)}) + t.yday
    BY Zenon DEF MkDays
  <2> HIDE DEF last, years
  <2>3. {k \in 1970 .. last : Leap(k)} = {k \in 1970 .. full - 1 : Leap(k)}
    BY <2>1
  <2> QED
    BY <2>1, <2>2, <2>3
<1>7. DaysSince1970(full, mon, mday) = 365 * (full - 1970) + leaps + DaysBefore(full)[mon] + mday - 1
  BY DEF DaysSince1970
<1>8. YearDay(mon, 1, full) \in Int
  BY DEF YearDay
<1>9. leaps \in Nat
  <2> DEFINE Years == 1970 .. full - 1
             Longer == {k \in Years : Leap(k)}
  <2>1. IsFiniteSet(Years)
    BY <1>1, FS_Interval
  <2>2. Longer \in SUBSET Years
    OBVIOUS
  <2>3. leaps = Cardinality(Longer)
    OBVIOUS
  <2> HIDE DEF Longer, Years, leaps
  <2>4. IsFiniteSet(Longer)
    BY <2>1, <2>2, FS_Subset
  <2> QED
    BY <2>3, <2>4, FS_CardinalityType
<1> HIDE DEF leaps
<1> QED
  BY <1>1, <1>2, <1>3, <1>6, <1>7, <1>8, <1>9 DEF full

\* Every call under way is one of Calls.
CallsInv == call = Idle \/ \E k \in DOMAIN Calls : call \in Calls[k]

\* A call under way is one of Calls, whatever was called before.
LEMMA CallsInvariant == CallsSpec => []CallsInv
<1>1. CallsInit => CallsInv
  BY DEF CallsInit, CallsInv
<1>2. CallsInv /\ [CallsNext]_call => CallsInv'
  BY DEF CallsInv, CallsNext, Call, Return
<1> QED
  BY <1>1, <1>2, PTL DEF CallsSpec

\* time() gives the days and the seconds since 1970 for every date that the clock shows.
LEMMA ClockIsUtcHolds == CallsInv => ClockIsUtc
<1> SUFFICES ASSUME CallsInv, call.fn = "time"
             PROVE  ClockIsUtc
  BY DEF ClockIsUtc
<1> DEFINE enc(v) == IF call.bcd THEN ToBCD(v) ELSE v
           regs == [sec |-> enc(59), min |-> enc(58), hour |-> enc(call.hour), mday |-> enc(call.mday),
                    mon |-> enc(call.mon), year |-> enc(call.year)]
           t == getrtctime(regs, call.bcd)
           u == removetimezone(t)
<1>1. /\ call.year \in 0 .. 99 /\ call.mon \in 1 .. 12 /\ call.mday \in 1 .. 31
      /\ call.hour \in 0 .. 23 /\ call.bcd \in BOOLEAN
  BY ClockAssumption DEF CallsInv, Idle
<1>2. \A v \in 0 .. 99 : DateBCD(enc(v), call.bcd) = v
  BY <1>1, RegisterReadsBack
<1> HIDE DEF enc
<1>3. t = [sec |-> 59, min |-> 58, hour |-> call.hour, mday |-> call.mday, mon |-> call.mon,
           year |-> call.year, yday |-> YearDay(call.mon, call.mday, call.year), isdst |-> 1]
  BY <1>1, <1>2 DEF getrtctime, Daylight
<1> HIDE DEF t
<1>4. /\ u.sec = 59 /\ u.min = 58 /\ u.hour = call.hour - 2 /\ u.year = call.year
      /\ u.yday = YearDay(call.mon, call.mday, call.year)
  BY <1>1, <1>3 DEF removetimezone, Zone
<1> HIDE DEF u
<1>5. MkDays(u) = DaysSince1970(FullYear(call.year), call.mon, call.mday)
  BY <1>1, <1>4, DaysOfTheDate
<1>6. MkSeconds(u) = (call.hour - 2) * 3600 + 58 * 60 + 59
  BY <1>1, <1>4 DEF MkSeconds
<1>7. time(regs, call.bcd) = <<MkDays(u), MkSeconds(u)>>
  BY DEF time, mktime, u, t
<1> QED
  BY <1>5, <1>6, <1>7 DEF ClockIsUtc, enc

\* sleep() waits for the ticks that it was asked for.
LEMMA SleepIsLongEnoughHolds == CallsInv => SleepIsLongEnough
<1> SUFFICES ASSUME CallsInv, call.fn = "sleep", call.tdiff <= call.tstart,
                    NEW t \in call.tstart .. call.wrap - 1
             PROVE  SleepsOn(t, call.tstart, call.tdiff, call.wrap) <=> t < call.tstart + call.tdiff
  BY DEF SleepIsLongEnough
<1>1. call.tstart \in Nat /\ call.tdiff \in Nat /\ call.wrap \in Nat
  BY ClockAssumption DEF CallsInv, Idle
<1>2. t - call.tdiff \in 0 .. call.wrap - 1
  BY <1>1
<1>3. \A n \in Nat : \A i \in 0 .. n - 1 : i % n = i
  OBVIOUS
<1> QED
  BY <1>1, <1>2, <1>3 DEF SleepsOn

\* Whatever is called, time() gives the days since 1970 and the seconds of the clock in
\* UTC for every date of its hundred years, in both number formats, and sleep() returns
\* after the ticks it was asked for.
THEOREM ClockIsRight == CallsSpec => []ClockRight
<1>1. CallsInv => ClockRight
  BY ClockIsUtcHolds, SleepIsLongEnoughHolds DEF ClockRight
<1> QED
  BY <1>1, CallsInvariant, PTL
=============================================================================
