------------------------------- MODULE Floppy -------------------------------
(***************************************************************************)
(* The driver of the floppy disk, drivers/fdc.  A sector's data is one     *)
(* value.  The drive is external: it has a place of its head, a line that  *)
(* tells of a changed disk until the next seek, and it answers in time or  *)
(* too late; nothing waits for it, because done is set once, in reset,     *)
(* and never cleared, and the timeout is never counted down.  Once reset   *)
(* has switched the motor on nobody switches it off: motoroff sets mtick,  *)
(* which nobody reads.                                                     *)
(***************************************************************************)
EXTENDS Integers, Sequences, SequencesExt, FiniteSetsExt

CONSTANTS Heads, Tracks, Spt,   \* geometry: heads, tracks, sectors of a track
          MaxCount,             \* bound: sectors of a request
          MaxChanges            \* bound: changes of the disk

ASSUME FloppyAssumption ==
    {Heads, Tracks, Spt, MaxCount, MaxChanges} \subseteq Nat \ {0}

SectorCount == Heads * Tracks * Spt     \* FLOPPY_SECTOR_COUNT
Unknown == 255                          \* fdc_track after -1 was read

VARIABLES fd,       \* the driver: pc, todo (the calls of fdc_rw to make), tries, fdc_track
          tb,       \* the track buffer: sector after sector
          drive,    \* external: head's cylinder, the disk-change line, the sectors, changes so far
          req       \* the request: cmd, sector, count, the caller's buffer; failed tells of a
                    \* call of fdc_rw that gave up

floppyVars == <<fd, tb, drive, req>>

block2hts(block) ==
    [head |-> (block % (Spt * Heads)) \div Spt, track |-> block \div (Spt * Heads),
     sector |-> (block % Spt) + 1]

\* The calls of fdc_rw: sector by sector if the sector behind the last one is on
\* another track than the first
fdc_read_block(block, nosectors) ==
    IF block2hts(block).track # block2hts(block + nosectors).track
    THEN [i \in 1..nosectors |-> [block |-> block + i - 1, at |-> i, n |-> 1]]
    ELSE <<[block |-> block, at |-> 1, n |-> nosectors]>>

Old(block) == block             \* what is on the disk when a request comes
New(i) == SectorCount + i       \* what a write brings for its i-th sector
Unread == -1                    \* left from earlier requests

FloppyInit ==
    /\ fd = [pc |-> "idle", todo |-> <<>>, tries |-> 0, fdc_track |-> Unknown]
    /\ tb = [i \in 1..MaxCount |-> Unread]
    /\ drive = [cyl |-> 0, line |-> FALSE, changes |-> 0, disk |-> [b \in 0..SectorCount - 1 |-> Old(b)]]
    /\ req = [cmd |-> "none", sector |-> 0, count |-> 0, failed |-> FALSE,
              buffer |-> [i \in 1..MaxCount |-> Unread]]

\* The calls follow one another under the lock of the device.  A request behind the
\* end is refused, one that reaches there is cut.  A write is one call, also across
\* tracks.  What a write brings is in the track buffer before the first try.  What is
\* on the disk and in the buffers is named anew for each request.
floppy_request(cmd, sector, asked) ==
    LET count == IF sector + asked >= SectorCount THEN SectorCount - sector ELSE asked
    IN /\ fd.pc = "idle"
       /\ sector < SectorCount
       /\ fd' = [fd EXCEPT !.pc = "try", !.tries = 0,
                           !.todo = IF cmd = "read" THEN fdc_read_block(sector, count)
                                    ELSE <<[block |-> sector, at |-> 1, n |-> count]>>]
       /\ tb' = IF cmd = "read" THEN [i \in 1..MaxCount |-> Unread]
                ELSE [i \in 1..MaxCount |-> IF i <= count THEN New(i) ELSE Unread]
       /\ req' = [cmd |-> cmd, sector |-> sector, count |-> count, failed |-> FALSE,
                  buffer |-> [i \in 1..MaxCount |-> Unread]]
       /\ drive' = [drive EXCEPT !.disk = [b \in 0..SectorCount - 1 |-> Old(b)]]

\* Whether the command is done or not, the drive is asked where the head is: it answers
\* with the track or, too early, with -1
waitfdc(f, track, early) == [f EXCEPT !.fdc_track = IF early THEN Unknown ELSE track]

\* flseek.  The head goes to a cylinder, which ends the signal of a changed disk.  A head that is believed to be there is not moved.
Seeks(d, f, track, early) ==
    IF f.fdc_track = track THEN [d |-> d, f |-> f]
    ELSE [d |-> [d EXCEPT !.cyl = track, !.line = FALSE],
          f |-> waitfdc(f, track, early)]

recalibrate(d, f, early) ==
    [d |-> [d EXCEPT !.cyl = 0], f |-> waitfdc(f, 0, early)]

\* fdc_rw finds the disk changed: it moves the head twice and calls itself
DiskChanged(early) ==
    LET s == Seeks(drive, fd, 1, early)
        r == recalibrate(s.d, s.f, early)
    IN /\ fd.pc = "try" /\ drive.line
       /\ drive' = r.d
       /\ fd' = [r.f EXCEPT !.tries = 0]
       /\ UNCHANGED <<tb, req>>

\* A call of fdc_rw is over, tb holding what it holds: the next one or the answer
Over(f) ==
    [f EXCEPT !.todo = Tail(@), !.tries = 0, !.pc = IF Len(f.todo) = 1 THEN "idle" ELSE "try"]

\* Mutant: every call of fdc_rw copies to the begin of the buffer
TakenToFront(call, buffer, tbuf) ==
    [i \in 1..MaxCount |-> IF i <= call.n THEN tbuf[i] ELSE buffer[i]]

\* A call copies from the begin of the track buffer to its part of the caller's
Taken(call, buffer, tbuf) ==
    [i \in 1..MaxCount |-> IF i \in call.at..call.at + call.n - 1 THEN tbuf[i - call.at + 1] ELSE buffer[i]]

\* The seek did not work: the call fails at once and copies nothing
SeekFails ==
    LET track == block2hts(Head(fd.todo).block).track
        s == Seeks(drive, fd, track, TRUE)
    IN /\ fd.pc = "try" /\ ~drive.line
       /\ fd.fdc_track # track
       /\ drive' = s.d
       /\ fd' = Over(s.f)
       /\ req' = [req EXCEPT !.failed = TRUE]
       /\ UNCHANGED tb

\* How many of n sectors the drive moves: it ends at the end of its cylinder, where it
\* only has the other heads to go on with
Moved(d, hts, n) ==
    LET left == Heads * Spt - (hts.head * Spt + hts.sector - 1)
    IN IF d.cyl # hts.track THEN 0 ELSE Min({n, left})

\* The number that the drive gives the sector i behind the first one
Sector(d, hts, i) == d.cyl * Heads * Spt + hts.head * Spt + hts.sector - 1 + i

\* dma_xfer and the command, after a seek that worked.  The drive moves moved sectors
\* between disk and track buffer; anything but the answer to all of them in time
\* counts as an error.  The "sense interrupt" behind it makes the track unknown.
Transfer(moved, inTime, early) ==
    LET call == Head(fd.todo)
        hts == block2hts(call.block)
        s == Seeks(drive, fd, hts.track, FALSE)
        reading == req.cmd = "read"
        d == IF reading THEN s.d
             ELSE [s.d EXCEPT !.disk = [b \in DOMAIN @ |->
                      IF \E i \in 0..moved - 1 : b = Sector(s.d, hts, i)
                      THEN tb[b - Sector(s.d, hts, 0) + 1] ELSE @[b]]]
        tbuf == IF ~reading THEN tb
                ELSE [i \in 1..MaxCount |-> IF i <= moved THEN s.d.disk[Sector(s.d, hts, i - 1)] ELSE tb[i]]
        worked == inTime /\ moved = call.n
        f == [s.f EXCEPT !.fdc_track = Unknown, !.tries = IF worked THEN @ ELSE @ + 1]
        r == recalibrate(d, f, early)
        final == worked \/ f.tries = 3
    IN /\ fd.pc = "try" /\ ~drive.line
       /\ moved <= Moved(s.d, hts, call.n)
       /\ tb' = tbuf
       /\ drive' = IF worked THEN d ELSE r.d
       /\ fd' = IF final THEN Over(IF worked THEN f ELSE r.f) ELSE r.f
       /\ req' = IF ~final THEN req
                 ELSE [req EXCEPT !.failed = @ \/ ~worked,
                                  !.buffer = IF reading THEN Taken(call, @, tbuf) ELSE @]

\* External: another disk of the same contents is put into the drive
DiskIsChanged ==
    /\ drive.changes < MaxChanges
    /\ drive' = [drive EXCEPT !.line = TRUE, !.changes = @ + 1]
    /\ UNCHANGED <<fd, tb, req>>

FloppyNext ==
    \/ \E cmd \in {"read", "write"}, sector \in 0..SectorCount, count \in 1..MaxCount :
         floppy_request(cmd, sector, count)
    \/ \E early \in BOOLEAN : DiskChanged(early)
    \/ SeekFails
    \/ \E moved \in 0..MaxCount, inTime, early \in BOOLEAN : Transfer(moved, inTime, early)
    \/ DiskIsChanged

FloppySpec == FloppyInit /\ [][FloppyNext]_floppyVars

-----------------------------------------------------------------------------
\* A finished request of which no transfer gave up has moved every sector between its
\* place on the disk and its place in the caller's buffer, over the borders of heads
\* and tracks, retries and changes of the disk.
SectorsInPlace ==
    fd.pc = "idle" /\ req.cmd # "none" /\ ~req.failed =>
      \A i \in 1..req.count :
        drive.disk[req.sector + i - 1] = IF req.cmd = "read" THEN req.buffer[i] ELSE New(i)

\* Whatever fails, a request never touches sectors besides its own: a read changes
\* nothing on the disk, a write nothing before or behind what it was asked for.
OthersKept ==
    \A b \in DOMAIN drive.disk :
      drive.disk[b] # Old(b) => req.cmd = "write" /\ b \in req.sector..req.sector + req.count - 1

\* The track the driver relies on to leave out a seek is where the head is.
HeadWhereBelieved == fd.fdc_track \in {Unknown, drive.cyl}

\* The disk after every step of every request, with lost answers, retries and changed
\* disks: what was asked for is where it belongs, all else is as it was, and the
\* driver is not mistaken about the head.
DiskIntact == SectorsInPlace /\ OthersKept /\ HeadWhereBelieved

=============================================================================
