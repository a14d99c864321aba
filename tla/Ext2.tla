-------------------------------- MODULE Ext2 --------------------------------
(***************************************************************************)
(* The read-only ext2.  A disk is a function from the numbers of its       *)
(* blocks to sequences of cells; the block with number 0 is the hole of a  *)
(* sparse file.  Sizes are in cells, a cell stands for some bytes.         *)
(***************************************************************************)
EXTENDS Integers, Sequences, FiniteSetsExt, Names, Calls

CONSTANTS BlockSize,    \* cells of a block
          HoleSize,     \* cells of the 1024 bytes that are cleared for a hole
          NDirBlocks    \* EXT2_NDIR_BLOCKS: direct blocks of an inode

ASSUME Ext2Assumption ==
    BlockSize \in Nat \ {0} /\ HoleSize \in 1..BlockSize /\ NDirBlocks \in Nat \ {0}

IOError == <<>>     \* the driver answered with an error
Untouched == -1     \* a cell nothing was written to: what the memory held before, whatever that is

\* Mutant: the buffer is not cleared for the hole of a file
ReadBlockUncleared(disk, block) ==
    IF block = 0 THEN [i \in 1..BlockSize |-> Untouched]
    ELSE IF block \in DOMAIN disk THEN disk[block] ELSE IOError

\* For a hole 1024 bytes are cleared however long the blocks of the volume are.  A block
\* that is not on the disk is refused by the driver.
ext2_read_block(disk, block) ==
    IF block = 0 THEN [i \in 1..BlockSize |-> IF i <= HoleSize THEN 0 ELSE Untouched]
    ELSE IF block \in DOMAIN disk THEN disk[block] ELSE IOError

file_ext2_block(inode, block) == IF block < NDirBlocks THEN inode.blocks[block + 1] ELSE 0

\* What ext2_read leaves in a buffer of room cells (what falls behind the buffer is
\* cut off here) and what it returns.  The first copy reaches to the end of the first
\* block, the last one to (offset + size) % blocksize.  An empty file makes b_e the
\* largest block number there is; ret is then Runaway.
Runaway == -2
ext2_read(disk, inode, offset, asked, room) ==
    LET size == IF offset + asked > inode.size THEN inode.size - offset ELSE asked
        b_s == offset \div BlockSize
        b_e == (offset + size - 1) \div BlockSize
        n == Max({b_e - b_s + 1, 1})
        got(k) == ext2_read_block(disk, file_ext2_block(inode, b_s + k - 1))
        copied(k) == IF k = 1 THEN SubSeq(got(1), (offset % BlockSize) + 1, BlockSize)
                     ELSE IF k < n THEN got(k)
                     ELSE SubSeq(got(k), 1, (offset + size) % BlockSize)
        text[k \in 0..n] == IF k = 0 THEN <<>> ELSE text[k - 1] \o copied(k)
        bad == {k \in 1..n : got(k) = IOError}
        done == IF bad = {} THEN n ELSE Min(bad) - 1
        buffer(t) == [i \in 1..room |-> IF i <= Len(t) THEN t[i] ELSE Untouched]
    IN CASE offset > inode.size -> [ret |-> 0, buf |-> buffer(<<>>)]
         [] offset <= inode.size /\ offset + size = 0 -> [ret |-> Runaway, buf |-> buffer(<<>>)]
         [] OTHER -> [ret |-> IF bad = {} THEN size ELSE -1, buf |-> buffer(text[done])]

(***************************************************************************)
(* A directory as the sequence of the records [inode, rec_len, name, next] *)
(* that its blocks hold; next is the byte that follows the name in memory. *)
(***************************************************************************)
\* Where the k-th record ends, and with it the directory
EndOf(recs, k) ==
    LET end[i \in 0..Len(recs)] == IF i = 0 THEN 0 ELSE end[i - 1] + recs[i].rec_len IN end[k]
SizeOf(recs) == EndOf(recs, Len(recs))

\* What the place of the k-th record shows in a buffer the directory was read to: the
\* zeros of a hole, whatever was in the heap, or the record
Zeros == [inode |-> 0, rec_len |-> 0, name |-> <<>>, next |-> 0]
Junk == [inode |-> Untouched, rec_len |-> 0, name |-> <<>>, next |-> 0]
RecordShown(recs, buf, k) ==
    LET cell == buf[EndOf(recs, k - 1) + 1]
    IN CASE cell = Untouched -> Junk
         [] cell = 0 -> Zeros
         [] OTHER -> recs[k]

\* The answers of readdir besides NoEntry: that of the read, or whatever the junk makes of it
ReadFailed(ret) == [err |-> ret]
WildEntry == [name |-> "junk"]

\* The record the index-th step reaches: rec_len is subtracted before the step
ext2_readdir(disk, dir, recs, index) ==
    LET n == Len(recs)
        r == ext2_read(disk, dir, 0, dir.size, dir.size)
        ent(k) == RecordShown(recs, r.buf, k)
        left[k \in 0..n] == IF k = 0 THEN dir.size ELSE left[k - 1] - ent(k).rec_len
        passed(k) == k <= n /\ ent(k) # Junk /\ left[k] > 0 /\ ent(k).rec_len # 0
        reached(k) == \A j \in 1..k - 1 : passed(j)
    IN CASE r.ret <= 0 -> ReadFailed(r.ret)
         [] r.ret > 0 /\ \E k \in 1..n : k <= index + 1 /\ reached(k) /\ ent(k) = Junk -> WildEntry
         [] OTHER -> IF ~reached(index + 1) \/ ent(index + 1).inode = 0 THEN NoEntry
                     ELSE [ino |-> ent(index + 1).inode, name |-> ent(index + 1).name]

Wild == -1      \* whatever memory that was not read from the disk makes of the search

\* The search subtracts the rec_len of the record it steps to.  Behind the last record
\* that is a read outside of the buffer: beyond is the length found there.
ext2_lookup(disk, dir, recs, name, beyond) ==
    LET n == Len(recs)
        r == ext2_read(disk, dir, 0, dir.size, dir.size)
        ent(k) == RecordShown(recs, r.buf, k)
        rec_len(k) == IF k <= n THEN ent(k).rec_len ELSE beyond
        left[k \in 0..n] == IF k = 0 THEN dir.size ELSE left[k - 1] - rec_len(k + 1)
        matches(k) == namei_nmatch(name, ent(k).name \o <<ent(k).next>>, Len(ent(k).name))
        passed(k) == left[k - 1] > 0 /\ ent(k) # Junk /\ ~matches(k) /\ ent(k).rec_len # 0
        reached(k) == \A j \in 1..k - 1 : passed(j)
        hits == {k \in 1..n : reached(k) /\ left[k - 1] > 0 /\ ent(k) # Junk /\ matches(k)}
        strays == (reached(n + 1) /\ left[n] > 0) \/ \E k \in 1..n : reached(k) /\ ent(k) = Junk
    IN CASE r.ret <= 0 -> 0
         [] r.ret > 0 /\ hits # {} -> ent(CHOOSE k \in hits : TRUE).inode
         [] OTHER -> IF strays THEN Wild ELSE 0

(***************************************************************************)
(* Super block and inodes                                                  *)
(***************************************************************************)
NoVolume == [group_count |-> 0]
NoPlace == [block |-> 0]

\* read_ext2_sb.  sb: [magic, blocks_count, blocks_per_group, first, ...]; the answer is
\* NoVolume, or the number of groups and for each the descriptor that was read.  A copy
\* of the table of descriptors follows the super block of each group; the first one of
\* the copy is taken.  It stands for the bitmaps it points to as well.
read_ext2_sb(disk, sb) ==
    LET group_count == sb.blocks_count \div sb.blocks_per_group + 1
        table(i) == ext2_read_block(disk, sb.first + sb.blocks_per_group * i + 1)
        desc(i) == table(i)[1]
    IN IF sb.magic # "EXT2_MAGIC" \/ \E i \in 0..group_count - 1 : table(i) = IOError
       THEN NoVolume
       ELSE [group_count |-> group_count, groups |-> [i \in 0..group_count - 1 |-> desc(i)]]

\* Where ext2_read_inode finds an inode: block and index, or NoPlace
InodePlace(discr, sb, ino) ==
    LET group == (ino - 1) \div sb.inodes_per_group
        goff == (ino - 1) % sb.inodes_per_group
        per == BlockSize \div sb.ino_size
    IN IF ino = 0 \/ ino > sb.inodes_count \/ group >= discr.group_count THEN NoPlace
       ELSE IF goff \notin discr.groups[group].used THEN NoPlace
       ELSE [block |-> discr.groups[group].inode_table + goff \div per, index |-> goff % per]

-----------------------------------------------------------------------------
\* What is asked for: reads of numbers of cells, of which 0 stands for a byte that was
\* never written; directories of whole blocks, with records that do not cross the border
\* of a block and do not begin with such a byte, and names that hold no end of a path
\* component; volumes of one group, for which the first descriptor is the right one
Records == [inode : Nat, rec_len : Nat \ {0}, name : Seq(Nat \ {0, Slash}), next : Nat]

\* A disk and a file on it
Readable(disk, inode) ==
    /\ 0 \notin DOMAIN disk /\ \A b \in DOMAIN disk : disk[b] \in [1..BlockSize -> Nat]
    /\ inode.size \in Nat /\ inode.blocks \in [1..NDirBlocks -> Nat]

\* A directory that holds the records in its direct blocks
Holds(disk, dir, recs) ==
    /\ recs \in Seq(Records) /\ recs # <<>>
    /\ dir.size = SizeOf(recs) /\ dir.size % BlockSize = 0
    /\ \A b \in 1..NDirBlocks : b <= dir.size \div BlockSize => dir.blocks[b] # 0
    /\ \A k \in 1..Len(recs) :
         LET a == EndOf(recs, k - 1)
             b == a \div BlockSize
         IN /\ (EndOf(recs, k) - 1) \div BlockSize = b
            /\ b < NDirBlocks /\ dir.blocks[b + 1] \in DOMAIN disk
                 => disk[dir.blocks[b + 1]][(a % BlockSize) + 1] # 0

ASSUME Ext2CallsAssumption ==
    \A k \in DOMAIN Calls : \A c \in Calls[k] :
      /\ c.fn = "ext2_read" => Readable(c.disk, c.inode) /\ c.offset \in Nat /\ c.size \in Nat
      /\ c.fn = "ext2_dir" => /\ Readable(c.disk, c.dir) /\ Holds(c.disk, c.dir, c.recs)
                              /\ c.name \in Seq(Nat \ {0, Slash}) /\ c.beyond \in Nat
      /\ c.fn = "ext2_sb" =>
           LET sb == c.sb IN
           /\ sb.first \in Nat /\ sb.blocks_count \in Nat /\ sb.blocks_per_group \in Nat
           /\ sb.blocks_count < sb.blocks_per_group
           /\ sb.inodes_count \in Nat /\ sb.inodes_per_group \in Nat \ {0}
           /\ sb.inodes_count <= sb.inodes_per_group /\ sb.ino_size \in 1..BlockSize
           /\ sb.first + 1 \in DOMAIN c.disk => c.disk[sb.first + 1] # IOError
                                                 /\ c.disk[sb.first + 1][1] = c.group
           /\ c.group.used \subseteq 0..sb.inodes_count - 1 /\ c.group.inode_table \in Nat \ {0}

\* The cell of a file at place a, as it is read: of a hole only the cleared bytes are
CellAt(disk, inode, a) ==
    LET b == a \div BlockSize
        nr == IF b < NDirBlocks THEN inode.blocks[b + 1] ELSE 0
    IN IF nr # 0 THEN disk[nr][(a % BlockSize) + 1]
       ELSE IF a % BlockSize < HoleSize THEN 0 ELSE Untouched

\* A byte that ext2_read delivers is the byte of the file at that place, for every
\* offset and size and holes in the file; a block behind the direct ones reads as a
\* hole.  Bytes it should deliver and does not are of two kinds: those of a last block
\* that the read ends at exactly, and those of a hole behind its first 1024 bytes.  If no
\* block is missing, what is there of the asked cells is delivered.
BytesInPlace ==
    call.fn = "ext2_read" =>
      LET r == ext2_read(call.disk, call.inode, call.offset, call.size, call.size)
          end == call.offset + r.ret
          skipped(i) == end % BlockSize = 0 /\ i > BlockSize - (call.offset % BlockSize)
                          /\ call.offset + i > end - BlockSize
          there == Min({call.size, call.inode.size - call.offset})
          intact == \A k \in 1..NDirBlocks : call.inode.blocks[k] \in DOMAIN call.disk \cup {0}
      IN /\ r.ret > 0 => \A i \in 1..r.ret :
              r.buf[i] = (IF skipped(i) THEN Untouched ELSE CellAt(call.disk, call.inode, call.offset + i - 1))
         /\ intact /\ there > 0 => r.ret = there

\* A counted name that no end follows is taken for every name it is the begin of.
TakenFor(rec, name) ==
    /\ Len(rec.name) < Len(name) /\ SubSeq(name, 1, Len(rec.name)) = rec.name
    /\ ~is_end_chr(rec.next)

\* A directory of ext2.  If one of its blocks cannot be read, readdir fails and lookup
\* finds nothing.  Otherwise readdir counts off the records of its direct blocks, and
\* lookup finds the first one of the name unless one before it is taken for it, although
\* the bytes left are counted with the wrong record.  The last block of a directory of
\* two or more is never copied: if the other blocks are all direct, both then work on
\* what was in the heap; if not, the first block behind the direct ones ends them.  A name
\* that is not there is not found, unless what lies behind the directory looks shorter
\* than its first record.
EntriesFound ==
    call.fn = "ext2_dir" =>
      LET recs == call.recs
          dir == call.dir
          n == Len(recs)
          last == dir.size \div BlockSize - 1
          block(k) == EndOf(recs, k - 1) \div BlockSize
          told == {k \in 1..n : block(k) < NDirBlocks /\ (block(k) < last \/ block(k) = 0)}
          missing == \E b \in 0..last : file_ext2_block(dir, b) \notin DOMAIN call.disk \cup {0}
          ended == told = 1..n \/ NDirBlocks < last
          named == {k \in told : recs[k].name = call.name}
          taken == {k \in told : TakenFor(recs[k], call.name)}
          entry(index) == ext2_readdir(call.disk, dir, recs, index)
          found == ext2_lookup(call.disk, dir, recs, call.name, call.beyond)
      IN IF missing THEN found = 0 /\ \A index \in 0..n : entry(index) = ReadFailed(-1)
         ELSE /\ \A k \in told :
                   entry(k - 1) = (IF recs[k].inode = 0 THEN NoEntry
                                   ELSE [ino |-> recs[k].inode, name |-> recs[k].name])
              /\ \A k \in 1..n + 1 : k \notin told => entry(k - 1) = IF ended THEN NoEntry ELSE WildEntry
              /\ \A k \in named : (\A j \in named \cup taken : k <= j) => found = recs[k].inode
              /\ named \cup taken = {} =>
                   found = (IF ~ended \/ (told = 1..n /\ call.beyond < recs[1].rec_len) THEN Wild ELSE 0)

\* On a volume of one group every inode in use is read from its own place in the table.
InodesApart ==
    call.fn = "ext2_sb" =>
      LET discr == read_ext2_sb(call.disk, call.sb)
          used == {i \in 1..call.sb.inodes_count : InodePlace(discr, call.sb, i) # NoPlace}
      IN discr # NoVolume =>
           /\ used = {g + 1 : g \in call.group.used}
           /\ \A i, j \in used : i # j => InodePlace(discr, call.sb, i) # InodePlace(discr, call.sb, j)
           /\ \A i \in used : InodePlace(discr, call.sb, i).block
                                \in call.group.inode_table..call.group.inode_table + call.sb.inodes_count - 1

\* The read-only ext2: bytes of files, entries of directories, places of inodes.
Ext2Right == BytesInPlace /\ EntriesFound /\ InodesApart
=============================================================================
