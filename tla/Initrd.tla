------------------------------- MODULE Initrd -------------------------------
(***************************************************************************)
(* The initial ramdisk: the tool mkinitrd that writes the image of a       *)
(* directory, and initrdfs, which reads it.                                *)
(*                                                                         *)
(* A directory of the host is [type |-> "dir", entries |-> <<[name, node], *)
(* ...>>] in the order of readdir, without "." and ".."; a file is         *)
(* [type |-> "file", data |-> <<...>>].  The image is [header, inodes,     *)
(* blob]: header and table of inodes lie in front of the blob, which is a  *)
(* sequence of cells, one for each byte of a file and one for each entry   *)
(* of a directory.  Offsets count cells from 0 at the begin of the blob.   *)
(***************************************************************************)
EXTENDS Integers, Sequences, SequencesExt, Names

HARDLINKS == 2
NoInode == -1

RECURSIVE count_of_inodes(_, _)
count_of_inodes(dir, recursive) ==
    FoldLeft(LAMBDA n, e : n + 1 + IF e.node.type = "dir" /\ recursive
                                   THEN count_of_inodes(e.node, TRUE) ELSE 0,
             0, dir.entries)

\* New cells hold what the heap of the host had there
expand_initrd(img, diff) == [img EXCEPT !.blob = @ \o [i \in 1..diff |-> "junk"]]

createinode(img, type, size) ==
    [inode |-> img.next, flags |-> type, size |-> size, offset |-> Len(img.blob)]

Put(img, at, cell) == [img EXCEPT !.blob[at + 1] = cell]
Finish(img, inode) == [img EXCEPT !.inodes[inode.inode] = inode]
Counted(img, n) == [img EXCEPT !.entries = @ + n]

\* Both return the image and the number of the inode
RECURSIVE savefile(_, _, _), savedir(_, _, _)
savefile(img, node, parent) ==
    IF node.type = "dir" THEN savedir(img, node, parent)
    ELSE LET inode == createinode(img, "file", Len(node.data))
             grown == expand_initrd(Counted([img EXCEPT !.next = @ + 1], 1), inode.size)
             filled == [grown EXCEPT !.blob = [i \in DOMAIN @ |->
                            IF i > inode.offset THEN node.data[i - inode.offset] ELSE @[i]]]
         IN [img |-> Finish(filled, inode), ino |-> inode.inode]

savedir(img, dir, parent) ==
    LET inode == createinode(img, "dir", count_of_inodes(dir, FALSE) + HARDLINKS)
        grown == expand_initrd(Counted([img EXCEPT !.next = @ + 1], 3), inode.size)
        dots == Put(Put(grown, inode.offset, [name |-> ".", inode |-> inode.inode]),
                    inode.offset + 1,
                    [name |-> "..", inode |-> IF parent = NoInode THEN inode.inode ELSE parent])
        \* the recursion may move the buffer, so the entry is found again behind it
        AddEntry(s, e) ==
            LET saved == savefile(s.img, e.node, inode.inode)
            IN [img |-> Put(saved.img, inode.offset + s.i, [name |-> e.name, inode |-> saved.ino]),
                i |-> s.i + 1]
        all == FoldLeft(AddEntry, [img |-> dots, i |-> HARDLINKS], dir.entries)
    IN [img |-> Finish(all.img, inode), ino |-> inode.inode]

\* main
mkinitrd(dir) ==
    LET inodecount == count_of_inodes(dir, TRUE) + 1
    IN savedir([inodecount |-> inodecount, entries |-> 0, next |-> 0, blob |-> <<>>,
                inodes |-> [i \in 0..inodecount - 1 |-> [inode |-> 0, flags |-> "none",
                                                         size |-> 0, offset |-> 0]]],
               dir, NoInode).img

(***************************************************************************)
(* initrdfs.  A vnode is represented by the inode it points to.            *)
(***************************************************************************)
\* inodecount itself passes the test, although the table ends before it
initrd_read_inode(img, ino) ==
    IF ino > img.inodecount THEN NoInode ELSE img.inodes[img.inodes[ino].inode]

initrd_read(img, node, offset, size) ==
    IF offset > node.size THEN <<>>
    ELSE LET n == IF offset + size > node.size THEN node.size - offset ELSE size
         IN SubSeq(img.blob, node.offset + offset + 1, node.offset + offset + n)

initrd_readdir(img, node, index) ==
    IF index >= node.size THEN NoEntry
    ELSE LET e == img.blob[node.offset + index + 1]
         IN [name |-> e.name, ino |-> e.inode, type |-> img.inodes[e.inode].flags]

\* Mutant: the loop ends before the first entry
LookupAboveZero(img, node, name) ==
    LET hits == {i \in 1..node.size - 1 : img.blob[node.offset + i + 1].name = name}
    IN IF hits = {} THEN NoInode
       ELSE img.blob[node.offset + (CHOOSE i \in hits : \A j \in hits : j <= i) + 1].inode

\* The number of the inode; the entries are searched from the last one down
initrd_lookup(img, node, name) ==
    LET hits == {i \in 0..node.size - 1 : img.blob[node.offset + i + 1].name = name}
    IN IF hits = {} THEN NoInode
       ELSE img.blob[node.offset + (CHOOSE i \in hits : \A j \in hits : j <= i) + 1].inode
=============================================================================
