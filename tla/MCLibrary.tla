------------------------------ MODULE MCLibrary ------------------------------
(***************************************************************************)
(* Calls for TLC: small arguments, all combinations of them.               *)
(***************************************************************************)
EXTENDS Library

Strings(chars, n) == UNION {[1..k -> chars] : k \in 0..n}

Flags == {"LEFT", "PLUS", "SPACE", "SPECIAL", "ZEROPAD"}
Directives(convs) == [flags : {f \in SUBSET Flags : Cardinality(f) <= 2},
                      width : {-1, 2, 5}, prec : {-1, 0, 3}, conv : convs]

PrintCalls == [fn : {"printf"}, d : Directives({"d", "u", "o", "x", "X", "p"}), arg : 0..Word - 1]

Short(convs) == [flags : {{}, {"LEFT"}, {"ZEROPAD"}}, width : {-1, 3}, prec : {-1, 1}, conv : convs]
Texts == {NullString, <<>>, <<"t", "u">>}
PairCalls ==
    [fn : {"printf2"}, d : Short({"d", "x"}), arg : {0, Word - 1}, e : Short({"s"}), other : Texts]
      \cup [fn : {"printf2"}, d : Short({"s"}), arg : Texts, e : Short({"i"}), other : {1, Word \div 2}]
      \cup [fn : {"printf2"}, d : Short({"c"}), arg : {"q"}, e : Short({"u"}), other : {9}]

TimeCalls == {c \in [fn : {"time"}, year : 0..99, mon : 1..12, mday : {1, 28, 29, 30, 31},
                     hour : {0, 23}, bcd : BOOLEAN] :
                c.mday <= DaysOf(FullYear(c.year), c.mon)}

SleepCalls == [fn : {"sleep"}, tstart : 0..7, tdiff : 0..7, wrap : {16}]

CompareCalls == [fn : {"compare"}, s : Strings({1, 2, Slash}, 3), t : Strings({1, 2, Slash}, 3), n : 0..3]
LineCalls == [fn : {"line"}, s : Strings({9, Blank, 97}, 6)]

\* Directories with up to two entries, two levels deep
HostFiles == [type : {"file"}, data : Strings({"p"}, 2)]
Dir(e) == [type |-> "dir", entries |-> e]
Entries(nodes) == {<<>>} \cup {<<[name |-> "a", node |-> x]>> : x \in nodes}
                    \cup {<<[name |-> "b", node |-> x], [name |-> "a", node |-> y]>> : x, y \in nodes}
Level1 == {Dir(e) : e \in Entries(HostFiles)}
Level2 == {Dir(e) : e \in Entries(HostFiles \cup Level1)}
ImageCalls == [fn : {"mkinitrd"}, dir : Level2]

\* Files of up to four blocks, of which three are direct; one block may be missing
Disk == [b \in 1..3 |-> <<10 * b, 10 * b + 1>>]
ReadCalls == [fn : {"ext2_read"}, disk : {Disk}, offset : 0..7, size : 1..8,
              inode : [size : 1..8, blocks : [1..NDirBlocks -> {0, 1, 2, 9}]]]

\* Directories of one or two blocks with many records, and of four and five blocks with a
\* few: three blocks are direct; one block may be missing
Entry == [inode : {0, 5}, name : {<<1>>, <<1, 2>>}, next : {0, 4}]
Sized(e, len) == [inode |-> e.inode, rec_len |-> len, name |-> e.name, next |-> e.next]
Filled(es) == {<<Sized(e, 2)>> : e \in es} \cup {<<Sized(e, 1), Sized(f, 1)>> : e, f \in es}
Many == Filled(Entry)
Few == Filled({[inode |-> 5, name |-> <<1>>, next |-> 0], [inode |-> 6, name |-> <<1, 2>>, next |-> 0]})
Led == {s \in Few : s[1].inode = 5}
Directories == Many \cup {s \o t : s \in Many, t \in Few} \cup {s \o t : s \in Few, t \in Many}
                 \cup {s \o t \o u \o v : s, t, u, v \in Led}
                 \cup {s \o s \o t \o u \o v : s, t, u \in Led, v \in Few}
DirCalls == {[fn |-> "ext2_dir", disk |-> Disk, recs |-> d, name |-> name, beyond |-> beyond,
              dir |-> [size |-> SizeOf(d), blocks |-> [i \in 1..3 |-> IF 2 * i <= SizeOf(d) THEN blocks[i] ELSE 0]]]
             : d \in Directories, name \in {<<1>>, <<1, 2>>, <<2>>}, beyond \in {0, 1, 9},
               blocks \in {<<2, 1, 3>>, <<1, 9, 3>>}}

Group(u) == [used |-> u, inode_table |-> 7]
SuperCalls == {[fn |-> "ext2_sb", group |-> Group(u),
                disk |-> [b \in 1..9 |-> <<Group(u), Group({})>>],
                sb |-> [magic |-> m, blocks_count |-> 9, blocks_per_group |-> 12, first |-> 1,
                        inodes_count |-> 6, inodes_per_group |-> 8, ino_size |-> 1]]
               : u \in SUBSET (0..5), m \in {"EXT2_MAGIC", "other"}}

Words2 == UNION {[1..n -> Strings({1, 2}, 2)] : n \in 0..2}
Given == {Vector(v) : v \in Words2} \cup {NoVector}
StackCalls == [fn : {"stack"}, argv : Given, envp : Given, pos : {60}, low : {<<0>>, <<5, 5, 0, 5>>}]

Segments == [type : {"PT_LOAD", "PT_NULL"}, vaddr : {4, 7, 10}, offset : {0, 2}, filesz : {1, 3}, memsz : {0, 2, 6}]
            \cup {[type |-> "PT_DYNAMIC", vaddr |-> 4, offset |-> 0, filesz |-> 1, memsz |-> 1]}
ElfCalls == [fn : {"elf"}, image : [magic : {"ELF"}, version : {"CURRENT"}, machine : {"386"}, kind : {"ET_EXEC"},
                                    data : {<<"e", "f", "g", "h", "i">>}, segments : UNION {[1..n -> Segments] : n \in 1..2}]]
              \cup [fn : {"elf"}, image : [magic : {"ELF", "#!"}, version : {"CURRENT", "0"}, machine : {"386", "68k"},
                                           kind : {"ET_EXEC", "ET_DYN"}, data : {<<"e">>}, segments : {<<>>}]]

AllCalls == <<PrintCalls, PairCalls, TimeCalls, SleepCalls, CompareCalls, LineCalls,
              ImageCalls, ReadCalls, DirCalls, SuperCalls, StackCalls, ElfCalls>>
=============================================================================
