------------------------------- MODULE Library -------------------------------
(***************************************************************************)
(* The sequential functions of the system against reference definitions:   *)
(* what the call under way answers.                                        *)
(***************************************************************************)
EXTENDS Names, CStrings, Vsprintf, Calendar, Initrd, Ext2, ExecImage, Calls

-----------------------------------------------------------------------------
(***************************************************************************)
(* Printing                                                                *)
(***************************************************************************)
CharOf(f) == CASE f = "LEFT" -> "-" [] f = "PLUS" -> "+" [] f = "SPACE" -> " "
               [] f = "SPECIAL" -> "#" [] f = "ZEROPAD" -> "0"
Decimal(n) == IF n = 0 THEN <<"0">> ELSE Figures(n, 10, Capitals)

\* The format that asks for a conversion; a width or precision of -1 is left out
Format(d) == <<"%">> \o [i \in 1..Cardinality(d.flags) |-> CharOf(SetToSeq(d.flags)[i])]
               \o (IF d.width < 1 THEN <<>> ELSE Decimal(d.width))
               \o (IF d.prec < 0 THEN <<>> ELSE <<".">> \o Decimal(d.prec)) \o <<d.conv>>

BaseOf(conv) == CASE conv = "o" -> 8 [] conv \in {"x", "X", "p"} -> 16 [] OTHER -> 10

\* The number a string of digits denotes
Figure(c) == Max({SelectInSeq(Capitals, LAMBDA x : x = c), SelectInSeq(Smalls, LAMBDA x : x = c)}) - 1
Denotes(s, base) == FoldLeft(LAMBDA a, c : base * a + Figure(c), 0, s)

\* out is arg, printed as d asks for
ShowsNumber(d, arg, out) ==
    LET text == SelectSeq(out, LAMBDA c : c # " ")
        minus == text # <<>> /\ Head(text) = "-"
        unsigned == IF Head(text) \in {"-", "+"} THEN Tail(text) ELSE text
        bare == SelectSeq(unsigned, LAMBDA c : c \notin {"x", "X"})
        value == Denotes(bare, BaseOf(d.conv))
    IN /\ (IF minus THEN -value ELSE value) = (IF d.conv = "d" THEN ToInt(arg) ELSE arg)
       /\ BaseOf(d.conv) = 10 => atoi(out) = value

\* A printed number denotes the argument, whatever flags, width and precision were
\* asked for: %d the signed and the other conversions the unsigned one, the smallest
\* int included (number negates it to itself and divides unsigned).  atoi reads a
\* printed decimal back, without the sign.
NumbersReadBack ==
    call.fn = "printf" => ShowsNumber(call.d, call.arg, vsprintf(Format(call.d), <<call.arg>>))

\* out is bare in the field that d asks for
InField(d, out, bare) ==
    LET blanks == Times(Len(out) - Len(bare), " ")
    IN /\ Len(out) = Max({d.width, Len(bare)})
       /\ "LEFT" \in d.flags => out = bare \o blanks
       /\ d.flags \cap {"LEFT", "ZEROPAD"} = {} => out = blanks \o bare

\* A number fills its field exactly: as wide as asked for unless the digits need more,
\* with the blanks on one side and none between sign, prefix and digits.  (%p, which
\* takes a width of its own when none is given, is left out.)
FieldIsKept ==
    call.fn = "printf" /\ call.d.conv # "p" =>
      LET narrow == [call.d EXCEPT !.width = -1, !.flags = @ \ {"LEFT", "ZEROPAD"}]
      IN InField(call.d, vsprintf(Format(call.d), <<call.arg>>), vsprintf(Format(narrow), <<call.arg>>))

\* all is one, a %n, a letter, a percent sign and two
Together(all, one, two) == all.str = one \o <<"z", "%">> \o two /\ all.stored = <<<<"ip", Len(one)>>>>

\* Directives in one format do not disturb each other: each takes its own argument and
\* prints what it prints alone, and %n stores the count of what came before.
DirectivesIndependent ==
    call.fn = "printf2" =>
      Together(Interpret([str |-> <<>>, args |-> <<call.arg, "ip", call.other>>, stored |-> <<>>,
                          fmt |-> Format(call.d) \o <<"%", "n", "z", "%", "%">> \o Format(call.e)]),
               vsprintf(Format(call.d), <<call.arg>>), vsprintf(Format(call.e), <<call.other>>))

-----------------------------------------------------------------------------
(***************************************************************************)
(* Strings                                                                 *)
(***************************************************************************)
\* strcmp orders strings like the alphabet, memcmp agrees with it on their first bytes,
\* and strncmp calls only such strings equal whose first n characters are.
ComparisonsAgree ==
    call.fn = "compare" =>
      LET s == call.s
          t == call.t
          n == Min({call.n, Len(s), Len(t)})
      IN /\ (strcmp(s, t) = 0) = (s = t) /\ strcmp(s, t) = -strcmp(t, s)
         /\ strncmp(s, t, call.n) = 0 => memcmp(s, t, n) = 0
         /\ strncmp(s, t, Len(s) + Len(t)) = strcmp(s, t)
         /\ memcmp(s, t, n) # 0 => Order(memcmp(s, t, n), 0) = strcmp(s, t)

\* A name matches a path if it is the path's first component: namei_match for names
\* that end with NUL, namei_nmatch for counted ones that an end character follows.
NamesMatch ==
    call.fn = "compare" =>
      LET component(s) == SubSeq(s, 1, SelectInSeq(s \o <<0>>, is_end_chr) - 1)
          name == component(call.t)
          counted == SubSeq(call.t, 1, call.n)
      IN /\ namei_match(call.s, call.t) = (component(call.s) = name)
         /\ call.n <= Len(name) /\ is_end_chr(At(call.t, call.n + 1)) =>
              namei_nmatch(call.s, call.t, call.n) = (component(call.s) = counted)
         /\ call.n <= Len(name) /\ component(call.s) = counted =>
              namei_nmatch(call.s, call.t, call.n)

\* The maximal runs of characters outside of seps, in their order
Runs(s, seps) ==
    LET starts == {i \in 1..Len(s) : s[i] \notin seps /\ (i = 1 \/ s[i - 1] \in seps)}
        end(i) == Max({j \in i..Len(s) : \A k \in i..j : s[k] \notin seps})
        order == SetToSortSeq(starts, <)
    IN [k \in 1..Len(order) |-> SubSeq(s, order[k], end(order[k]))]

\* nish takes a command line apart at its blanks (a blank line is one empty word).
ArgvIsWords ==
    call.fn = "line" /\ call.s # <<>> /\ ToSet(call.s) \cap 1..Blank - 1 = {} =>
      split_to_argv(call.s) = (IF Runs(call.s, {Blank}) = <<>> THEN <<<<>>>>
                               ELSE Runs(call.s, {Blank}))

RECURSIVE Tokens(_, _)
Tokens(s, delim) ==
    LET r == strtok_save(s, delim, NoString)
    IN IF r.token = NoString THEN <<>>
       ELSE <<r.token>> \o (IF r.ptr = NoString THEN <<>> ELSE Tokens(r.ptr, delim))

\* Calling strtok until it returns null gives the runs between delimiters, also when
\* several different delimiters follow each other, begin or end the string.
TokensAreRuns ==
    call.fn = "line" =>
      \A delim \in {<<Blank>>, <<9, Blank>>} : Tokens(call.s, delim) = Runs(call.s, ToSet(delim))

-----------------------------------------------------------------------------
(***************************************************************************)
(* The initial ramdisk                                                     *)
(***************************************************************************)
\* The tree that initrdfs shows below inode ino
RECURSIVE Shown(_, _)
Shown(img, ino) ==
    LET node == initrd_read_inode(img, ino)
    IN IF node.flags = "file" THEN [type |-> "file", data |-> initrd_read(img, node, 0, node.size + 1)]
       ELSE [type |-> "dir",
             entries |-> [k \in 1..node.size - 2 |->
                LET e == initrd_readdir(img, node, k + 1)
                IN [name |-> e.name, node |-> Shown(img, initrd_lookup(img, node, e.name))]]]

\* What initrdfs reads from the image is the directory mkinitrd was given: every file
\* with its bytes, every directory with its entries, "." and ".." where they belong,
\* no inode left out of the table and none in it that is not used.
ImageReadsBack ==
    call.fn = "mkinitrd" =>
      LET img == mkinitrd(call.dir)
          dirs == {i \in DOMAIN img.inodes : img.inodes[i].flags = "dir"}
          below(d) == {initrd_readdir(img, img.inodes[d], k).ino : k \in 2..img.inodes[d].size - 1}
      IN /\ Shown(img, 0) = call.dir
         /\ img.next = img.inodecount
         /\ \A d \in dirs : /\ initrd_lookup(img, img.inodes[d], ".") = d
                            /\ \A c \in below(d) \cap dirs :
                                 initrd_lookup(img, img.inodes[c], "..") = d
                            /\ initrd_readdir(img, img.inodes[d], img.inodes[d].size) = NoEntry
         /\ initrd_lookup(img, img.inodes[0], "..") = 0

-----------------------------------------------------------------------------
\* vsprintf, of the kernel and of libc: the number, its field and its neighbours.
PrintfRight == NumbersReadBack /\ FieldIsKept /\ DirectivesIndependent

\* The functions that compare and split strings: those of lib/string.c, the names of
\* fs/namei.c and the command lines of nish.
StringsRight == ComparisonsAgree /\ NamesMatch /\ ArgvIsWords /\ TokensAreRuns
=============================================================================
