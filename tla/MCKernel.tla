------------------------------ MODULE MCKernel ------------------------------
(***************************************************************************)
(* The heap, the frames, the names, the floppy disk, the early console and *)
(* /dev/nish for TLC.  They do not call each other in the model: part says *)
(* which of them is run, and the others keep their first state.            *)
(***************************************************************************)
EXTENDS Heap, Paging, Vfs, Floppy, Console, NishDev

VARIABLE part

vars == <<part, heapVars, pagingVars, vfsVars, floppyVars, consoleVars, nishVars>>

\* A directory tree: /a, /a/b and the file /f
MCTree ==
    (0 :> ("." :> 0 @@ ".." :> 0 @@ "a" :> 1 @@ "f" :> 2))
      @@ (1 :> ("." :> 1 @@ ".." :> 0 @@ "b" :> 3)) @@ (3 :> ("." :> 3 @@ ".." :> 1))

Path(abs, comps) == [abs |-> abs, comps |-> comps]
MCSomePaths ==
    {Path(TRUE, <<"">>), Path(TRUE, <<"a">>), Path(FALSE, <<"b">>), Path(FALSE, <<"..">>),
     Path(TRUE, <<"a", "b">>)}
MCDevPath == Path(TRUE, <<"a">>)
MCAllPaths ==
    [abs : BOOLEAN, comps : UNION {[1..n -> {"..", "a", "b", "f", ""}] : n \in 1..3}]
MCHeapPages == <<3, 4>>

MCOutputs ==
    LET chars == Letters \cup {NL, CR, TAB, BS, FF}
    IN  {<<c>> : c \in chars} \cup {<<c, d>> : c \in chars, d \in Letters}
\* The last but one fills the buffer, the last does not fit
MCCommands ==
    {<<>>, <<"x">>, <<"e", "y">>, <<"e", "y", "x">>, <<"x", "y", "z", "z", "y">>,
     <<"x", "z", "y", "y", "z", "x">>}

Init ==
    /\ part \in {"heap", "paging", "vfs", "floppy", "console", "nish"}
    /\ HeapInit /\ PagingInit /\ VfsInit /\ FloppyInit /\ ConsoleInit /\ NishInit

Next ==
    /\ UNCHANGED part
    /\ IF part = "heap" THEN HeapNext ELSE UNCHANGED heapVars
    /\ IF part = "paging" THEN PagingNext ELSE UNCHANGED pagingVars
    /\ IF part = "vfs" THEN VfsNext ELSE UNCHANGED vfsVars
    /\ IF part = "floppy" THEN FloppyNext ELSE UNCHANGED floppyVars
    /\ IF part = "console" THEN ConsoleNext ELSE UNCHANGED consoleVars
    /\ IF part = "nish" THEN NishNext ELSE UNCHANGED nishVars

\* The names alone
VfsAlone == Init /\ part = "vfs" /\ [][Next]_vars

Spec == Init /\ [][Next]_vars
=============================================================================
