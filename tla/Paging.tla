------------------------------- MODULE Paging -------------------------------
(***************************************************************************)
(* Frames and page directories, mm/paging.c.  A page is the number of a    *)
(* linear address's page; frame 0 in a table means that there is none.     *)
(* The tables of the kernel's directory are shared by all others: tab says *)
(* for each table of a directory whether it is the kernel's, the           *)
(* directory's own or missing.  content is what the frames in use hold,    *)
(* seen what a program last found or wrote in its pages.                   *)
(***************************************************************************)
EXTENDS Integers, FiniteSetsExt

CONSTANTS NrFrames,     \* framecount
          TabSize,      \* entries of a table; 1024 in the code
          NrTabs,       \* tables of a directory
          MemStart,     \* the page of WORKING_MEMSTART
          IpcPages,     \* IPC_MEMSIZE
          PreHeap,      \* the page of kmalloc_pos + FRAME_SIZE
          HeapPageRange,    \* the heap's first page, and the page of its end
          HeapTop,      \* bound: the heap grows to this page
          UserPages,    \* the pages of programs and their stacks
          Dirs,         \* bound: the numbers of the directories
          Contents      \* what a page may hold

Frames == 0..NrFrames - 1
Pages == 0..NrTabs * TabSize - 1
Tabs == 0..NrTabs - 1
TabOf(p) == p \div TabSize
HeapPages0 == HeapPageRange[1]..HeapPageRange[2]

\* The kernel's ranges lie in this order, and programs have tables of their own
ASSUME PagingAssumption ==
    /\ {NrFrames, TabSize, NrTabs} \subseteq Nat \ {0} /\ IpcPages \in Nat
    /\ {MemStart, PreHeap, HeapPageRange[1], HeapPageRange[2], HeapTop} \subseteq Pages
    /\ MemStart + IpcPages <= PreHeap /\ PreHeap < HeapPageRange[1]
    /\ HeapPageRange[1] <= HeapPageRange[2] /\ HeapPageRange[2] <= HeapTop
    /\ Dirs \subseteq Nat \ {0} /\ Dirs # {}
    /\ UserPages \subseteq Pages /\ Contents # {}
    /\ \A p \in UserPages, q \in 0..HeapTop : TabOf(p) # TabOf(q)

VARIABLES framemap,     \* the frames whose bit is set
          kpage,        \* the kernel's tables: page |-> frame
          ktab,         \* the tables the kernel's directory has
          alive,        \* the directories there are
          tab, upage,   \* of each directory: the origin of its tables, its own pages
          content, seen

pagingVars == <<framemap, kpage, ktab, alive, tab, upage, content, seen>>

\* MAP_MEMORY includes its end, so that the four ranges of setup_paging overlap
MAP_MEMORY(start, end) == start..end

Setup == MAP_MEMORY(0, MemStart) \cup MAP_MEMORY(MemStart, MemStart + IpcPages)
           \cup MAP_MEMORY(MemStart + IpcPages, PreHeap) \cup HeapPages0

\* How many of S there are before x, and after it
Before(S, x) == Cardinality({y \in S : y < x})
After(S, x) == Cardinality({y \in S : y > x})

\* Frames are given out from the lowest on, and the ranges are mapped upwards: page 0
\* gets frame 0, which its entry cannot tell from none
setup_paging ==
    /\ framemap = 0..Cardinality(Setup) - 1
    /\ kpage = [p \in Pages |-> IF p \in Setup THEN Before(Setup, p) ELSE 0]
    /\ ktab = {TabOf(p) : p \in Setup}

Junk == CHOOSE c \in Contents : TRUE

PagingInit ==
    /\ setup_paging
    /\ alive = {Min(Dirs)}
    /\ tab = [d \in Dirs |-> [t \in Tabs |-> IF d \in alive /\ t \in ktab THEN "kernel" ELSE "none"]]
    /\ upage = [d \in Dirs |-> [p \in UserPages |-> 0]]
    /\ content = [f \in Frames |-> Junk]
    /\ seen = [d \in Dirs |-> [p \in UserPages |-> Junk]]

Free == Frames \ framemap

\* The frame that alloc_frame takes after n others.  That there is one is assumed:
\* without a free frame first_frame answers 0xFFFFFFFF, which is used.
alloc_frame(n) == CHOOSE f \in Free : Before(Free, f) = n
first_frame == alloc_frame(0)

-----------------------------------------------------------------------------
\* make_page for the kernel, as expand_heap calls it; a page that has a frame keeps it
KernelPage(p) ==
    /\ Free # {}
    /\ ktab' = ktab \cup {TabOf(p)}
    /\ IF kpage[p] # 0 THEN UNCHANGED <<kpage, framemap>>
       ELSE /\ kpage' = [kpage EXCEPT ![p] = first_frame]
            /\ framemap' = framemap \cup {first_frame}
    /\ UNCHANGED <<alive, tab, upage, content, seen>>

\* free_page, as contract_heap calls it
KernelFree(p) ==
    /\ TabOf(p) \in ktab
    /\ kpage' = [kpage EXCEPT ![p] = 0]
    /\ framemap' = framemap \ ({kpage[p]} \ {0})
    /\ UNCHANGED <<ktab, alive, tab, upage, content, seen>>

\* make_page for a program, with make_table.  The frame is not cleared: c is what some
\* other program left in it.
make_page(d, p, c) ==
    /\ Free # {}
    /\ tab' = [tab EXCEPT ![d][TabOf(p)] = IF @ = "none" THEN "own" ELSE @]
    /\ IF upage[d][p] # 0 THEN UNCHANGED <<upage, framemap, content, seen>>
       ELSE /\ upage' = [upage EXCEPT ![d][p] = first_frame]
            /\ framemap' = framemap \cup {first_frame}
            /\ content' = [content EXCEPT ![first_frame] = c]
            /\ seen' = [seen EXCEPT ![d][p] = c]
    /\ UNCHANGED <<kpage, ktab, alive>>

\* The pages clone_table copies, from the last one down
OwnPages(d) == {p \in UserPages : tab[d][TabOf(p)] = "own" /\ upage[d][p] # 0}
granted(d, p) == alloc_frame(After(OwnPages(d), p))

\* Mutant: the copy goes the wrong way
CloneBackwards(d, e) ==
    /\ Cardinality(OwnPages(d)) <= Cardinality(Free)
    /\ tab' = [tab EXCEPT ![e] = tab[d]]
    /\ upage' = [upage EXCEPT ![e] = [p \in UserPages |-> IF p \in OwnPages(d) THEN granted(d, p) ELSE 0]]
    /\ framemap' = framemap \cup {granted(d, p) : p \in OwnPages(d)}
    /\ content' = [f \in Frames |-> IF \E p \in OwnPages(d) : upage[d][p] = f
                                    THEN content[granted(d, CHOOSE p \in OwnPages(d) : upage[d][p] = f)]
                                    ELSE content[f]]
    /\ alive' = alive \cup {e} /\ seen' = [seen EXCEPT ![e] = seen[d]]
    /\ UNCHANGED <<kpage, ktab>>

\* A table that is the kernel's is shared, another one is copied page by page
clone_directory(d, e) ==
    /\ Cardinality(OwnPages(d)) <= Cardinality(Free)
    /\ tab' = [tab EXCEPT ![e] = tab[d]]
    /\ upage' = [upage EXCEPT ![e] = [p \in UserPages |-> IF p \in OwnPages(d) THEN granted(d, p) ELSE 0]]
    /\ framemap' = framemap \cup {granted(d, p) : p \in OwnPages(d)}
    /\ content' = [f \in Frames |-> IF \E p \in OwnPages(d) : granted(d, p) = f
                                    THEN content[upage[d][CHOOSE p \in OwnPages(d) : granted(d, p) = f]]
                                    ELSE content[f]]
    /\ alive' = alive \cup {e} /\ seen' = [seen EXCEPT ![e] = seen[d]]
    /\ UNCHANGED <<kpage, ktab>>

\* With free_table.  The frames are only marked free, because the directory is in use
\* until the next switch; interrupts are off until then.
free_directory(d) ==
    /\ framemap' = framemap \ {upage[d][p] : p \in OwnPages(d)}
    /\ alive' = alive \ {d}
    /\ tab' = [tab EXCEPT ![d] = [t \in Tabs |-> "none"]]
    /\ upage' = [upage EXCEPT ![d] = [p \in UserPages |-> 0]]
    /\ content' = [f \in Frames |-> IF f \in framemap' THEN content[f] ELSE Junk]
    /\ seen' = [seen EXCEPT ![d] = [p \in UserPages |-> Junk]]
    /\ UNCHANGED <<kpage, ktab>>

\* A program writes to one of its pages
Write(d, p, c) ==
    /\ upage[d][p] # 0
    /\ content' = [content EXCEPT ![upage[d][p]] = c]
    /\ seen' = [seen EXCEPT ![d][p] = c]
    /\ UNCHANGED <<framemap, kpage, ktab, alive, tab, upage>>

PagingNext ==
    \/ \E p \in HeapPageRange[2]..HeapTop : KernelPage(p)
    \/ \E p \in HeapPageRange[1] + 1..HeapTop : KernelFree(p)
    \/ \E d \in alive, p \in UserPages, c \in Contents : make_page(d, p, c)
    \/ \E d \in alive, e \in Dirs \ alive : clone_directory(d, e)
    \/ \E d \in alive : free_directory(d)
    \/ \E d \in alive, p \in UserPages, c \in Contents : Write(d, p, c)

PagingSpec == PagingInit /\ [][PagingNext]_pagingVars

-----------------------------------------------------------------------------
\* Where a frame is used: a page of the kernel or of a directory
Kernel == 0
Uses == {<<Kernel, p>> : p \in {q \in Pages : kpage[q] # 0}}
          \cup UNION {{<<d, p>> : p \in OwnPages(d)} : d \in alive}
FrameAt(u) == IF u[1] = Kernel THEN kpage[u[2]] ELSE upage[u[1]][u[2]]

\* The map of the frames is exact: a frame in use by a page is marked and used by no
\* other page, of the kernel or of any program, and a marked frame other than 0 is in
\* use, so that growing and shrinking heaps, forks and exits leak none.
FramesOwned ==
    /\ \A u, v \in Uses : FrameAt(u) = FrameAt(v) => u = v
    /\ framemap = {0} \cup {FrameAt(u) : u \in Uses}

\* A program finds in its pages what it wrote there last, or its parent before the
\* fork, whatever other programs write.
SpacesApart == \A d \in alive : \A p \in OwnPages(d) : content[upage[d][p]] = seen[d][p]

\* The memory below the heap stays where it is: page and frame have the same number,
\* on which the physical addresses of the first tables and the drivers' buffers rest.
\* Every directory reaches it through the kernel's own tables.
KernelStays ==
    /\ \A p \in 0..PreHeap : kpage[p] = p
    /\ \A d \in alive, p \in Setup : tab[d][TabOf(p)] = "kernel"

\* Memory over forks, exits and a heap that grows and shrinks: frames belong to one
\* page each and none is lost, programs do not see each other's writes, the kernel
\* stays where it was mapped.
MemoryApart == FramesOwned /\ SpacesApart /\ KernelStays

=============================================================================
