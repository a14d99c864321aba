-------------------------------- MODULE Heap --------------------------------
(***************************************************************************)
(* The kernel's heap, mm/mm.c.  The unit is 8 bytes, the size of a header  *)
(* and of a footer; an address counts units.  heap.chunk gives for the     *)
(* address of every header its size and flag, and foot, the header its     *)
(* footer points to.  Where the code leaves its own data structure, what   *)
(* it then overwrites is not followed: heap.trouble names what happened,   *)
(* all else is forgotten and the heap is not used any more.                *)
(***************************************************************************)
EXTENDS Integers, Sequences, SequencesExt, FiniteSetsExt

CONSTANTS Frame,        \* FRAME_SIZE
          HeapStart,    \* kheap->start, behind the index
          HeapSize,     \* kheap->end - kheap->start when the heap is made
          HeapMin,      \* MM_KHEAP_MIN
          HeapLimit,    \* kheap->memend - kheap->start
          Requests,     \* bound: the sizes that are asked for
          MaxBlocks     \* bound: blocks at a time

ASSUME HeapAssumption ==
    /\ Frame \in Nat \ {0, 1} /\ HeapStart >= Frame
    /\ \A n \in {HeapStart, HeapSize, HeapMin, HeapLimit} : n \in Nat /\ n % Frame = 0
    /\ 0 < HeapMin /\ HeapMin <= HeapSize /\ HeapSize <= HeapLimit
    /\ Requests \subseteq Nat \ {0}

VARIABLES heap,     \* chunk, entries (the index), end, pages (mapped ones), old, trouble
          asked     \* the blocks: header |-> the request it was made for

heapVars == <<heap, asked>>

Hole(size, foot) == [size |-> size, flag |-> "hole", foot |-> foot]
Block(size, foot) == [size |-> size, flag |-> "block", foot |-> foot]
With(f, a, value) == [x \in DOMAIN f \cup {a} |-> IF x = a THEN value ELSE f[x]]
RoundUp(a) == ((a + Frame - 1) \div Frame) * Frame
PageOf(a) == a \div Frame

\* The page behind the end is mapped too: the loop of MAP_MEMORY includes its end
create_heap ==
    [chunk |-> [x \in {HeapStart} |-> Hole(HeapSize, HeapStart)], entries |-> <<HeapStart>>,
     end |-> HeapStart + HeapSize,
     pages |-> PageOf(HeapStart)..PageOf(HeapStart + HeapSize),
     old |-> {}, trouble |-> "none"]

HeapInit == heap = create_heap /\ asked = <<>>

Troubled(what) == [create_heap EXCEPT !.trouble = what]

\* Of the headers that were merged away, those at the begin of a page
Merged(h, e) == IF e % Frame = 0 THEN [h EXCEPT !.old = @ \cup {e}] ELSE h

heap_add_entry(h, e) ==
    LET i == SelectInSeq(h.entries, LAMBDA x : h.chunk[x].size >= h.chunk[e].size)
    IN [h EXCEPT !.entries = IF i = 0 THEN Append(@, e) ELSE InsertAt(@, i, e)]

heap_del_entry(h, e) == [h EXCEPT !.entries = RemoveFirst(@, e)]

\* The part in front of the header that makes the block behind it begin a page
Lead(e) == (-(e + 1)) % Frame

\* An index, or 0.  The name notwithstanding it is the first one that is large enough:
\* a hole that grows or loses its tail keeps its place.
find_smallest_hole(h, size, page_align) ==
    SelectInSeq(h.entries, LAMBDA e :
        h.chunk[e].size - (IF page_align THEN Lead(e) ELSE 0) >= size)

\* No hole is large enough.  The new pages are added to the hole with the highest
\* address, which need not be the last chunk ("gap").  At the end of memory nothing
\* is mapped and heap_malloc calls itself for ever ("exhausted").
expand_heap(h, diff) ==
    LET newend == HeapStart + RoundUp(h.end - HeapStart + diff)
        grown == [h EXCEPT !.end = newend, !.pages = @ \cup PageOf(h.end)..PageOf(newend) - 1]
        top == Max(ToSet(h.entries))
    IN IF newend > HeapStart + HeapLimit THEN Troubled("exhausted")
       ELSE IF h.entries = <<>>
       THEN heap_add_entry([grown EXCEPT !.chunk = With(@, h.end, Hole(newend - h.end, h.end))], h.end)
       ELSE IF top + h.chunk[top].size # h.end THEN Troubled("gap")
       ELSE [grown EXCEPT !.chunk[top] = Hole(newend - top, top)]

\* A rest without room for header and footer goes to the block
UsesWhole(size, newsize) == size - 2 < newsize

\* heap_malloc finds no hole, expands the heap and calls itself.  With the second
\* expansion the last hole has the room for any part in front.
Enlarged(h, need, page_align) ==
    IF h.trouble # "none" \/ find_smallest_hole(h, need, page_align) # 0 THEN h
    ELSE expand_heap(h, need)

\* The chunks with a block at at inside the hole e; what is left of it stays a hole
Cut(h, e, at, newsize) ==
    LET rest == e + h.chunk[e].size - (at + newsize)
        heads == {at} \cup (IF at > e THEN {e} ELSE {})
                   \cup (IF rest > 0 THEN {at + newsize} ELSE {})
    IN [x \in (DOMAIN h.chunk \ {e}) \cup heads |->
          IF x = at THEN Block(newsize, at)
          ELSE IF x \in heads THEN Hole(IF x = e THEN at - e ELSE rest, x)
          ELSE h.chunk[x]]

\* The header of a new block and the heap, which has room for it.  A hole whose block
\* begins a page without a part in front stays in the index ("twice"); a part of one
\* unit in front or behind has its footer on its header ("overlap").
Carved(h, need, page_align) ==
    LET e == h.entries[find_smallest_hole(h, need, page_align)]
        hole == h.chunk[e].size
        newsize == IF UsesWhole(hole, need) THEN hole ELSE need
        front == IF page_align THEN Lead(e) ELSE 0
        at == e + front
        rest == hole - front - newsize
        taken == IF front > 0 THEN h ELSE heap_del_entry(h, e)
        cut == [taken EXCEPT !.chunk = Cut(h, e, at, newsize)]
    IN IF h.trouble # "none" THEN [h |-> h, at |-> 0]
       ELSE IF page_align /\ front = 0 THEN [h |-> Troubled("twice"), at |-> 0]
       ELSE IF front = 1 \/ rest = 1 THEN [h |-> Troubled("overlap"), at |-> 0]
       ELSE [h |-> IF rest > 0 THEN heap_add_entry(cut, at + newsize) ELSE cut, at |-> at]

\* With header and footer
heap_malloc(h, size, page_align) ==
    Carved(Enlarged(Enlarged(h, size + 2, page_align), size + 2, page_align), size + 2, page_align)

\* Where the heap ends if all behind newsize is given back; its page stays
contract_heap(h, newsize) ==
    LET size == h.end - HeapStart
        new == IF RoundUp(newsize) < HeapMin THEN HeapMin ELSE RoundUp(newsize)
        freed == {PageOf(HeapStart + i) : i \in {j \in new + 1..size - Frame : j % Frame = 0}}
    IN IF newsize >= size THEN h ELSE [h EXCEPT !.end = HeapStart + new, !.pages = @ \ freed]

\* The last step of heap_free: a hole at the end of the heap gives pages back.  If all
\* of it goes, a hole that is not in the index yet is put there nevertheless ("beyond").
FreeTail(h, a, opt) ==
    LET c == contract_heap(h, a - HeapStart)
        left == c.end - a
        gone == Merged([heap_del_entry(c, a) EXCEPT !.chunk = [x \in DOMAIN @ \ {a} |-> @[x]]], a)
        kept == [c EXCEPT !.chunk[a] = Hole(left, a)]
    IN IF a + h.chunk[a].size # h.end THEN IF opt THEN heap_add_entry(h, a) ELSE h
       ELSE IF left = 1 THEN Troubled("overlap")
       ELSE IF left = 0 THEN IF opt THEN Troubled("beyond") ELSE gone
       ELSE IF opt THEN heap_add_entry(kept, a) ELSE kept

\* Mutant: the hole on the right leaves the index, but its size is not added
MergeRightLoses(h, a) ==
    LET b == a + h.chunk[a].size
    IN IF b \notin DOMAIN h.chunk THEN h
       ELSE IF h.chunk[b].flag # "hole" THEN h
       ELSE [heap_del_entry(h, b) EXCEPT !.chunk = [x \in DOMAIN @ \ {b} |-> @[x]]]

\* The footer of the hole on the right becomes that of the whole, but keeps its pointer
MergeRight(h, a) ==
    LET b == a + h.chunk[a].size
    IN IF b \notin DOMAIN h.chunk THEN h
       ELSE IF h.chunk[b].flag # "hole" THEN h
       ELSE Merged([heap_del_entry(h, b) EXCEPT !.chunk = [x \in DOMAIN @ \ {b} |->
                        IF x = a THEN Hole(@[a].size + @[b].size, @[b].foot) ELSE @[x]]], b)

\* a: the header of the block.  magic says whether the memory at the end of the heap
\* looks like the header of a hole, which it only can where one was.  The chunk on the
\* left is found through its footer; one that points into its own hole is taken for a
\* hole there ("stale").  The header behind a last block is read where no page is
\* ("fault") or where an old one was left ("ghost").
heap_free(h, a, magic) ==
    LET lefts == {x \in DOMAIN h.chunk : x + h.chunk[x].size = a /\ h.chunk[x].flag = "hole"}
        l == CHOOSE x \in lefts : TRUE
        freed == [h EXCEPT !.chunk[a].flag = "hole"]
        joined == Merged([h EXCEPT !.chunk = [x \in DOMAIN @ \ {a} |->
                             IF x = l THEN Hole(@[l].size + @[a].size, l) ELSE @[x]]], a)
    IN IF h.trouble # "none" THEN h
       ELSE IF lefts # {} /\ h.chunk[l].foot # l THEN Troubled("stale")
       ELSE IF a + h.chunk[a].size = h.end /\ PageOf(h.end) \notin h.pages THEN Troubled("fault")
       ELSE IF a + h.chunk[a].size = h.end /\ magic THEN Troubled("ghost")
       ELSE IF lefts = {} THEN FreeTail(MergeRight(freed, a), a, TRUE)
       ELSE FreeTail(MergeRight(joined, l), l, FALSE)

\* Only headers at the begin of a page can be found at the end of the heap
OldHeaders(h) == IF h.end \in h.old THEN BOOLEAN ELSE {FALSE}

-----------------------------------------------------------------------------
Without(a) == [x \in DOMAIN asked \ {a} |-> asked[x]]

\* The calls.  What is not a multiple of the unit is not modelled.
malloc(size, page_align) ==
    LET r == heap_malloc(heap, size, page_align)
    IN /\ heap' = r.h
       /\ asked' = IF r.h.trouble # "none" THEN <<>>
                   ELSE With(asked, r.at, [size |-> size, align |-> page_align])

free(a, magic) ==
    /\ heap' = heap_free(heap, a, magic)
    /\ asked' = IF heap'.trouble # "none" THEN <<>> ELSE Without(a)

\* The test whether the rest is large enough compares an unsigned difference with 0
\* and never holds: a rest of one unit has its header on the old footer ("overlap")
realloc_shrinks(a, size, magic) ==
    LET c == heap.chunk[a]
        b == a + size + 2
        split == [heap EXCEPT !.chunk = With(With(@, a, Block(size + 2, a)), b, Block(c.size - size - 2, b))]
    IN /\ size < c.size - 2
       /\ heap' = IF c.size - size - 2 = 1 THEN Troubled("overlap") ELSE heap_free(split, b, magic)
       /\ asked' = IF heap'.trouble # "none" THEN <<>> ELSE [asked EXCEPT ![a].size = size]

\* A block that fills its chunk beyond what was asked for is returned as it is
realloc_keeps(a, size) ==
    /\ size = heap.chunk[a].size - 2
    /\ heap' = heap
    /\ asked' = [asked EXCEPT ![a].size = size]

realloc_moves(a, size) ==
    LET r == heap_malloc(heap, size, FALSE)
    IN /\ size > heap.chunk[a].size - 2
       /\ \E magic \in OldHeaders(r.h) : heap' = heap_free(r.h, a, magic)
       /\ asked' = IF heap'.trouble # "none" THEN <<>>
                   ELSE With(Without(a), r.at, [size |-> size, align |-> FALSE])

HeapNext ==
    /\ heap.trouble = "none"
    /\ \/ \E size \in Requests, page_align \in BOOLEAN :
             Cardinality(DOMAIN asked) < MaxBlocks /\ malloc(size, page_align)
       \/ \E a \in DOMAIN asked, magic \in OldHeaders(heap) : free(a, magic)
       \/ \E a \in DOMAIN asked, size \in Requests, magic \in OldHeaders(heap) :
             realloc_shrinks(a, size, magic)
       \/ \E a \in DOMAIN asked, size \in Requests : realloc_keeps(a, size) \/ realloc_moves(a, size)

HeapSpec == HeapInit /\ [][HeapNext]_heapVars

-----------------------------------------------------------------------------
Sound == heap.trouble = "none"
IsHole(x) == heap.chunk[x].flag = "hole"
Behind(x) == x + heap.chunk[x].size

\* Until one of the troubles, headers and footers tile the heap: every chunk begins
\* where another ends, the last one ends at the end of the heap, and the index holds
\* every hole exactly once and nothing else.
HeapTiled ==
    Sound =>
      /\ {HeapStart} \cup {Behind(x) : x \in DOMAIN heap.chunk} = DOMAIN heap.chunk \cup {heap.end}
      /\ \A x, y \in DOMAIN heap.chunk : Behind(x) = Behind(y) => x = y
      /\ \A x \in DOMAIN heap.chunk : heap.chunk[x].size >= 2
      /\ IsInjective(heap.entries) /\ ToSet(heap.entries) = {x \in DOMAIN heap.chunk : IsHole(x)}

\* Until one of the troubles, no two holes touch, so that memory is never too scattered
\* for a request that the free part of a gap could serve.
HolesMerged ==
    Sound => \A x, y \in DOMAIN heap.chunk : IsHole(x) /\ IsHole(y) => Behind(x) # y

\* Until one of the troubles, every block that was handed out and not freed is still a
\* block of its own, as large as asked for, at the begin of a page if that was asked,
\* with its footer intact and its memory mapped.
BlocksServed ==
    Sound =>
      /\ {x \in DOMAIN heap.chunk : ~IsHole(x)} = DOMAIN asked
      /\ \A a \in DOMAIN asked :
           /\ heap.chunk[a].size >= asked[a].size + 2 /\ heap.chunk[a].foot = a
           /\ asked[a].align => (a + 1) % Frame = 0
           /\ PageOf(a)..PageOf(Behind(a) - 1) \subseteq heap.pages

\* However the heap grows and gives pages back, it ends on a page, between its least
\* size and the end of its memory, and no page of it is unmapped.
HeapPages ==
    Sound =>
      /\ heap.end % Frame = 0 /\ heap.end - HeapStart \in HeapMin..HeapLimit
      /\ PageOf(HeapStart)..PageOf(heap.end) - 1 \subseteq heap.pages

\* The heap up to the first of its troubles, over every sequence of malloc, free and
\* realloc with growing and shrinking in between: chunks tile it and the index lists
\* the holes, holes are merged, blocks are as large and aligned as asked for and stay,
\* and its pages are mapped.
HeapIntact == HeapTiled /\ HolesMerged /\ BlocksServed /\ HeapPages

=============================================================================
