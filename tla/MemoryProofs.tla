---------------------------- MODULE MemoryProofs ----------------------------
(***************************************************************************)
(* Frames and directories, for memories, tables, numbers of directories    *)
(* and pages of any size; the heap, for frames, heaps and requests of any  *)
(* size and any number of blocks.                                          *)
(***************************************************************************)
EXTENDS Paging, Heap, FiniteSetTheorems, SequenceTheorems, NaturalsInduction, WellFoundedInduction,
        TLAPS

-----------------------------------------------------------------------------
(***************************************************************************)
(* Counting in finite sets of numbers                                      *)
(***************************************************************************)

\* A non-empty set of numbers has a least one.
LEMMA LeastNat ==
    ASSUME NEW S \in SUBSET Nat, S # {}
    PROVE  \E x \in S : \A y \in S : x <= y
<1> DEFINE Less == {ss \in Nat \X Nat : ss[1] < ss[2]}
<1>1. IsWellFoundedOn(Less, Nat)
  BY NatLessThanWellFounded DEF OpToRel
<1>2. PICK x \in S : \A y \in S : ~ (<<y, x>> \in Less)
  <2> HIDE DEF Less
  <2> QED BY <1>1, WFMin
<1>3. ASSUME NEW y \in S PROVE x <= y
  <2>1. x \in Nat /\ y \in Nat
    OBVIOUS
  <2>2. <<y, x>> \in Nat \X Nat /\ <<y, x>>[1] = y /\ <<y, x>>[2] = x
    BY <2>1
  <2>3. ~(y < x)
    BY <1>2, <2>2
  <2> QED
    BY <2>1, <2>3
<1> QED
  BY <1>2, <1>3

\* The parts of a set below a bound are finite, and counted by a number.
LEMMA BoundedFinite ==
    ASSUME NEW N \in Nat, NEW S \in SUBSET (0 .. N), NEW T \in SUBSET S
    PROVE  /\ IsFiniteSet(T) /\ Cardinality(T) \in Nat /\ Cardinality(T) <= Cardinality(S)
           /\ Cardinality(S) \in Nat
           /\ T # S => Cardinality(T) < Cardinality(S)
<1>1. IsFiniteSet(0 .. N)
  BY FS_Interval
<1>2. IsFiniteSet(S)
  BY <1>1, FS_Subset
<1>3. /\ IsFiniteSet(T) /\ Cardinality(T) <= Cardinality(S)
      /\ Cardinality(S) = Cardinality(T) => S = T
  BY <1>2, FS_Subset
<1>4. Cardinality(T) \in Nat /\ Cardinality(S) \in Nat
  BY <1>2, <1>3, FS_CardinalityType
<1> QED
  BY <1>3, <1>4

\* For every k there is one with k others before it, if there are so many.
LEMMA RankExists ==
    ASSUME NEW N \in Nat, NEW S \in SUBSET (0 .. N), NEW k \in Nat, k < Cardinality(S)
    PROVE  \E x \in S : Before(S, x) = k
<1> DEFINE C(n) == {y \in S : y < n}
           G == {n \in Nat : Cardinality(C(n)) > k}
<1>0. \A y \in S : y \in Nat /\ y <= N
  OBVIOUS
<1>1. \A n \in Nat : IsFiniteSet(C(n)) /\ Cardinality(C(n)) \in Nat
  <2> TAKE n \in Nat
  <2>1. C(n) \in SUBSET S
    OBVIOUS
  <2> HIDE DEF C
  <2> QED
    BY <2>1, BoundedFinite
<1>2. N + 1 \in G
  <2>0. \A y \in S : y < N + 1
    BY <1>0
  <2>1. C(N + 1) = S
    BY <2>0
  <2> QED
    BY <2>1
<1>3. PICK n \in G : \A m \in G : n <= m
  <2>1. G \in SUBSET Nat /\ G # {}
    BY <1>2
  <2> HIDE DEF G
  <2> QED
    BY <2>1, LeastNat
<1>4. n # 0
  <2>0. \A y \in S : ~(y < 0)
    BY <1>0
  <2>1. C(0) = {}
    BY <2>0
  <2> QED
    BY <2>1, FS_EmptySet
<1>5. n - 1 \in Nat /\ n - 1 \notin G
  BY <1>3, <1>4
<1>6. Cardinality(C(n - 1)) <= k
  BY <1>1, <1>5
<1>7. C(n) = IF n - 1 \in S THEN C(n - 1) \cup {n - 1} ELSE C(n - 1)
  <2>1. \A y \in S : y < n <=> y < n - 1 \/ y = n - 1
    BY <1>0, <1>5
  <2> QED
    BY <2>1
<1>8. n - 1 \notin C(n - 1)
  BY <1>5
<1>9. Cardinality(C(n - 1) \cup {n - 1}) = Cardinality(C(n - 1)) + 1
  BY <1>1, <1>5, <1>8, FS_AddElement
<1>10. Cardinality(C(n)) > k
  BY <1>3
<1> HIDE DEF C
<1>11. n - 1 \in S /\ Cardinality(C(n - 1)) = k
  BY <1>1, <1>5, <1>6, <1>7, <1>9, <1>10
<1> QED
  BY <1>11 DEF Before, C

\* No two of a set have equally many before them, nor equally many after them.
LEMMA RankInjective ==
    ASSUME NEW N \in Nat, NEW S \in SUBSET (0 .. N), NEW x \in S, NEW y \in S
    PROVE  /\ Before(S, x) = Before(S, y) => x = y
           /\ After(S, x) = After(S, y) => x = y
           /\ Before(S, x) \in Nat /\ Before(S, x) < Cardinality(S)
           /\ After(S, x) \in Nat /\ After(S, x) < Cardinality(S)
<1> DEFINE C(n) == {z \in S : z < n}
           D(n) == {z \in S : z > n}
<1>0. \A z \in S : z \in Nat /\ z <= N
  OBVIOUS
<1>1. ASSUME NEW a \in S, NEW b \in S, a < b
      PROVE  Cardinality(C(a)) < Cardinality(C(b)) /\ Cardinality(D(b)) < Cardinality(D(a))
  <2>1. C(a) \in SUBSET C(b) /\ C(a) # C(b) /\ C(b) \in SUBSET (0 .. N)
    <3>1. a \in C(b) /\ a \notin C(a) /\ \A z \in S : z < a => z < b
      BY <1>0, <1>1
    <3> QED
      BY <3>1
  <2>2. D(b) \in SUBSET D(a) /\ D(b) # D(a) /\ D(a) \in SUBSET (0 .. N)
    <3>1. b \in D(a) /\ b \notin D(b) /\ \A z \in S : z > b => z > a
      BY <1>0, <1>1
    <3> QED
      BY <3>1
  <2> HIDE DEF C, D
  <2> QED
    BY <2>1, <2>2, BoundedFinite
<1>2. ASSUME NEW a \in S
      PROVE  /\ Cardinality(C(a)) \in Nat /\ Cardinality(C(a)) < Cardinality(S)
             /\ Cardinality(D(a)) \in Nat /\ Cardinality(D(a)) < Cardinality(S)
  <2>1. C(a) \in SUBSET S /\ C(a) # S /\ D(a) \in SUBSET S /\ D(a) # S
    OBVIOUS
  <2> HIDE DEF C, D
  <2> QED
    BY <2>1, BoundedFinite
<1>3. x \in Int /\ y \in Int
  OBVIOUS
<1>4. /\ Before(S, x) = Cardinality(C(x)) /\ Before(S, y) = Cardinality(C(y))
      /\ After(S, x) = Cardinality(D(x)) /\ After(S, y) = Cardinality(D(y))
  BY DEF Before, After
<1>5. /\ Cardinality(C(x)) = Cardinality(C(y)) => x = y
      /\ Cardinality(D(x)) = Cardinality(D(y)) => x = y
  <2> HIDE DEF C, D
  <2> QED
    BY <1>1, <1>2, <1>3
<1> QED
  BY <1>2, <1>4, <1>5

\* The table of a page is one of the directory's.
LEMMA TabOfType == \A p \in Pages : TabOf(p) \in Tabs
<1> SUFFICES ASSUME NEW p \in Pages PROVE TabOf(p) \in Tabs
  OBVIOUS
<1>1. TabSize \in Nat \ {0} /\ NrTabs \in Nat \ {0}
  BY PagingAssumption
<1>2. p \in Nat /\ p < NrTabs * TabSize
  BY <1>1 DEF Pages
<1>3. p \div TabSize \in Nat
  BY <1>1, <1>2
<1>4. p = TabSize * (p \div TabSize) + (p % TabSize) /\ (p % TabSize) \in 0 .. TabSize - 1
  BY <1>1, <1>2
<1>5. p \div TabSize < NrTabs
  BY <1>1, <1>2, <1>3, <1>4
<1> QED
  BY <1>1, <1>3, <1>5 DEF TabOf, Tabs

-----------------------------------------------------------------------------
(***************************************************************************)
(* The inductive invariant of the frames: MemoryApart, the types, and that *)
(* no page of a program is in a table of the kernel or in none             *)
(***************************************************************************)

PagingTypes ==
    /\ kpage \in [Pages -> Nat]
    /\ alive \subseteq Dirs
    /\ tab \in [Dirs -> [Tabs -> {"kernel", "own", "none"}]]
    /\ upage \in [Dirs -> [UserPages -> Frames]]
    /\ content \in [Frames -> Contents]
    /\ seen \in [Dirs -> [UserPages -> Contents]]

ProgramTables ==
    \A d \in alive, p \in UserPages :
      /\ tab[d][TabOf(p)] # "kernel"
      /\ upage[d][p] # 0 => tab[d][TabOf(p)] = "own"

PagingInv == PagingTypes /\ ProgramTables /\ MemoryApart

\* The facts about the constants that the proofs use.
LEMMA PagingConstants ==
    /\ NrFrames \in Nat \ {0} /\ 0 \in Frames /\ Frames \subseteq Nat
    /\ UserPages \subseteq Pages /\ Pages \subseteq Nat
    /\ Dirs \subseteq Nat \ {0}
    /\ {MemStart, PreHeap, HeapPageRange[1], HeapPageRange[2], HeapTop} \subseteq Nat
    /\ MemStart <= PreHeap /\ PreHeap < HeapPageRange[1]
    /\ HeapPageRange[1] <= HeapPageRange[2] /\ HeapPageRange[2] <= HeapTop
    /\ Setup = 0 .. PreHeap \cup HeapPageRange[1] .. HeapPageRange[2]
    /\ Setup \subseteq 0 .. HeapTop /\ 0 .. HeapTop \subseteq Pages
<1>1. /\ NrFrames \in Nat \ {0} /\ TabSize \in Nat \ {0} /\ NrTabs \in Nat \ {0} /\ IpcPages \in Nat
      /\ Dirs \subseteq Nat \ {0} /\ UserPages \subseteq Pages
      /\ {MemStart, PreHeap, HeapPageRange[1], HeapPageRange[2], HeapTop} \subseteq Pages
      /\ MemStart + IpcPages <= PreHeap /\ PreHeap < HeapPageRange[1]
      /\ HeapPageRange[1] <= HeapPageRange[2] /\ HeapPageRange[2] <= HeapTop
  BY PagingAssumption
<1>2. 0 \in Frames /\ Frames \subseteq Nat
  BY <1>1 DEF Frames
<1>3. NrTabs * TabSize \in Nat
  BY <1>1
<1>4. Pages \subseteq Nat /\ 0 .. HeapTop \subseteq Pages
  BY <1>1, <1>3 DEF Pages
<1>5. Setup = 0 .. PreHeap \cup HeapPageRange[1] .. HeapPageRange[2]
  <2>1. {MemStart, PreHeap, IpcPages} \subseteq Nat
    BY <1>1, <1>4
  <2>2. \A p : p \in Setup <=> \/ p \in 0 .. MemStart \/ p \in MemStart .. MemStart + IpcPages
                               \/ p \in MemStart + IpcPages .. PreHeap
                               \/ p \in HeapPageRange[1] .. HeapPageRange[2]
    BY DEF Setup, MAP_MEMORY, HeapPages0
  <2>3. \A p : \/ p \in 0 .. MemStart \/ p \in MemStart .. MemStart + IpcPages
               \/ p \in MemStart + IpcPages .. PreHeap
               <=> p \in 0 .. PreHeap
    BY <1>1, <2>1
  <2> QED
    BY <2>2, <2>3
<1>6. /\ MemStart \in Nat /\ PreHeap \in Nat /\ HeapPageRange[1] \in Nat
      /\ HeapPageRange[2] \in Nat /\ HeapTop \in Nat
  BY <1>1, <1>4
<1>7. MemStart <= PreHeap
  BY <1>1, <1>6
<1>8. Setup \subseteq 0 .. HeapTop
  <2>1. 0 .. PreHeap \subseteq 0 .. HeapTop
    BY <1>1, <1>6
  <2>2. HeapPageRange[1] .. HeapPageRange[2] \subseteq 0 .. HeapTop
    BY <1>1, <1>6
  <2> QED
    BY <1>5, <2>1, <2>2
<1> QED
  BY <1>1, <1>2, <1>4, <1>5, <1>6, <1>7, <1>8

\* The frame that alloc_frame takes is a free one, and not frame 0; calls in a row take
\* different ones.
LEMMA AllocFrame ==
    ASSUME FramesOwned, NEW n \in Nat, n < Cardinality(Free)
    PROVE  /\ alloc_frame(n) \in Free /\ alloc_frame(n) \in Frames
           /\ alloc_frame(n) \notin framemap /\ alloc_frame(n) # 0
           /\ Before(Free, alloc_frame(n)) = n
<1>1. NrFrames - 1 \in Nat /\ Free \in SUBSET (0 .. NrFrames - 1)
  BY PagingConstants DEF Free, Frames
<1>2. \E f \in Free : Before(Free, f) = n
  BY <1>1, RankExists
<1>3. alloc_frame(n) \in Free /\ Before(Free, alloc_frame(n)) = n
  BY <1>2 DEF alloc_frame
<1>4. 0 \in framemap
  BY DEF FramesOwned
<1> QED
  BY <1>3, <1>4 DEF Free

\* The first free frame.
LEMMA FirstFrame ==
    ASSUME FramesOwned, Free # {}
    PROVE  first_frame \in Frames /\ first_frame \notin framemap /\ first_frame # 0
<1>1. NrFrames - 1 \in Nat /\ Free \in SUBSET (0 .. NrFrames - 1)
  BY PagingConstants DEF Free, Frames
<1>2. {} \in SUBSET Free /\ Cardinality({}) = 0
  BY FS_EmptySet
<1>3. 0 < Cardinality(Free)
  BY <1>1, <1>2, BoundedFinite
<1> QED
  BY <1>3, AllocFrame DEF first_frame

\* What a use of a frame is.
LEMMA UsesMember ==
    \A u : u \in Uses <=> \/ \E p \in Pages : kpage[p] # 0 /\ u = <<Kernel, p>>
                          \/ \E d \in alive : \E p \in OwnPages(d) : u = <<d, p>>
BY DEF Uses

\* Uses come to a map of frames that were free.
LEMMA FramesGrow ==
    ASSUME FramesOwned, NEW N, Uses' = Uses \cup N,
           \A u \in Uses : FrameAt(u)' = FrameAt(u),
           \A u \in N : FrameAt(u)' \notin framemap,
           \A u, v \in N : FrameAt(u)' = FrameAt(v)' => u = v,
           framemap' = framemap \cup {FrameAt(u)' : u \in N}
    PROVE  FramesOwned'
<1>1. \A u \in Uses : FrameAt(u)' \in framemap
  BY DEF FramesOwned
<1>2. ASSUME NEW u \in Uses', NEW v \in Uses', FrameAt(u)' = FrameAt(v)' PROVE u = v
  BY <1>1, <1>2 DEF FramesOwned
<1>3. {FrameAt(u)' : u \in Uses'} = {FrameAt(u) : u \in Uses} \cup {FrameAt(u)' : u \in N}
  OBVIOUS
<1>4. framemap' = {0} \cup {FrameAt(u)' : u \in Uses'}
  BY <1>3 DEF FramesOwned
<1> QED
  BY <1>2, <1>4 DEF FramesOwned

\* ... or go, and their frames with them.
LEMMA FramesShrink ==
    ASSUME FramesOwned, NEW O \in SUBSET Uses, Uses' = Uses \ O,
           \A u \in Uses \ O : FrameAt(u)' = FrameAt(u),
           \A u \in Uses : FrameAt(u) # 0,
           framemap' = framemap \ {FrameAt(u) : u \in O}
    PROVE  FramesOwned'
<1>1. \A u, v \in Uses' : FrameAt(u)' = FrameAt(v)' => u = v
  BY DEF FramesOwned
<1>2. {FrameAt(u)' : u \in Uses'} = {FrameAt(u) : u \in Uses} \ {FrameAt(u) : u \in O}
  BY DEF FramesOwned
<1>3. framemap' = {0} \cup {FrameAt(u)' : u \in Uses'}
  BY <1>2 DEF FramesOwned
<1> QED
  BY <1>1, <1>3 DEF FramesOwned

\* The invariant does not depend on ktab.
LEMMA PagingSame ==
    ASSUME PagingInv, UNCHANGED <<framemap, kpage, alive, tab, upage, content, seen>>
    PROVE  PagingInv'
<1>1. \A d : OwnPages(d)' = OwnPages(d)
  BY DEF OwnPages
<1>2. Uses' = Uses /\ \A u : FrameAt(u)' = FrameAt(u)
  BY <1>1 DEF Uses, FrameAt
<1>3. FramesOwned'
  BY <1>2 DEF PagingInv, MemoryApart, FramesOwned
<1>4. SpacesApart' /\ KernelStays'
  BY <1>1 DEF PagingInv, MemoryApart, SpacesApart, KernelStays
<1>5. PagingTypes' /\ ProgramTables'
  BY DEF PagingInv, PagingTypes, ProgramTables
<1> QED
  BY <1>3, <1>4, <1>5 DEF PagingInv, MemoryApart

\* expand_heap and contract_heap: one page of the kernel's.
LEMMA KernelPageKeeps ==
    ASSUME PagingInv, NEW p \in HeapPageRange[2] .. HeapTop, KernelPage(p)
    PROVE  PagingInv'
<1>1. p \in Pages /\ p > PreHeap /\ p \in Nat
  <2>1. p \in 0 .. HeapTop /\ p > PreHeap
    BY PagingConstants
  <2> QED
    BY <2>1, PagingConstants
<1>2. UNCHANGED <<alive, tab, upage, content, seen>>
  BY DEF KernelPage
<1>3. CASE kpage[p] # 0
  <2>1. UNCHANGED <<kpage, framemap>>
    BY <1>3 DEF KernelPage
  <2> QED
    BY <1>2, <2>1, PagingSame
<1>4. CASE kpage[p] = 0
  <2>1. /\ first_frame \in Frames /\ first_frame \notin framemap /\ first_frame # 0
        /\ first_frame \in Nat
    BY FirstFrame, PagingConstants DEF KernelPage, PagingInv, MemoryApart
  <2>2. /\ kpage' = [kpage EXCEPT ![p] = first_frame]
        /\ framemap' = framemap \cup {first_frame}
    BY <1>4 DEF KernelPage
  <2>3. PagingTypes' /\ ProgramTables'
    BY <1>2, <2>1, <2>2 DEF PagingInv, PagingTypes, ProgramTables
  <2>4. \A d : OwnPages(d)' = OwnPages(d)
    BY <1>2 DEF OwnPages
  <2>5. SpacesApart' /\ KernelStays'
    BY <1>1, <1>2, <2>2, <2>4, PagingConstants
       DEF SpacesApart, KernelStays, PagingInv, PagingTypes, MemoryApart
  <2>6. FramesOwned'
    <3> DEFINE N == {<<Kernel, p>>}
    <3>1. kpage'[p] = first_frame /\ \A q \in Pages : q # p => kpage'[q] = kpage[q]
      BY <1>1, <2>2 DEF PagingInv, PagingTypes
    <3>2. Uses' = Uses \cup N
      <4>1. \A u : u \in Uses' <=> \/ \E q \in Pages : kpage'[q] # 0 /\ u = <<Kernel, q>>
                                   \/ \E d \in alive : \E q \in OwnPages(d) : u = <<d, q>>
        BY <1>2, <2>4 DEF Uses
      <4>2. \A u : u \in Uses' <=> u \in Uses \/ u \in N
        BY <1>1, <1>4, <2>1, <3>1, <4>1, UsesMember
      <4> QED
        BY <4>2
    <3>3. \A u \in N : FrameAt(u)' = first_frame
      BY <3>1 DEF FrameAt
    <3>4. \A u \in Uses : FrameAt(u)' = FrameAt(u)
      <4> SUFFICES ASSUME NEW u \in Uses PROVE FrameAt(u)' = FrameAt(u)
        OBVIOUS
      <4>1. CASE \E q \in Pages : kpage[q] # 0 /\ u = <<Kernel, q>>
        BY <1>4, <3>1, <4>1 DEF FrameAt
      <4>2. CASE \E d \in alive : \E q \in OwnPages(d) : u = <<d, q>>
        BY <1>2, <4>2, PagingConstants DEF FrameAt, Kernel, PagingInv, PagingTypes
      <4> QED
        BY <4>1, <4>2, UsesMember
    <3>5. {FrameAt(u)' : u \in N} = {first_frame}
      BY <3>3
    <3> HIDE DEF N
    <3>6. \A u, v \in N : u = v
      BY DEF N
    <3>7. FramesOwned
      BY DEF PagingInv, MemoryApart
    <3> QED
      BY <2>1, <2>2, <3>2, <3>3, <3>4, <3>5, <3>6, <3>7, FramesGrow
  <2> QED
    BY <2>3, <2>5, <2>6 DEF PagingInv, MemoryApart
<1> QED
  BY <1>3, <1>4

\* No use is of frame 0.
LEMMA UsesNotZero ==
    ASSUME PagingInv
    PROVE  \A u \in Uses : FrameAt(u) # 0
<1> SUFFICES ASSUME NEW u \in Uses PROVE FrameAt(u) # 0
  OBVIOUS
<1>1. CASE \E q \in Pages : kpage[q] # 0 /\ u = <<Kernel, q>>
  BY <1>1 DEF FrameAt
<1>2. CASE \E d \in alive : \E q \in OwnPages(d) : u = <<d, q>>
  BY <1>2, PagingConstants DEF FrameAt, Kernel, OwnPages, PagingInv, PagingTypes
<1> QED
  BY <1>1, <1>2, UsesMember

\* A page of a program has a frame that is marked and that no other page has.
LEMMA UsedIsMarked ==
    ASSUME PagingInv, NEW d \in alive, NEW p \in OwnPages(d)
    PROVE  /\ upage[d][p] \in framemap /\ upage[d][p] # 0
           /\ \A e \in alive : \A q \in OwnPages(e) : upage[e][q] = upage[d][p] => e = d /\ q = p
<1>1. ASSUME NEW e \in alive, NEW q \in OwnPages(e)
      PROVE  <<e, q>> \in Uses /\ FrameAt(<<e, q>>) = upage[e][q]
  BY UsesMember, PagingConstants DEF FrameAt, Kernel, PagingInv, PagingTypes
<1>2. upage[d][p] \in framemap
  BY <1>1 DEF PagingInv, MemoryApart, FramesOwned
<1>3. ASSUME NEW e \in alive, NEW q \in OwnPages(e), upage[e][q] = upage[d][p]
      PROVE  e = d /\ q = p
  <2>0. /\ <<e, q>> \in Uses /\ FrameAt(<<e, q>>) = upage[e][q]
        /\ <<d, p>> \in Uses /\ FrameAt(<<d, p>>) = upage[d][p]
    BY <1>1
  <2>1. <<e, q>> = <<d, p>>
    BY <1>3, <2>0, Zenon DEF PagingInv, MemoryApart, FramesOwned
  <2> QED
    BY <2>1
<1> QED
  BY <1>2, <1>3 DEF OwnPages

\* A page of the heap is given back
LEMMA KernelFreeKeeps ==
    ASSUME PagingInv, NEW p \in HeapPageRange[1] + 1 .. HeapTop, KernelFree(p)
    PROVE  PagingInv'
<1>1. p \in Pages /\ p > PreHeap /\ p \in Nat
  <2>1. p \in 0 .. HeapTop /\ p > PreHeap
    BY PagingConstants
  <2> QED
    BY <2>1, PagingConstants
<1>2. /\ UNCHANGED <<alive, tab, upage, content, seen>>
      /\ kpage' = [kpage EXCEPT ![p] = 0] /\ framemap' = framemap \ ({kpage[p]} \ {0})
  BY DEF KernelFree
<1>3. PagingTypes' /\ ProgramTables'
  BY <1>2 DEF PagingInv, PagingTypes, ProgramTables
<1>4. \A d : OwnPages(d)' = OwnPages(d)
  BY <1>2 DEF OwnPages
<1>5. SpacesApart' /\ KernelStays'
  BY <1>1, <1>2, <1>4, PagingConstants
     DEF SpacesApart, KernelStays, PagingInv, PagingTypes, MemoryApart
<1>6. FramesOwned'
  <2> DEFINE O == IF kpage[p] = 0 THEN {} ELSE {<<Kernel, p>>}
  <2>1. kpage'[p] = 0 /\ \A q \in Pages : q # p => kpage'[q] = kpage[q]
    BY <1>1, <1>2 DEF PagingInv, PagingTypes
  <2>2. O \in SUBSET Uses
    BY <1>1, UsesMember
  <2>3. Uses' = Uses \ O
    <3>1. \A u : u \in Uses' <=> \/ \E q \in Pages : kpage'[q] # 0 /\ u = <<Kernel, q>>
                                 \/ \E d \in alive : \E q \in OwnPages(d) : u = <<d, q>>
      BY <1>2, <1>4 DEF Uses
    <3>2. \A d \in alive : d # Kernel
      BY PagingConstants DEF PagingInv, PagingTypes, Kernel
    <3>3. \A u : u \in Uses' <=> u \in Uses /\ u \notin O
      BY <1>1, <2>1, <3>1, <3>2, UsesMember
    <3> QED
      BY <3>3
  <2>4. \A u \in Uses \ O : FrameAt(u)' = FrameAt(u)
    <3> SUFFICES ASSUME NEW u \in Uses \ O PROVE FrameAt(u)' = FrameAt(u)
      OBVIOUS
    <3>1. CASE \E q \in Pages : kpage[q] # 0 /\ u = <<Kernel, q>>
      BY <2>1, <3>1 DEF FrameAt
    <3>2. CASE \E d \in alive : \E q \in OwnPages(d) : u = <<d, q>>
      BY <1>2, <3>2, PagingConstants DEF FrameAt, Kernel, PagingInv, PagingTypes
    <3> QED
      BY <3>1, <3>2, UsesMember
  <2>5. {FrameAt(u) : u \in O} = {kpage[p]} \ {0}
    <3>1. FrameAt(<<Kernel, p>>) = kpage[p]
      BY DEF FrameAt
    <3>2. CASE kpage[p] = 0
      BY <3>2
    <3>3. CASE kpage[p] # 0
      BY <3>1, <3>3
    <3> QED
      BY <3>2, <3>3
  <2> HIDE DEF O
  <2>6. FramesOwned
    BY DEF PagingInv, MemoryApart
  <2> QED
    BY <1>2, <2>2, <2>3, <2>4, <2>5, <2>6, UsesNotZero, FramesShrink
<1> QED
  BY <1>3, <1>5, <1>6 DEF PagingInv, MemoryApart

\* A program gets a page.
LEMMA MakePageKeeps ==
    ASSUME PagingInv, NEW d \in alive, NEW p \in UserPages, NEW c \in Contents, make_page(d, p, c)
    PROVE  PagingInv'
<1>1. /\ d \in Dirs /\ d # Kernel /\ TabOf(p) \in Tabs /\ \A q \in UserPages : TabOf(q) \in Tabs
      /\ \A q \in Setup : TabOf(q) \in Tabs
  BY PagingConstants, TabOfType DEF PagingInv, PagingTypes, Kernel
<1>2. /\ tab' = [tab EXCEPT ![d][TabOf(p)] = IF @ = "none" THEN "own" ELSE @]
      /\ UNCHANGED <<kpage, alive>>
  BY DEF make_page
<1>3. /\ \A e \in Dirs, t \in Tabs : e # d \/ t # TabOf(p) \/ tab[d][TabOf(p)] # "none" => tab'[e][t] = tab[e][t]
      /\ tab[d][TabOf(p)] = "none" => tab'[d][TabOf(p)] = "own"
      /\ tab' \in [Dirs -> [Tabs -> {"kernel", "own", "none"}]]
  BY <1>1, <1>2 DEF PagingInv, PagingTypes
<1>4. KernelStays'
  <2>1. \A e \in alive, q \in Setup : tab'[e][TabOf(q)] = "kernel"
    BY <1>1, <1>3 DEF PagingInv, PagingTypes, MemoryApart, KernelStays
  <2> QED
    BY <1>2, <2>1 DEF PagingInv, MemoryApart, KernelStays
<1>5. CASE upage[d][p] # 0
  <2>1. UNCHANGED <<upage, framemap, content, seen>>
    BY <1>5 DEF make_page
  <2>2. tab' = tab
    <3>1. tab[d][TabOf(p)] = "own"
      BY <1>5 DEF PagingInv, ProgramTables
    <3> QED
      BY <1>1, <1>2, <3>1 DEF PagingInv, PagingTypes
  <2> QED
    BY <1>2, <2>1, <2>2, PagingSame
<1>6. CASE upage[d][p] = 0
  <2>1. /\ first_frame \in Frames /\ first_frame \notin framemap /\ first_frame # 0
    BY FirstFrame DEF make_page, PagingInv, MemoryApart
  <2>2. /\ upage' = [upage EXCEPT ![d][p] = first_frame]
        /\ framemap' = framemap \cup {first_frame}
        /\ content' = [content EXCEPT ![first_frame] = c]
        /\ seen' = [seen EXCEPT ![d][p] = c]
    BY <1>6 DEF make_page
  <2>3. /\ upage'[d][p] = first_frame
        /\ \A e \in Dirs, q \in UserPages : e # d \/ q # p => upage'[e][q] = upage[e][q]
        /\ upage' \in [Dirs -> [UserPages -> Frames]]
    BY <1>1, <2>1, <2>2 DEF PagingInv, PagingTypes
  <2>4. /\ seen'[d][p] = c
        /\ \A e \in Dirs, q \in UserPages : e # d \/ q # p => seen'[e][q] = seen[e][q]
        /\ seen' \in [Dirs -> [UserPages -> Contents]]
    BY <1>1, <2>2 DEF PagingInv, PagingTypes
  <2>5. /\ content'[first_frame] = c /\ \A f \in Frames : f # first_frame => content'[f] = content[f]
        /\ content' \in [Frames -> Contents]
    BY <2>1, <2>2 DEF PagingInv, PagingTypes
  <2>6. PagingTypes'
    BY <1>2, <1>3, <2>3, <2>4, <2>5 DEF PagingInv, PagingTypes
  <2>7. ProgramTables'
    <3> SUFFICES ASSUME NEW e \in alive, NEW q \in UserPages
                 PROVE  tab'[e][TabOf(q)] # "kernel" /\ (upage'[e][q] # 0 => tab'[e][TabOf(q)] = "own")
      BY <1>2 DEF ProgramTables
    <3>1. e \in Dirs /\ TabOf(q) \in Tabs /\ tab[e][TabOf(q)] \in {"kernel", "own", "none"}
      BY <1>1 DEF PagingInv, PagingTypes
    <3>2. /\ tab[e][TabOf(q)] # "kernel" /\ (upage[e][q] # 0 => tab[e][TabOf(q)] = "own")
          /\ tab[d][TabOf(p)] \in {"own", "none"}
      BY <1>1 DEF PagingInv, ProgramTables, PagingTypes
    <3>3. tab'[e][TabOf(q)] = tab[e][TabOf(q)] \/ tab'[e][TabOf(q)] = "own"
      BY <1>1, <1>3, <3>1
    <3>4. tab'[d][TabOf(p)] = "own"
      BY <1>1, <1>3, <3>2
    <3> QED
      BY <2>3, <3>1, <3>2, <3>3, <3>4
  <2>8. /\ \A e \in alive \ {d} : OwnPages(e)' = OwnPages(e)
        /\ OwnPages(d)' = OwnPages(d) \cup {p}
    <3>1. \A e \in alive, q \in UserPages :
            q \in OwnPages(e)' <=> upage'[e][q] # 0
      BY <1>2, <2>7 DEF ProgramTables, OwnPages
    <3>2. \A e \in alive, q \in UserPages :
            q \in OwnPages(e) <=> upage[e][q] # 0
      BY DEF PagingInv, ProgramTables, OwnPages
    <3>3. \A e : OwnPages(e) \subseteq UserPages /\ OwnPages(e)' \subseteq UserPages
      BY DEF OwnPages
    <3>4. alive \subseteq Dirs
      BY DEF PagingInv, PagingTypes
    <3>5. ASSUME NEW e \in alive, e # d PROVE OwnPages(e)' = OwnPages(e)
      <4>1. \A q \in UserPages : q \in OwnPages(e)' <=> q \in OwnPages(e)
        BY <2>3, <3>1, <3>2, <3>4, <3>5
      <4> QED
        BY <3>3, <4>1
    <3>6. OwnPages(d)' = OwnPages(d) \cup {p}
      <4>1. \A q \in UserPages : q \in OwnPages(d)' <=> q \in OwnPages(d) \/ q = p
        BY <2>1, <2>3, <3>1, <3>2, <3>4
      <4> QED
        BY <3>3, <4>1
    <3> QED
      BY <3>5, <3>6
  <2>9. SpacesApart'
    <3> SUFFICES ASSUME NEW e \in alive, NEW q \in OwnPages(e)'
                 PROVE  content'[upage'[e][q]] = seen'[e][q]
      BY <1>2 DEF SpacesApart
    <3>1. e \in Dirs /\ q \in UserPages
      BY DEF OwnPages, PagingInv, PagingTypes
    <3>2. CASE e = d /\ q = p
      BY <2>3, <2>4, <2>5, <3>2
    <3>3. CASE e # d \/ q # p
      <4>1. q \in OwnPages(e)
        BY <2>8, <3>3
      <4>2. upage[e][q] \in framemap /\ upage[e][q] \in Frames
        BY <3>1, <4>1, UsedIsMarked DEF PagingInv, PagingTypes
      <4>3. content[upage[e][q]] = seen[e][q]
        BY <4>1 DEF PagingInv, MemoryApart, SpacesApart
      <4> QED
        BY <2>1, <2>3, <2>4, <2>5, <3>1, <3>3, <4>2, <4>3
    <3> QED
      BY <3>2, <3>3
  <2>10. FramesOwned'
    <3> DEFINE N == {<<d, p>>}
    <3>1. Uses' = Uses \cup N
      <4>1. \A u : u \in Uses' <=> \/ \E q \in Pages : kpage[q] # 0 /\ u = <<Kernel, q>>
                                   \/ \E e \in alive : \E q \in OwnPages(e)' : u = <<e, q>>
        BY <1>2 DEF Uses
      <4>2. \A u : u \in Uses' <=> u \in Uses \/ u \in N
        BY <2>8, <4>1, UsesMember
      <4> QED
        BY <4>2
    <3>2. \A u \in N : FrameAt(u)' = first_frame
      BY <1>1, <2>3 DEF FrameAt
    <3>3. \A u \in Uses : FrameAt(u)' = FrameAt(u)
      <4> SUFFICES ASSUME NEW u \in Uses PROVE FrameAt(u)' = FrameAt(u)
        OBVIOUS
      <4>1. CASE \E q \in Pages : kpage[q] # 0 /\ u = <<Kernel, q>>
        BY <1>2, <4>1 DEF FrameAt
      <4>2. CASE \E e \in alive : \E q \in OwnPages(e) : u = <<e, q>>
        <5>0. PICK e \in alive : \E q \in OwnPages(e) : u = <<e, q>>
          BY <4>2
        <5>1. PICK q \in OwnPages(e) : u = <<e, q>>
          BY <5>0
        <5>2. e \in Dirs /\ e # Kernel /\ q \in UserPages /\ upage[e][q] # 0
          BY PagingConstants DEF OwnPages, PagingInv, PagingTypes, Kernel
        <5>3. upage'[e][q] = upage[e][q]
          BY <1>6, <2>3, <5>2
        <5> QED
          BY <5>1, <5>2, <5>3 DEF FrameAt
      <4> QED
        BY <4>1, <4>2, UsesMember
    <3>4. {FrameAt(u)' : u \in N} = {first_frame}
      BY <3>2
    <3> HIDE DEF N
    <3>5. \A u, v \in N : u = v
      BY DEF N
    <3>6. FramesOwned
      BY DEF PagingInv, MemoryApart
    <3> QED
      BY <2>1, <2>2, <3>1, <3>2, <3>3, <3>4, <3>5, <3>6, FramesGrow
  <2> QED
    BY <1>4, <2>6, <2>7, <2>9, <2>10 DEF PagingInv, MemoryApart
<1> QED
  BY <1>5, <1>6

\* A program writes: nobody else has the frame.
LEMMA WriteKeeps ==
    ASSUME PagingInv, NEW d \in alive, NEW p \in UserPages, NEW c \in Contents, Write(d, p, c)
    PROVE  PagingInv'
<1>1. /\ upage[d][p] # 0 /\ content' = [content EXCEPT ![upage[d][p]] = c]
      /\ seen' = [seen EXCEPT ![d][p] = c] /\ UNCHANGED <<framemap, kpage, alive, tab, upage>>
  BY DEF Write
<1>2. d \in Dirs /\ upage[d][p] \in Frames /\ p \in OwnPages(d)
  BY <1>1 DEF PagingInv, PagingTypes, ProgramTables, OwnPages
<1>3. \A e : OwnPages(e)' = OwnPages(e)
  BY <1>1 DEF OwnPages
<1>4. Uses' = Uses /\ \A u : FrameAt(u)' = FrameAt(u)
  BY <1>1, <1>3 DEF Uses, FrameAt
<1>5. FramesOwned'
  BY <1>1, <1>4 DEF PagingInv, MemoryApart, FramesOwned
<1>6. KernelStays' /\ ProgramTables'
  BY <1>1 DEF PagingInv, MemoryApart, KernelStays, ProgramTables
<1>7. /\ seen'[d][p] = c
      /\ \A e \in Dirs, q \in UserPages : e # d \/ q # p => seen'[e][q] = seen[e][q]
      /\ seen' \in [Dirs -> [UserPages -> Contents]]
  BY <1>1, <1>2 DEF PagingInv, PagingTypes
<1>8. /\ content'[upage[d][p]] = c
      /\ \A f \in Frames : f # upage[d][p] => content'[f] = content[f]
      /\ content' \in [Frames -> Contents]
  BY <1>1, <1>2 DEF PagingInv, PagingTypes
<1>9. PagingTypes'
  BY <1>1, <1>7, <1>8 DEF PagingInv, PagingTypes
<1>10. SpacesApart'
  <2> SUFFICES ASSUME NEW e \in alive, NEW q \in OwnPages(e)
               PROVE  content'[upage[e][q]] = seen'[e][q]
    BY <1>1, <1>3 DEF SpacesApart
  <2>1. e \in Dirs /\ q \in UserPages /\ upage[e][q] \in Frames
    BY DEF OwnPages, PagingInv, PagingTypes
  <2>2. content[upage[e][q]] = seen[e][q]
    BY DEF PagingInv, MemoryApart, SpacesApart
  <2>3. upage[e][q] = upage[d][p] => e = d /\ q = p
    BY <1>2, UsedIsMarked
  <2> QED
    BY <1>7, <1>8, <2>1, <2>2, <2>3
<1> QED
  BY <1>5, <1>6, <1>9, <1>10 DEF PagingInv, MemoryApart

\* exit gives all frames of a directory back.
LEMMA FreeDirectoryKeeps ==
    ASSUME PagingInv, NEW d \in alive, free_directory(d)
    PROVE  PagingInv'
<1>1. /\ framemap' = framemap \ {upage[d][p] : p \in OwnPages(d)}
      /\ alive' = alive \ {d} /\ kpage' = kpage
      /\ tab' = [tab EXCEPT ![d] = [t \in Tabs |-> "none"]]
      /\ upage' = [upage EXCEPT ![d] = [p \in UserPages |-> 0]]
      /\ content' = [f \in Frames |-> IF f \in framemap' THEN content[f] ELSE Junk]
      /\ seen' = [seen EXCEPT ![d] = [p \in UserPages |-> Junk]]
  BY DEF free_directory
<1>2. d \in Dirs /\ Junk \in Contents /\ alive \subseteq Dirs /\ 0 \in Frames
  BY PagingAssumption, PagingConstants DEF PagingInv, PagingTypes, Junk
<1>3. \A e \in alive' : tab'[e] = tab[e] /\ upage'[e] = upage[e] /\ seen'[e] = seen[e]
  BY <1>1, <1>2 DEF PagingInv, PagingTypes
<1>4. \A e \in alive' : OwnPages(e)' = OwnPages(e)
  BY <1>3 DEF OwnPages
<1>5. PagingTypes'
  <2>1. tab' \in [Dirs -> [Tabs -> {"kernel", "own", "none"}]]
    BY <1>1, <1>2 DEF PagingInv, PagingTypes
  <2>2. upage' \in [Dirs -> [UserPages -> Frames]]
    BY <1>1, <1>2 DEF PagingInv, PagingTypes
  <2>3. seen' \in [Dirs -> [UserPages -> Contents]]
    BY <1>1, <1>2 DEF PagingInv, PagingTypes
  <2>4. content' \in [Frames -> Contents]
    BY <1>1, <1>2 DEF PagingInv, PagingTypes
  <2> QED
    BY <1>1, <2>1, <2>2, <2>3, <2>4 DEF PagingInv, PagingTypes
<1>6. ProgramTables' /\ KernelStays'
  BY <1>1, <1>3 DEF PagingInv, ProgramTables, MemoryApart, KernelStays
<1>7. FramesOwned'
  <2> DEFINE O == {<<d, p>> : p \in OwnPages(d)}
  <2>1. \A e \in alive : e # Kernel
    BY PagingConstants DEF PagingInv, PagingTypes, Kernel
  <2>2. O \in SUBSET Uses
    BY UsesMember
  <2>3. Uses' = Uses \ O
    <3>1. \A u : u \in Uses' <=> \/ \E q \in Pages : kpage[q] # 0 /\ u = <<Kernel, q>>
                                 \/ \E e \in alive' : \E q \in OwnPages(e) : u = <<e, q>>
      BY <1>1, <1>4 DEF Uses
    <3>2. \A u : u \in Uses' <=> u \in Uses /\ u \notin O
      BY <1>1, <2>1, <3>1, UsesMember
    <3> QED
      BY <3>2
  <2>4. \A u \in Uses \ O : FrameAt(u)' = FrameAt(u)
    <3> SUFFICES ASSUME NEW u \in Uses \ O PROVE FrameAt(u)' = FrameAt(u)
      OBVIOUS
    <3>1. CASE \E q \in Pages : kpage[q] # 0 /\ u = <<Kernel, q>>
      BY <1>1, <3>1 DEF FrameAt
    <3>2. CASE \E e \in alive : \E q \in OwnPages(e) : u = <<e, q>>
      <4>1. PICK e \in alive : \E q \in OwnPages(e) : u = <<e, q>>
        BY <3>2
      <4>2. e \in alive'
        BY <1>1, <4>1
      <4> QED
        BY <1>3, <2>1, <4>1, <4>2 DEF FrameAt
    <3> QED
      BY <3>1, <3>2, UsesMember
  <2>5. {FrameAt(u) : u \in O} = {upage[d][p] : p \in OwnPages(d)}
    <3>1. \A p \in OwnPages(d) : FrameAt(<<d, p>>) = upage[d][p]
      BY <2>1 DEF FrameAt
    <3> QED
      BY <3>1
  <2> HIDE DEF O
  <2>6. FramesOwned
    BY DEF PagingInv, MemoryApart
  <2> QED
    BY <1>1, <2>2, <2>3, <2>4, <2>5, <2>6, UsesNotZero, FramesShrink
<1>8. SpacesApart'
  <2> SUFFICES ASSUME NEW e \in alive', NEW q \in OwnPages(e)
               PROVE  content'[upage[e][q]] = seen[e][q]
    BY <1>3, <1>4 DEF SpacesApart
  <2>1. e \in alive /\ e # d /\ upage[e][q] \in Frames
    BY <1>1 DEF OwnPages, PagingInv, PagingTypes
  <2>2. upage[e][q] \in framemap /\ \A p \in OwnPages(d) : upage[d][p] # upage[e][q]
    BY <2>1, UsedIsMarked
  <2>3. upage[e][q] \in framemap'
    BY <1>1, <2>2
  <2> QED
    BY <1>1, <2>1, <2>3 DEF PagingInv, MemoryApart, SpacesApart
<1> QED
  BY <1>5, <1>6, <1>7, <1>8 DEF PagingInv, MemoryApart

\* fork copies every page of a program into a frame of its own.
LEMMA CloneDirectoryKeeps ==
    ASSUME PagingInv, NEW d \in alive, NEW e \in Dirs \ alive, clone_directory(d, e)
    PROVE  PagingInv'
<1> DEFINE G(p) == granted(d, p)
<1>1. /\ Cardinality(OwnPages(d)) <= Cardinality(Free)
      /\ tab' = [tab EXCEPT ![e] = tab[d]]
      /\ upage' = [upage EXCEPT ![e] = [p \in UserPages |-> IF p \in OwnPages(d) THEN G(p) ELSE 0]]
      /\ framemap' = framemap \cup {G(p) : p \in OwnPages(d)}
      /\ content' = [f \in Frames |-> IF \E p \in OwnPages(d) : G(p) = f
                                      THEN content[upage[d][CHOOSE p \in OwnPages(d) : G(p) = f]]
                                      ELSE content[f]]
      /\ alive' = alive \cup {e} /\ seen' = [seen EXCEPT ![e] = seen[d]] /\ kpage' = kpage
  BY DEF clone_directory
<1>2. d \in Dirs /\ d # e /\ alive \subseteq Dirs /\ 0 \in Frames /\ \A x \in alive' : x # Kernel
  BY <1>1, PagingConstants DEF PagingInv, PagingTypes, Kernel
<1>3. /\ \A p \in OwnPages(d) : G(p) \in Frames /\ G(p) \notin framemap /\ G(p) # 0
      /\ \A p, q \in OwnPages(d) : G(p) = G(q) => p = q
  <2> DEFINE S == OwnPages(d)
             A(p) == After(S, p)
  <2>1. S \in SUBSET (0 .. NrTabs * TabSize - 1) /\ NrTabs * TabSize - 1 \in Nat
    <3>1. S \subseteq Pages
      BY PagingConstants DEF OwnPages
    <3>2. NrTabs * TabSize \in Nat /\ NrTabs * TabSize # 0
      BY PagingAssumption
    <3> QED
      BY <3>1, <3>2 DEF Pages
  <2>2. \A p, q \in S : /\ A(p) = A(q) => p = q
                        /\ A(p) \in Nat /\ A(p) < Cardinality(S)
    <3>1. PICK n \in Nat : S \in SUBSET (0 .. n)
      BY <2>1
    <3> HIDE DEF S
    <3>2. ASSUME NEW p \in S, NEW q \in S
          PROVE  (A(p) = A(q) => p = q) /\ A(p) \in Nat /\ A(p) < Cardinality(S)
      BY <3>1, RankInjective
    <3> QED
      BY <3>2
  <2>3. Cardinality(S) \in Nat /\ Cardinality(Free) \in Nat
    <3>1. NrFrames - 1 \in Nat /\ Free \in SUBSET (0 .. NrFrames - 1)
      BY PagingConstants DEF Free, Frames
    <3> HIDE DEF S
    <3> QED
      BY <2>1, <3>1, BoundedFinite
  <2>4. \A p \in S : A(p) \in Nat /\ A(p) < Cardinality(Free)
    <3> HIDE DEF S, A
    <3> QED
      BY <1>1, <2>2, <2>3 DEF S
  <2>5. \A p \in S : G(p) = alloc_frame(A(p))
    BY DEF granted
  <2>6. FramesOwned
    BY DEF PagingInv, MemoryApart
  <2> HIDE DEF S, A, G
  <2>7. \A p \in S : /\ G(p) \in Frames /\ G(p) \notin framemap /\ G(p) # 0
                     /\ Before(Free, G(p)) = A(p)
    BY <2>4, <2>5, <2>6, AllocFrame
  <2>8. \A p, q \in S : G(p) = G(q) => p = q
    BY <2>2, <2>7
  <2> QED
    BY <2>7, <2>8 DEF S
<1> HIDE DEF G
<1>4. /\ \A x \in alive : tab'[x] = tab[x] /\ upage'[x] = upage[x] /\ seen'[x] = seen[x]
      /\ tab'[e] = tab[d] /\ seen'[e] = seen[d]
      /\ \A p \in UserPages : upage'[e][p] = IF p \in OwnPages(d) THEN G(p) ELSE 0
  BY <1>1, <1>2 DEF PagingInv, PagingTypes
<1>5. (\A x \in alive : OwnPages(x)' = OwnPages(x)) /\ OwnPages(e)' = OwnPages(d)
  <2>1. \A x \in alive : OwnPages(x)' = OwnPages(x)
    BY <1>4 DEF OwnPages
  <2>2. \A p \in UserPages : p \in OwnPages(e)' <=> p \in OwnPages(d)
    BY <1>3, <1>4 DEF OwnPages
  <2>3. OwnPages(e)' \subseteq UserPages /\ OwnPages(d) \subseteq UserPages
    BY DEF OwnPages
  <2> QED
    BY <2>1, <2>2, <2>3
<1>6. /\ \A p \in OwnPages(d) : content'[G(p)] = content[upage[d][p]]
      /\ \A f \in framemap \cap Frames : content'[f] = content[f]
      /\ content' \in [Frames -> Contents]
  <2>1. \A p \in OwnPages(d) : (CHOOSE q \in OwnPages(d) : G(q) = G(p)) = p
    BY <1>3
  <2>2. \A p \in OwnPages(d) : upage[d][p] \in Frames
    BY <1>2 DEF OwnPages, PagingInv, PagingTypes
  <2>3. \A f \in framemap : ~ \E p \in OwnPages(d) : G(p) = f
    BY <1>3
  <2>4. ASSUME NEW p \in OwnPages(d) PROVE content'[G(p)] = content[upage[d][p]]
    BY <1>1, <1>3, <2>1
  <2>5. ASSUME NEW f \in Frames PROVE content'[f] \in Contents
    <3>1. CASE \E p \in OwnPages(d) : G(p) = f
      <4>1. PICK p \in OwnPages(d) : G(p) = f
        BY <3>1
      <4>2. content'[f] = content[upage[d][p]]
        BY <2>4, <4>1
      <4> QED
        BY <2>2, <4>2 DEF PagingInv, PagingTypes
    <3>2. CASE ~ \E p \in OwnPages(d) : G(p) = f
      BY <1>1, <3>2 DEF PagingInv, PagingTypes
    <3> QED
      BY <3>1, <3>2
  <2>6. \A f \in framemap \cap Frames : content'[f] = content[f]
    BY <1>1, <2>3
  <2> QED
    BY <1>1, <2>4, <2>5, <2>6
<1>7. PagingTypes'
  <2>1. tab' \in [Dirs -> [Tabs -> {"kernel", "own", "none"}]]
    BY <1>1, <1>2 DEF PagingInv, PagingTypes
  <2>2. upage' \in [Dirs -> [UserPages -> Frames]]
    BY <1>1, <1>2, <1>3 DEF PagingInv, PagingTypes
  <2>3. seen' \in [Dirs -> [UserPages -> Contents]]
    BY <1>1, <1>2 DEF PagingInv, PagingTypes
  <2> QED
    BY <1>1, <1>6, <2>1, <2>2, <2>3 DEF PagingInv, PagingTypes
<1>8. ProgramTables' /\ KernelStays'
  <2>1. ProgramTables'
    BY <1>1, <1>4 DEF PagingInv, ProgramTables, OwnPages
  <2>2. KernelStays'
    BY <1>1, <1>4 DEF PagingInv, MemoryApart, KernelStays
  <2> QED
    BY <2>1, <2>2
<1>9. SpacesApart'
  <2> SUFFICES ASSUME NEW x \in alive', NEW q \in OwnPages(x)'
               PROVE  content'[upage'[x][q]] = seen'[x][q]
    BY DEF SpacesApart
  <2>1. CASE x = e
    <3>1. q \in OwnPages(d) /\ q \in UserPages
      BY <1>5, <2>1 DEF OwnPages
    <3>2. content[upage[d][q]] = seen[d][q]
      BY <3>1 DEF PagingInv, MemoryApart, SpacesApart
    <3> QED
      BY <1>4, <1>6, <2>1, <3>1, <3>2
  <2>2. CASE x # e
    <3>1. x \in alive /\ q \in OwnPages(x)
      BY <1>1, <1>5, <2>2
    <3>2. upage[x][q] \in framemap /\ upage[x][q] \in Frames
      BY <1>2, <3>1, UsedIsMarked DEF OwnPages, PagingInv, PagingTypes
    <3> QED
      BY <1>4, <1>6, <3>1, <3>2 DEF PagingInv, MemoryApart, SpacesApart
  <2> QED
    BY <2>1, <2>2
<1>10. FramesOwned'
  <2> DEFINE N == {<<e, p>> : p \in OwnPages(d)}
  <2>1. Uses' = Uses \cup N
    <3>1. \A u : u \in Uses' <=> \/ \E q \in Pages : kpage[q] # 0 /\ u = <<Kernel, q>>
                                 \/ \E x \in alive' : \E q \in OwnPages(x)' : u = <<x, q>>
      BY <1>1 DEF Uses
    <3>2. \A u : u \in Uses' <=> u \in Uses \/ u \in N
      BY <1>1, <1>5, <3>1, UsesMember
    <3> QED
      BY <3>2
  <2>2. \A p \in OwnPages(d) : FrameAt(<<e, p>>)' = G(p)
    <3>1. OwnPages(d) \subseteq UserPages /\ e # Kernel
      BY <1>1, <1>2 DEF OwnPages
    <3> QED
      BY <1>4, <3>1 DEF FrameAt
  <2>3. \A u \in Uses : FrameAt(u)' = FrameAt(u)
    <3> SUFFICES ASSUME NEW u \in Uses PROVE FrameAt(u)' = FrameAt(u)
      OBVIOUS
    <3>1. CASE \E q \in Pages : kpage[q] # 0 /\ u = <<Kernel, q>>
      BY <1>1, <3>1 DEF FrameAt
    <3>2. CASE \E x \in alive : \E q \in OwnPages(x) : u = <<x, q>>
      BY <1>1, <1>2, <1>4, <3>2 DEF FrameAt
    <3> QED
      BY <3>1, <3>2, UsesMember
  <2>4. {FrameAt(u)' : u \in N} = {G(p) : p \in OwnPages(d)}
    BY <2>2
  <2>5. \A u \in N : FrameAt(u)' \notin framemap
    BY <1>3, <2>2
  <2>6. \A u, v \in N : FrameAt(u)' = FrameAt(v)' => u = v
    BY <1>3, <2>2
  <2>7. FramesOwned
    BY DEF PagingInv, MemoryApart
  <2> HIDE DEF N
  <2> QED
    BY <1>1, <2>1, <2>3, <2>4, <2>5, <2>6, <2>7, FramesGrow
<1> QED
  BY <1>7, <1>8, <1>9, <1>10 DEF PagingInv, MemoryApart

\* setup_paging.
LEMMA PagingInitInv == PagingInit => PagingInv
<1> SUFFICES ASSUME PagingInit PROVE PagingInv
  OBVIOUS
<1> DEFINE R(p) == Before(Setup, p)
<1>1. /\ framemap = 0 .. Cardinality(Setup) - 1
      /\ kpage = [p \in Pages |-> IF p \in Setup THEN R(p) ELSE 0]
      /\ ktab = {TabOf(p) : p \in Setup}
      /\ alive = {Min(Dirs)}
      /\ tab = [d \in Dirs |-> [t \in Tabs |-> IF d \in alive /\ t \in ktab THEN "kernel" ELSE "none"]]
      /\ upage = [d \in Dirs |-> [p \in UserPages |-> 0]]
      /\ content = [f \in Frames |-> Junk]
      /\ seen = [d \in Dirs |-> [p \in UserPages |-> Junk]]
  BY DEF PagingInit, setup_paging
<1>2. /\ HeapTop \in Nat /\ Setup \in SUBSET (0 .. HeapTop) /\ Setup \subseteq Pages
      /\ 0 \in Frames /\ Junk \in Contents /\ 0 .. PreHeap \subseteq Setup /\ PreHeap \in Nat
      /\ Cardinality(Setup) \in Nat
  <2>1. HeapTop \in Nat /\ Setup \in SUBSET (0 .. HeapTop)
    BY PagingConstants
  <2>2. Junk \in Contents
    BY PagingAssumption DEF Junk
  <2>3. Setup \in SUBSET Setup
    OBVIOUS
  <2> QED
    BY <2>1, <2>2, <2>3, BoundedFinite, PagingConstants
<1>3. /\ \A p \in Setup : R(p) \in 0 .. Cardinality(Setup) - 1
      /\ \A p, q \in Setup : R(p) = R(q) => p = q
      /\ \A k \in 0 .. Cardinality(Setup) - 1 : \E p \in Setup : R(p) = k
  <2>1. ASSUME NEW p \in Setup, NEW q \in Setup
        PROVE  (R(p) = R(q) => p = q) /\ R(p) \in Nat /\ R(p) < Cardinality(Setup)
    BY <1>2, RankInjective
  <2>2. ASSUME NEW k \in 0 .. Cardinality(Setup) - 1 PROVE \E p \in Setup : R(p) = k
    <3>1. k \in Nat /\ k < Cardinality(Setup)
      BY <1>2
    <3> QED
      BY <1>2, <3>1, RankExists
  <2> HIDE DEF R
  <2> QED
    BY <1>2, <2>1, <2>2
<1>4. \A p \in 0 .. PreHeap : R(p) = p
  <2> SUFFICES ASSUME NEW p \in 0 .. PreHeap PROVE R(p) = p
    OBVIOUS
  <2>1. {q \in Setup : q < p} = 0 .. p - 1
    <3>1. \A q \in Setup : q \in Nat
      BY <1>2
    <3>2. \A q \in 0 .. p - 1 : q \in Setup /\ q < p
      BY <1>2
    <3>3. \A q \in Setup : q < p => q \in 0 .. p - 1
      BY <1>2, <3>1
    <3> QED
      BY <3>2, <3>3
  <2>2. Cardinality(0 .. p - 1) = IF 0 > p - 1 THEN 0 ELSE p - 1 - 0 + 1
    BY <1>2, FS_Interval
  <2>3. Cardinality(0 .. p - 1) = p
    BY <1>2, <2>2
  <2> QED
    BY <2>1, <2>3 DEF Before
<1> HIDE DEF R
<1>5. Min(Dirs) \in Dirs
  <2>1. Dirs \in SUBSET Nat /\ Dirs # {}
    BY PagingAssumption
  <2>2. \E x \in Dirs : \A y \in Dirs : x <= y
    BY <2>1, LeastNat
  <2> QED
    BY <2>2 DEF Min
<1>6. PagingTypes
  <2>1. kpage \in [Pages -> Nat]
    BY <1>1, <1>2, <1>3
  <2> QED
    BY <1>1, <1>2, <1>5, <2>1 DEF PagingTypes
<1>7. \A d \in alive : OwnPages(d) = {}
  BY <1>1, <1>5 DEF OwnPages
<1>8. ProgramTables
  <2>1. ASSUME NEW p \in UserPages PROVE TabOf(p) \notin ktab /\ TabOf(p) \in Tabs
    BY <1>1, <1>2, PagingAssumption, PagingConstants, TabOfType
  <2> QED
    BY <1>1, <1>5, <2>1 DEF ProgramTables
<1>9. SpacesApart
  BY <1>7 DEF SpacesApart
<1>10. KernelStays
  <2>1. ASSUME NEW p \in Setup PROVE TabOf(p) \in ktab /\ TabOf(p) \in Tabs
    BY <1>1, <1>2, TabOfType
  <2>2. \A p \in 0 .. PreHeap : kpage[p] = p
    BY <1>1, <1>2, <1>4
  <2> QED
    BY <1>1, <1>5, <2>1, <2>2 DEF KernelStays
<1>11. FramesOwned
  <2>1. \A u : u \in Uses <=> \E p \in Pages : kpage[p] # 0 /\ u = <<Kernel, p>>
    BY <1>7, UsesMember
  <2>2. \A p : FrameAt(<<Kernel, p>>) = kpage[p]
    BY DEF FrameAt
  <2>3. \A p \in Pages : kpage[p] # 0 => p \in Setup /\ kpage[p] = R(p)
    BY <1>1
  <2>4. \A u, v \in Uses : FrameAt(u) = FrameAt(v) => u = v
    BY <1>3, <2>1, <2>2, <2>3
  <2>5. \A f \in framemap : f # 0 => \E u \in Uses : FrameAt(u) = f
    <3> SUFFICES ASSUME NEW f \in framemap, f # 0 PROVE \E u \in Uses : FrameAt(u) = f
      OBVIOUS
    <3>1. PICK p \in Setup : R(p) = f
      BY <1>1, <1>3
    <3>2. p \in Pages /\ kpage[p] = f
      BY <1>1, <1>2, <3>1
    <3> QED
      BY <2>1, <2>2, <3>2
  <2>6. \A u \in Uses : FrameAt(u) \in framemap
    <3> SUFFICES ASSUME NEW u \in Uses PROVE FrameAt(u) \in framemap
      OBVIOUS
    <3>1. PICK p \in Pages : kpage[p] # 0 /\ u = <<Kernel, p>>
      BY <2>1
    <3>2. FrameAt(u) = R(p) /\ p \in Setup
      BY <2>2, <2>3, <3>1
    <3> QED
      BY <1>1, <1>3, <3>2
  <2>7. 0 \in framemap
    <3>1. 0 \in Setup
      BY <1>2
    <3>2. R(0) \in 0 .. Cardinality(Setup) - 1 /\ R(0) = 0
      BY <1>2, <1>3, <1>4, <3>1
    <3> QED
      BY <1>1, <3>2
  <2>8. framemap = {0} \cup {FrameAt(u) : u \in Uses}
    BY <2>5, <2>6, <2>7
  <2> QED
    BY <2>4, <2>8 DEF FramesOwned
<1> QED
  BY <1>6, <1>8, <1>9, <1>10, <1>11 DEF PagingInv, MemoryApart

\* For memories, tables and numbers of programs of any size: whatever forks, exits,
\* writes and changes of the heap follow each other, every frame in use is marked and has
\* one page, no frame is lost, programs do not see each other's writes, and the memory
\* below the heap stays where setup_paging mapped it.
THEOREM PagingMemoryApart == PagingSpec => []MemoryApart
<1>1. PagingInv /\ [PagingNext]_pagingVars => PagingInv'
  <2> SUFFICES ASSUME PagingInv, [PagingNext]_pagingVars PROVE PagingInv'
    OBVIOUS
  <2>1. CASE UNCHANGED pagingVars
    BY <2>1, PagingSame DEF pagingVars
  <2>2. ASSUME NEW p \in HeapPageRange[2] .. HeapTop, KernelPage(p) PROVE PagingInv'
    BY <2>2, KernelPageKeeps
  <2>3. ASSUME NEW p \in HeapPageRange[1] + 1 .. HeapTop, KernelFree(p) PROVE PagingInv'
    BY <2>3, KernelFreeKeeps
  <2>4. ASSUME NEW d \in alive, NEW p \in UserPages, NEW c \in Contents, make_page(d, p, c)
        PROVE  PagingInv'
    BY <2>4, MakePageKeeps
  <2>5. ASSUME NEW d \in alive, NEW e \in Dirs \ alive, clone_directory(d, e) PROVE PagingInv'
    BY <2>5, CloneDirectoryKeeps
  <2>6. ASSUME NEW d \in alive, free_directory(d) PROVE PagingInv'
    BY <2>6, FreeDirectoryKeeps
  <2>7. ASSUME NEW d \in alive, NEW p \in UserPages, NEW c \in Contents, Write(d, p, c)
        PROVE  PagingInv'
    BY <2>7, WriteKeeps
  <2> QED
    BY <2>1, <2>2, <2>3, <2>4, <2>5, <2>6, <2>7 DEF PagingNext
<1>2. PagingInv => MemoryApart
  BY DEF PagingInv
<1> QED
  BY <1>1, <1>2, PagingInitInv, PTL DEF PagingSpec

-----------------------------------------------------------------------------
(***************************************************************************)
(* The heap                                                                *)
(***************************************************************************)
Chunk == [size : Int, flag : {"hole", "block"}, foot : Int]
Chunks == UNION {[D -> Chunk] : D \in SUBSET Int}
Heaps == [chunk : Chunks, entries : Seq(Int), end : Int, pages : SUBSET Int, old : SUBSET Int,
          trouble : {"none", "exhausted", "gap", "twice", "overlap", "beyond", "stale", "fault", "ghost"}]

Sizes(c) == [x \in DOMAIN c |-> c[x].size]

\* Chunks of sizes z cover what is between HeapStart and end, each unit once.
Tiling(z, end) ==
    /\ end \in Int /\ \A x \in DOMAIN z : x \in Int /\ z[x] \in Int
    /\ \A x \in DOMAIN z : x >= HeapStart /\ z[x] >= 2 /\ x + z[x] <= end
    /\ \A x, y \in DOMAIN z : x < y => x + z[x] <= y
    /\ \A x \in DOMAIN z : x + z[x] = end \/ x + z[x] \in DOMAIN z
    /\ \A y \in DOMAIN z \cup {end} : y = HeapStart \/ \E x \in DOMAIN z : x + z[x] = y
    /\ HeapStart \in DOMAIN z

Holes(c) == {x \in DOMAIN c : c[x].flag = "hole"}
Blocks(c) == {x \in DOMAIN c : c[x].flag = "block"}

\* The index holds the holes, each once.
Index(entries, holes) == ToSet(entries) = holes /\ IsInjective(entries)

Apart(c) == \A x, y \in Holes(c) : x + c[x].size # y

Feet(c) == \A x \in Blocks(c) : c[x].foot = x

PagesOf(h) ==
    /\ h.end % Frame = 0 /\ HeapMin <= h.end - HeapStart /\ h.end - HeapStart <= HeapLimit
    /\ PageOf(HeapStart)..PageOf(h.end) - 1 \subseteq h.pages

HeapOK(h) ==
    /\ h \in Heaps /\ h.trouble = "none"
    /\ Tiling(Sizes(h.chunk), h.end) /\ Index(h.entries, Holes(h.chunk))
    /\ Apart(h.chunk) /\ Feet(h.chunk) /\ PagesOf(h)

Served(c, ask) ==
    /\ DOMAIN ask = Blocks(c)
    /\ \A a \in DOMAIN ask : c[a].size >= ask[a].size + 2 /\ (ask[a].align => (a + 1) % Frame = 0)
                             /\ ask[a] \in [size : Nat, align : BOOLEAN]

HeapInv == Sound => HeapOK(heap) /\ Served(heap.chunk, asked)

\* The sizes of the heap, as a proof needs them.
LEMMA HeapConstants ==
    /\ Frame \in Nat /\ Frame >= 2 /\ HeapStart \in Nat /\ HeapSize \in Nat
    /\ HeapMin \in Nat /\ HeapLimit \in Nat
    /\ HeapStart % Frame = 0 /\ HeapSize % Frame = 0 /\ HeapMin % Frame = 0
    /\ 0 < HeapMin /\ HeapMin <= HeapSize /\ HeapSize <= HeapLimit
    /\ Requests \subseteq Nat \ {0}
BY HeapAssumption

\* A multiple of a frame is that many frames, and the other way round.
LEMMA Multiples ==
    ASSUME NEW a \in Int
    PROVE  /\ a \div Frame \in Int /\ a % Frame \in 0..Frame - 1
           /\ a = Frame * (a \div Frame) + (a % Frame)
           /\ a % Frame = 0 <=> \E k \in Int : a = Frame * k
<1>1. Frame \in Nat /\ Frame >= 2
  BY HeapConstants
<1>2. /\ a \div Frame \in Int /\ a % Frame \in 0..Frame - 1
      /\ a = Frame * (a \div Frame) + (a % Frame)
  BY <1>1
<1>3. ASSUME a % Frame = 0 PROVE \E k \in Int : a = Frame * k
  <2>1. a = Frame * (a \div Frame)
    BY <1>1, <1>2, <1>3
  <2> QED
    BY <1>2, <2>1
<1>4. ASSUME NEW k \in Int, a = Frame * k PROVE a % Frame = 0
  <2> DEFINE q == a \div Frame
             r == a % Frame
  <2>1. q \in Int /\ r \in Int /\ 0 <= r /\ r < Frame /\ Frame * k = Frame * q + r
    BY <1>1, <1>2, <1>4
  <2> HIDE DEF q, r
  <2>2. k = q
    BY <1>1, <2>1
  <2>3. r = 0
    BY <1>1, <2>1, <2>2
  <2> QED
    BY <2>3 DEF r
<1> QED
  BY <1>2, <1>3, <1>4

\* Sums and differences of multiples are multiples, and lie a frame apart.
LEMMA MultiplesAdd ==
    ASSUME NEW a \in Int, NEW b \in Int, a % Frame = 0, b % Frame = 0
    PROVE  /\ (a + b) % Frame = 0 /\ (a - b) % Frame = 0
           /\ a < b => a + Frame <= b
<1>1. Frame \in Nat /\ Frame >= 2
  BY HeapConstants
<1>2. PICK k \in Int, m \in Int : a = Frame * k /\ b = Frame * m
  BY Multiples
<1>3. a + b = Frame * (k + m) /\ a - b = Frame * (k - m) /\ k + m \in Int /\ k - m \in Int
  BY <1>1, <1>2
<1>4. (a + b) % Frame = 0 /\ (a - b) % Frame = 0
  <2>1. a + b \in Int /\ a - b \in Int
    OBVIOUS
  <2> QED
    BY <1>3, <2>1, Multiples
<1>5. a < b => a + Frame <= b
  <2> SUFFICES ASSUME Frame * k < Frame * m PROVE Frame * k + Frame <= Frame * m
    BY <1>1, <1>2
  <2>1. k < m
    BY <1>1
  <2>2. k + 1 <= m
    BY <2>1
  <2>3. Frame * (k + 1) <= Frame * m
    BY <1>1, <2>2
  <2> QED
    BY <1>1, <2>3
<1> QED
  BY <1>4, <1>5

\* Rounding up goes to the next multiple.
LEMMA RoundUpRight ==
    ASSUME NEW a \in Int
    PROVE  /\ RoundUp(a) \in Int /\ RoundUp(a) % Frame = 0 /\ RoundUp(a) >= a
           /\ \A b \in Int : b % Frame = 0 /\ b >= a => RoundUp(a) <= b
<1>1. Frame \in Nat /\ Frame >= 2
  BY HeapConstants
<1> DEFINE q == (a + Frame - 1) \div Frame
           r == (a + Frame - 1) % Frame
<1>2. q \in Int /\ r \in Int /\ 0 <= r /\ r < Frame /\ a + Frame - 1 = Frame * q + r
  <2> DEFINE b == a + Frame - 1
  <2>1. b \in Int
    BY <1>1
  <2> HIDE DEF b
  <2>2. /\ b \div Frame \in Int /\ b % Frame \in 0..Frame - 1
        /\ b = Frame * (b \div Frame) + (b % Frame)
    BY <2>1, Multiples
  <2>3. b % Frame \in Int /\ 0 <= b % Frame /\ b % Frame < Frame
    BY <1>1, <2>2
  <2> QED
    BY <2>2, <2>3 DEF b
<1> HIDE DEF r
<1>3. RoundUp(a) = Frame * q
  <2> HIDE DEF q
  <2>1. RoundUp(a) = q * Frame
    BY DEF RoundUp, q
  <2> QED
    BY <1>1, <1>2, <2>1
<1> HIDE DEF q
<1>4. PICK u \in Int : u = Frame * q
  BY <1>1, <1>2
<1>5. u >= a /\ u < a + Frame
  BY <1>1, <1>2, <1>4
<1>6. u % Frame = 0
  BY <1>2, <1>4, Multiples
<1>7. ASSUME NEW b \in Int, b % Frame = 0, b >= a PROVE u <= b
  <2>1. b < u => b + Frame <= u
    BY <1>6, <1>7, MultiplesAdd
  <2> QED
    BY <1>1, <1>5, <1>7, <2>1
<1> QED
  BY <1>3, <1>4, <1>5, <1>6, <1>7

\* Pages follow one another as addresses do; what is before the begin of a page is on an
\* earlier one.
LEMMA PagesFollow ==
    ASSUME NEW a \in Int, NEW b \in Int
    PROVE  /\ PageOf(a) \in Int
           /\ a <= b => PageOf(a) <= PageOf(b)
           /\ a < b /\ b % Frame = 0 => PageOf(a) <= PageOf(b) - 1
<1>1. Frame \in Nat /\ Frame >= 2
  BY HeapConstants
<1> DEFINE p == a \div Frame
           q == b \div Frame
           r == a % Frame
           s == b % Frame
<1>2. /\ p \in Int /\ q \in Int /\ r \in Int /\ s \in Int /\ 0 <= r /\ r < Frame /\ 0 <= s /\ s < Frame
      /\ a = Frame * p + r /\ b = Frame * q + s
  BY <1>1, Multiples
<1>3. PageOf(a) = p /\ PageOf(b) = q
  BY DEF PageOf
<1> HIDE DEF p, q, r
<1>4. ASSUME a <= b PROVE p <= q
  <2> SUFFICES ASSUME q + 1 <= p PROVE FALSE
    BY <1>2
  <2>1. Frame * (q + 1) <= Frame * p
    BY <1>1, <1>2
  <2>2. Frame * (q + 1) = Frame * q + Frame
    BY <1>1, <1>2
  <2>3. PICK u \in Int, v \in Int : u = Frame * p /\ v = Frame * q
    BY <1>1, <1>2
  <2> HIDE DEF s
  <2> QED
    BY <1>1, <1>2, <1>4, <2>1, <2>2, <2>3
<1>5. ASSUME a < b, s = 0 PROVE p <= q - 1
  <2> SUFFICES ASSUME q <= p PROVE FALSE
    BY <1>2
  <2>1. Frame * q <= Frame * p
    BY <1>1, <1>2
  <2>2. PICK u \in Int, v \in Int : u = Frame * p /\ v = Frame * q
    BY <1>1, <1>2
  <2> HIDE DEF s
  <2> QED
    BY <1>1, <1>2, <1>5, <2>1, <2>2
<1> QED
  BY <1>2, <1>3, <1>4, <1>5

\* The part in front of a header makes what is behind the header begin a page.
LEMMA LeadRight ==
    ASSUME NEW e \in Int
    PROVE  Lead(e) \in 0..Frame - 1 /\ (e + Lead(e) + 1) % Frame = 0
<1>1. Frame \in Nat /\ Frame >= 2
  BY HeapConstants
<1> DEFINE b == -(e + 1)
           r == b % Frame
           q == b \div Frame
<1>2. b \in Int /\ Lead(e) = r
  BY DEF Lead
<1> HIDE DEF b
<1>3. q \in Int /\ r \in 0..Frame - 1 /\ b = Frame * q + r
  BY <1>1, <1>2, Multiples
<1> HIDE DEF q, r
<1>4. PICK u \in Int : u = Frame * q
  BY <1>1, <1>3
<1>5. e + r + 1 = -u
  BY <1>1, <1>3, <1>4 DEF b
<1>6. -u = Frame * (-q) /\ -q \in Int
  BY <1>1, <1>3, <1>4
<1>7. (-u) % Frame = 0
  <2>1. -u \in Int
    OBVIOUS
  <2> QED
    BY <1>6, <2>1, Multiples
<1> QED
  BY <1>2, <1>3, <1>5, <1>7

-----------------------------------------------------------------------------
(* The steps of which the changes of a tiling are made                     *)
SplitAt(z, e, n) ==
    [x \in DOMAIN z \cup {e + n} |-> IF x = e THEN n ELSE IF x = e + n THEN z[e] - n ELSE z[x]]
JoinAt(z, e) ==
    [x \in DOMAIN z \ {e + z[e]} |-> IF x = e THEN z[e] + z[e + z[e]] ELSE z[x]]
ResizeAt(z, e, n) == [x \in DOMAIN z |-> IF x = e THEN n ELSE z[x]]
AppendAt(z, end, n) == [x \in DOMAIN z \cup {end} |-> IF x = end THEN n ELSE z[x]]
DropAt(z, e) == [x \in DOMAIN z \ {e} |-> z[x]]

\* A chunk is split in two.
LEMMA SplitTiles ==
    ASSUME NEW z, NEW end, Tiling(z, end), NEW e \in DOMAIN z, NEW n \in Int, n >= 2, z[e] - n >= 2
    PROVE  Tiling(SplitAt(z, e, n), end) /\ e + n \notin DOMAIN z
<1> DEFINE b == e + n
           w == SplitAt(z, e, n)
<1>1. /\ end \in Int /\ HeapStart \in Int
      /\ \A x \in DOMAIN z : x \in Int /\ z[x] \in Int
      /\ \A x \in DOMAIN z : x >= HeapStart /\ z[x] >= 2 /\ x + z[x] <= end
      /\ \A x, y \in DOMAIN z : x < y => x + z[x] <= y
  BY HeapConstants DEF Tiling
<1>2. /\ \A x \in DOMAIN z : x + z[x] = end \/ x + z[x] \in DOMAIN z
      /\ \A y \in DOMAIN z \cup {end} : y = HeapStart \/ \E x \in DOMAIN z : x + z[x] = y
      /\ HeapStart \in DOMAIN z
  BY DEF Tiling
<1>3. b \in Int /\ b > e /\ b < e + z[e] /\ z[e] \in Int /\ b + (z[e] - n) = e + z[e] /\ e \in Int
  BY <1>1
<1>4. b \notin DOMAIN z
  BY <1>1, <1>3
<1>5. /\ DOMAIN w = DOMAIN z \cup {b} /\ w[e] = n /\ w[b] = z[e] - n
      /\ \A x \in DOMAIN z : x # e => w[x] = z[x]
  BY <1>3, <1>4 DEF SplitAt
<1> HIDE DEF w, b
<1>6. \A x \in DOMAIN w : x \in Int /\ w[x] \in Int
  BY <1>1, <1>3, <1>5
<1>7. \A x \in DOMAIN w : x >= HeapStart /\ w[x] >= 2 /\ x + w[x] <= end
  <2>1. e >= HeapStart /\ w[e] >= 2 /\ e + w[e] <= end
    BY <1>1, <1>3, <1>5 DEF b
  <2>2. b >= HeapStart /\ w[b] >= 2 /\ b + w[b] <= end
    BY <1>1, <1>3, <1>5
  <2> QED
    BY <1>1, <1>5, <2>1, <2>2
<1>8. ASSUME NEW x \in DOMAIN w, NEW y \in DOMAIN w, x < y PROVE x + w[x] <= y
  <2>1. CASE x = e /\ y = b
    BY <1>3, <1>5, <2>1 DEF b
  <2>2. CASE x = e /\ y # b
    <3>1. e + z[e] <= y /\ y \in Int
      BY <1>1, <1>5, <1>8, <2>2
    <3> QED
      BY <1>3, <1>5, <2>2, <3>1 DEF b
  <2>3. CASE x = b
    <3>1. y \in DOMAIN z /\ y \in Int /\ e < y
      BY <1>1, <1>3, <1>5, <1>8, <2>3
    <3>2. e + z[e] <= y
      BY <1>1, <3>1
    <3> QED
      BY <1>3, <1>5, <2>3, <3>1, <3>2
  <2>4. CASE x # e /\ x # b /\ y = b
    <3>1. x \in DOMAIN z /\ x \in Int /\ w[x] = z[x] /\ z[x] \in Int
      BY <1>1, <1>5, <2>4
    <3>2. x < e
      <4>1. ~(e < x)
        <5> SUFFICES ASSUME e < x PROVE FALSE
          OBVIOUS
        <5>1. e + z[e] <= x
          BY <1>1, <3>1
        <5> QED
          BY <1>3, <1>8, <2>4, <3>1, <5>1
      <4> QED
        BY <1>3, <2>4, <3>1, <4>1
    <3>3. x + z[x] <= e
      BY <1>1, <3>1, <3>2
    <3> QED
      BY <1>3, <2>4, <3>1, <3>3
  <2>5. CASE x # e /\ x # b /\ y # b
    BY <1>1, <1>5, <1>8, <2>5
  <2> QED
    BY <2>1, <2>2, <2>3, <2>4, <2>5
<1>9. \A x \in DOMAIN w : x + w[x] = end \/ x + w[x] \in DOMAIN w
  <2>1. e + w[e] = b
    BY <1>5 DEF b
  <2>2. b + w[b] = e + z[e]
    BY <1>3, <1>5
  <2> QED
    BY <1>2, <1>5, <2>1, <2>2
<1>10. \A y \in DOMAIN w \cup {end} : y = HeapStart \/ \E x \in DOMAIN w : x + w[x] = y
  <2>1. e + w[e] = b /\ e \in DOMAIN w /\ b \in DOMAIN w
    BY <1>5 DEF b
  <2>2. b + w[b] = e + z[e]
    BY <1>3, <1>5
  <2>3. ASSUME NEW y \in DOMAIN z \cup {end}, y # HeapStart PROVE \E x \in DOMAIN w : x + w[x] = y
    <3>1. PICK x \in DOMAIN z : x + z[x] = y
      BY <1>2, <2>3
    <3>2. CASE x = e
      BY <2>1, <2>2, <3>1, <3>2
    <3>3. CASE x # e
      BY <1>5, <3>1, <3>3
    <3> QED
      BY <3>2, <3>3
  <2> QED
    BY <1>5, <2>1, <2>3
<1> QED
  BY <1>1, <1>2, <1>4, <1>5, <1>6, <1>7, <1>8, <1>9, <1>10 DEF Tiling, w, b

\* A chunk takes in the one behind it.
LEMMA JoinTiles ==
    ASSUME NEW z, NEW end, Tiling(z, end), NEW e \in DOMAIN z, e + z[e] \in DOMAIN z
    PROVE  Tiling(JoinAt(z, e), end)
<1> DEFINE b == e + z[e]
           w == JoinAt(z, e)
<1>1. /\ end \in Int /\ HeapStart \in Int
      /\ \A x \in DOMAIN z : x \in Int /\ z[x] \in Int
      /\ \A x \in DOMAIN z : x >= HeapStart /\ z[x] >= 2 /\ x + z[x] <= end
      /\ \A x, y \in DOMAIN z : x < y => x + z[x] <= y
  BY HeapConstants DEF Tiling
<1>2. /\ \A x \in DOMAIN z : x + z[x] = end \/ x + z[x] \in DOMAIN z
      /\ \A y \in DOMAIN z \cup {end} : y = HeapStart \/ \E x \in DOMAIN z : x + z[x] = y
      /\ HeapStart \in DOMAIN z
  BY DEF Tiling
<1>3. /\ b \in Int /\ b > e /\ z[e] \in Int /\ z[b] \in Int /\ e + (z[e] + z[b]) = b + z[b] /\ e \in Int
      /\ b \in DOMAIN z /\ z[e] >= 2 /\ z[b] >= 2
  BY <1>1
<1>4. /\ DOMAIN w = DOMAIN z \ {b} /\ e \in DOMAIN w /\ w[e] = z[e] + z[b]
      /\ \A x \in DOMAIN w : x # e => w[x] = z[x]
  BY <1>3 DEF JoinAt
<1>b. b = e + z[e]
  OBVIOUS
<1> HIDE DEF w, b
<1>5. \A x \in DOMAIN w : x \in Int /\ w[x] \in Int
  BY <1>1, <1>3, <1>4
<1>6. \A x \in DOMAIN w : x >= HeapStart /\ w[x] >= 2 /\ x + w[x] <= end
  <2>1. e >= HeapStart /\ w[e] >= 2 /\ e + w[e] <= end
    <3>1. b + z[b] <= end /\ e >= HeapStart
      BY <1>1, <1>3
    <3> QED
      BY <1>1, <1>3, <1>4, <3>1
  <2> QED
    BY <1>1, <1>4, <2>1
<1>7. ASSUME NEW x \in DOMAIN w, NEW y \in DOMAIN w, x < y PROVE x + w[x] <= y
  <2>1. CASE x = e
    <3>1. e + z[e] <= y /\ y \in Int /\ y \in DOMAIN z /\ y # b
      BY <1>1, <1>4, <1>7, <2>1
    <3>2. b < y
      BY <1>3, <1>b, <3>1
    <3>3. b + z[b] <= y
      BY <1>1, <1>3, <3>1, <3>2
    <3> QED
      BY <1>3, <1>4, <2>1, <3>3
  <2>2. CASE x # e
    BY <1>1, <1>4, <1>7, <2>2
  <2> QED
    BY <2>1, <2>2
<1>8. ASSUME NEW x \in DOMAIN z, x + z[x] = b PROVE x = e
  <2>1. x \in Int /\ z[x] \in Int /\ z[x] >= 2
    BY <1>1
  <2>2. x < e => x + z[x] <= e
    BY <1>1
  <2>3. e < x => e + z[e] <= x
    BY <1>1
  <2> QED
    BY <1>3, <1>8, <1>b, <2>1, <2>2, <2>3
<1>9. ASSUME NEW x \in DOMAIN w PROVE x + w[x] = end \/ x + w[x] \in DOMAIN w
  <2>1. CASE x = e
    <3>1. e + w[e] = b + z[b] /\ b + z[b] # b
      BY <1>3, <1>4
    <3> QED
      BY <1>2, <1>3, <1>4, <2>1, <3>1
  <2>2. CASE x # e
    <3>1. x \in DOMAIN z /\ w[x] = z[x] /\ x + z[x] # b
      BY <1>4, <1>8, <2>2
    <3> QED
      BY <1>2, <1>4, <3>1
  <2> QED
    BY <2>1, <2>2
<1>10. ASSUME NEW y \in DOMAIN w \cup {end}, y # HeapStart PROVE \E x \in DOMAIN w : x + w[x] = y
  <2>1. PICK x \in DOMAIN z : x + z[x] = y
    BY <1>2, <1>4, <1>10
  <2>2. CASE x = b
    <3>1. e + w[e] = b + z[b]
      BY <1>3, <1>4
    <3> QED
      BY <1>4, <2>1, <2>2, <3>1
  <2>3. CASE x = e
    <3>1. y = b /\ b + z[b] <= end /\ b # end
      BY <1>1, <1>3, <1>b, <2>1, <2>3
    <3> QED
      BY <1>4, <3>1
  <2>4. CASE x # b /\ x # e
    BY <1>4, <2>1, <2>4
  <2> QED
    BY <2>2, <2>3, <2>4
<1>11. HeapStart \in DOMAIN w
  <2>1. HeapStart # b
    BY <1>1, <1>3
  <2> QED
    BY <1>2, <1>4, <2>1
<1> QED
  BY <1>1, <1>5, <1>6, <1>7, <1>9, <1>10, <1>11 DEF Tiling, w

\* The last chunk grows or shrinks, and the end of the heap with it.
LEMMA ResizeTiles ==
    ASSUME NEW z, NEW end, Tiling(z, end), NEW e \in DOMAIN z, e + z[e] = end, NEW n \in Int, n >= 2
    PROVE  Tiling(ResizeAt(z, e, n), e + n)
<1> DEFINE w == ResizeAt(z, e, n)
           stop == e + n
<1>1. /\ end \in Int /\ HeapStart \in Int
      /\ \A x \in DOMAIN z : x \in Int /\ z[x] \in Int
      /\ \A x \in DOMAIN z : x >= HeapStart /\ z[x] >= 2 /\ x + z[x] <= end
      /\ \A x, y \in DOMAIN z : x < y => x + z[x] <= y
  BY HeapConstants DEF Tiling
<1>2. /\ \A x \in DOMAIN z : x + z[x] = end \/ x + z[x] \in DOMAIN z
      /\ \A y \in DOMAIN z \cup {end} : y = HeapStart \/ \E x \in DOMAIN z : x + z[x] = y
      /\ HeapStart \in DOMAIN z
  BY DEF Tiling
<1>3. /\ DOMAIN w = DOMAIN z /\ w[e] = n /\ \A x \in DOMAIN z : x # e => w[x] = z[x]
  BY DEF ResizeAt
<1>4. e \in Int /\ z[e] \in Int /\ stop \in Int /\ stop > e
  BY <1>1
<1>s. stop = e + n
  OBVIOUS
<1> HIDE DEF w, stop
<1>5. ASSUME NEW x \in DOMAIN z, x # e PROVE x < e /\ x + z[x] <= e
  <2>1. ~(e < x)
    <3> SUFFICES ASSUME e < x PROVE FALSE
      OBVIOUS
    <3>1. e + z[e] <= x /\ x + z[x] <= end /\ z[x] >= 2 /\ x \in Int /\ z[x] \in Int
      BY <1>1
    <3> QED
      BY <1>1, <3>1
  <2>2. x < e
    BY <1>1, <1>4, <1>5, <2>1
  <2> QED
    BY <1>1, <2>2
<1>6. \A x \in DOMAIN w : x \in Int /\ w[x] \in Int
  BY <1>1, <1>3
<1>7. \A x \in DOMAIN w : x >= HeapStart /\ w[x] >= 2 /\ x + w[x] <= stop
  <2>1. e >= HeapStart /\ w[e] >= 2 /\ e + w[e] <= stop
    BY <1>1, <1>3, <1>4, <1>s
  <2>2. ASSUME NEW x \in DOMAIN w, x # e PROVE x >= HeapStart /\ w[x] >= 2 /\ x + w[x] <= stop
    <3>1. x \in DOMAIN z /\ w[x] = z[x] /\ x + z[x] <= e /\ z[x] \in Int /\ x \in Int
      BY <1>1, <1>3, <1>5, <2>2
    <3> QED
      BY <1>1, <1>4, <3>1
  <2> QED
    BY <2>1, <2>2
<1>8. ASSUME NEW x \in DOMAIN w, NEW y \in DOMAIN w, x < y PROVE x + w[x] <= y
  <2>1. x # e
    BY <1>1, <1>3, <1>4, <1>5, <1>8
  <2> QED
    BY <1>1, <1>3, <1>8, <2>1
<1>9. ASSUME NEW x \in DOMAIN w PROVE x + w[x] = stop \/ x + w[x] \in DOMAIN w
  <2>1. CASE x = e
    BY <1>3, <1>s, <2>1
  <2>2. CASE x # e
    <3>1. x + z[x] # end /\ w[x] = z[x]
      BY <1>1, <1>3, <1>4, <1>5, <2>2
    <3> QED
      BY <1>2, <1>3, <3>1
  <2> QED
    BY <2>1, <2>2
<1>10. ASSUME NEW y \in DOMAIN w \cup {stop}, y # HeapStart PROVE \E x \in DOMAIN w : x + w[x] = y
  <2>1. CASE y = stop
    BY <1>3, <1>s, <2>1
  <2>2. CASE y \in DOMAIN z
    <3>1. PICK x \in DOMAIN z : x + z[x] = y
      BY <1>2, <1>10, <2>2
    <3>2. x # e
      <4>1. y + z[y] <= end /\ z[y] >= 2 /\ y \in Int /\ z[y] \in Int
        BY <1>1, <2>2
      <4> QED
        BY <1>1, <3>1, <4>1
    <3> QED
      BY <1>3, <3>1, <3>2
  <2> QED
    BY <1>3, <2>1, <2>2
<1> QED
  BY <1>2, <1>3, <1>4, <1>6, <1>7, <1>8, <1>9, <1>10 DEF Tiling, w, stop

\* A chunk is put behind the end.
LEMMA AppendTiles ==
    ASSUME NEW z, NEW end, Tiling(z, end), NEW n \in Int, n >= 2
    PROVE  Tiling(AppendAt(z, end, n), end + n) /\ end \notin DOMAIN z
<1> DEFINE w == AppendAt(z, end, n)
           stop == end + n
<1>1. /\ end \in Int /\ HeapStart \in Int
      /\ \A x \in DOMAIN z : x \in Int /\ z[x] \in Int
      /\ \A x \in DOMAIN z : x >= HeapStart /\ z[x] >= 2 /\ x + z[x] <= end
      /\ \A x, y \in DOMAIN z : x < y => x + z[x] <= y
  BY HeapConstants DEF Tiling
<1>2. /\ \A x \in DOMAIN z : x + z[x] = end \/ x + z[x] \in DOMAIN z
      /\ \A y \in DOMAIN z \cup {end} : y = HeapStart \/ \E x \in DOMAIN z : x + z[x] = y
      /\ HeapStart \in DOMAIN z
  BY DEF Tiling
<1>3. end \notin DOMAIN z /\ end >= HeapStart /\ stop \in Int /\ stop = end + n /\ stop > end
  BY <1>1, <1>2
<1>4. /\ DOMAIN w = DOMAIN z \cup {end} /\ w[end] = n /\ \A x \in DOMAIN z : w[x] = z[x]
  BY <1>3 DEF AppendAt
<1> HIDE DEF w, stop
<1>5. ASSUME NEW x \in DOMAIN w PROVE x \in Int /\ w[x] \in Int /\ x >= HeapStart /\ w[x] >= 2 /\ x + w[x] <= stop
  <2>1. CASE x = end
    BY <1>1, <1>3, <1>4, <2>1
  <2>2. CASE x \in DOMAIN z
    <3>1. x \in Int /\ z[x] \in Int /\ x >= HeapStart /\ z[x] >= 2 /\ x + z[x] <= end /\ w[x] = z[x]
      BY <1>1, <1>4, <2>2
    <3> QED
      BY <1>1, <1>3, <3>1
  <2> QED
    BY <1>4, <2>1, <2>2
<1>6. ASSUME NEW x \in DOMAIN w, NEW y \in DOMAIN w, x < y PROVE x + w[x] <= y
  <2>1. x \in DOMAIN z
    <3> SUFFICES ASSUME x = end PROVE FALSE
      BY <1>4
    <3>1. y \in DOMAIN z \/ y = end
      BY <1>4
    <3> QED
      BY <1>1, <1>6, <3>1
  <2> QED
    BY <1>1, <1>4, <1>6, <2>1
<1>7. \A x \in DOMAIN w : x + w[x] = stop \/ x + w[x] \in DOMAIN w
  BY <1>2, <1>3, <1>4
<1>8. \A y \in DOMAIN w \cup {stop} : y = HeapStart \/ \E x \in DOMAIN w : x + w[x] = y
  BY <1>2, <1>3, <1>4
<1> QED
  BY <1>2, <1>3, <1>4, <1>5, <1>6, <1>7, <1>8 DEF Tiling, w, stop

\* The last chunk goes away, and the heap ends where it began.
LEMMA DropTiles ==
    ASSUME NEW z, NEW end, Tiling(z, end), NEW e \in DOMAIN z, e + z[e] = end, e # HeapStart
    PROVE  Tiling(DropAt(z, e), e)
<1> DEFINE w == DropAt(z, e)
<1>1. /\ end \in Int /\ HeapStart \in Int
      /\ \A x \in DOMAIN z : x \in Int /\ z[x] \in Int
      /\ \A x \in DOMAIN z : x >= HeapStart /\ z[x] >= 2 /\ x + z[x] <= end
      /\ \A x, y \in DOMAIN z : x < y => x + z[x] <= y
  BY HeapConstants DEF Tiling
<1>2. /\ \A x \in DOMAIN z : x + z[x] = end \/ x + z[x] \in DOMAIN z
      /\ \A y \in DOMAIN z \cup {end} : y = HeapStart \/ \E x \in DOMAIN z : x + z[x] = y
      /\ HeapStart \in DOMAIN z
  BY DEF Tiling
<1>3. DOMAIN w = DOMAIN z \ {e} /\ \A x \in DOMAIN w : w[x] = z[x]
  BY DEF DropAt
<1> HIDE DEF w
<1>4. ASSUME NEW x \in DOMAIN z, x # e PROVE x < e /\ x + z[x] <= e
  <2>0. e \in Int /\ z[e] \in Int
    BY <1>1
  <2>1. ~(e < x)
    <3> SUFFICES ASSUME e < x PROVE FALSE
      OBVIOUS
    <3>1. e + z[e] <= x /\ x + z[x] <= end /\ z[x] >= 2 /\ x \in Int /\ z[x] \in Int
      BY <1>1
    <3> QED
      BY <1>1, <3>1
  <2>2. x < e
    BY <1>1, <1>4, <2>0, <2>1
  <2> QED
    BY <1>1, <2>2
<1>5. \A x \in DOMAIN w : x \in Int /\ w[x] \in Int /\ x >= HeapStart /\ w[x] >= 2 /\ x + w[x] <= e
  BY <1>1, <1>3, <1>4
<1>6. \A x, y \in DOMAIN w : x < y => x + w[x] <= y
  BY <1>1, <1>3
<1>7. ASSUME NEW x \in DOMAIN w PROVE x + w[x] = e \/ x + w[x] \in DOMAIN w
  <2>1. x \in DOMAIN z /\ x # e /\ w[x] = z[x] /\ x + z[x] <= e /\ z[e] >= 2 /\ z[e] \in Int /\ e \in Int
    BY <1>1, <1>3, <1>4
  <2>2. x + z[x] # end
    BY <1>1, <2>1
  <2> QED
    BY <1>2, <1>3, <2>1, <2>2
<1>8. ASSUME NEW y \in DOMAIN w \cup {e}, y # HeapStart PROVE \E x \in DOMAIN w : x + w[x] = y
  <2>1. y \in DOMAIN z
    BY <1>3
  <2>2. PICK x \in DOMAIN z : x + z[x] = y
    BY <1>2, <1>8, <2>1
  <2>3. x # e
    <3>1. y + z[y] <= end /\ z[y] >= 2 /\ y \in Int /\ z[y] \in Int
      BY <1>1, <2>1
    <3> QED
      BY <1>1, <2>2, <3>1
  <2> QED
    BY <1>3, <2>2, <2>3
<1> QED
  BY <1>1, <1>2, <1>3, <1>5, <1>6, <1>7, <1>8 DEF Tiling, w

-----------------------------------------------------------------------------
(* The index                                                               *)
\* What is in a sequence, and where.
LEMMA InSeq ==
    ASSUME NEW s \in Seq(Int)
    PROVE  /\ DOMAIN s = 1..Len(s) /\ Len(s) \in Nat
           /\ \A x : x \in ToSet(s) <=> \E i \in 1..Len(s) : s[i] = x
           /\ ToSet(s) \subseteq Int
           /\ IsInjective(s) <=> \A i, j \in 1..Len(s) : s[i] = s[j] => i = j
<1>1. DOMAIN s = 1..Len(s) /\ Len(s) \in Nat /\ \A i \in 1..Len(s) : s[i] \in Int
  OBVIOUS
<1> QED
  BY <1>1 DEF ToSet, IsInjective

\* The first place for which a test holds.
LEMMA FirstPlace ==
    ASSUME NEW len \in Nat, NEW I, I \subseteq 1..len, I # {}
    PROVE  Min(I) \in I
<1>1. I \in SUBSET Nat
  OBVIOUS
<1>2. \E x \in I : \A y \in I : x <= y
  BY <1>1, LeastNat
<1> QED
  BY <1>2 DEF Min

\* One entry more, at the end or in between.
LEMMA InsertRight ==
    ASSUME NEW s \in Seq(Int), NEW e \in Int, NEW w \in {Append(s, e)} \cup {InsertAt(s, i, e) : i \in 1..Len(s)}
    PROVE  /\ w \in Seq(Int) /\ ToSet(w) = ToSet(s) \cup {e}
           /\ IsInjective(s) /\ e \notin ToSet(s) => IsInjective(w)
<1>1. ASSUME NEW k \in 1..Len(s) + 1, w \in Seq(Int), Len(w) = Len(s) + 1, w[k] = e,
             \A j \in 1..k - 1 : w[j] = s[j], \A j \in k + 1..Len(s) + 1 : w[j] = s[j - 1]
      PROVE  /\ w \in Seq(Int) /\ ToSet(w) = ToSet(s) \cup {e}
             /\ IsInjective(s) /\ e \notin ToSet(s) => IsInjective(w)
  <2>1. Len(s) \in Nat /\ Len(w) \in Nat /\ k \in Nat /\ k >= 1 /\ k <= Len(s) + 1
    OBVIOUS
  <2>2. ASSUME NEW x \in ToSet(w) PROVE x \in ToSet(s) \cup {e}
    <3>1. PICK j \in 1..Len(w) : w[j] = x
      BY <1>1, InSeq
    <3>2. CASE j < k
      <4>1. j \in 1..k - 1 /\ j \in 1..Len(s)
        BY <2>1, <3>2
      <4> QED
        BY <1>1, <3>1, <4>1, InSeq
    <3>3. CASE j > k
      <4>1. j \in k + 1..Len(s) + 1 /\ j - 1 \in 1..Len(s)
        BY <1>1, <2>1, <3>3
      <4> QED
        BY <1>1, <3>1, <4>1, InSeq
    <3>4. CASE j = k
      BY <1>1, <3>1, <3>4
    <3> QED
      BY <2>1, <3>2, <3>3, <3>4
  <2>3. ASSUME NEW x \in ToSet(s) \cup {e} PROVE x \in ToSet(w)
    <3>1. CASE x = e
      <4>1. k \in 1..Len(w)
        BY <1>1, <2>1
      <4> QED
        BY <1>1, <3>1, <4>1, InSeq
    <3>2. CASE x \in ToSet(s)
      <4>1. PICK j \in 1..Len(s) : s[j] = x
        BY <3>2, InSeq
      <4>2. CASE j < k
        <5>1. j \in 1..k - 1 /\ j \in 1..Len(w)
          BY <1>1, <2>1, <4>2
        <5> QED
          BY <1>1, <4>1, <5>1, InSeq
      <4>3. CASE j >= k
        <5>1. j + 1 \in k + 1..Len(s) + 1 /\ j + 1 \in 1..Len(w) /\ (j + 1) - 1 = j
          BY <1>1, <2>1, <4>3
        <5>2. w[j + 1] = x
          BY <1>1, <4>1, <5>1
        <5> QED
          BY <1>1, <5>1, <5>2, InSeq
      <4> QED
        BY <2>1, <4>2, <4>3
    <3> QED
      BY <3>1, <3>2
  <2>4. ASSUME IsInjective(s), e \notin ToSet(s), NEW i \in 1..Len(w), NEW j \in 1..Len(w), w[i] = w[j]
        PROVE  i = j
    <3> DEFINE src(m) == IF m < k THEN m ELSE m - 1
    <3>1. ASSUME NEW m \in 1..Len(w), m # k PROVE src(m) \in 1..Len(s) /\ w[m] = s[src(m)]
      <4>1. CASE m < k
        <5>1. m \in 1..k - 1 /\ m \in 1..Len(s)
          BY <2>1, <4>1
        <5> QED
          BY <1>1, <4>1, <5>1
      <4>2. CASE m > k
        <5>1. m \in k + 1..Len(s) + 1 /\ m - 1 \in 1..Len(s)
          BY <1>1, <2>1, <4>2
        <5>2. src(m) = m - 1
          BY <2>1, <4>2
        <5> HIDE DEF src
        <5> QED
          BY <1>1, <5>1, <5>2
      <4> QED
        BY <2>1, <3>1, <4>1, <4>2
    <3>2. ASSUME NEW m \in 1..Len(w), m # k PROVE w[m] # e
      BY <2>4, <3>1, <3>2, InSeq
    <3>3. CASE i = k \/ j = k
      BY <1>1, <2>4, <3>2, <3>3
    <3>4. CASE i # k /\ j # k
      <4>1. PICK a \in 1..Len(s) : a = src(i) /\ w[i] = s[a]
        BY <3>1, <3>4
      <4>2. PICK b \in 1..Len(s) : b = src(j) /\ w[j] = s[b]
        BY <3>1, <3>4
      <4>3. a = b
        <5>1. \A m, n \in 1..Len(s) : s[m] = s[n] => m = n
          BY <2>4, InSeq
        <5>2. s[a] = s[b]
          BY <2>4, <4>1, <4>2
        <5> QED
          BY <5>1, <5>2
      <4>4. i \in Nat /\ j \in Nat
        BY <2>1
      <4> QED
        BY <2>1, <3>4, <4>1, <4>2, <4>3, <4>4
    <3> QED
      BY <3>3, <3>4
  <2>5. IsInjective(s) /\ e \notin ToSet(s) => IsInjective(w)
    BY <1>1, <2>4, InSeq
  <2> QED
    BY <1>1, <2>2, <2>3, <2>5
<1>2. CASE w = Append(s, e)
  <2>1. /\ Len(s) + 1 \in 1..Len(s) + 1 /\ w \in Seq(Int) /\ Len(w) = Len(s) + 1 /\ w[Len(s) + 1] = e
        /\ \A j \in 1..(Len(s) + 1) - 1 : w[j] = s[j]
        /\ \A j \in (Len(s) + 1) + 1..Len(s) + 1 : w[j] = s[j - 1]
    BY <1>2
  <2> QED
    BY <1>1, <2>1
<1>3. ASSUME NEW i \in 1..Len(s), w = InsertAt(s, i, e)
      PROVE  /\ w \in Seq(Int) /\ ToSet(w) = ToSet(s) \cup {e}
             /\ IsInjective(s) /\ e \notin ToSet(s) => IsInjective(w)
  <2> DEFINE u == SubSeq(s, 1, i - 1)
             v == SubSeq(s, i, Len(s))
  <2>1. /\ u \in Seq(Int) /\ Len(u) = i - 1 /\ \A j \in 1..i - 1 : u[j] = s[j]
    OBVIOUS
  <2>2. /\ v \in Seq(Int) /\ Len(v) = Len(s) - i + 1 /\ \A j \in 1..Len(s) - i + 1 : v[j] = s[i + j - 1]
    OBVIOUS
  <2>3. w = (u \o <<e>>) \o v
    BY <1>3 DEF InsertAt
  <2> HIDE DEF u, v
  <2> DEFINE c == u \o <<e>>
  <2>4. c \in Seq(Int) /\ Len(c) = i /\ c[i] = e /\ \A j \in 1..i - 1 : c[j] = s[j]
    <3>1. <<e>> \in Seq(Int) /\ Len(<<e>>) = 1 /\ <<e>>[1] = e
      OBVIOUS
    <3>2. /\ c \in Seq(Int) /\ Len(c) = Len(u) + 1
          /\ \A j \in 1..Len(u) + 1 : c[j] = IF j <= Len(u) THEN u[j] ELSE <<e>>[j - Len(u)]
      <4> DEFINE one == <<e>>
      <4> HIDE DEF one
      <4> QED
        BY <2>1, <3>1, ConcatProperties DEF one
    <3>3. Len(c) = i /\ i \in 1..Len(u) + 1 /\ ~(i <= Len(u)) /\ i - Len(u) = 1
      BY <2>1, <3>2
    <3>4. \A j \in 1..i - 1 : j \in 1..Len(u) + 1 /\ j <= Len(u)
      BY <2>1
    <3> HIDE DEF c
    <3> QED
      BY <2>1, <3>1, <3>2, <3>3, <3>4
  <2> HIDE DEF c
  <2>c. /\ w \in Seq(Int) /\ Len(w) = Len(c) + Len(v)
        /\ \A j \in 1..Len(c) + Len(v) : w[j] = IF j <= Len(c) THEN c[j] ELSE v[j - Len(c)]
    <3>1. w = c \o v
      BY <2>3 DEF c
    <3> QED
      BY <2>2, <2>4, <3>1, ConcatProperties
  <2>5. w \in Seq(Int) /\ Len(w) = Len(s) + 1 /\ \A j \in 1..i : w[j] = c[j]
    <3>1. Len(s) \in Nat /\ i \in Nat /\ i >= 1 /\ i <= Len(s)
      OBVIOUS
    <3>2. Len(c) + Len(v) = Len(s) + 1
      BY <2>2, <2>4, <3>1
    <3>3. \A j \in 1..i : j \in 1..Len(c) + Len(v) /\ j <= Len(c)
      BY <2>4, <3>1, <3>2
    <3> QED
      BY <2>c, <3>2, <3>3
  <2>6. \A j \in i + 1..Len(s) + 1 : w[j] = s[j - 1]
    <3> TAKE j \in i + 1..Len(s) + 1
    <3>1. j \in Len(c) + 1..Len(c) + Len(v) /\ j - i \in 1..Len(s) - i + 1 /\ i + (j - i) - 1 = j - 1
      BY <2>2, <2>4
    <3>2. w[j] = v[j - i]
      <4>1. j \in 1..Len(c) + Len(v) /\ ~(j <= Len(c))
        BY <2>2, <2>4, <3>1
      <4>2. w[j] = v[j - Len(c)]
        BY <2>c, <4>1
      <4> QED
        BY <2>4, <4>2
    <3> QED
      BY <2>2, <3>1, <3>2
  <2>7. i \in 1..Len(s) + 1 /\ w[i] = e /\ \A j \in 1..i - 1 : w[j] = s[j]
    BY <2>4, <2>5
  <2> QED
    BY <1>1, <2>5, <2>6, <2>7
<1> QED
  BY <1>2, <1>3

\* One entry less.
LEMMA RemoveRight ==
    ASSUME NEW s \in Seq(Int), NEW e \in ToSet(s), IsInjective(s)
    PROVE  /\ RemoveFirst(s, e) \in Seq(Int) /\ ToSet(RemoveFirst(s, e)) = ToSet(s) \ {e}
           /\ IsInjective(RemoveFirst(s, e))
<1> DEFINE I == {i \in 1..Len(s) : s[i] = e}
           k == Min(I)
           w == RemoveFirst(s, e)
<1>1. I \subseteq 1..Len(s) /\ I # {} /\ Len(s) \in Nat
  BY InSeq
<1>2. k \in 1..Len(s) /\ s[k] = e
  <2> HIDE DEF k
  <2>1. Min(I) \in I
    <3> HIDE DEF I
    <3> QED
      BY <1>1, FirstPlace
  <2> QED
    BY <2>1 DEF k
<1>3. w = RemoveAt(s, k)
  <2>1. \E i \in 1..Len(s) : s[i] = e
    BY <1>2
  <2>2. SelectInSeq(s, LAMBDA v : v = e) = k
    BY <1>1 DEF SelectInSeq
  <2> QED
    BY <2>1, <2>2 DEF RemoveFirst
<1> HIDE DEF k, w
<1>4. /\ w \in Seq(Int) /\ Len(w) = Len(s) - 1
      /\ \A j \in 1..Len(w) : w[j] = s[IF j < k THEN j ELSE j + 1]
  <2> DEFINE u == SubSeq(s, 1, k - 1)
             v == SubSeq(s, k + 1, Len(s))
  <2>1. u \in Seq(Int) /\ Len(u) = k - 1 /\ \A j \in 1..k - 1 : u[j] = s[j]
    BY <1>2
  <2>2. v \in Seq(Int) /\ Len(v) = Len(s) - k /\ \A j \in 1..Len(s) - k : v[j] = s[k + 1 + j - 1]
    BY <1>2
  <2>3. w = u \o v
    BY <1>3 DEF RemoveAt
  <2> HIDE DEF u, v
  <2>4. w \in Seq(Int) /\ Len(w) = Len(s) - 1 /\ \A j \in 1..k - 1 : w[j] = s[j]
    BY <1>2, <2>1, <2>2, <2>3
  <2>5. ASSUME NEW j \in 1..Len(w), ~(j < k) PROVE w[j] = s[j + 1]
    <3>1. j \in Len(u) + 1..Len(u) + Len(v) /\ j - Len(u) \in 1..Len(s) - k /\ k + 1 + (j - Len(u)) - 1 = j + 1
      BY <1>1, <1>2, <2>1, <2>2, <2>4, <2>5
    <3>2. w[j] = v[j - Len(u)]
      <4>1. u \in Seq(Int) /\ v \in Seq(Int) /\ Len(u) \in Nat /\ Len(v) \in Nat /\ j \in Int
        BY <2>1, <2>2
      <4>2. j \in 1..Len(u) + Len(v) /\ ~(j <= Len(u))
        BY <3>1, <4>1
      <4>3. (u \o v)[j] = IF j <= Len(u) THEN u[j] ELSE v[j - Len(u)]
        BY <4>1, <4>2, ConcatProperties
      <4> QED
        BY <2>3, <4>2, <4>3
    <3> QED
      BY <2>2, <3>1, <3>2
  <2>6. \A j \in 1..Len(w) : j < k => j \in 1..k - 1
    BY <1>2
  <2> QED
    BY <2>4, <2>5, <2>6
<1> DEFINE src(j) == IF j < k THEN j ELSE j + 1
<1>5. ASSUME NEW j \in 1..Len(w) PROVE src(j) \in 1..Len(s) /\ src(j) # k /\ w[j] = s[src(j)]
  <2>1. w[j] = s[src(j)]
    BY <1>4
  <2>2. j \in Nat /\ j >= 1 /\ j <= Len(s) - 1 /\ k \in Nat /\ k >= 1 /\ k <= Len(s)
    BY <1>1, <1>2, <1>4
  <2>3. CASE j < k
    <3>1. src(j) = j
      BY <2>3
    <3> QED
      BY <1>1, <2>1, <2>2, <2>3, <3>1
  <2>4. CASE ~(j < k)
    <3>1. src(j) = j + 1
      BY <2>4
    <3> HIDE DEF src
    <3>2. j + 1 \in 1..Len(s) /\ j + 1 # k
      BY <1>1, <2>2, <2>4
    <3> QED
      BY <2>1, <3>1, <3>2
  <2> QED
    BY <2>3, <2>4
<1>6. ASSUME NEW m \in 1..Len(s), m # k PROVE \E j \in 1..Len(w) : src(j) = m
  <2>1. CASE m < k
    <3>1. m \in 1..Len(w) /\ src(m) = m
      BY <1>1, <1>2, <1>4, <2>1
    <3> QED
      BY <3>1
  <2>2. CASE m > k
    <3>1. m - 1 \in 1..Len(w) /\ src(m - 1) = m
      BY <1>1, <1>2, <1>4, <2>2
    <3> QED
      BY <3>1
  <2> QED
    BY <1>2, <1>6, <2>1, <2>2
<1>7. ASSUME NEW x \in ToSet(w) PROVE x \in ToSet(s) \ {e}
  <2>1. PICK j \in 1..Len(w) : w[j] = x
    BY <1>4, InSeq
  <2>2. src(j) \in 1..Len(s) /\ src(j) # k /\ x = s[src(j)]
    BY <1>5, <2>1
  <2> HIDE DEF src
  <2> QED
    BY <1>2, <2>2, InSeq
<1>8. ASSUME NEW x \in ToSet(s) \ {e} PROVE x \in ToSet(w)
  <2>1. PICK m \in 1..Len(s) : s[m] = x
    BY InSeq
  <2>2. m # k
    BY <1>2, <2>1
  <2>3. PICK j \in 1..Len(w) : src(j) = m
    BY <1>6, <2>1, <2>2
  <2>4. w[j] = x
    BY <1>5, <2>1, <2>3
  <2> QED
    BY <1>4, <2>4, InSeq
<1>9. IsInjective(w)
  <2> SUFFICES ASSUME NEW i \in 1..Len(w), NEW j \in 1..Len(w), w[i] = w[j] PROVE i = j
    BY <1>4, InSeq
  <2>1. PICK a \in 1..Len(s) : a = src(i) /\ w[i] = s[a]
    BY <1>5
  <2>2. PICK b \in 1..Len(s) : b = src(j) /\ w[j] = s[b]
    BY <1>5
  <2>3. a = b
    <3>1. \A m, n \in 1..Len(s) : s[m] = s[n] => m = n
      BY InSeq
    <3>2. s[a] = s[b]
      BY <2>1, <2>2
    <3> QED
      BY <3>1, <3>2
  <2>4. i \in Nat /\ j \in Nat /\ k \in Nat
    BY <1>2, <1>4
  <2> QED
    BY <2>1, <2>2, <2>3, <2>4
<1> QED
  BY <1>4, <1>7, <1>8, <1>9 DEF w

-----------------------------------------------------------------------------
(* The operations                                                          *)
\* The parts of a heap.
LEMMA HeapFields ==
    ASSUME NEW h \in Heaps
    PROVE  /\ h.chunk \in Chunks /\ h.entries \in Seq(Int) /\ h.end \in Int
           /\ h.pages \subseteq Int /\ h.old \subseteq Int
           /\ h.chunk \in [DOMAIN h.chunk -> Chunk] /\ DOMAIN h.chunk \subseteq Int
           /\ \A x \in DOMAIN h.chunk : /\ h.chunk[x] \in Chunk /\ h.chunk[x].size \in Int
                                        /\ h.chunk[x].foot \in Int /\ h.chunk[x].flag \in {"hole", "block"}
           /\ DOMAIN Sizes(h.chunk) = DOMAIN h.chunk
           /\ \A x \in DOMAIN h.chunk : Sizes(h.chunk)[x] = h.chunk[x].size
<1>1. /\ h.chunk \in Chunks /\ h.entries \in Seq(Int) /\ h.end \in Int
      /\ h.pages \subseteq Int /\ h.old \subseteq Int
  BY DEF Heaps
<1>2. PICK D \in SUBSET Int : h.chunk \in [D -> Chunk]
  BY <1>1 DEF Chunks
<1>3. D = DOMAIN h.chunk
  BY <1>2
<1>4. \A x \in D : h.chunk[x] \in Chunk
  BY <1>2
<1>5. \A u \in Chunk : u.size \in Int /\ u.foot \in Int /\ u.flag \in {"hole", "block"}
  BY DEF Chunk
<1>6. DOMAIN Sizes(h.chunk) = DOMAIN h.chunk /\ \A x \in DOMAIN h.chunk : Sizes(h.chunk)[x] = h.chunk[x].size
  BY DEF Sizes
<1> QED
  BY <1>1, <1>2, <1>3, <1>4, <1>5, <1>6

\* New chunks are chunks.
LEMMA NewChunks ==
    /\ \A n, f \in Int : /\ Hole(n, f) \in Chunk /\ Hole(n, f).size = n /\ Hole(n, f).flag = "hole"
                         /\ Block(n, f) \in Chunk /\ Block(n, f).size = n /\ Block(n, f).flag = "block"
                         /\ Block(n, f).foot = f
    /\ \A D \in SUBSET Int : \A c \in [D -> Chunk] : c \in Chunks
BY DEF Hole, Block, Chunk, Chunks

\* A heap in trouble is one.
LEMMA TroubledIs ==
    ASSUME NEW what
    PROVE  Troubled(what).trouble = what
BY DEF Troubled, create_heap

\* An entry is added to the index and to nothing else.
LEMMA AddEntry ==
    ASSUME NEW h \in Heaps, NEW e \in Int
    PROVE  \E w \in Seq(Int) :
             /\ heap_add_entry(h, e) = [h EXCEPT !.entries = w]
             /\ ToSet(w) = ToSet(h.entries) \cup {e}
             /\ IsInjective(h.entries) /\ e \notin ToSet(h.entries) => IsInjective(w)
<1> DEFINE s == h.entries
           I == {i \in 1..Len(s) : h.chunk[s[i]].size >= h.chunk[e].size}
           k == IF I # {} THEN Min(I) ELSE 0
           w == IF k = 0 THEN Append(s, e) ELSE InsertAt(s, k, e)
<1>1. s \in Seq(Int)
  BY HeapFields
<1>2. SelectInSeq(h.entries, LAMBDA x : h.chunk[x].size >= h.chunk[e].size) = k
  BY DEF SelectInSeq
<1>3. heap_add_entry(h, e) = [h EXCEPT !.entries = w]
  BY <1>2 DEF heap_add_entry
<1>4. k = 0 \/ k \in 1..Len(s)
  <2>1. I \subseteq 1..Len(s) /\ Len(s) \in Nat
    BY <1>1
  <2> HIDE DEF I
  <2>2. I # {} => Min(I) \in I
    BY <2>1, FirstPlace
  <2> QED
    BY <2>1, <2>2
<1> HIDE DEF k
<1>5. w \in {Append(s, e)} \cup {InsertAt(s, i, e) : i \in 1..Len(s)}
  BY <1>4
<1> HIDE DEF w
<1>6. /\ w \in Seq(Int) /\ ToSet(w) = ToSet(s) \cup {e}
      /\ IsInjective(s) /\ e \notin ToSet(s) => IsInjective(w)
  <2> HIDE DEF s
  <2> QED
    BY <1>1, <1>5, InsertRight
<1> QED
  BY <1>3, <1>6

\* An entry is taken from the index and from nothing else.
LEMMA DelEntry ==
    ASSUME NEW h \in Heaps, NEW e \in ToSet(h.entries), IsInjective(h.entries)
    PROVE  \E w \in Seq(Int) :
             /\ heap_del_entry(h, e) = [h EXCEPT !.entries = w]
             /\ ToSet(w) = ToSet(h.entries) \ {e} /\ IsInjective(w)
<1>1. h.entries \in Seq(Int)
  BY HeapFields
<1>2. heap_del_entry(h, e) = [h EXCEPT !.entries = RemoveFirst(h.entries, e)]
  BY DEF heap_del_entry
<1> QED
  BY <1>1, <1>2, RemoveRight

\* Merged only remembers headers.
LEMMA MergedIs ==
    ASSUME NEW h \in Heaps, NEW e \in Int
    PROVE  \E o \in SUBSET Int : Merged(h, e) = [h EXCEPT !.old = o]
<1>1. h.old \in SUBSET Int /\ h = [h EXCEPT !.old = h.old] /\ h.old \cup {e} \in SUBSET Int
  BY DEF Heaps
<1> QED
  BY <1>1 DEF Merged

KeptBlocks(c, d) == Blocks(d) = Blocks(c) /\ \A x \in Blocks(c) : d[x] = c[x]

\* While a block is freed: the hole a, which may touch the one behind it and, if opt
\* says so, is not in the index.
Nearly(h, a, opt) ==
    /\ h \in Heaps /\ h.trouble = "none"
    /\ Tiling(Sizes(h.chunk), h.end) /\ Feet(h.chunk) /\ PagesOf(h)
    /\ a \in Holes(h.chunk)
    /\ Index(h.entries, IF opt THEN Holes(h.chunk) \ {a} ELSE Holes(h.chunk))
    /\ \A x, y \in Holes(h.chunk) : x + h.chunk[x].size = y => x = a

\* Chunks do not end at the same address.
LEMMA OneBefore ==
    ASSUME NEW z, NEW end, Tiling(z, end), NEW x \in DOMAIN z, NEW y \in DOMAIN z, x + z[x] = y + z[y]
    PROVE  x = y
<1>1. /\ x \in Int /\ y \in Int /\ z[x] \in Int /\ z[y] \in Int /\ z[x] >= 2 /\ z[y] >= 2
      /\ x < y => x + z[x] <= y
      /\ y < x => y + z[y] <= x
  BY DEF Tiling
<1> QED
  BY <1>1

\* The hole on the right of a freed block becomes part of it.
LEMMA MergeRightKeeps ==
    ASSUME NEW h, NEW a, NEW opt \in BOOLEAN, Nearly(h, a, opt)
    PROVE  LET g == MergeRight(h, a)
           IN  Nearly(g, a, opt) /\ Apart(g.chunk) /\ KeptBlocks(h.chunk, g.chunk)
<1> DEFINE b == a + h.chunk[a].size
           z == Sizes(h.chunk)
<1>1. /\ h \in Heaps /\ h.trouble = "none" /\ Tiling(z, h.end) /\ Feet(h.chunk) /\ PagesOf(h)
      /\ a \in Holes(h.chunk)
      /\ Index(h.entries, IF opt THEN Holes(h.chunk) \ {a} ELSE Holes(h.chunk))
      /\ \A x, y \in Holes(h.chunk) : x + h.chunk[x].size = y => x = a
  BY DEF Nearly
<1>2. a \in DOMAIN h.chunk /\ a \in Int /\ b \in Int /\ h.chunk[a].size \in Int /\ h.chunk[a].flag = "hole"
  BY <1>1, HeapFields DEF Holes
<1>3. CASE b \notin Holes(h.chunk)
  <2>1. MergeRight(h, a) = h
    BY <1>3 DEF MergeRight, Holes
  <2>2. Apart(h.chunk)
    BY <1>1, <1>3 DEF Apart
  <2> QED
    BY <2>1, <2>2 DEF KeptBlocks
<1>4. CASE b \in Holes(h.chunk)
  <2>1. b \in DOMAIN h.chunk /\ h.chunk[b].flag = "hole" /\ h.chunk[b].size \in Int /\ h.chunk[b].foot \in Int
    BY <1>1, <1>4, HeapFields DEF Holes
  <2>2. b # a /\ h.chunk[b].size >= 2 /\ h.chunk[a].size >= 2
    BY <1>1, <1>2, <2>1, HeapFields DEF Tiling
  <2>3. b \in ToSet(h.entries) /\ IsInjective(h.entries)
    BY <1>1, <1>4, <2>2 DEF Index
  <2>4. PICK w \in Seq(Int) : /\ heap_del_entry(h, b) = [h EXCEPT !.entries = w]
                              /\ ToSet(w) = ToSet(h.entries) \ {b} /\ IsInjective(w)
    BY <1>1, <2>3, DelEntry
  <2> DEFINE c == [x \in DOMAIN h.chunk \ {b} |->
                     IF x = a THEN Hole(h.chunk[a].size + h.chunk[b].size, h.chunk[b].foot) ELSE h.chunk[x]]
             k == [h EXCEPT !.entries = w, !.chunk = c]
  <2>5. MergeRight(h, a) = Merged(k, b)
    <3>1. [[h EXCEPT !.entries = w] EXCEPT !.chunk = c] = k
      BY <1>1 DEF Heaps
    <3>2. [h EXCEPT !.entries = w].chunk = h.chunk
      BY <1>1 DEF Heaps
    <3>3. [heap_del_entry(h, b) EXCEPT !.chunk = [x \in DOMAIN @ \ {b} |->
                        IF x = a THEN Hole(@[a].size + @[b].size, @[b].foot) ELSE @[x]]] = k
      BY <2>4, <3>1, <3>2
    <3> QED
      BY <2>1, <3>3 DEF MergeRight
  <2>6. /\ DOMAIN c = DOMAIN h.chunk \ {b} /\ a \in DOMAIN c
        /\ c[a].size = h.chunk[a].size + h.chunk[b].size /\ c[a].flag = "hole"
        /\ \A x \in DOMAIN c : c[x] \in Chunk /\ (x # a => c[x] = h.chunk[x])
    <3>1. h.chunk[a].size + h.chunk[b].size \in Int
      BY <1>2, <2>1
    <3> DEFINE u == Hole(h.chunk[a].size + h.chunk[b].size, h.chunk[b].foot)
    <3>2. u \in Chunk /\ u.size = h.chunk[a].size + h.chunk[b].size /\ u.flag = "hole"
      BY <2>1, <3>1, NewChunks
    <3>3. \A x \in DOMAIN h.chunk : h.chunk[x] \in Chunk
      BY <1>1, HeapFields
    <3> HIDE DEF u
    <3>4. c = [x \in DOMAIN h.chunk \ {b} |-> IF x = a THEN u ELSE h.chunk[x]]
      BY DEF u
    <3> HIDE DEF c
    <3> QED
      BY <1>2, <2>2, <3>2, <3>3, <3>4
  <2>7. c \in Chunks
    <3>1. DOMAIN c \in SUBSET Int /\ c \in [DOMAIN c -> Chunk]
      BY <1>1, <2>6, HeapFields
    <3> HIDE DEF c
    <3> QED
      BY <3>1, NewChunks
  <2> HIDE DEF c
  <2>8. k \in Heaps /\ k.chunk = c /\ k.entries = w /\ k.end = h.end /\ k.pages = h.pages /\ k.trouble = h.trouble
    BY <1>1, <2>7 DEF Heaps
  <2> HIDE DEF k
  <2>9. PICK o \in SUBSET Int : Merged(k, b) = [k EXCEPT !.old = o]
    BY <1>2, <2>8, MergedIs
  <2> DEFINE g == MergeRight(h, a)
  <2>10. /\ g \in Heaps /\ g.chunk = c /\ g.entries = w /\ g.end = h.end /\ g.pages = h.pages
         /\ g.trouble = h.trouble
    BY <2>5, <2>8, <2>9 DEF Heaps
  <2> HIDE DEF g
  <2>11. Tiling(Sizes(c), h.end)
    <3>1. Sizes(c) = JoinAt(z, a)
      BY <1>1, <1>2, <2>1, <2>2, <2>6, HeapFields DEF Sizes, JoinAt
    <3>2. a \in DOMAIN z /\ a + z[a] \in DOMAIN z
      BY <1>1, <1>2, <2>1, HeapFields
    <3> HIDE DEF z
    <3> QED
      BY <1>1, <3>1, <3>2, JoinTiles
  <2>12. Holes(c) = Holes(h.chunk) \ {b} /\ Blocks(c) = Blocks(h.chunk)
    BY <1>2, <2>1, <2>2, <2>6 DEF Holes, Blocks
  <2>13. Index(w, IF opt THEN Holes(c) \ {a} ELSE Holes(c))
    BY <1>1, <2>4, <2>12 DEF Index
  <2>14. \A x \in Blocks(h.chunk) : c[x] = h.chunk[x]
    BY <1>2, <2>1, <2>6 DEF Blocks
  <2>15. ASSUME NEW x \in Holes(c), NEW y \in Holes(c), x + c[x].size = y PROVE FALSE
    <3>1. x \in Holes(h.chunk) /\ y \in Holes(h.chunk) /\ x # b /\ y # b /\ y \in DOMAIN h.chunk
      BY <2>12 DEF Holes
    <3>2. x = a
      <4> SUFFICES ASSUME x # a PROVE FALSE
        OBVIOUS
      <4>1. c[x] = h.chunk[x]
        BY <2>6 DEF Holes
      <4> QED
        BY <1>1, <2>15, <3>1, <4>1
    <3>3. y = b + h.chunk[b].size
      BY <1>2, <2>1, <2>6, <2>15, <3>2
    <3>4. b = a
      BY <1>1, <1>4, <3>1, <3>3
    <3> QED
      BY <2>2, <3>4
  <2>16. Feet(c)
    BY <1>1, <2>12, <2>14 DEF Feet
  <2>17. PagesOf(g)
    BY <1>1, <2>10 DEF PagesOf
  <2>18. a \in Holes(c)
    BY <2>6 DEF Holes
  <2>19. Nearly(g, a, opt)
    BY <1>1, <2>10, <2>11, <2>13, <2>15, <2>16, <2>17, <2>18 DEF Nearly
  <2> QED
    BY <2>10, <2>12, <2>14, <2>15, <2>19 DEF Apart, KeptBlocks, g
<1> QED
  BY <1>3, <1>4

\* Pages are given back behind an address, but never so that less than HeapMin is left.
LEMMA ContractRight ==
    ASSUME NEW h \in Heaps, PagesOf(h), NEW a \in Int, HeapStart <= a, a < h.end
    PROVE  \E stop \in Int, pg \in SUBSET Int :
             LET c == [h EXCEPT !.end = stop, !.pages = pg]
             IN  contract_heap(h, a - HeapStart) = c /\ a <= stop /\ HeapStart < stop /\ PagesOf(c)
<1> DEFINE newsize == a - HeapStart
           size == h.end - HeapStart
           up == RoundUp(newsize)
           new == IF up < HeapMin THEN HeapMin ELSE up
           freed == {PageOf(HeapStart + i) : i \in {j \in new + 1..size - Frame : j % Frame = 0}}
           stop == HeapStart + new
           pg == h.pages \ freed
           c == [h EXCEPT !.end = stop, !.pages = pg]
<1>1. /\ HeapStart \in Nat /\ HeapMin \in Nat /\ HeapMin > 0 /\ Frame \in Nat /\ HeapLimit \in Nat
      /\ HeapStart % Frame = 0 /\ HeapMin % Frame = 0
  BY HeapConstants
<1>2. h.end \in Int /\ h.pages \subseteq Int
  BY HeapFields
<1>3. /\ h.end % Frame = 0 /\ HeapMin <= size /\ size <= HeapLimit
      /\ PageOf(HeapStart)..PageOf(h.end) - 1 \subseteq h.pages
  BY DEF PagesOf
<1>4. newsize \in Int /\ size \in Int /\ newsize < size
  BY <1>1, <1>2
<1>5. size % Frame = 0
  BY <1>1, <1>2, <1>3, MultiplesAdd
<1>6. contract_heap(h, newsize) = c
  <2>1. ~(newsize >= size)
    BY <1>4
  <2> QED
    BY <2>1 DEF contract_heap
<1> HIDE DEF newsize
<1>7. up \in Int /\ up % Frame = 0 /\ up >= newsize /\ up <= size
  BY <1>4, <1>5, RoundUpRight
<1> HIDE DEF up, size
<1>8. new \in Int /\ new % Frame = 0 /\ new >= newsize /\ new <= size /\ new >= HeapMin
  BY <1>1, <1>3, <1>4, <1>7
<1> HIDE DEF new
<1>9. stop \in Int /\ stop % Frame = 0 /\ a <= stop /\ HeapStart < stop /\ stop - HeapStart = new /\ stop <= h.end
  <2>1. stop % Frame = 0
    <3>1. HeapStart \in Int
      BY <1>1
    <3> QED
      BY <1>1, <1>8, <3>1, MultiplesAdd
  <2> QED
    BY <1>1, <1>2, <1>4, <1>8, <2>1 DEF newsize, size
<1>10. \A p \in freed : p \in Int /\ p >= PageOf(stop)
  <2> SUFFICES ASSUME NEW i \in new + 1..size - Frame PROVE PageOf(HeapStart + i) \in Int /\ PageOf(HeapStart + i) >= PageOf(stop)
    OBVIOUS
  <2>1. HeapStart + i \in Int /\ stop <= HeapStart + i
    BY <1>1, <1>4, <1>8
  <2> HIDE DEF stop
  <2>2. PageOf(HeapStart + i) \in Int /\ PageOf(stop) \in Int /\ PageOf(stop) <= PageOf(HeapStart + i)
    BY <1>9, <2>1, PagesFollow
  <2> QED
    BY <2>2
<1> HIDE DEF freed, stop
<1>11. PageOf(stop) \in Int /\ PageOf(h.end) \in Int /\ PageOf(stop) <= PageOf(h.end) /\ PageOf(HeapStart) \in Int
  BY <1>1, <1>2, <1>9, PagesFollow
<1>12. PageOf(HeapStart)..PageOf(stop) - 1 \subseteq pg
  <2> SUFFICES ASSUME NEW p \in PageOf(HeapStart)..PageOf(stop) - 1 PROVE p \in h.pages /\ p \notin freed
    OBVIOUS
  <2>1. p \in PageOf(HeapStart)..PageOf(h.end) - 1 /\ ~(p >= PageOf(stop))
    BY <1>11
  <2> QED
    BY <1>3, <1>10, <2>1
<1>13. c.end = stop /\ c.pages = pg /\ pg \in SUBSET Int
  BY <1>2 DEF Heaps
<1>14. PagesOf(c)
  <2> HIDE DEF c, pg
  <2> QED
    BY <1>1, <1>3, <1>4, <1>8, <1>9, <1>12, <1>13 DEF PagesOf
<1> QED
  BY <1>6, <1>9, <1>13, <1>14 DEF newsize

\* The last step of heap_free, with the hole merged and its neighbours blocks.
LEMMA FreeTailKeeps ==
    ASSUME NEW h, NEW a, NEW opt \in BOOLEAN, Nearly(h, a, opt), Apart(h.chunk)
    PROVE  LET g == FreeTail(h, a, opt)
           IN  g.trouble = "none" => HeapOK(g) /\ KeptBlocks(h.chunk, g.chunk)
<1> DEFINE z == Sizes(h.chunk)
           g == FreeTail(h, a, opt)
<1>1. /\ h \in Heaps /\ h.trouble = "none" /\ Tiling(z, h.end) /\ Feet(h.chunk) /\ PagesOf(h)
      /\ a \in Holes(h.chunk)
      /\ Index(h.entries, IF opt THEN Holes(h.chunk) \ {a} ELSE Holes(h.chunk))
  BY DEF Nearly
<1>2. /\ a \in DOMAIN h.chunk /\ a \in Int /\ h.chunk[a].size \in Int /\ h.chunk[a].flag = "hole"
      /\ h.end \in Int /\ h.entries \in Seq(Int) /\ h.chunk \in Chunks
  BY <1>1, HeapFields DEF Holes
<1>3. HeapStart <= a /\ h.chunk[a].size >= 2 /\ a + h.chunk[a].size <= h.end /\ HeapStart \in Nat
  BY <1>1, <1>2, HeapFields, HeapConstants DEF Tiling
<1>4. CASE a + h.chunk[a].size # h.end
  <2>1. CASE ~opt
    <3>1. g = h
      BY <1>4, <2>1 DEF FreeTail
    <3> QED
      BY <1>1, <2>1, <3>1 DEF HeapOK, KeptBlocks
  <2>2. CASE opt
    <3>1. g = heap_add_entry(h, a)
      BY <1>4, <2>2 DEF FreeTail
    <3>2. PICK w \in Seq(Int) : /\ heap_add_entry(h, a) = [h EXCEPT !.entries = w]
                                /\ ToSet(w) = ToSet(h.entries) \cup {a}
                                /\ IsInjective(h.entries) /\ a \notin ToSet(h.entries) => IsInjective(w)
      BY <1>1, <1>2, AddEntry
    <3>3. Index(w, Holes(h.chunk))
      BY <1>1, <2>2, <3>2 DEF Index
    <3>4. /\ g \in Heaps /\ g.chunk = h.chunk /\ g.entries = w /\ g.end = h.end /\ g.pages = h.pages
          /\ g.trouble = "none"
      BY <1>1, <3>1, <3>2 DEF Heaps
    <3> QED
      BY <1>1, <3>3, <3>4 DEF HeapOK, KeptBlocks, PagesOf
  <2> QED
    BY <2>1, <2>2
<1>5. CASE a + h.chunk[a].size = h.end
  <2>1. a < h.end
    BY <1>2, <1>3
  <2>2. PICK stop \in Int, pg \in SUBSET Int :
             LET c == [h EXCEPT !.end = stop, !.pages = pg]
             IN  contract_heap(h, a - HeapStart) = c /\ a <= stop /\ HeapStart < stop /\ PagesOf(c)
    BY <1>1, <1>2, <1>3, <2>1, ContractRight
  <2> DEFINE c == [h EXCEPT !.end = stop, !.pages = pg]
             left == stop - a
  <2>3. /\ c \in Heaps /\ c.end = stop /\ c.pages = pg /\ c.chunk = h.chunk /\ c.entries = h.entries
        /\ c.trouble = "none"
    BY <1>1 DEF Heaps
  <2>4. contract_heap(h, a - HeapStart) = c /\ a <= stop /\ HeapStart < stop /\ PagesOf(c)
    BY <2>2
  <2> HIDE DEF c
  <2>5. left \in Int /\ left >= 0 /\ c.end - a = left /\ a + left = stop
    BY <1>2, <2>3, <2>4
  <2> HIDE DEF left
  <2>6. CASE left = 1 \/ (left = 0 /\ opt)
    <3>1. g = Troubled("overlap") \/ g = Troubled("beyond")
      BY <1>5, <2>4, <2>5, <2>6 DEF FreeTail
    <3>2. Troubled("overlap").trouble = "overlap" /\ Troubled("beyond").trouble = "beyond"
      BY TroubledIs
    <3>3. g.trouble # "none"
      <4> HIDE DEF g
      <4> QED
        BY <3>1, <3>2
    <3> QED
      BY <3>3
  <2>7. CASE left = 0 /\ ~opt
    <3>1. IsInjective(c.entries) /\ a \in ToSet(c.entries)
      BY <1>1, <2>3, <2>7 DEF Index
    <3>2. PICK w \in Seq(Int) : /\ heap_del_entry(c, a) = [c EXCEPT !.entries = w]
                                /\ ToSet(w) = ToSet(c.entries) \ {a} /\ IsInjective(w)
      BY <2>3, <3>1, DelEntry
    <3> DEFINE d == [x \in DOMAIN h.chunk \ {a} |-> h.chunk[x]]
               k == [c EXCEPT !.entries = w, !.chunk = d]
    <3>3. g = Merged(k, a)
      <4>1. [[c EXCEPT !.entries = w] EXCEPT !.chunk = d] = k /\ [c EXCEPT !.entries = w].chunk = h.chunk
        BY <2>3 DEF Heaps
      <4>2. [heap_del_entry(c, a) EXCEPT !.chunk = [x \in DOMAIN @ \ {a} |-> @[x]]] = k
        BY <3>2, <4>1
      <4> QED
        BY <1>5, <2>4, <2>5, <2>7, <4>2, SMTT(30) DEF FreeTail
    <3>4. DOMAIN d = DOMAIN h.chunk \ {a} /\ \A x \in DOMAIN d : d[x] = h.chunk[x]
      OBVIOUS
    <3>5. d \in Chunks
      <4>1. DOMAIN d \in SUBSET Int /\ d \in [DOMAIN d -> Chunk]
        BY <1>1, HeapFields
      <4> HIDE DEF d
      <4> QED
        BY <4>1, NewChunks
    <3> HIDE DEF d
    <3>6. k \in Heaps /\ k.chunk = d /\ k.entries = w /\ k.end = stop /\ k.pages = pg /\ k.trouble = "none"
      BY <2>3, <3>5 DEF Heaps
    <3> HIDE DEF k
    <3>7. PICK o \in SUBSET Int : Merged(k, a) = [k EXCEPT !.old = o]
      BY <1>2, <3>6, MergedIs
    <3>8. g \in Heaps /\ g.chunk = d /\ g.entries = w /\ g.end = stop /\ g.pages = pg /\ g.trouble = "none"
      BY <3>3, <3>6, <3>7 DEF Heaps
    <3> HIDE DEF g
    <3>9. Tiling(Sizes(d), stop)
      <4>1. Sizes(d) = DropAt(z, a)
        BY <1>1, <3>4, HeapFields DEF Sizes, DropAt
      <4>2. a \in DOMAIN z /\ a + z[a] = h.end
        BY <1>1, <1>2, <1>5, HeapFields
      <4>3. a = stop /\ a # HeapStart
        BY <1>2, <1>3, <2>4, <2>5, <2>7
      <4> HIDE DEF z
      <4> QED
        BY <1>1, <4>1, <4>2, <4>3, DropTiles
    <3>10. Holes(d) = Holes(h.chunk) \ {a} /\ Blocks(d) = Blocks(h.chunk)
      BY <1>2, <3>4 DEF Holes, Blocks
    <3>11. Index(w, Holes(d))
      BY <1>1, <2>3, <2>7, <3>2, <3>10 DEF Index
    <3>12. KeptBlocks(h.chunk, d) /\ Feet(d)
      <4>1. \A x \in Blocks(h.chunk) : d[x] = h.chunk[x]
        BY <1>2, <3>4 DEF Blocks
      <4> QED
        BY <1>1, <3>10, <4>1 DEF KeptBlocks, Feet
    <3>13. Apart(d)
      <4>1. \A x \in Holes(d) : x \in Holes(h.chunk) /\ d[x] = h.chunk[x]
        BY <3>4 DEF Holes
      <4> QED
        BY <4>1 DEF Apart
    <3>14. PagesOf(g)
      BY <2>3, <2>4, <3>8 DEF PagesOf
    <3>15. HeapOK(g) /\ KeptBlocks(h.chunk, g.chunk)
      BY <3>8, <3>9, <3>11, <3>12, <3>13, <3>14 DEF HeapOK
    <3> QED
      BY <3>15 DEF g
  <2>8. CASE left >= 2
    <3> DEFINE d == [h.chunk EXCEPT ![a] = Hole(left, a)]
               k == [c EXCEPT !.chunk = d]
    <3>1. k = [c EXCEPT !.chunk[a] = Hole(left, a)]
      BY <2>3
    <3>2. g = IF opt THEN heap_add_entry(k, a) ELSE k
      BY <1>5, <2>4, <2>5, <2>8, <3>1 DEF FreeTail
    <3>3. /\ DOMAIN d = DOMAIN h.chunk /\ d[a].size = left /\ d[a].flag = "hole"
          /\ \A x \in DOMAIN d : d[x] \in Chunk /\ (x # a => d[x] = h.chunk[x])
      <4> DEFINE u == Hole(left, a)
      <4>0. left \in Int /\ a \in Int
        BY <1>2, <2>5
      <4>1. u \in Chunk /\ u.size = left /\ u.flag = "hole"
        BY <4>0, NewChunks
      <4>2. \A x \in DOMAIN h.chunk : h.chunk[x] \in Chunk
        BY <1>1, HeapFields
      <4>3. h.chunk \in [DOMAIN h.chunk -> Chunk]
        BY <1>1, HeapFields
      <4> HIDE DEF u
      <4>4. d = [h.chunk EXCEPT ![a] = u]
        BY DEF u
      <4> HIDE DEF d
      <4> QED
        BY <1>2, <4>1, <4>2, <4>3, <4>4
    <3>4. d \in Chunks
      <4>1. DOMAIN d \in SUBSET Int /\ d \in [DOMAIN d -> Chunk]
        <5>1. DOMAIN d \in SUBSET Int
          BY <1>1, <3>3, HeapFields
        <5>2. h.chunk \in [DOMAIN h.chunk -> Chunk]
          BY <1>1, HeapFields
        <5> QED
          BY <3>3, <5>1, <5>2
      <4> HIDE DEF d
      <4> QED
        BY <4>1, NewChunks
    <3> HIDE DEF d
    <3>5. k \in Heaps /\ k.chunk = d /\ k.entries = h.entries /\ k.end = stop /\ k.pages = pg /\ k.trouble = "none"
      BY <2>3, <3>4 DEF Heaps
    <3> HIDE DEF k
    <3>6. Holes(d) = Holes(h.chunk) /\ Blocks(d) = Blocks(h.chunk)
      BY <1>2, <3>3 DEF Holes, Blocks
    <3>7. g \in Heaps /\ g.chunk = d /\ g.end = stop /\ g.pages = pg /\ g.trouble = "none" /\ Index(g.entries, Holes(d))
      <4>1. CASE ~opt
        BY <1>1, <3>2, <3>5, <3>6, <4>1
      <4>2. CASE opt
        <5>1. PICK w \in Seq(Int) : /\ heap_add_entry(k, a) = [k EXCEPT !.entries = w]
                                    /\ ToSet(w) = ToSet(k.entries) \cup {a}
                                    /\ IsInjective(k.entries) /\ a \notin ToSet(k.entries) => IsInjective(w)
          BY <1>2, <3>5, AddEntry
        <5>2. Index(w, Holes(d))
          BY <1>1, <3>5, <3>6, <4>2, <5>1 DEF Index
        <5>3. /\ g \in Heaps /\ g.chunk = d /\ g.end = stop /\ g.pages = pg /\ g.trouble = "none"
              /\ g.entries = w
          BY <3>2, <3>5, <4>2, <5>1 DEF Heaps
        <5> QED
          BY <5>2, <5>3
      <4> QED
        BY <4>1, <4>2
    <3> HIDE DEF g
    <3>8. Tiling(Sizes(d), stop)
      <4>1. Sizes(d) = ResizeAt(z, a, left)
        BY <1>1, <3>3, HeapFields DEF Sizes, ResizeAt
      <4>2. a \in DOMAIN z /\ a + z[a] = h.end
        BY <1>1, <1>2, <1>5, HeapFields
      <4> HIDE DEF z
      <4> QED
        BY <1>1, <2>5, <2>8, <4>1, <4>2, ResizeTiles
    <3>9. KeptBlocks(h.chunk, d) /\ Feet(d)
      <4>1. \A x \in Blocks(h.chunk) : d[x] = h.chunk[x]
        BY <1>2, <3>3 DEF Blocks
      <4> QED
        BY <1>1, <3>6, <4>1 DEF KeptBlocks, Feet
    <3>10. Apart(d)
      <4> SUFFICES ASSUME NEW x \in Holes(d), NEW y \in Holes(d), x + d[x].size = y PROVE FALSE
        BY DEF Apart
      <4>1. x \in Holes(h.chunk) /\ y \in Holes(h.chunk) /\ x \in DOMAIN d /\ y \in DOMAIN d
        BY <3>6 DEF Holes
      <4>2. CASE x # a
        BY <3>3, <4>1, <4>2 DEF Apart
      <4>3. CASE x = a
        <5>1. y = stop /\ y + d[y].size <= stop /\ d[y].size >= 2 /\ d[y].size \in Int
          BY <2>5, <3>3, <3>8, <4>1, <4>3 DEF Tiling, Sizes
        <5> QED
          BY <5>1
      <4> QED
        BY <4>2, <4>3
    <3>11. PagesOf(g)
      BY <2>3, <2>4, <3>7 DEF PagesOf
    <3>12. HeapOK(g) /\ KeptBlocks(h.chunk, g.chunk)
      BY <3>7, <3>8, <3>9, <3>10, <3>11 DEF HeapOK
    <3> QED
      BY <3>12 DEF g
  <2> QED
    BY <2>5, <2>6, <2>7, <2>8
<1> QED
  BY <1>4, <1>5

\* A block is freed: it is gone, the others are as they were.
LEMMA FreeKeeps ==
    ASSUME NEW h, HeapOK(h), NEW a \in Blocks(h.chunk), NEW magic
    PROVE  LET g == heap_free(h, a, magic)
           IN  g.trouble = "none" => /\ HeapOK(g) /\ Blocks(g.chunk) = Blocks(h.chunk) \ {a}
                                     /\ \A x \in Blocks(g.chunk) : g.chunk[x] = h.chunk[x]
<1> DEFINE z == Sizes(h.chunk)
           lefts == {x \in DOMAIN h.chunk : x + h.chunk[x].size = a /\ h.chunk[x].flag = "hole"}
           l == CHOOSE x \in lefts : TRUE
           freed == [h EXCEPT !.chunk[a].flag = "hole"]
           jc == [x \in DOMAIN h.chunk \ {a} |->
                    IF x = l THEN Hole(h.chunk[l].size + h.chunk[a].size, l) ELSE h.chunk[x]]
           joined == Merged([h EXCEPT !.chunk = jc], a)
           g == heap_free(h, a, magic)
<1>1. /\ h \in Heaps /\ h.trouble = "none" /\ Tiling(z, h.end) /\ Index(h.entries, Holes(h.chunk))
      /\ Apart(h.chunk) /\ Feet(h.chunk) /\ PagesOf(h)
  BY DEF HeapOK
<1>2. /\ a \in DOMAIN h.chunk /\ a \in Int /\ h.chunk[a].size \in Int /\ h.chunk[a].flag = "block"
      /\ h.chunk[a] \in Chunk /\ h.chunk[a].foot \in Int
  BY <1>1, HeapFields DEF Blocks
<1>3. h.chunk[a].size >= 2
  BY <1>1, <1>2, HeapFields DEF Tiling
<1>4. \/ g.trouble # "none"
      \/ lefts = {} /\ g = FreeTail(MergeRight(freed, a), a, TRUE)
      \/ lefts # {} /\ g = FreeTail(MergeRight(joined, l), l, FALSE)
  <2>1. \/ g \in {Troubled("stale"), Troubled("fault"), Troubled("ghost")}
        \/ lefts = {} /\ g = FreeTail(MergeRight(freed, a), a, TRUE)
        \/ lefts # {} /\ g = FreeTail(MergeRight(joined, l), l, FALSE)
    <3> HIDE DEF lefts, l, freed, joined
    <3> QED
      BY <1>1 DEF heap_free, lefts, l, freed, joined
  <2>2. /\ Troubled("stale").trouble = "stale" /\ Troubled("fault").trouble = "fault"
        /\ Troubled("ghost").trouble = "ghost"
    BY TroubledIs
  <2> HIDE DEF g, lefts, l, freed, joined
  <2> QED
    BY <2>1, <2>2
<1> HIDE DEF g
<1>5. CASE lefts = {} /\ g = FreeTail(MergeRight(freed, a), a, TRUE)
  <2> DEFINE d == [h.chunk EXCEPT ![a].flag = "hole"]
  <2>1. freed = [h EXCEPT !.chunk = d]
    OBVIOUS
  <2>2. /\ DOMAIN d = DOMAIN h.chunk /\ d[a].size = h.chunk[a].size /\ d[a].flag = "hole" /\ d[a] \in Chunk
        /\ \A x \in DOMAIN d : x # a => d[x] = h.chunk[x]
    <3> DEFINE u == [h.chunk[a] EXCEPT !.flag = "hole"]
    <3>1. u \in Chunk /\ u.size = h.chunk[a].size /\ u.flag = "hole"
      BY <1>2 DEF Chunk
    <3>2. h.chunk \in [DOMAIN h.chunk -> Chunk]
      BY <1>1, HeapFields
    <3>3. d = [h.chunk EXCEPT ![a] = u]
      OBVIOUS
    <3> HIDE DEF u, d
    <3> QED
      BY <1>2, <3>1, <3>2, <3>3
  <2>3. d \in Chunks
    <3>1. DOMAIN d \in SUBSET Int /\ d \in [DOMAIN d -> Chunk]
      <4>1. DOMAIN d \in SUBSET Int
        BY <1>1, <2>2, HeapFields
      <4>2. h.chunk \in [DOMAIN h.chunk -> Chunk]
        BY <1>1, HeapFields
      <4> QED
        BY <2>2, <4>1, <4>2
    <3> HIDE DEF d
    <3> QED
      BY <3>1, NewChunks
  <2> HIDE DEF d, freed
  <2>4. /\ freed \in Heaps /\ freed.chunk = d /\ freed.entries = h.entries /\ freed.end = h.end
        /\ freed.pages = h.pages /\ freed.trouble = "none"
    BY <1>1, <2>1, <2>3 DEF Heaps
  <2>5. Holes(d) = Holes(h.chunk) \cup {a} /\ Blocks(d) = Blocks(h.chunk) \ {a} /\ a \notin Holes(h.chunk)
    BY <1>2, <2>2 DEF Holes, Blocks
  <2>6. Tiling(Sizes(d), h.end)
    <3>1. Sizes(d) = z
      BY <1>2, <2>2 DEF Sizes
    <3> QED
      BY <1>1, <3>1
  <2>7. Index(h.entries, Holes(d) \ {a})
    BY <1>1, <2>5 DEF Index
  <2>8. \A x \in Blocks(d) : d[x] = h.chunk[x] /\ x \in Blocks(h.chunk)
    BY <2>2, <2>5 DEF Blocks
  <2>9. ASSUME NEW x \in Holes(d), NEW y \in Holes(d), x + d[x].size = y PROVE x = a
    <3> SUFFICES ASSUME x # a PROVE FALSE
      OBVIOUS
    <3>1. x \in Holes(h.chunk) /\ d[x] = h.chunk[x] /\ x \in DOMAIN h.chunk /\ h.chunk[x].flag = "hole"
      BY <2>2, <2>5 DEF Holes
    <3>2. y # a
      BY <1>5, <2>9, <3>1
    <3> QED
      BY <1>1, <2>5, <2>9, <3>1, <3>2 DEF Apart
  <2>10. Feet(d)
    BY <1>1, <2>8 DEF Feet
  <2>11. Nearly(freed, a, TRUE)
    BY <1>1, <2>4, <2>5, <2>6, <2>7, <2>9, <2>10 DEF Nearly, PagesOf
  <2> DEFINE m == MergeRight(freed, a)
  <2>12. Nearly(m, a, TRUE) /\ Apart(m.chunk) /\ KeptBlocks(freed.chunk, m.chunk)
    BY <2>11, MergeRightKeeps
  <2> HIDE DEF m
  <2>13. g.trouble = "none" => HeapOK(g) /\ KeptBlocks(m.chunk, g.chunk)
    BY <1>5, <2>12, FreeTailKeeps DEF m
  <2> QED
    BY <2>4, <2>5, <2>8, <2>12, <2>13 DEF KeptBlocks, g
<1>6. CASE lefts # {} /\ g = FreeTail(MergeRight(joined, l), l, FALSE)
  <2>1. /\ l \in DOMAIN h.chunk /\ l + h.chunk[l].size = a /\ h.chunk[l].flag = "hole"
        /\ l \in Int /\ h.chunk[l].size \in Int
    <3>1. l \in lefts
      BY <1>6
    <3> HIDE DEF l
    <3> QED
      BY <1>1, <3>1, HeapFields
  <2> HIDE DEF l
  <2>2. l # a
    BY <1>2, <2>1
  <2>3. /\ DOMAIN jc = DOMAIN h.chunk \ {a} /\ jc[l].size = h.chunk[l].size + h.chunk[a].size
        /\ jc[l].flag = "hole"
        /\ \A x \in DOMAIN jc : jc[x] \in Chunk /\ (x # l => jc[x] = h.chunk[x])
    <3> DEFINE u == Hole(h.chunk[l].size + h.chunk[a].size, l)
    <3>1. h.chunk[l].size + h.chunk[a].size \in Int
      BY <1>2, <2>1
    <3>2. u \in Chunk /\ u.size = h.chunk[l].size + h.chunk[a].size /\ u.flag = "hole"
      BY <2>1, <3>1, NewChunks
    <3>3. \A x \in DOMAIN h.chunk : h.chunk[x] \in Chunk
      BY <1>1, HeapFields
    <3> HIDE DEF u
    <3>4. jc = [x \in DOMAIN h.chunk \ {a} |-> IF x = l THEN u ELSE h.chunk[x]]
      BY DEF u
    <3> HIDE DEF jc
    <3> QED
      BY <2>1, <2>2, <3>2, <3>3, <3>4
  <2>4. jc \in Chunks
    <3>1. DOMAIN jc \in SUBSET Int /\ jc \in [DOMAIN jc -> Chunk]
      BY <1>1, <2>3, HeapFields
    <3> HIDE DEF jc
    <3> QED
      BY <3>1, NewChunks
  <2> HIDE DEF jc
  <2> DEFINE k == [h EXCEPT !.chunk = jc]
  <2>5. k \in Heaps /\ k.chunk = jc /\ k.entries = h.entries /\ k.end = h.end /\ k.pages = h.pages /\ k.trouble = "none"
    BY <1>1, <2>4 DEF Heaps
  <2> HIDE DEF k
  <2>6. PICK o \in SUBSET Int : Merged(k, a) = [k EXCEPT !.old = o]
    BY <1>2, <2>5, MergedIs
  <2>7. joined = Merged(k, a)
    BY DEF k
  <2> HIDE DEF joined
  <2>8. /\ joined \in Heaps /\ joined.chunk = jc /\ joined.entries = h.entries /\ joined.end = h.end
        /\ joined.pages = h.pages /\ joined.trouble = "none"
    BY <2>5, <2>6, <2>7 DEF Heaps
  <2>9. Holes(jc) = Holes(h.chunk) /\ Blocks(jc) = Blocks(h.chunk) \ {a}
    BY <1>2, <2>1, <2>2, <2>3 DEF Holes, Blocks
  <2>10. Tiling(Sizes(jc), h.end)
    <3>1. Sizes(jc) = JoinAt(z, l)
      BY <1>1, <1>2, <2>1, <2>2, <2>3, HeapFields DEF Sizes, JoinAt
    <3>2. l \in DOMAIN z /\ l + z[l] \in DOMAIN z
      BY <1>1, <1>2, <2>1, HeapFields
    <3> HIDE DEF z
    <3> QED
      BY <1>1, <3>1, <3>2, JoinTiles
  <2>11. \A x \in Blocks(jc) : jc[x] = h.chunk[x] /\ x \in Blocks(h.chunk)
    BY <2>1, <2>3, <2>9 DEF Blocks
  <2>12. ASSUME NEW x \in Holes(jc), NEW y \in Holes(jc), x + jc[x].size = y PROVE x = l
    <3> SUFFICES ASSUME x # l PROVE FALSE
      OBVIOUS
    <3>1. x \in Holes(h.chunk) /\ jc[x] = h.chunk[x] /\ y \in Holes(h.chunk)
      BY <2>3, <2>9 DEF Holes
    <3> QED
      BY <1>1, <2>12, <3>1 DEF Apart
  <2>13. Feet(jc) /\ l \in Holes(jc)
    BY <1>1, <2>1, <2>9, <2>11 DEF Feet, Holes
  <2>14. Nearly(joined, l, FALSE)
    BY <1>1, <2>8, <2>9, <2>10, <2>12, <2>13 DEF Nearly, PagesOf
  <2> DEFINE m == MergeRight(joined, l)
  <2>15. Nearly(m, l, FALSE) /\ Apart(m.chunk) /\ KeptBlocks(joined.chunk, m.chunk)
    BY <2>14, MergeRightKeeps
  <2> HIDE DEF m
  <2>16. g.trouble = "none" => HeapOK(g) /\ KeptBlocks(m.chunk, g.chunk)
    BY <1>6, <2>15, FreeTailKeeps DEF m
  <2> QED
    BY <2>8, <2>9, <2>11, <2>15, <2>16 DEF KeptBlocks, g
<1> QED
  BY <1>4, <1>5, <1>6 DEF g

FrontPart(e, page_align) == IF page_align THEN Lead(e) ELSE 0

\* The hole that is found is large enough, and none is when none is found.
LEMMA FindRight ==
    ASSUME NEW h \in Heaps, NEW need, NEW page_align
    PROVE  LET k == find_smallest_hole(h, need, page_align)
           IN  \/ k = 0 /\ \A e \in ToSet(h.entries) : ~(h.chunk[e].size - FrontPart(e, page_align) >= need)
               \/ /\ k # 0 /\ h.entries[k] \in ToSet(h.entries)
                  /\ h.chunk[h.entries[k]].size - FrontPart(h.entries[k], page_align) >= need
<1> DEFINE s == h.entries
           Fits(e) == h.chunk[e].size - (IF page_align THEN Lead(e) ELSE 0) >= need
           I == {i \in 1..Len(s) : Fits(s[i])}
           k == find_smallest_hole(h, need, page_align)
<1>1. s \in Seq(Int)
  BY HeapFields
<1>2. k = IF I # {} THEN Min(I) ELSE 0
  BY DEF find_smallest_hole, SelectInSeq
<1>3. I \subseteq 1..Len(s) /\ Len(s) \in Nat /\ \A i \in I : Fits(s[i])
  BY <1>1
<1>4. \A e : Fits(e) <=> h.chunk[e].size - FrontPart(e, page_align) >= need
  BY DEF FrontPart
<1>5. \A e \in ToSet(s) : Fits(e) => I # {}
  <2> SUFFICES ASSUME NEW e \in ToSet(s), Fits(e) PROVE I # {}
    OBVIOUS
  <2> HIDE DEF Fits
  <2>1. PICK i \in 1..Len(s) : s[i] = e
    BY <1>1, InSeq
  <2> QED
    BY <2>1
<1> HIDE DEF I, k, Fits
<1>6. CASE I = {}
  BY <1>2, <1>4, <1>5, <1>6 DEF k
<1>7. CASE I # {}
  <2>1. k \in I
    BY <1>2, <1>3, <1>7, FirstPlace
  <2>2. k \in 1..Len(s) /\ Fits(s[k]) /\ k # 0
    BY <1>3, <2>1
  <2>3. s[k] \in ToSet(s)
    BY <1>1, <2>2, InSeq
  <2> QED
    BY <1>4, <2>2, <2>3 DEF k
<1> QED
  BY <1>6, <1>7

\* The heap grows by what is needed and by a page at least, in a hole at its end.
LEMMA ExpandKeeps ==
    ASSUME NEW h, HeapOK(h), NEW need \in Nat, need >= 2
    PROVE  LET g == expand_heap(h, need)
           IN  g.trouble = "none" =>
                 /\ HeapOK(g) /\ KeptBlocks(h.chunk, g.chunk)
                 /\ \E t \in Holes(g.chunk) :
                      /\ t + g.chunk[t].size = g.end /\ g.chunk[t].size >= need
                      /\ \A x \in Holes(h.chunk) : x + h.chunk[x].size = h.end =>
                           g.chunk[t].size >= h.chunk[x].size + Frame
<1> DEFINE z == Sizes(h.chunk)
           size == h.end - HeapStart
           up == RoundUp(h.end - HeapStart + need)
           stop == HeapStart + up
           pg == h.pages \cup PageOf(h.end)..PageOf(stop) - 1
           grown == [h EXCEPT !.end = stop, !.pages = pg]
           top == Max(ToSet(h.entries))
           g == expand_heap(h, need)
<1>1. /\ h \in Heaps /\ h.trouble = "none" /\ Tiling(z, h.end) /\ Index(h.entries, Holes(h.chunk))
      /\ Apart(h.chunk) /\ Feet(h.chunk) /\ PagesOf(h)
  BY DEF HeapOK
<1>2. /\ HeapStart \in Int /\ HeapMin \in Nat /\ Frame \in Nat /\ Frame >= 2 /\ HeapLimit \in Nat
      /\ HeapStart % Frame = 0
  BY HeapConstants
<1>3. h.end \in Int /\ h.pages \subseteq Int /\ h.entries \in Seq(Int) /\ h.chunk \in [DOMAIN h.chunk -> Chunk]
      /\ DOMAIN h.chunk \subseteq Int
  BY <1>1, HeapFields
<1>4. /\ h.end % Frame = 0 /\ HeapMin <= size /\ size <= HeapLimit /\ size \in Int
      /\ PageOf(HeapStart)..PageOf(h.end) - 1 \subseteq h.pages
  BY <1>1, <1>2, <1>3 DEF PagesOf
<1>5. size % Frame = 0
  BY <1>2, <1>3, <1>4, MultiplesAdd
<1>6. up \in Int /\ up % Frame = 0 /\ up >= size + need
  <2> DEFINE n == h.end - HeapStart + need
  <2>1. n \in Int /\ n = size + need
    BY <1>2, <1>3
  <2> HIDE DEF n
  <2>2. RoundUp(n) \in Int /\ RoundUp(n) % Frame = 0 /\ RoundUp(n) >= n
    BY <2>1, RoundUpRight
  <2> QED
    BY <2>1, <2>2 DEF n
<1> HIDE DEF up
<1>7. up >= size + Frame
  <2>1. size < up
    BY <1>4, <1>6
  <2> HIDE DEF size
  <2> QED
    BY <1>2, <1>4, <1>5, <1>6, <2>1, MultiplesAdd
<1>8. /\ stop \in Int /\ stop % Frame = 0 /\ stop >= h.end + need /\ stop >= h.end + Frame
      /\ stop - HeapStart = up
  <2>1. stop % Frame = 0
    BY <1>2, <1>6, MultiplesAdd
  <2>2. stop \in Int /\ stop - HeapStart = up
    BY <1>2, <1>6
  <2>3. h.end = HeapStart + size
    BY <1>2, <1>3
  <2> HIDE DEF size
  <2>4. stop >= h.end + need
    BY <1>2, <1>4, <1>6, <2>3
  <2>5. stop >= h.end + Frame
    BY <1>2, <1>4, <1>6, <1>7, <2>3
  <2> QED
    BY <2>1, <2>2, <2>4, <2>5
<1>9. g = IF stop > HeapStart + HeapLimit THEN Troubled("exhausted")
          ELSE IF h.entries = <<>>
          THEN heap_add_entry([grown EXCEPT !.chunk = With(@, h.end, Hole(stop - h.end, h.end))], h.end)
          ELSE IF top + h.chunk[top].size # h.end THEN Troubled("gap")
          ELSE [grown EXCEPT !.chunk[top] = Hole(stop - top, top)]
  BY DEF expand_heap, up
<1> HIDE DEF g, top
<1>10. CASE stop > HeapStart + HeapLimit
  <2>1. g.trouble # "none"
    BY <1>9, <1>10, TroubledIs
  <2> QED
    BY <2>1 DEF g
<1>11. CASE ~(stop > HeapStart + HeapLimit)
  <2>1. /\ grown \in Heaps /\ grown.end = stop /\ grown.pages = pg /\ grown.chunk = h.chunk
        /\ grown.entries = h.entries /\ grown.trouble = "none"
    <3>1. pg \in SUBSET Int
      <4>1. PageOf(h.end) \in Int /\ PageOf(stop) \in Int
        BY <1>3, <1>8, PagesFollow
      <4> QED
        BY <1>3, <4>1
    <3> HIDE DEF pg, stop
    <3> QED
      BY <1>1, <1>8, <3>1 DEF Heaps
  <2>2. PagesOf(grown)
    <3>1. PageOf(h.end) \in Int /\ PageOf(stop) \in Int /\ PageOf(HeapStart) \in Int
      BY <1>2, <1>3, <1>8, PagesFollow
    <3>2. PageOf(HeapStart)..PageOf(stop) - 1 \subseteq pg
      <4> SUFFICES ASSUME NEW p \in PageOf(HeapStart)..PageOf(stop) - 1 PROVE p \in pg
        OBVIOUS
      <4>1. p \in PageOf(HeapStart)..PageOf(h.end) - 1 \/ p \in PageOf(h.end)..PageOf(stop) - 1
        BY <3>1
      <4> QED
        BY <1>4, <4>1
    <3>3. HeapMin <= stop - HeapStart /\ stop - HeapStart <= HeapLimit
      BY <1>2, <1>4, <1>6, <1>8, <1>11
    <3> HIDE DEF grown, stop, pg
    <3> QED
      BY <1>8, <2>1, <3>2, <3>3 DEF PagesOf
  <2> HIDE DEF grown, pg
  <2>3. CASE h.entries = <<>>
    <3> DEFINE n == stop - h.end
               d == With(h.chunk, h.end, Hole(n, h.end))
               k == [grown EXCEPT !.chunk = d]
    <3>1. n \in Int /\ n >= 2 /\ n >= need /\ h.end + n = stop
      BY <1>3, <1>8
    <3>2. g = heap_add_entry(k, h.end)
      BY <1>9, <1>11, <2>1, <2>3
    <3> HIDE DEF n, stop
    <3>3. h.end \notin DOMAIN z /\ Tiling(AppendAt(z, h.end, n), h.end + n)
      BY <1>1, <3>1, AppendTiles
    <3>4. h.end \notin DOMAIN h.chunk
      BY <1>1, <3>3, HeapFields
    <3>5. /\ DOMAIN d = DOMAIN h.chunk \cup {h.end} /\ d[h.end].size = n /\ d[h.end].flag = "hole"
          /\ \A x \in DOMAIN h.chunk : d[x] = h.chunk[x]
          /\ d \in [DOMAIN h.chunk \cup {h.end} -> Chunk]
      <4> DEFINE u == Hole(n, h.end)
      <4>1. u \in Chunk /\ u.size = n /\ u.flag = "hole"
        BY <1>3, <3>1, NewChunks
      <4>2. d = [x \in DOMAIN h.chunk \cup {h.end} |-> IF x = h.end THEN u ELSE h.chunk[x]]
        BY DEF With
      <4> HIDE DEF u, d
      <4> QED
        BY <1>3, <3>4, <4>1, <4>2
    <3> HIDE DEF d
    <3>6. d \in Chunks
      BY <1>3, <3>5, NewChunks
    <3>7. k \in Heaps /\ k.chunk = d /\ k.end = stop /\ k.entries = h.entries /\ k.pages = pg /\ k.trouble = "none"
      BY <2>1, <3>6 DEF Heaps
    <3> HIDE DEF k
    <3>8. PICK w \in Seq(Int) : /\ heap_add_entry(k, h.end) = [k EXCEPT !.entries = w]
                                /\ ToSet(w) = ToSet(k.entries) \cup {h.end}
                                /\ IsInjective(k.entries) /\ h.end \notin ToSet(k.entries) => IsInjective(w)
      BY <1>3, <3>7, AddEntry
    <3>9. g \in Heaps /\ g.chunk = d /\ g.end = stop /\ g.entries = w /\ g.pages = pg /\ g.trouble = "none"
      BY <3>2, <3>7, <3>8 DEF Heaps
    <3>10. Holes(h.chunk) = {}
      <4>1. Len(h.entries) = 0
        BY <2>3
      <4>2. ToSet(h.entries) = {}
        BY <1>3, <4>1, InSeq
      <4> QED
        BY <1>1, <4>2 DEF Index
    <3>11. Holes(d) = {h.end} /\ Blocks(d) = Blocks(h.chunk) /\ \A x \in Blocks(h.chunk) : d[x] = h.chunk[x]
      BY <3>4, <3>5, <3>10 DEF Holes, Blocks
    <3>12. Index(w, Holes(d))
      BY <1>1, <3>7, <3>8, <3>10, <3>11 DEF Index
    <3>13. Tiling(Sizes(d), stop)
      <4>1. Sizes(d) = AppendAt(z, h.end, n)
        BY <1>1, <3>4, <3>5, HeapFields DEF Sizes, AppendAt
      <4> QED
        BY <3>1, <3>3, <4>1
    <3>14. Apart(d)
      BY <1>3, <3>1, <3>5, <3>11 DEF Apart
    <3>15. Feet(d) /\ KeptBlocks(h.chunk, d)
      BY <1>1, <3>11 DEF Feet, KeptBlocks
    <3>16. PagesOf(g)
      BY <2>1, <2>2, <3>9 DEF PagesOf
    <3>17. HeapOK(g) /\ KeptBlocks(h.chunk, g.chunk)
      BY <3>9, <3>12, <3>13, <3>14, <3>15, <3>16 DEF HeapOK
    <3> QED
      BY <3>1, <3>5, <3>9, <3>10, <3>11, <3>17 DEF g
  <2>4. CASE h.entries # <<>> /\ top + h.chunk[top].size # h.end
    <3>1. g.trouble # "none"
      BY <1>9, <1>11, <2>4, TroubledIs
    <3> QED
      BY <3>1 DEF g
  <2>5. CASE h.entries # <<>> /\ top + h.chunk[top].size = h.end
    <3>1. top \in Holes(h.chunk)
      <4>1. Holes(h.chunk) # {} /\ Holes(h.chunk) = ToSet(h.entries)
        <5>1. Len(h.entries) \in Nat /\ Len(h.entries) # 0
          BY <1>3, <2>5
        <5>2. 1 \in 1..Len(h.entries)
          BY <5>1
        <5>3. h.entries[1] \in ToSet(h.entries)
          BY <1>3, <5>2, InSeq
        <5> QED
          BY <1>1, <5>3 DEF Index
      <4>2. \A x \in Holes(h.chunk) : x \in Int /\ h.end - x \in Nat
        BY <1>1, <1>3, HeapFields DEF Holes, Tiling
      <4> DEFINE T == {h.end - x : x \in Holes(h.chunk)}
      <4>3. T \in SUBSET Nat /\ T # {}
        BY <4>1, <4>2
      <4>4. PICK m \in T : \A y \in T : m <= y
        <5> HIDE DEF T
        <5> QED
          BY <4>3, LeastNat
      <4>5. PICK x \in Holes(h.chunk) : m = h.end - x
        OBVIOUS
      <4>6. \A y \in Holes(h.chunk) : x >= y
        <5> TAKE y \in Holes(h.chunk)
        <5>1. m <= h.end - y
          BY <4>4
        <5> QED
          BY <1>3, <4>2, <4>5, <5>1
      <4> QED
        BY <4>1, <4>6 DEF top, Max
    <3>2. /\ top \in DOMAIN h.chunk /\ top \in Int /\ h.chunk[top].size \in Int /\ h.chunk[top].flag = "hole"
          /\ h.chunk[top].size >= 2
      BY <1>1, <1>3, <3>1, HeapFields DEF Holes, Tiling
    <3> DEFINE n == stop - top
               d == [h.chunk EXCEPT ![top] = Hole(n, top)]
    <3>3. n \in Int /\ n >= h.chunk[top].size + Frame /\ n >= 2 /\ n >= need /\ top + n = stop
      <4>1. n \in Int /\ top + n = stop
        BY <1>8, <3>2
      <4>2. top + h.chunk[top].size + Frame <= top + n /\ top + h.chunk[top].size + need <= top + n
        BY <1>8, <2>5, <4>1
      <4> HIDE DEF n, stop
      <4> QED
        BY <1>2, <3>2, <4>1, <4>2
    <3>4. g = [grown EXCEPT !.chunk = d]
      BY <1>9, <1>11, <2>1, <2>5
    <3> HIDE DEF n, stop
    <3>5. /\ DOMAIN d = DOMAIN h.chunk /\ d[top].size = n /\ d[top].flag = "hole"
          /\ \A x \in DOMAIN h.chunk : x # top => d[x] = h.chunk[x]
          /\ d \in [DOMAIN h.chunk -> Chunk]
      <4> DEFINE u == Hole(n, top)
      <4>1. u \in Chunk /\ u.size = n /\ u.flag = "hole"
        BY <3>2, <3>3, NewChunks
      <4>2. d = [h.chunk EXCEPT ![top] = u]
        OBVIOUS
      <4> HIDE DEF u, d
      <4> QED
        BY <1>3, <3>2, <4>1, <4>2
    <3> HIDE DEF d
    <3>6. d \in Chunks
      BY <1>3, <3>5, NewChunks
    <3>7. /\ g \in Heaps /\ g.chunk = d /\ g.end = stop /\ g.entries = h.entries /\ g.pages = pg
          /\ g.trouble = "none"
      BY <2>1, <3>4, <3>6 DEF Heaps
    <3>8. /\ Holes(d) = Holes(h.chunk) /\ Blocks(d) = Blocks(h.chunk)
          /\ \A x \in Blocks(h.chunk) : d[x] = h.chunk[x]
      BY <3>2, <3>5 DEF Holes, Blocks
    <3>9. top \in DOMAIN z /\ top + z[top] = h.end
      BY <1>1, <2>5, <3>2, HeapFields
    <3>10. Tiling(Sizes(d), stop)
      <4>1. Sizes(d) = ResizeAt(z, top, n)
        BY <1>1, <3>5, HeapFields DEF Sizes, ResizeAt
      <4> HIDE DEF z
      <4> QED
        BY <1>1, <3>3, <3>9, <4>1, ResizeTiles
    <3>11. Apart(d)
      <4> SUFFICES ASSUME NEW x \in Holes(d), NEW y \in Holes(d), x + d[x].size = y PROVE FALSE
        BY DEF Apart
      <4>1. x \in Holes(h.chunk) /\ y \in Holes(h.chunk) /\ x \in DOMAIN d /\ y \in DOMAIN d
        BY <3>8 DEF Holes
      <4>2. CASE x # top
        BY <1>1, <3>5, <4>1, <4>2 DEF Apart
      <4>3. CASE x = top
        <5>1. y = stop /\ y + d[y].size <= stop /\ d[y].size >= 2 /\ d[y].size \in Int
          BY <3>3, <3>5, <3>10, <4>1, <4>3 DEF Tiling, Sizes
        <5> QED
          BY <1>8, <5>1
      <4> QED
        BY <4>2, <4>3
    <3>12. Feet(d) /\ KeptBlocks(h.chunk, d)
      BY <1>1, <3>8 DEF Feet, KeptBlocks
    <3>13. PagesOf(g)
      BY <2>1, <2>2, <3>7 DEF PagesOf
    <3>14. HeapOK(g) /\ KeptBlocks(h.chunk, g.chunk)
      BY <1>1, <3>7, <3>8, <3>10, <3>11, <3>12, <3>13 DEF HeapOK
    <3>15. ASSUME NEW x \in Holes(h.chunk), x + h.chunk[x].size = h.end PROVE x = top
      <4>1. x \in DOMAIN z /\ x + z[x] = h.end
        BY <1>1, <3>15, HeapFields DEF Holes
      <4> HIDE DEF z
      <4> QED
        BY <1>1, <3>9, <4>1, OneBefore
    <3> QED
      BY <3>1, <3>3, <3>5, <3>7, <3>8, <3>14, <3>15 DEF g
  <2> QED
    BY <2>3, <2>4, <2>5
<1> QED
  BY <1>10, <1>11

\* Behind two expansions at most there is a hole that is large enough.
LEMMA EnlargedKeeps ==
    ASSUME NEW h, HeapOK(h), NEW need \in Nat, need >= 2, NEW page_align \in BOOLEAN
    PROVE  LET g == Enlarged(Enlarged(h, need, page_align), need, page_align)
           IN  g.trouble = "none" =>
                 /\ HeapOK(g) /\ KeptBlocks(h.chunk, g.chunk)
                 /\ find_smallest_hole(g, need, page_align) # 0
<1> DEFINE h1 == Enlarged(h, need, page_align)
           h2 == Enlarged(h1, need, page_align)
<1>1. h \in Heaps /\ h.trouble = "none"
  BY DEF HeapOK
<1>2. CASE find_smallest_hole(h, need, page_align) # 0
  <2>1. h1 = h
    BY <1>2 DEF Enlarged
  <2>2. h2 = h
    BY <1>2, <2>1 DEF Enlarged
  <2> QED
    BY <1>2, <2>2 DEF KeptBlocks
<1>3. CASE find_smallest_hole(h, need, page_align) = 0
  <2>1. h1 = expand_heap(h, need)
    BY <1>1, <1>3 DEF Enlarged
  <2>2. CASE h1.trouble # "none"
    <3>1. h2 = h1
      BY <2>2 DEF Enlarged
    <3> QED
      BY <2>2, <3>1
  <2>3. CASE h1.trouble = "none"
    <3>1. HeapOK(h1) /\ KeptBlocks(h.chunk, h1.chunk)
      BY <2>1, <2>3, ExpandKeeps
    <3>2. PICK t \in Holes(h1.chunk) : t + h1.chunk[t].size = h1.end /\ h1.chunk[t].size >= need
      BY <2>1, <2>3, ExpandKeeps
    <3> HIDE DEF h1
    <3>3. CASE find_smallest_hole(h1, need, page_align) # 0
      <4>1. h2 = h1
        BY <3>3 DEF Enlarged
      <4> QED
        BY <3>1, <3>3, <4>1 DEF h1
    <3>4. CASE find_smallest_hole(h1, need, page_align) = 0 /\ h2.trouble = "none"
      <4>1. h2 = expand_heap(h1, need)
        BY <2>3, <3>4 DEF Enlarged
      <4>2. HeapOK(h2) /\ KeptBlocks(h1.chunk, h2.chunk)
        BY <3>1, <3>4, <4>1, ExpandKeeps
      <4>3. PICK u \in Holes(h2.chunk) : h2.chunk[u].size >= h1.chunk[t].size + Frame
        BY <3>1, <3>2, <3>4, <4>1, ExpandKeeps
      <4> HIDE DEF h2
      <4>4. h1 \in Heaps /\ h2 \in Heaps /\ Index(h2.entries, Holes(h2.chunk))
        BY <3>1, <4>2 DEF HeapOK
      <4>5. h1.chunk[t].size \in Int /\ h2.chunk[u].size \in Int /\ u \in Int /\ u \in ToSet(h2.entries)
        BY <4>4, HeapFields DEF Holes, Index
      <4>6. FrontPart(u, page_align) \in Int /\ FrontPart(u, page_align) <= Frame
        <5>1. Lead(u) \in 0..Frame - 1 /\ Frame \in Nat
          BY <4>5, LeadRight, HeapConstants
        <5> QED
          BY <5>1 DEF FrontPart
      <4>7. h2.chunk[u].size - FrontPart(u, page_align) >= need
        BY <3>2, <4>3, <4>5, <4>6, HeapConstants
      <4>8. find_smallest_hole(h2, need, page_align) # 0
        BY <4>4, <4>5, <4>7, FindRight
      <4>9. KeptBlocks(h.chunk, h2.chunk)
        BY <3>1, <4>2 DEF KeptBlocks
      <4> QED
        BY <4>2, <4>8, <4>9 DEF h1, h2
    <3> QED
      BY <3>3, <3>4 DEF h1
  <2> QED
    BY <2>2, <2>3
<1> QED
  BY <1>2, <1>3

\* What a block of newsize at front behind the hole e's header leaves, with rest behind it
CutFits(h, e, front, newsize, rest) ==
    LET at == e + front
        b == at + newsize
        d == Cut(h, e, at, newsize)
    IN  /\ d \in Chunks /\ Tiling(Sizes(d), h.end) /\ Apart(d) /\ Feet(d) /\ at \in Int /\ b \in Int
        /\ Holes(d) = (Holes(h.chunk) \ {e}) \cup (IF front > 0 THEN {e} ELSE {})
                        \cup (IF rest > 0 THEN {b} ELSE {})
        /\ at \notin Blocks(h.chunk) /\ (rest > 0 => b \notin Holes(h.chunk))
        /\ Blocks(d) = Blocks(h.chunk) \cup {at} /\ d[at].size = newsize
        /\ \A x \in Blocks(h.chunk) : d[x] = h.chunk[x]

\* A block is cut out of a hole, with nothing or at least a header and a footer left on
\* each side.
LEMMA CutRight ==
    ASSUME NEW h, HeapOK(h), NEW e \in Holes(h.chunk), NEW front \in Int, NEW newsize \in Int, NEW rest \in Int,
           front = 0 \/ front >= 2, newsize >= 2, rest = 0 \/ rest >= 2,
           front + newsize + rest = h.chunk[e].size
    PROVE  CutFits(h, e, front, newsize, rest)
<1> DEFINE at == e + front
           b == at + newsize
           heads == {at} \cup (IF front > 0 THEN {e} ELSE {}) \cup (IF rest > 0 THEN {b} ELSE {})
           d == Cut(h, e, at, newsize)
           z == Sizes(h.chunk)
<1>1. /\ h \in Heaps /\ Tiling(z, h.end) /\ Apart(h.chunk) /\ Feet(h.chunk)
  BY DEF HeapOK
<1>2. /\ e \in DOMAIN h.chunk /\ e \in Int /\ h.chunk[e].flag = "hole" /\ h.chunk[e].size \in Int
      /\ DOMAIN h.chunk \subseteq Int /\ h.chunk \in [DOMAIN h.chunk -> Chunk]
      /\ e \in DOMAIN z /\ z[e] = h.chunk[e].size /\ DOMAIN z = DOMAIN h.chunk
  BY <1>1, HeapFields DEF Holes
<1>3. at \in Int /\ b \in Int /\ at >= e /\ b > at /\ e + h.chunk[e].size - b = rest /\ at - e = front
  BY <1>2
<1>4. d = [x \in (DOMAIN h.chunk \ {e}) \cup heads |->
             IF x = at THEN Block(newsize, at)
             ELSE IF x \in heads THEN Hole(IF x = e THEN front ELSE rest, x)
             ELSE h.chunk[x]]
  <2>1. at > e <=> front > 0
    BY <1>2
  <2> HIDE DEF at
  <2> QED
    BY <1>3, <2>1 DEF Cut
<1> DEFINE y == IF front > 0 THEN SplitAt(z, e, front) ELSE z
           w == IF rest > 0 THEN SplitAt(y, at, newsize) ELSE y
<1>5. /\ Tiling(y, h.end) /\ at \in DOMAIN y /\ y[at] = newsize + rest
      /\ front > 0 => at \notin DOMAIN z
  <2>1. CASE front = 0
    BY <1>1, <1>2, <2>1
  <2>2. CASE front >= 2
    <3>1. z[e] - front >= 2
      BY <1>2, <2>2
    <3>2. Tiling(SplitAt(z, e, front), h.end) /\ e + front \notin DOMAIN z
      <4> HIDE DEF z
      <4> QED
        BY <1>1, <1>2, <2>2, <3>1, SplitTiles
    <3>3. at \in DOMAIN SplitAt(z, e, front) /\ SplitAt(z, e, front)[at] = z[e] - front
      BY <1>2, <2>2 DEF SplitAt
    <3> QED
      BY <1>2, <2>2, <3>2, <3>3
  <2> QED
    BY <2>1, <2>2
<1>6. DOMAIN y = DOMAIN z \cup {at}
  BY <1>2 DEF SplitAt
<1>7. Tiling(w, h.end) /\ (rest > 0 => b \notin DOMAIN y)
  <2>1. CASE rest = 0
    BY <1>5, <2>1
  <2>2. CASE rest >= 2
    <3>1. y[at] - newsize >= 2
      BY <1>5, <2>2
    <3> HIDE DEF y, at
    <3> QED
      BY <1>5, <2>2, <3>1, SplitTiles
  <2> QED
    BY <2>1, <2>2
<1>8. /\ front > 0 => at \notin DOMAIN h.chunk
      /\ rest > 0 => b \notin DOMAIN h.chunk
      /\ front = 0 => at = e
      /\ at # b /\ b # e
  BY <1>2, <1>3, <1>5, <1>6, <1>7
<1> HIDE DEF at, b
<1>9. Block(newsize, at) \in Chunk /\ Block(newsize, at).size = newsize /\ Block(newsize, at).flag = "block"
      /\ Block(newsize, at).foot = at
  BY <1>3, NewChunks
<1>10. /\ DOMAIN d = (DOMAIN h.chunk \ {e}) \cup heads
       /\ d[at] = Block(newsize, at)
       /\ front > 0 => e # at /\ d[e].size = front /\ d[e].flag = "hole" /\ d[e] \in Chunk
       /\ rest > 0 => d[b].size = rest /\ d[b].flag = "hole" /\ d[b] \in Chunk
       /\ \A x \in DOMAIN h.chunk \ {e} : x \notin heads /\ d[x] = h.chunk[x]
  <2>1. DOMAIN d = (DOMAIN h.chunk \ {e}) \cup heads
    BY <1>4
  <2>2. d[at] = Block(newsize, at)
    BY <1>4
  <2>3. ASSUME front > 0 PROVE e # at /\ d[e].size = front /\ d[e].flag = "hole" /\ d[e] \in Chunk
    <3>1. e # at
      BY <1>3, <2>3
    <3>2. d[e] = Hole(front, e)
      BY <1>4, <2>3, <3>1
    <3> QED
      BY <1>2, <3>1, <3>2, NewChunks
  <2>4. ASSUME rest > 0 PROVE d[b].size = rest /\ d[b].flag = "hole" /\ d[b] \in Chunk
    <3>1. d[b] = Hole(rest, b)
      BY <1>4, <1>8, <2>4
    <3> QED
      BY <1>3, <3>1, NewChunks
  <2>5. \A x \in DOMAIN h.chunk \ {e} : x \notin heads
    BY <1>8
  <2>6. \A x \in DOMAIN h.chunk \ {e} : d[x] = h.chunk[x]
    <3> TAKE x \in DOMAIN h.chunk \ {e}
    <3>1. x \notin heads /\ x # at
      BY <2>5
    <3> QED
      BY <1>4, <3>1
  <2> HIDE DEF d
  <2> QED
    BY <2>1, <2>2, <2>3, <2>4, <2>5, <2>6
<1>11. d \in Chunks
  <2>1. DOMAIN d \in SUBSET Int
    BY <1>2, <1>3, <1>10
  <2>2. \A x \in DOMAIN h.chunk : h.chunk[x] \in Chunk
    BY <1>1, HeapFields
  <2>3. \A x \in DOMAIN d : d[x] \in Chunk
    <3> HIDE DEF d
    <3> QED
      BY <1>9, <1>10, <2>2
  <2>4. d \in [DOMAIN d -> Chunk]
    <3>1. d = [x \in DOMAIN d |-> d[x]]
      BY <1>4
    <3> HIDE DEF d
    <3> QED
      BY <2>3, <3>1
  <2> HIDE DEF d
  <2> QED
    BY <2>1, <2>4, NewChunks
<1> HIDE DEF d
<1>12. Sizes(d) = w
  <2>1. DOMAIN w = DOMAIN d
    <3>1. DOMAIN w = IF rest > 0 THEN DOMAIN y \cup {b} ELSE DOMAIN y
      BY DEF SplitAt, b
    <3> HIDE DEF w, y
    <3> QED
      BY <1>2, <1>6, <1>8, <1>10, <3>1
  <2>2. ASSUME NEW x \in DOMAIN d PROVE w[x] = d[x].size
    <3>1. CASE x = at
      <4>1. rest > 0 => w[at] = newsize
        BY <1>5 DEF SplitAt
      <4>2. ~(rest > 0) => w[at] = newsize + rest /\ rest = 0
        BY <1>5
      <4> HIDE DEF w, y
      <4> QED
        BY <1>9, <1>10, <3>1, <4>1, <4>2
    <3>2. CASE x = b /\ rest > 0
      <4>1. w[b] = y[at] - newsize
        BY <1>5, <1>8, <3>2 DEF SplitAt, b
      <4> HIDE DEF w, y
      <4> QED
        BY <1>5, <1>10, <3>2, <4>1
    <3>3. CASE x # at /\ ~(x = b /\ rest > 0)
      <4>1. x \in DOMAIN y /\ w[x] = y[x]
        <5>1. x \in DOMAIN y
          BY <1>2, <1>6, <1>10, <3>3
        <5> HIDE DEF y
        <5> QED
          BY <3>3, <5>1 DEF SplitAt, b
      <4>2. CASE x = e
        <5>1. front > 0
          BY <1>8, <3>3, <4>2
        <5>2. y[e] = front
          BY <1>2, <5>1 DEF SplitAt
        <5> QED
          BY <1>10, <4>1, <4>2, <5>1, <5>2
      <4>3. CASE x # e
        <5>1. x \in DOMAIN h.chunk \ {e}
          BY <1>10, <3>3, <4>3
        <5>2. y[x] = z[x]
          BY <1>2, <3>3, <4>3, <5>1 DEF SplitAt, at
        <5>3. z[x] = h.chunk[x].size
          BY <1>1, <5>1, HeapFields
        <5> QED
          BY <1>10, <4>1, <5>1, <5>2, <5>3
      <4> QED
        BY <4>2, <4>3
    <3> QED
      BY <3>1, <3>2, <3>3
  <2>3. w = [x \in DOMAIN w |-> w[x]]
    <3>1. z = [x \in DOMAIN z |-> z[x]]
      BY DEF Sizes
    <3>2. y = [x \in DOMAIN y |-> y[x]]
      <4> HIDE DEF z
      <4> QED
        BY <3>1 DEF SplitAt
    <3> HIDE DEF y
    <3> QED
      BY <3>2 DEF SplitAt
  <2> HIDE DEF w
  <2> QED
    BY <2>1, <2>2, <2>3 DEF Sizes
<1>13. Tiling(Sizes(d), h.end)
  BY <1>7, <1>12
<1>14. Holes(d) = (Holes(h.chunk) \ {e}) \cup (IF front > 0 THEN {e} ELSE {}) \cup (IF rest > 0 THEN {b} ELSE {})
  BY <1>2, <1>8, <1>9, <1>10 DEF Holes
<1>15. at \notin Blocks(h.chunk) /\ Blocks(d) = Blocks(h.chunk) \cup {at}
  BY <1>2, <1>8, <1>9, <1>10 DEF Blocks
<1>16. \A x \in Blocks(h.chunk) : d[x] = h.chunk[x]
  BY <1>2, <1>10 DEF Blocks
<1>17. Feet(d)
  BY <1>1, <1>9, <1>10, <1>15, <1>16 DEF Feet
<1>18. Apart(d)
  <2> SUFFICES ASSUME NEW x \in Holes(d), NEW v \in Holes(d), x + d[x].size = v PROVE FALSE
    BY DEF Apart
  <2>1. x \in DOMAIN d /\ v \in DOMAIN d /\ x # at /\ v # at
    BY <1>9, <1>10 DEF Holes
  <2>2. CASE x = e
    <3>1. front > 0 /\ e + d[e].size = at
      BY <1>10, <1>14, <1>8, <2>1, <2>2 DEF at
    <3> QED
      BY <2>1, <2>2, <3>1
  <2>3. CASE x = b /\ rest > 0
    <3>1. b + d[b].size = e + h.chunk[e].size
      BY <1>2, <1>3, <1>10, <2>3
    <3>2. v > b /\ b > e /\ v \in Int
      BY <1>2, <1>3, <1>10, <2>3
    <3>3. v \in Holes(h.chunk)
      BY <1>2, <1>3, <1>14, <3>2
    <3> QED
      BY <1>1, <2>3, <3>1, <3>3 DEF Apart
  <2>4. CASE x # e /\ ~(x = b /\ rest > 0)
    <3>1. x \in Holes(h.chunk) /\ d[x] = h.chunk[x]
      <4>1. x \in Holes(h.chunk)
        BY <1>14, <2>4
      <4> QED
        BY <1>10, <2>4, <4>1 DEF Holes
    <3>2. v \notin Holes(h.chunk)
      BY <1>1, <3>1 DEF Apart
    <3>3. v = b /\ rest > 0
      BY <1>14, <3>2
    <3>4. at \in DOMAIN d /\ at + d[at].size = b
      BY <1>9, <1>10 DEF b
    <3>5. x = at
      <4> DEFINE s == Sizes(d)
      <4>1. x \in DOMAIN s /\ at \in DOMAIN s /\ x + s[x] = at + s[at]
        BY <2>1, <3>3, <3>4 DEF Sizes
      <4> HIDE DEF s
      <4> QED
        BY <1>13, <4>1, OneBefore DEF s
    <3> QED
      BY <2>1, <3>5
  <2> QED
    BY <2>2, <2>3, <2>4
<1>19. d[at].size = newsize /\ (rest > 0 => b \notin Holes(h.chunk))
  BY <1>8, <1>9, <1>10 DEF Holes
<1> QED
  BY <1>3, <1>11, <1>13, <1>14, <1>15, <1>16, <1>17, <1>18, <1>19 DEF CutFits, d, at, b

\* A new block: large enough, at the begin of a page if that was asked for, and the
\* others are as they were.
LEMMA MallocKeeps ==
    ASSUME NEW h0, HeapOK(h0), NEW size \in Nat, size > 0, NEW page_align \in BOOLEAN
    PROVE  LET r == heap_malloc(h0, size, page_align)
           IN  r.h.trouble = "none" =>
                 /\ HeapOK(r.h) /\ r.at \notin Blocks(h0.chunk)
                 /\ Blocks(r.h.chunk) = Blocks(h0.chunk) \cup {r.at}
                 /\ \A x \in Blocks(h0.chunk) : r.h.chunk[x] = h0.chunk[x]
                 /\ r.h.chunk[r.at].size >= size + 2
                 /\ page_align => (r.at + 1) % Frame = 0
<1> DEFINE need == size + 2
           h == Enlarged(Enlarged(h0, need, page_align), need, page_align)
           e == h.entries[find_smallest_hole(h, need, page_align)]
           hole == h.chunk[e].size
           newsize == IF UsesWhole(hole, need) THEN hole ELSE need
           front == FrontPart(e, page_align)
           at == e + front
           rest == hole - front - newsize
           taken == IF front > 0 THEN h ELSE heap_del_entry(h, e)
           d == Cut(h, e, at, newsize)
           cut == [taken EXCEPT !.chunk = d]
           r == heap_malloc(h0, size, page_align)
<1>1. r = IF h.trouble # "none" THEN [h |-> h, at |-> 0]
          ELSE IF page_align /\ front = 0 THEN [h |-> Troubled("twice"), at |-> 0]
          ELSE IF front = 1 \/ rest = 1 THEN [h |-> Troubled("overlap"), at |-> 0]
          ELSE [h |-> IF rest > 0 THEN heap_add_entry(cut, at + newsize) ELSE cut, at |-> at]
  BY DEF heap_malloc, Carved, FrontPart
<1> HIDE DEF r
<1> SUFFICES ASSUME r.h.trouble = "none"
             PROVE  /\ HeapOK(r.h) /\ r.at \notin Blocks(h0.chunk)
                    /\ Blocks(r.h.chunk) = Blocks(h0.chunk) \cup {r.at}
                    /\ \A x \in Blocks(h0.chunk) : r.h.chunk[x] = h0.chunk[x]
                    /\ r.h.chunk[r.at].size >= size + 2
                    /\ page_align => (r.at + 1) % Frame = 0
  BY DEF r
<1>2. /\ h.trouble = "none" /\ ~(page_align /\ front = 0) /\ front # 1 /\ rest # 1
      /\ r.h = (IF rest > 0 THEN heap_add_entry(cut, at + newsize) ELSE cut) /\ r.at = at
  <2>1. Troubled("twice").trouble = "twice" /\ Troubled("overlap").trouble = "overlap"
    BY TroubledIs
  <2> HIDE DEF h, front, rest, cut, at, newsize
  <2> QED
    BY <1>1, <2>1
<1>3. need \in Nat /\ need >= 2 /\ need = size + 2
  OBVIOUS
<1> HIDE DEF need
<1>4. HeapOK(h) /\ KeptBlocks(h0.chunk, h.chunk) /\ find_smallest_hole(h, need, page_align) # 0
  <2>1. h.trouble = "none"
    BY <1>2
  <2>2. need \in Nat /\ need >= 2
    BY <1>3
  <2>3. h.trouble = "none" =>
          HeapOK(h) /\ KeptBlocks(h0.chunk, h.chunk) /\ find_smallest_hole(h, need, page_align) # 0
    BY <2>2, EnlargedKeeps, Zenon
  <2> QED
    BY <2>1, <2>3, Zenon
<1> HIDE DEF h
<1>5. /\ h \in Heaps /\ Tiling(Sizes(h.chunk), h.end) /\ Index(h.entries, Holes(h.chunk)) /\ PagesOf(h)
  BY <1>4 DEF HeapOK
<1>6. e \in Holes(h.chunk) /\ hole - front >= need
  BY <1>4, <1>5, FindRight DEF Index
<1> HIDE DEF e
<1>7. e \in DOMAIN h.chunk /\ e \in Int /\ hole \in Int
  BY <1>5, <1>6, HeapFields DEF Holes
<1>8. /\ front \in Int /\ front >= 0
      /\ page_align => (e + front + 1) % Frame = 0
      /\ front > 0 => page_align
      /\ page_align => front > 0
  <2>1. Lead(e) \in 0..Frame - 1 /\ (e + Lead(e) + 1) % Frame = 0 /\ Frame \in Nat
    BY <1>7, LeadRight, HeapConstants
  <2>2. front \in Int /\ front >= 0
    BY <2>1 DEF FrontPart
  <2> QED
    BY <1>2, <2>1, <2>2 DEF FrontPart
<1> HIDE DEF hole, front
<1>9. /\ newsize \in Int /\ rest \in Int /\ newsize >= need /\ newsize >= 2
      /\ (front = 0 \/ front >= 2) /\ (rest = 0 \/ rest >= 2) /\ front + newsize + rest = hole
  <2>1. front = 0 \/ front >= 2
    BY <1>2, <1>8
  <2>2. CASE UsesWhole(hole, need)
    <3>1. newsize = hole /\ hole - 2 < need
      BY <2>2 DEF UsesWhole
    <3>2. front = 0
      BY <1>3, <1>6, <1>7, <1>8, <2>1, <3>1
    <3> QED
      BY <1>3, <1>6, <1>7, <1>8, <3>1, <3>2
  <2>3. CASE ~UsesWhole(hole, need)
    <3>1. newsize = need
      BY <2>3
    <3> QED
      BY <1>2, <1>3, <1>6, <1>7, <1>8, <2>1, <3>1
  <2> QED
    BY <2>2, <2>3
<1> DEFINE b == at + newsize
<1> HIDE DEF newsize, rest
<1>10. /\ d \in Chunks /\ Tiling(Sizes(d), h.end) /\ Apart(d) /\ Feet(d) /\ at \in Int /\ b \in Int
       /\ Holes(d) = (Holes(h.chunk) \ {e}) \cup (IF front > 0 THEN {e} ELSE {})
                       \cup (IF rest > 0 THEN {b} ELSE {})
       /\ at \notin Blocks(h.chunk) /\ (rest > 0 => b \notin Holes(h.chunk))
       /\ Blocks(d) = Blocks(h.chunk) \cup {at} /\ d[at].size = newsize
       /\ \A x \in Blocks(h.chunk) : d[x] = h.chunk[x]
  <2>1. front + newsize + rest = h.chunk[e].size
    BY <1>9 DEF hole
  <2>2. /\ HeapOK(h) /\ e \in Holes(h.chunk) /\ front \in Int /\ newsize \in Int /\ rest \in Int
        /\ (front = 0 \/ front >= 2) /\ newsize >= 2 /\ (rest = 0 \/ rest >= 2)
    BY <1>4, <1>6, <1>8, <1>9
  <2>3. CutFits(h, e, front, newsize, rest)
    BY <2>1, <2>2, CutRight
  <2> QED
    BY <2>3 DEF CutFits
<1> HIDE DEF d, at
<1>11. PICK w \in Seq(Int) :
         /\ taken = [h EXCEPT !.entries = w] /\ IsInjective(w)
         /\ ToSet(w) = IF front > 0 THEN Holes(h.chunk) ELSE Holes(h.chunk) \ {e}
  <2>1. CASE front > 0
    <3>1. taken = h /\ h = [h EXCEPT !.entries = h.entries] /\ h.entries \in Seq(Int)
      BY <1>5, <2>1 DEF Heaps
    <3> QED
      BY <1>5, <2>1, <3>1 DEF Index
  <2>2. CASE ~(front > 0)
    <3>1. e \in ToSet(h.entries) /\ IsInjective(h.entries)
      BY <1>5, <1>6 DEF Index
    <3>2. taken = heap_del_entry(h, e)
      BY <2>2
    <3> HIDE DEF taken
    <3> QED
      BY <1>5, <2>2, <3>1, <3>2, DelEntry DEF Index
  <2> QED
    BY <2>1, <2>2
<1> HIDE DEF taken
<1>12. /\ cut \in Heaps /\ cut.chunk = d /\ cut.entries = w /\ cut.end = h.end /\ cut.pages = h.pages
       /\ cut.trouble = "none"
  BY <1>2, <1>5, <1>10, <1>11 DEF Heaps
<1> HIDE DEF cut
<1>13. /\ r.h \in Heaps /\ r.h.chunk = d /\ r.h.end = h.end /\ r.h.pages = h.pages
       /\ r.h.trouble = "none" /\ Index(r.h.entries, Holes(d))
  <2>1. CASE rest > 0
    <3>1. PICK v \in Seq(Int) : /\ heap_add_entry(cut, b) = [cut EXCEPT !.entries = v]
                                /\ ToSet(v) = ToSet(cut.entries) \cup {b}
                                /\ IsInjective(cut.entries) /\ b \notin ToSet(cut.entries) => IsInjective(v)
      BY <1>10, <1>12, AddEntry
    <3>2. r.h = [cut EXCEPT !.entries = v]
      BY <1>2, <2>1, <3>1
    <3> HIDE DEF b
    <3>3. Index(v, Holes(d))
      BY <1>6, <1>10, <1>11, <1>12, <2>1, <3>1 DEF Index
    <3> QED
      BY <1>12, <3>2, <3>3 DEF Heaps
  <2>2. CASE ~(rest > 0)
    <3>1. r.h = cut
      BY <1>2, <2>2
    <3> HIDE DEF b
    <3> QED
      BY <1>6, <1>10, <1>11, <1>12, <2>2, <3>1 DEF Index
  <2> QED
    BY <2>1, <2>2
<1>14. PagesOf(r.h)
  BY <1>5, <1>13 DEF PagesOf
<1>15. HeapOK(r.h)
  BY <1>10, <1>13, <1>14 DEF HeapOK
<1>16. page_align => (r.at + 1) % Frame = 0
  BY <1>2, <1>8 DEF at
<1>17. r.h.chunk[r.at].size >= size + 2
  BY <1>2, <1>3, <1>9, <1>10, <1>13
<1> QED
  BY <1>2, <1>4, <1>10, <1>13, <1>15, <1>16, <1>17 DEF KeptBlocks

Asked == [size : Nat, align : BOOLEAN]

\* malloc
LEMMA mallocKeeps ==
    ASSUME HeapInv, Sound, NEW size \in Requests, NEW page_align \in BOOLEAN, malloc(size, page_align)
    PROVE  HeapInv'
<1> DEFINE r == heap_malloc(heap, size, page_align)
<1>1. HeapOK(heap) /\ Served(heap.chunk, asked) /\ size \in Nat /\ size > 0
  BY HeapConstants DEF HeapInv
<1>2. /\ heap' = r.h
      /\ asked' = IF r.h.trouble # "none" THEN <<>> ELSE With(asked, r.at, [size |-> size, align |-> page_align])
  BY DEF malloc
<1> SUFFICES ASSUME heap'.trouble = "none" PROVE HeapOK(heap') /\ Served(heap'.chunk, asked')
  BY DEF HeapInv, Sound
<1>3. /\ HeapOK(r.h) /\ r.at \notin Blocks(heap.chunk)
      /\ Blocks(r.h.chunk) = Blocks(heap.chunk) \cup {r.at}
      /\ \A x \in Blocks(heap.chunk) : r.h.chunk[x] = heap.chunk[x]
      /\ r.h.chunk[r.at].size >= size + 2
      /\ page_align => (r.at + 1) % Frame = 0
  BY <1>1, <1>2, MallocKeeps, ZenonT(30)
<1> HIDE DEF r
<1> DEFINE u == [size |-> size, align |-> page_align]
<1>4. u \in Asked /\ u.size = size /\ u.align = page_align
  BY <1>1 DEF Asked
<1>5. asked' = [x \in DOMAIN asked \cup {r.at} |-> IF x = r.at THEN u ELSE asked[x]]
  BY <1>2 DEF With
<1> HIDE DEF u
<1> QED
  BY <1>1, <1>2, <1>3, <1>4, <1>5 DEF Served, Asked

\* free
LEMMA freeKeeps ==
    ASSUME HeapInv, Sound, NEW a \in DOMAIN asked, NEW magic, free(a, magic)
    PROVE  HeapInv'
<1> DEFINE g == heap_free(heap, a, magic)
<1>1. HeapOK(heap) /\ Served(heap.chunk, asked) /\ a \in Blocks(heap.chunk)
  BY DEF HeapInv, Served
<1>2. heap' = g /\ (heap'.trouble = "none" => asked' = [x \in DOMAIN asked \ {a} |-> asked[x]])
  BY DEF free, Without
<1> SUFFICES ASSUME heap'.trouble = "none" PROVE HeapOK(heap') /\ Served(heap'.chunk, asked')
  BY DEF HeapInv, Sound
<1>3. /\ HeapOK(g) /\ Blocks(g.chunk) = Blocks(heap.chunk) \ {a}
      /\ \A x \in Blocks(g.chunk) : g.chunk[x] = heap.chunk[x]
  BY <1>1, <1>2, FreeKeeps
<1> HIDE DEF g
<1> QED
  BY <1>1, <1>2, <1>3 DEF Served

\* realloc to more
LEMMA ReallocMovesKeeps ==
    ASSUME HeapInv, Sound, NEW a \in DOMAIN asked, NEW size \in Requests, realloc_moves(a, size)
    PROVE  HeapInv'
<1> DEFINE r == heap_malloc(heap, size, FALSE)
<1>1. /\ HeapOK(heap) /\ Served(heap.chunk, asked) /\ a \in Blocks(heap.chunk) /\ size \in Nat /\ size > 0
  BY HeapConstants DEF HeapInv, Served
<1>2. PICK magic : heap' = heap_free(r.h, a, magic)
  BY DEF realloc_moves
<1> DEFINE g == heap_free(r.h, a, magic)
           u == [size |-> size, align |-> FALSE]
<1>3. asked' = IF heap'.trouble # "none" THEN <<>> ELSE With(Without(a), r.at, u)
  BY DEF realloc_moves
<1> SUFFICES ASSUME heap'.trouble = "none" PROVE HeapOK(heap') /\ Served(heap'.chunk, asked')
  BY DEF HeapInv, Sound
<1>4. r.h.trouble = "none"
  <2>1. r.h.trouble # "none" => g = r.h
    BY DEF heap_free
  <2> QED
    BY <1>2, <2>1
<1>5. /\ HeapOK(r.h) /\ r.at \notin Blocks(heap.chunk)
      /\ Blocks(r.h.chunk) = Blocks(heap.chunk) \cup {r.at}
      /\ \A x \in Blocks(heap.chunk) : r.h.chunk[x] = heap.chunk[x]
      /\ r.h.chunk[r.at].size >= size + 2
  <2>1. FALSE \in BOOLEAN
    OBVIOUS
  <2> QED
    BY <1>1, <1>4, <2>1, MallocKeeps
<1> HIDE DEF r
<1>6. /\ HeapOK(g) /\ Blocks(g.chunk) = Blocks(r.h.chunk) \ {a}
      /\ \A x \in Blocks(g.chunk) : g.chunk[x] = r.h.chunk[x]
  <2>1. a \in Blocks(r.h.chunk) /\ HeapOK(r.h) /\ g.trouble = "none"
    BY <1>1, <1>2, <1>5
  <2> QED
    BY <2>1, FreeKeeps, Zenon
<1>7. u \in Asked /\ u.size = size /\ ~u.align
  BY <1>1 DEF Asked
<1> HIDE DEF g, u
<1>8. /\ DOMAIN asked' = (DOMAIN asked \ {a}) \cup {r.at} /\ asked'[r.at] = u
      /\ \A x \in DOMAIN asked \ {a} : x # r.at => asked'[x] = asked[x]
  BY <1>3 DEF With, Without
<1>9. heap' = g
  BY <1>2 DEF g
<1>10. r.at # a
  BY <1>1, <1>5
<1> QED
  BY <1>1, <1>5, <1>6, <1>7, <1>8, <1>9, <1>10 DEF Served, Asked

\* realloc to less: the rest becomes a block, which is freed
LEMMA ReallocShrinksKeeps ==
    ASSUME HeapInv, Sound, NEW a \in DOMAIN asked, NEW size \in Requests, NEW magic,
           realloc_shrinks(a, size, magic)
    PROVE  HeapInv'
<1> DEFINE c == heap.chunk[a]
           b == a + size + 2
           m == c.size - size - 2
           d == With(With(heap.chunk, a, Block(size + 2, a)), b, Block(m, b))
           split == [heap EXCEPT !.chunk = d]
           g == heap_free(split, b, magic)
           z == Sizes(heap.chunk)
<1>1. /\ HeapOK(heap) /\ Served(heap.chunk, asked) /\ a \in Blocks(heap.chunk) /\ size \in Nat /\ size > 0
  BY HeapConstants DEF HeapInv, Served
<1>2. /\ size < c.size - 2
      /\ heap' = IF m = 1 THEN Troubled("overlap") ELSE g
      /\ asked' = IF heap'.trouble # "none" THEN <<>> ELSE [asked EXCEPT ![a].size = size]
  BY DEF realloc_shrinks
<1> SUFFICES ASSUME heap'.trouble = "none" PROVE HeapOK(heap') /\ Served(heap'.chunk, asked')
  BY DEF HeapInv, Sound
<1>3. m # 1 /\ heap' = g
  <2>1. Troubled("overlap").trouble = "overlap"
    BY TroubledIs
  <2> HIDE DEF g, m
  <2> QED
    BY <1>2, <2>1
<1>4. /\ heap \in Heaps /\ heap.trouble = "none" /\ Tiling(z, heap.end) /\ Apart(heap.chunk) /\ Feet(heap.chunk)
      /\ Index(heap.entries, Holes(heap.chunk)) /\ PagesOf(heap)
  BY <1>1 DEF HeapOK
<1>5. /\ a \in DOMAIN heap.chunk /\ a \in Int /\ c.size \in Int /\ c.flag = "block"
      /\ heap.chunk \in [DOMAIN heap.chunk -> Chunk] /\ DOMAIN heap.chunk \subseteq Int
      /\ a \in DOMAIN z /\ z[a] = c.size
  BY <1>1, <1>4, HeapFields DEF Blocks
<1> HIDE DEF c
<1>6. b \in Int /\ m \in Int /\ m >= 2 /\ b = a + (size + 2) /\ m = c.size - (size + 2) /\ size + 2 \in Int /\ b # a
      /\ size + 2 >= 2
  BY <1>1, <1>2, <1>3, <1>5
<1> HIDE DEF b, m
<1>7. Tiling(SplitAt(z, a, size + 2), heap.end) /\ b \notin DOMAIN heap.chunk
  <2>1. z[a] - (size + 2) >= 2 /\ DOMAIN z = DOMAIN heap.chunk
    BY <1>4, <1>5, <1>6, HeapFields
  <2> HIDE DEF z
  <2> QED
    BY <1>4, <1>5, <1>6, <2>1, SplitTiles
<1> DEFINE u == Block(size + 2, a)
           v == Block(m, b)
<1>8. /\ u \in Chunk /\ u.size = size + 2 /\ u.flag = "block" /\ u.foot = a
      /\ v \in Chunk /\ v.size = m /\ v.flag = "block" /\ v.foot = b
  BY <1>5, <1>6, NewChunks
<1> HIDE DEF u, v
<1>9. /\ DOMAIN d = DOMAIN heap.chunk \cup {b} /\ d[a] = u /\ d[b] = v
      /\ \A x \in DOMAIN heap.chunk : x # a => d[x] = heap.chunk[x]
      /\ d \in [DOMAIN heap.chunk \cup {b} -> Chunk]
  BY <1>5, <1>6, <1>7, <1>8 DEF With, u, v
<1> HIDE DEF d
<1>10. d \in Chunks
  BY <1>5, <1>6, <1>9, NewChunks
<1>11. /\ split \in Heaps /\ split.chunk = d /\ split.entries = heap.entries /\ split.end = heap.end
       /\ split.pages = heap.pages /\ split.trouble = "none"
  BY <1>4, <1>10 DEF Heaps
<1>12. /\ Holes(d) = Holes(heap.chunk) /\ \A x \in Holes(d) : d[x] = heap.chunk[x]
       /\ Blocks(d) = Blocks(heap.chunk) \cup {b} /\ b \notin Blocks(heap.chunk)
       /\ \A x \in Blocks(heap.chunk) : x # a => d[x] = heap.chunk[x]
  BY <1>5, <1>7, <1>8, <1>9 DEF Holes, Blocks, c
<1>13. Tiling(Sizes(d), heap.end)
  <2>1. Sizes(d) = SplitAt(z, a, size + 2)
    BY <1>4, <1>5, <1>6, <1>7, <1>8, <1>9, HeapFields DEF Sizes, SplitAt
  <2> QED
    BY <1>7, <2>1
<1>14. Feet(d) /\ Apart(d)
  BY <1>4, <1>8, <1>9, <1>12 DEF Feet, Apart
<1>15. HeapOK(split)
  BY <1>4, <1>11, <1>12, <1>13, <1>14 DEF HeapOK, PagesOf
<1> HIDE DEF split
<1>16. /\ HeapOK(g) /\ Blocks(g.chunk) = Blocks(d) \ {b}
       /\ \A x \in Blocks(g.chunk) : g.chunk[x] = d[x]
  BY <1>3, <1>11, <1>12, <1>15, FreeKeeps
<1> HIDE DEF g
<1>17. DOMAIN asked = Blocks(heap.chunk) /\ \A x \in DOMAIN asked : asked[x] \in Asked
  BY <1>1 DEF Served, Asked
<1>18. /\ DOMAIN asked' = DOMAIN asked /\ asked'[a].size = size /\ asked'[a].align = asked[a].align
       /\ asked'[a] \in Asked /\ \A x \in DOMAIN asked : x # a => asked'[x] = asked[x]
  <2> DEFINE k == [asked[a] EXCEPT !.size = size]
  <2>1. k \in Asked /\ k.size = size /\ k.align = asked[a].align
    BY <1>1, <1>17 DEF Asked
  <2>2. asked' = [asked EXCEPT ![a] = k]
    BY <1>2
  <2> HIDE DEF k
  <2> QED
    BY <2>1, <2>2
<1>19. g.chunk[a].size = size + 2
  BY <1>1, <1>6, <1>8, <1>9, <1>12, <1>16
<1>20. Blocks(g.chunk) = DOMAIN asked'
  BY <1>12, <1>16, <1>17, <1>18
<1>21. \A x \in DOMAIN asked' : x # a => g.chunk[x] = heap.chunk[x] /\ asked'[x] = asked[x]
  BY <1>12, <1>16, <1>17, <1>18, <1>20
<1> QED
  BY <1>1, <1>3, <1>16, <1>17, <1>18, <1>19, <1>20, <1>21 DEF Served, Asked

\* realloc to what there is
LEMMA ReallocKeepsKeeps ==
    ASSUME HeapInv, Sound, NEW a \in DOMAIN asked, NEW size \in Requests, realloc_keeps(a, size)
    PROVE  HeapInv'
<1>1. /\ HeapOK(heap) /\ Served(heap.chunk, asked) /\ a \in Blocks(heap.chunk) /\ size \in Nat
  BY HeapConstants DEF HeapInv, Served
<1>2. heap' = heap /\ size = heap.chunk[a].size - 2 /\ asked' = [asked EXCEPT ![a].size = size]
  BY DEF realloc_keeps
<1>3. heap.chunk[a].size \in Int
  BY <1>1, HeapFields DEF HeapOK, Blocks
<1>4. \A x \in DOMAIN asked : asked[x] \in Asked
  BY <1>1 DEF Served, Asked
<1>5. /\ DOMAIN asked' = DOMAIN asked /\ asked'[a].size = size /\ asked'[a].align = asked[a].align
      /\ asked'[a] \in Asked /\ \A x \in DOMAIN asked : x # a => asked'[x] = asked[x]
  <2> DEFINE k == [asked[a] EXCEPT !.size = size]
  <2>1. k \in Asked /\ k.size = size /\ k.align = asked[a].align
    BY <1>1, <1>4 DEF Asked
  <2>2. asked' = [asked EXCEPT ![a] = k]
    BY <1>2
  <2> HIDE DEF k
  <2> QED
    BY <2>1, <2>2
<1>6. heap.chunk[a].size >= size + 2
  BY <1>1, <1>2, <1>3
<1> QED
  BY <1>1, <1>2, <1>5, <1>6 DEF HeapInv, Served, Asked

\* What is kept makes the heap intact.
LEMMA HeapInvIntact ==
    ASSUME HeapInv PROVE HeapIntact
<1> SUFFICES ASSUME Sound PROVE HeapIntact
  BY DEF HeapIntact, HeapTiled, HolesMerged, BlocksServed, HeapPages
<1> DEFINE c == heap.chunk
           z == Sizes(heap.chunk)
<1>1. /\ heap \in Heaps /\ Tiling(z, heap.end) /\ Apart(c) /\ Feet(c)
      /\ Index(heap.entries, Holes(c)) /\ PagesOf(heap) /\ Served(c, asked)
  BY DEF HeapInv, HeapOK
<1>2. /\ DOMAIN z = DOMAIN c /\ \A x \in DOMAIN c : z[x] = c[x].size /\ Behind(x) = x + z[x]
      /\ \A x \in DOMAIN c : x \in Int /\ c[x].size \in Int /\ c[x].flag \in {"hole", "block"}
      /\ heap.end \in Int
  BY <1>1, HeapFields DEF Behind
<1>3. \A x \in DOMAIN c : IsHole(x) <=> x \in Holes(c)
  BY DEF IsHole, Holes
<1>4. \A x \in DOMAIN c : ~IsHole(x) <=> x \in Blocks(c)
  BY <1>2 DEF IsHole, Blocks
<1>5. HeapTiled
  <2>1. {HeapStart} \cup {Behind(x) : x \in DOMAIN c} = DOMAIN c \cup {heap.end}
    <3>1. \A x \in DOMAIN c : Behind(x) \in DOMAIN c \cup {heap.end}
      BY <1>1, <1>2 DEF Tiling
    <3>2. HeapStart \in DOMAIN c
      BY <1>1, <1>2 DEF Tiling
    <3>3. \A y \in DOMAIN c \cup {heap.end} : y = HeapStart \/ \E x \in DOMAIN c : Behind(x) = y
      BY <1>1, <1>2 DEF Tiling
    <3> HIDE DEF c
    <3> QED
      BY <3>1, <3>2, <3>3
  <2>2. \A x, y \in DOMAIN c : Behind(x) = Behind(y) => x = y
    <3> TAKE x, y \in DOMAIN c
    <3> HAVE Behind(x) = Behind(y)
    <3>1. x \in DOMAIN z /\ y \in DOMAIN z /\ x + z[x] = y + z[y]
      BY <1>2
    <3> HIDE DEF z
    <3> QED
      BY <1>1, <3>1, OneBefore
  <2>3. \A x \in DOMAIN c : c[x].size >= 2
    BY <1>1, <1>2 DEF Tiling
  <2>4. IsInjective(heap.entries) /\ ToSet(heap.entries) = {x \in DOMAIN c : IsHole(x)}
    BY <1>1, <1>3 DEF Index, Holes
  <2> QED
    BY <2>1, <2>2, <2>3, <2>4 DEF HeapTiled
<1>6. HolesMerged
  BY <1>1, <1>3 DEF HolesMerged, Apart, Behind
<1>7. HeapPages
  <2>1. heap.end - HeapStart \in HeapMin..HeapLimit
    BY <1>1, <1>2, HeapConstants DEF PagesOf
  <2> QED
    BY <1>1, <2>1 DEF HeapPages, PagesOf
<1>8. BlocksServed
  <2>1. {x \in DOMAIN c : ~IsHole(x)} = DOMAIN asked
    BY <1>1, <1>4 DEF Served, Blocks
  <2>2. ASSUME NEW a \in DOMAIN asked
        PROVE  PageOf(a)..PageOf(Behind(a) - 1) \subseteq heap.pages
    <3>1. a \in DOMAIN c
      BY <2>1
    <3>2. a >= HeapStart /\ Behind(a) <= heap.end /\ a \in Int /\ Behind(a) \in Int /\ HeapStart \in Int
      BY <1>1, <1>2, <3>1, HeapConstants DEF Tiling
    <3> DEFINE q == Behind(a) - 1
    <3>3. q \in Int /\ q < heap.end
      BY <1>2, <3>2
    <3> HIDE DEF q
    <3>4. PageOf(HeapStart) <= PageOf(a) /\ PageOf(q) <= PageOf(heap.end) - 1
          /\ PageOf(HeapStart) \in Int /\ PageOf(a) \in Int /\ PageOf(q) \in Int /\ PageOf(heap.end) \in Int
      BY <1>1, <1>2, <3>2, <3>3, PagesFollow DEF PagesOf
    <3>5. PageOf(a)..PageOf(q) \subseteq PageOf(HeapStart)..PageOf(heap.end) - 1
      BY <3>4
    <3> QED
      BY <1>1, <3>5 DEF PagesOf, q
  <2>3. \A a \in DOMAIN asked :
          /\ c[a].size >= asked[a].size + 2 /\ c[a].foot = a
          /\ asked[a].align => (a + 1) % Frame = 0
    BY <1>1 DEF Served, Feet
  <2> QED
    BY <2>1, <2>2, <2>3 DEF BlocksServed
<1> QED
  BY <1>5, <1>6, <1>7, <1>8 DEF HeapIntact

\* For heaps, frames and requests of every size and any number of blocks, over every
\* sequence of malloc, free and realloc, with growing and shrinking in between, up to
\* the first of the troubles that the model names: headers and footers tile the heap,
\* the index lists exactly the holes, no two holes touch, every block handed out is
\* still there, as large and as aligned as asked for, and every page of the heap is
\* mapped.
THEOREM HeapStaysIntact == HeapSpec => []HeapIntact
<1>1. HeapInit => HeapInv
  <2> SUFFICES ASSUME HeapInit PROVE HeapOK(heap) /\ Served(heap.chunk, asked)
    BY DEF HeapInv
  <2> DEFINE u == Hole(HeapSize, HeapStart)
             c == [x \in {HeapStart} |-> u]
             pg == PageOf(HeapStart)..PageOf(HeapStart + HeapSize)
  <2>1. /\ heap = [chunk |-> c, entries |-> <<HeapStart>>, end |-> HeapStart + HeapSize,
                   pages |-> pg, old |-> {}, trouble |-> "none"]
        /\ asked = <<>>
    BY DEF HeapInit, create_heap
  <2>2. /\ HeapStart \in Int /\ HeapSize \in Int /\ HeapSize >= 2 /\ HeapMin <= HeapSize /\ HeapSize <= HeapLimit
        /\ HeapStart % Frame = 0 /\ HeapSize % Frame = 0
    <3>1. HeapSize >= Frame
      <4>1. 0 \in Int /\ 0 % Frame = 0
        BY HeapConstants
      <4>2. 0 < HeapSize => 0 + Frame <= HeapSize
        BY <4>1, HeapConstants, MultiplesAdd
      <4> QED
        BY <4>2, HeapConstants
    <3> QED
      BY <3>1, HeapConstants
  <2>3. u \in Chunk /\ u.size = HeapSize /\ u.flag = "hole"
    BY <2>2, NewChunks
  <2> HIDE DEF u
  <2>4. c \in Chunks /\ DOMAIN c = {HeapStart} /\ c[HeapStart] = u
    <3>1. c \in [{HeapStart} -> Chunk] /\ {HeapStart} \in SUBSET Int
      BY <2>2, <2>3
    <3> QED
      BY <3>1, NewChunks
  <2> HIDE DEF c
  <2>5. PageOf(HeapStart) \in Int /\ PageOf(HeapStart + HeapSize) \in Int
    <3>1. HeapStart + HeapSize \in Int
      BY <2>2
    <3> QED
      BY <2>2, <3>1, PagesFollow
  <2>6. heap \in Heaps /\ heap.trouble = "none"
    <3>1. pg \in SUBSET Int /\ <<HeapStart>> \in Seq(Int) /\ HeapStart + HeapSize \in Int
      BY <2>2, <2>5
    <3>2. {} \in SUBSET Int
      OBVIOUS
    <3> HIDE DEF pg
    <3> QED
      BY <2>1, <2>4, <3>1, <3>2 DEF Heaps
  <2>7. Tiling(Sizes(c), HeapStart + HeapSize)
    BY <2>2, <2>3, <2>4 DEF Tiling, Sizes
  <2>8. Holes(c) = {HeapStart} /\ Blocks(c) = {}
    BY <2>3, <2>4 DEF Holes, Blocks
  <2>9. Index(<<HeapStart>>, Holes(c))
    BY <2>8 DEF Index, ToSet, IsInjective
  <2>10. Apart(c) /\ Feet(c)
    BY <2>2, <2>3, <2>4, <2>8 DEF Apart, Feet
  <2>11. PagesOf(heap)
    <3>1. (HeapStart + HeapSize) % Frame = 0
      BY <2>2, MultiplesAdd
    <3>2. PageOf(HeapStart)..PageOf(HeapStart + HeapSize) - 1 \subseteq pg
      BY <2>5
    <3>3. (HeapStart + HeapSize) - HeapStart = HeapSize
      BY <2>2
    <3> HIDE DEF pg
    <3> QED
      BY <2>1, <2>2, <3>1, <3>2, <3>3 DEF PagesOf
  <2>12. Served(c, asked)
    BY <2>1, <2>8 DEF Served
  <2> QED
    BY <2>1, <2>6, <2>7, <2>9, <2>10, <2>11, <2>12 DEF HeapOK
<1>2. HeapInv /\ [HeapNext]_heapVars => HeapInv'
  <2> SUFFICES ASSUME HeapInv, [HeapNext]_heapVars PROVE HeapInv'
    OBVIOUS
  <2>1. CASE UNCHANGED heapVars
    BY <2>1 DEF HeapInv, Sound, heapVars
  <2>2. CASE HeapNext
    <3>1. Sound
      BY <2>2 DEF HeapNext, Sound
    <3>2. ASSUME NEW size \in Requests, NEW page_align \in BOOLEAN, malloc(size, page_align) PROVE HeapInv'
      BY <3>1, <3>2, mallocKeeps
    <3>3. ASSUME NEW a \in DOMAIN asked, NEW magic, free(a, magic) PROVE HeapInv'
      BY <3>1, <3>3, freeKeeps
    <3>4. ASSUME NEW a \in DOMAIN asked, NEW size \in Requests, NEW magic, realloc_shrinks(a, size, magic)
          PROVE  HeapInv'
      BY <3>1, <3>4, ReallocShrinksKeeps
    <3>5. ASSUME NEW a \in DOMAIN asked, NEW size \in Requests, realloc_keeps(a, size) PROVE HeapInv'
      BY <3>1, <3>5, ReallocKeepsKeeps
    <3>6. ASSUME NEW a \in DOMAIN asked, NEW size \in Requests, realloc_moves(a, size) PROVE HeapInv'
      BY <3>1, <3>6, ReallocMovesKeeps
    <3> QED
      BY <2>2, <3>2, <3>3, <3>4, <3>5, <3>6 DEF HeapNext
  <2> QED
    BY <2>1, <2>2
<1>3. HeapInv => HeapIntact
  BY HeapInvIntact
<1> QED
  BY <1>1, <1>2, <1>3, PTL DEF HeapSpec
=============================================================================
