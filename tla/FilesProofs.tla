------------------------------- MODULE FilesProofs -------------------------------
(***************************************************************************)
(* The counts of open files and of vnodes, for any number of tasks,        *)
(* descriptors, files and vnodes.                                          *)
(***************************************************************************)
EXTENDS Files, FiniteSetTheorems, TLAPS

-----------------------------------------------------------------------------
(***************************************************************************)
(* Cardinalities                                                           *)
(***************************************************************************)

\* The descriptors of a task, and the references of a table, are finite.
LEMMA Finite ==
    /\ IsFiniteSet(Slots) /\ IsFiniteSet(Fds)
    /\ IsFiniteSet(Slots \X Fds)
<1>1. IsFiniteSet(Slots) /\ IsFiniteSet(Fds)
  BY FS_Interval, TableAssumption DEF Slots, Fds
<1> QED
  BY <1>1, FS_Product

\* Pairs with one first component are as many as their second components.
LEMMA PairsCount ==
    ASSUME NEW S, IsFiniteSet(S), NEW t
    PROVE  /\ IsFiniteSet({t} \X S)
           /\ Cardinality({t} \X S) = Cardinality(S)
<1> DEFINE f == [x \in S |-> <<t, x>>]
<1>1. f \in Bijection(S, {t} \X S)
  <2>1. f \in [S -> {t} \X S]
    OBVIOUS
  <2>2. \A x, y \in S : f[x] = f[y] => x = y
    OBVIOUS
  <2>3. \A z \in {t} \X S : \E x \in S : f[x] = z
    OBVIOUS
  <2> HIDE DEF f
  <2> QED
    BY <2>1, <2>2, <2>3 DEF Bijection, Injection, Surjection, IsInjective
<1> QED
  BY <1>1, FS_Bijection DEF ExistsBijection

\* Adding an element, or taking a subset away, bounds the number of elements.
LEMMA AtMostOneMore ==
    ASSUME NEW A, IsFiniteSet(A), NEW x, NEW B, B \subseteq A \cup {x}
    PROVE  IsFiniteSet(B) /\ Cardinality(B) <= Cardinality(A) + 1
<1>1. Cardinality(A) \in Nat
  BY FS_CardinalityType
<1>2. /\ IsFiniteSet(A \cup {x})
      /\ Cardinality(A \cup {x}) = IF x \in A THEN Cardinality(A) ELSE Cardinality(A) + 1
  BY FS_AddElement
<1>3. IsFiniteSet(B) /\ Cardinality(B) <= Cardinality(A \cup {x})
  BY <1>2, FS_Subset
<1>4. Cardinality(B) \in Nat
  BY <1>3, FS_CardinalityType
<1> QED
  BY <1>1, <1>2, <1>3, <1>4

\* Sets of one, three and five elements.
LEMMA Five ==
    ASSUME NEW a, NEW b, NEW c, NEW d, NEW e
    PROVE  LET T == {a} \cup {b} \cup {c}
               F == T \cup {d} \cup {e}
           IN  /\ IsFiniteSet(T) /\ Cardinality(T) \in Nat /\ Cardinality(T) <= 3
               /\ IsFiniteSet(F) /\ Cardinality(F) \in Nat /\ Cardinality(F) <= 5
<1> DEFINE A == {a}
           B == A \cup {b}
           C == B \cup {c}
           D == C \cup {d}
           E == D \cup {e}
<1>1. IsFiniteSet(A) /\ Cardinality(A) = 1
  BY FS_Singleton
<1>2. B \subseteq A \cup {b} /\ C \subseteq B \cup {c} /\ D \subseteq C \cup {d}
      /\ E \subseteq D \cup {e}
  OBVIOUS
<1> HIDE DEF A, B, C, D, E
<1>3. IsFiniteSet(B) /\ Cardinality(B) <= Cardinality(A) + 1
  BY <1>1, <1>2, AtMostOneMore
<1>4. IsFiniteSet(C) /\ Cardinality(C) <= Cardinality(B) + 1
  BY <1>2, <1>3, AtMostOneMore
<1>5. IsFiniteSet(D) /\ Cardinality(D) <= Cardinality(C) + 1
  BY <1>2, <1>4, AtMostOneMore
<1>6. IsFiniteSet(E) /\ Cardinality(E) <= Cardinality(D) + 1
  BY <1>2, <1>5, AtMostOneMore
<1>7. /\ Cardinality(B) \in Nat /\ Cardinality(C) \in Nat /\ Cardinality(D) \in Nat
      /\ Cardinality(E) \in Nat
  BY <1>3, <1>4, <1>5, <1>6, FS_CardinalityType
<1>8. Cardinality(C) <= 3 /\ Cardinality(E) <= 5
  BY <1>1, <1>3, <1>4, <1>5, <1>6, <1>7
<1> QED
  BY <1>4, <1>6, <1>7, <1>8 DEF A, B, C, D, E

\* What is left of a set without one of its subsets.
LEMMA WithoutSubset ==
    ASSUME NEW A, IsFiniteSet(A), NEW D, D \subseteq A
    PROVE  /\ IsFiniteSet(A \ D) /\ IsFiniteSet(D)
           /\ Cardinality(A \ D) = Cardinality(A) - Cardinality(D)
           /\ Cardinality(A) \in Nat /\ Cardinality(D) \in Nat
           /\ Cardinality(D) <= Cardinality(A)
<1>1. A \cap D = D
  OBVIOUS
<1> QED
  BY <1>1, FS_Difference, FS_Subset, FS_CardinalityType, ZenonT(30)


-----------------------------------------------------------------------------
(***************************************************************************)
(* Descriptors                                                             *)
(***************************************************************************)

\* Those of the descriptors S of task p that refer to h.
MyRefs(p, S, h) == {p} \X {fd \in S : files[p][fd] = h}

\* NrRefs counts them.
LEMMA MyRefsCount ==
    ASSUME TypeOK, NEW p \in Slots, NEW S \in SUBSET Fds, NEW h \in Handles
    PROVE  /\ IsFiniteSet(Refs(h)) /\ Cardinality(Refs(h)) \in Nat
           /\ MyRefs(p, S, h) \subseteq Refs(h)
           /\ IsFiniteSet(MyRefs(p, S, h))
           /\ Cardinality(MyRefs(p, S, h)) = NrRefs(p, S, h)
           /\ NrRefs(p, S, h) \in Nat
           /\ Cardinality(Refs(h) \ MyRefs(p, S, h)) = Cardinality(Refs(h)) - NrRefs(p, S, h)
           /\ NrRefs(p, S, h) <= Cardinality(Refs(h))
<1>1. IsFiniteSet(Refs(h))
  BY Finite, FS_Subset DEF Refs
<1>2. MyRefs(p, S, h) \subseteq Refs(h)
  BY DEF MyRefs, Refs
<1>3. IsFiniteSet({fd \in S : files[p][fd] = h})
  BY Finite, FS_Subset
<1>4. Cardinality(MyRefs(p, S, h)) = NrRefs(p, S, h)
  BY <1>3, PairsCount DEF MyRefs, NrRefs
<1> QED
  BY <1>1, <1>2, <1>4, WithoutSubset

\* The FILEs after descriptors were closed: those without any are freed, and the
\* others count what is left.
LEMMA FilesClosedCount ==
    ASSUME TypeOK, FileCounts, NEW p \in Slots, NEW S \in SUBSET Fds, NEW h \in Handles
    PROVE  LET R == Refs(h) \ MyRefs(p, S, h)
               f == FilesClosed(p, S)[h]
           IN  IF R = {} THEN f = NULL
               ELSE /\ file[h] # NULL
                    /\ f \in FILE /\ f.node = file[h].node
                    /\ f.count = Cardinality(R)
<1> DEFINE R == Refs(h) \ MyRefs(p, S, h)
           f == FilesClosed(p, S)[h]
           n == NrRefs(p, S, h)
<1>1. /\ n \in Nat /\ Cardinality(Refs(h)) \in Nat
      /\ Cardinality(R) = Cardinality(Refs(h)) - n /\ n <= Cardinality(Refs(h))
      /\ IsFiniteSet(R) /\ IsFiniteSet(Refs(h))
  BY MyRefsCount, FS_Difference
<1>2. f = IF file[h] = NULL \/ n = 0 THEN file[h]
          ELSE IF file[h].count <= n THEN NULL
          ELSE [file[h] EXCEPT !.count = @ - n]
  BY DEF FilesClosed
<1>3. Cardinality(R) = 0 <=> R = {}
  BY <1>1, FS_EmptySet
<1>4. IF file[h] = NULL THEN Refs(h) = {}
      ELSE file[h].count = Cardinality(Refs(h)) /\ Refs(h) # {}
  BY DEF FileCounts
<1>5. file[h] \in FILE \cup {NULL} /\ NULL \notin FILE
  BY NullAssumption DEF TypeOK
<1>6. CASE file[h] = NULL
  BY <1>2, <1>4, <1>6
<1>7. CASE file[h] # NULL /\ n = 0
  <2>1. Cardinality(Refs(h)) # 0
    BY <1>1, <1>4, <1>7, FS_EmptySet
  <2>2. R # {}
    BY <1>1, <1>3, <1>7, <2>1
  <2> QED
    BY <1>1, <1>2, <1>4, <1>5, <1>7, <2>2
<1>8. CASE file[h] # NULL /\ n # 0
  <2>1. file[h] \in FILE /\ file[h].count = Cardinality(Refs(h))
    BY <1>4, <1>5, <1>8
  <2>2. CASE R = {}
    <3>1. file[h].count <= n
      BY <1>1, <1>3, <2>1, <2>2
    <3> QED
      BY <1>2, <1>8, <2>2, <3>1
  <2>3. CASE R # {}
    <3>1. ~(file[h].count <= n)
      BY <1>1, <1>3, <2>1, <2>3
    <3>2. f = [file[h] EXCEPT !.count = @ - n]
      BY <1>2, <1>8, <3>1
    <3> HIDE DEF f
    <3>3. f \in FILE /\ f.node = file[h].node /\ f.count = Cardinality(R)
      BY <1>1, <2>1, <3>1, <3>2 DEF FILE
    <3> QED
      BY <1>8, <2>3, <3>3 DEF f
  <2> QED
    BY <2>2, <2>3
<1> QED
  BY <1>6, <1>7, <1>8


-----------------------------------------------------------------------------
(***************************************************************************)
(* Vnodes                                                                  *)
(***************************************************************************)

\* What points to a vnode is finite.
LEMMA UsersFinite ==
    ASSUME TypeOK, NEW v \in Vnodes
    PROVE  IsFiniteSet(Users(v)) /\ Cardinality(Users(v)) \in Nat
<1> DEFINE A == {"file"} \X Handles
           B == {"pwd"} \X Slots
           C == {"root"} \X Slots
           D == {"held"} \X Slots
           E == {"mount"} \X {v}
           F == {"super"} \X {v}
<1>1. IsFiniteSet(A) /\ IsFiniteSet(B) /\ IsFiniteSet(C) /\ IsFiniteSet(D)
  BY PairsCount, Finite, HandlesAssumption
<1>2. IsFiniteSet(E) /\ IsFiniteSet(F)
  BY PairsCount, FS_Singleton
<1>3. Users(v) \subseteq A \cup B \cup C \cup D \cup E \cup F
  BY DEF Users
<1> HIDE DEF A, B, C, D, E, F
<1>4. IsFiniteSet(A \cup B \cup C \cup D \cup E \cup F)
  BY <1>1, <1>2, FS_Union
<1> QED
  BY <1>3, <1>4, FS_Subset, FS_CardinalityType

\* The FILEs freed by closing S that point to v.
FreedUsers(p, S, v) == {"file"} \X {h \in Freed(p, S) : file[h].node = v}

\* A count that goes down stays an UCHAR.
LEMMA Lowered ==
    ASSUME NEW a \in 0 .. 255, NEW n \in Nat
    PROVE  (IF a <= n THEN 0 ELSE a - n) \in 0 .. 255
<1>1. CASE a <= n
  BY <1>1
<1>2. CASE ~(a <= n)
  <2>1. a \in Int /\ 0 <= a /\ a <= 255 /\ n \in Int /\ 0 <= n
    OBVIOUS
  <2>2. a - n \in Int /\ 0 <= a - n /\ a - n <= 255
    BY <1>2, <2>1
  <2> QED
    BY <1>2, <2>2
<1> QED
  BY <1>1, <1>2

\* A vnode loses a reference for each of them and no more.
LEMMA NodesClosedHeld ==
    ASSUME TypeOK, NodesHeld, NEW p \in Slots, NEW S \in SUBSET Fds, NEW v \in Vnodes,
           NEW U, U \subseteq Users(v) \ FreedUsers(p, S, v)
    PROVE  /\ NodesClosed(p, S)[v] \in 0 .. 255
           /\ NodesClosed(p, S)[v] >= Cardinality(U)
<1> DEFINE H == {h \in Freed(p, S) : file[h].node = v}
           n == NrFreed(p, S, v)
<1>1. IsFiniteSet(H)
  BY FS_Subset, HandlesAssumption DEF Freed
<1>2. Cardinality(FreedUsers(p, S, v)) = n
  BY <1>1, PairsCount DEF FreedUsers, NrFreed
<1>3. FreedUsers(p, S, v) \subseteq Users(v)
  BY DEF FreedUsers, Freed, Users
<1>4. /\ Cardinality(Users(v) \ FreedUsers(p, S, v)) = Cardinality(Users(v)) - n
      /\ IsFiniteSet(Users(v) \ FreedUsers(p, S, v))
      /\ Cardinality(Users(v)) \in Nat /\ n \in Nat /\ n <= Cardinality(Users(v))
  BY <1>2, <1>3, UsersFinite, WithoutSubset
<1>5. Cardinality(U) \in Nat /\ Cardinality(U) <= Cardinality(Users(v)) - n
  BY <1>4, FS_Subset, FS_CardinalityType
<1>6. count[v] \in 0 .. 255 /\ count[v] >= Cardinality(Users(v))
  BY DEF TypeOK, NodesHeld
<1>7. NodesClosed(p, S)[v] = IF count[v] <= n THEN 0 ELSE count[v] - n
  BY DEF NodesClosed
<1> HIDE DEF n
<1>8. NodesClosed(p, S)[v] \in 0 .. 255
  <2>1. n \in Nat
    BY <1>4
  <2>2. count[v] \in 0 .. 255
    BY <1>6
  <2>3. (IF count[v] <= n THEN 0 ELSE count[v] - n) \in 0 .. 255
    BY <2>1, <2>2, Lowered
  <2> QED
    BY <1>7, <2>3
<1>9. NodesClosed(p, S)[v] >= Cardinality(U)
  BY <1>4, <1>5, <1>6, <1>7
<1> QED
  BY <1>8, <1>9

-----------------------------------------------------------------------------
(***************************************************************************)
(* The steps                                                               *)
(***************************************************************************)

\* Steps that leave descriptors and FILEs alone keep FileCounts, and BusyFile if
\* they neither begin a call nor end a task that is inside one.
LEMMA SameFiles ==
    ASSUME FileCounts, BusyFile, UNCHANGED <<files, file>>
    PROVE  /\ FileCounts'
           /\ (busy' = busy /\ \A p \in Slots : state[p] = "ALIVE" => state'[p] = "ALIVE")
              => BusyFile'
<1>1. \A h : Refs(h)' = Refs(h)
  BY DEF Refs
<1>2. FileCounts'
  BY <1>1 DEF FileCounts
<1>3. ASSUME busy' = busy, \A p \in Slots : state[p] = "ALIVE" => state'[p] = "ALIVE"
      PROVE  BusyFile'
  BY <1>3 DEF BusyFile
<1> QED
  BY <1>2, <1>3

\* Closing some descriptors, or all of them when the task exits.
LEMMA CloseStep ==
    ASSUME IInv, NEW p \in Slots, NEW S \in SUBSET Fds, busy[p] = NULL, held[p] = NULL,
           files' = [files EXCEPT ![p] = [fd \in Fds |-> IF fd \in S THEN NULL ELSE files[p][fd]]],
           file' = FilesClosed(p, S), count' = NodesClosed(p, S),
           UNCHANGED <<pwd, root, busy, held>>,
           \/ state' = state
           \/ S = Fds /\ state' = [state EXCEPT ![p] = "ZOMBIE"]
    PROVE  IInv'
<1> USE DEF IInv
<1>1. ASSUME NEW h \in Handles
      PROVE  Refs(h)' = Refs(h) \ MyRefs(p, S, h)
  <2>1. NULL # h /\ files \in [Slots -> [Fds -> Handles \cup {NULL}]]
    BY HandlesAssumption DEF TypeOK
  <2>2. ASSUME NEW q \in Slots, NEW fd \in Fds
        PROVE  files'[q][fd] = IF q = p /\ fd \in S THEN NULL ELSE files[q][fd]
    BY <2>1
  <2> QED
    BY <2>1, <2>2 DEF Refs, MyRefs
<1>2. ASSUME NEW h \in Handles
      PROVE  IF Refs(h)' = {} THEN file'[h] = NULL
             ELSE /\ file[h] # NULL
                  /\ file'[h] \in FILE /\ file'[h].node = file[h].node
                  /\ file'[h].count = Cardinality(Refs(h)')
  BY <1>1, FilesClosedCount
<1>3. FileCounts'
  BY <1>2, NullAssumption DEF FileCounts
<1>4. DeadHaveNothing'
  BY DEF DeadHaveNothing, TypeOK
<1>5. BusyFile'
  <2> SUFFICES ASSUME NEW q \in Slots, busy[q] # NULL
               PROVE  /\ state'[q] = "ALIVE"
                      /\ \E fd \in Fds : files'[q][fd] = busy[q]
                      /\ file'[busy[q]] # NULL
    BY DEF BusyFile
  <2>1. q # p /\ state[q] = "ALIVE" /\ busy[q] \in Handles
    BY DEF BusyFile, TypeOK
  <2>2. PICK fd \in Fds : files[q][fd] = busy[q]
    BY DEF BusyFile
  <2>3. files'[q][fd] = busy[q]
    BY <2>1, <2>2 DEF TypeOK
  <2>4. Refs(busy[q])' # {}
    <3>1. <<q, fd>> \in Refs(busy[q])'
      BY <2>3 DEF Refs
    <3> QED BY <3>1
  <2> QED
    BY <1>2, <2>1, <2>3, <2>4, NullAssumption DEF TypeOK
<1>6. ASSUME NEW v \in Vnodes
      PROVE  Users(v)' \subseteq Users(v) \ FreedUsers(p, S, v)
  <2>1. ASSUME NEW h \in Handles, file'[h] # NULL
        PROVE  file[h] # NULL /\ file'[h].node = file[h].node /\ h \notin Freed(p, S)
    BY <1>2, <2>1 DEF Freed
  <2>2. \A q \in Slots : state'[q] = "ALIVE" => state[q] = "ALIVE"
    BY DEF TypeOK
  <2> QED
    BY <2>1, <2>2 DEF Users, FreedUsers
<1>7. ASSUME NEW v \in Vnodes
      PROVE  count'[v] \in 0 .. 255 /\ count'[v] >= Cardinality(Users(v)')
  BY <1>6, NodesClosedHeld
<1>8. NodesHeld'
  BY <1>7 DEF NodesHeld
<1>9. TypeOK'
  <2>1. count' \in [Vnodes -> 0 .. 255]
    BY <1>7 DEF NodesClosed
  <2>2. file' \in [Handles -> FILE \cup {NULL}]
    BY <1>2 DEF FilesClosed
  <2>3. files' \in [Slots -> [Fds -> Handles \cup {NULL}]]
    BY DEF TypeOK
  <2> QED
    BY <2>1, <2>2, <2>3 DEF TypeOK
<1> QED
  BY <1>3, <1>4, <1>5, <1>8, <1>9


-----------------------------------------------------------------------------
\* Counts are natural numbers.
LEMMA CountType == TypeOK => \A v \in Vnodes : count[v] \in 0 .. 255 /\ count[v] \in Nat
<1>1. TypeOK => \A v \in Vnodes : count[v] \in 0 .. 255
  BY DEF TypeOK
<1> QED
  BY <1>1

\* The counts after namei and after a lookup that found nothing.
LEMMA NameiCount ==
    ASSUME TypeOK, NEW via \in SUBSET Dirs, NEW w \in Vnodes
    PROVE  /\ Fits(namei(count, via, w)) =>
                /\ namei(count, via, w) \in [Vnodes -> 0 .. 255]
                /\ \A v \in Vnodes : namei(count, via, w)[v] >= count[v]
                /\ namei(count, via, w)[w] >= count[w] + 1
           /\ Fits(Passed(count, via)) =>
                /\ Passed(count, via) \in [Vnodes -> 0 .. 255]
                /\ \A v \in Vnodes : Passed(count, via)[v] >= count[v]
<1>1. \A v \in Vnodes : count[v] \in Nat /\ MaxCount[v] \in 0 .. 255
  BY CountType, CountAssumption
<1>2. ASSUME NEW v \in Vnodes
      PROVE  /\ Passed(count, via)[v] = IF v \in via THEN count[v] + 1 ELSE count[v]
             /\ namei(count, via, w)[v] = IF v = w THEN Passed(count, via)[v] + 1
                                          ELSE Passed(count, via)[v]
  BY DEF Passed, namei, Taken
<1>3. ASSUME NEW v \in Vnodes
      PROVE  /\ Passed(count, via)[v] \in Nat /\ Passed(count, via)[v] >= count[v]
             /\ namei(count, via, w)[v] \in Nat /\ namei(count, via, w)[v] >= count[v]
             /\ v = w => namei(count, via, w)[v] >= count[v] + 1
  BY <1>1, <1>2
<1>4. /\ Passed(count, via) = [v \in Vnodes |-> Passed(count, via)[v]]
      /\ namei(count, via, w) = [v \in Vnodes |-> namei(count, via, w)[v]]
  BY DEF Passed, namei, Taken
<1>5. ASSUME Fits(Passed(count, via)), NEW v \in Vnodes
      PROVE  Passed(count, via)[v] \in 0 .. 255
  BY <1>1, <1>3, <1>5 DEF Fits
<1>6. ASSUME Fits(namei(count, via, w)), NEW v \in Vnodes
      PROVE  namei(count, via, w)[v] \in 0 .. 255
  BY <1>1, <1>3, <1>6 DEF Fits
<1>7. Fits(Passed(count, via)) => Passed(count, via) \in [Vnodes -> 0 .. 255]
  BY <1>4, <1>5
<1>8. Fits(namei(count, via, w)) => namei(count, via, w) \in [Vnodes -> 0 .. 255]
  BY <1>4, <1>6
<1> QED
  BY <1>3, <1>7, <1>8

\* A count that grew with the users of its vnode still covers them.
LEMMA GrownHeld ==
    ASSUME TypeOK, NodesHeld, NEW v \in Vnodes, NEW c \in Nat, NEW x, NEW U,
           \/ U \subseteq Users(v) /\ c >= count[v]
           \/ U \subseteq Users(v) \cup {x} /\ c >= count[v] + 1
    PROVE  c >= Cardinality(U)
<1>1. /\ IsFiniteSet(Users(v)) /\ Cardinality(Users(v)) \in Nat
      /\ count[v] \in Nat /\ count[v] >= Cardinality(Users(v))
  BY UsersFinite, CountType DEF NodesHeld
<1>2. CASE U \subseteq Users(v) /\ c >= count[v]
  <2>1. Cardinality(U) \in Nat /\ Cardinality(U) <= Cardinality(Users(v))
    BY <1>1, <1>2, FS_Subset, FS_CardinalityType
  <2> QED
    BY <1>1, <1>2, <2>1
<1>3. CASE U \subseteq Users(v) \cup {x} /\ c >= count[v] + 1
  <2>1. Cardinality(U) \in Nat /\ Cardinality(U) <= Cardinality(Users(v)) + 1
    BY <1>1, <1>3, AtMostOneMore, FS_CardinalityType
  <2> QED
    BY <1>1, <1>3, <2>1
<1> QED
  BY <1>2, <1>3

\* Steps that leave descriptors and tasks alone: chdir, chroot, the start of a
\* load, and lookups that fail.
LEMMA PathStep ==
    ASSUME IInv, NEW p \in Slots, NEW via \in SUBSET Dirs, NEW w \in Vnodes,
           \/ NothingFound(p, via)
           \/ sys_chdir(p, via, w) \/ sys_chroot(p, via, w) \/ sys_execve(p, via, w)
    PROVE  IInv'
<1> USE DEF IInv
<1> DEFINE x == IF sys_chdir(p, via, w) THEN <<"pwd", p>>
                ELSE IF sys_chroot(p, via, w) THEN <<"root", p>> ELSE <<"held", p>>
<1>1. /\ count' \in [Vnodes -> 0 .. 255]
      /\ \A v \in Vnodes : count'[v] >= count[v]
      /\ ~NothingFound(p, via) => count'[w] >= count[w] + 1
  <2>1. CASE NothingFound(p, via)
    <3>1. count' = Passed(count, via) /\ Fits(count')
      BY <2>1 DEF NothingFound
    <3> QED
      BY <2>1, <3>1, NameiCount
  <2>2. CASE ~NothingFound(p, via)
    <3>1. count' = namei(count, via, w) /\ Fits(count')
      BY <2>2 DEF sys_chdir, sys_chroot, sys_execve
    <3> QED
      BY <3>1, NameiCount
  <2> QED
    BY <2>1, <2>2
<1>2. UNCHANGED <<state, files, file, busy>>
  BY DEF NothingFound, sys_chdir, sys_chroot, sys_execve
<1>3. ASSUME NEW v \in Vnodes
      PROVE  IF v = w /\ ~NothingFound(p, via) THEN Users(v)' \subseteq Users(v) \cup {x}
             ELSE Users(v)' \subseteq Users(v)
  BY <1>2, VnodesAssumption
     DEF TypeOK, Users, NothingFound, sys_chdir, sys_chroot, sys_execve
<1>4. NodesHeld'
  <2> SUFFICES ASSUME NEW v \in Vnodes PROVE count'[v] >= Cardinality(Users(v)')
    BY DEF NodesHeld
  <2>1. count'[v] \in Nat
    BY <1>1
  <2> HIDE DEF x
  <2> QED
    BY <1>1, <1>3, <2>1, GrownHeld
<1>5. TypeOK'
  BY <1>1, <1>2, ZenonT(30) DEF TypeOK, NothingFound, sys_chdir, sys_chroot, sys_execve
<1>6. DeadHaveNothing'
  BY <1>2 DEF DeadHaveNothing, TypeOK, NothingFound, sys_chdir, sys_chroot, sys_execve,
              MayCall, MayCommand, InUser, InNish
<1>7. FileCounts' /\ BusyFile'
  BY <1>2, SameFiles
<1> QED
  BY <1>4, <1>5, <1>6, <1>7


-----------------------------------------------------------------------------
\* A new FILE has one descriptor, and a reference to its vnode.
LEMMA OpenStep ==
    ASSUME IInv, NEW p \in Slots, NEW fd \in Fds, NEW h \in Handles, NEW via \in SUBSET Dirs,
           NEW w \in Vnodes, NEW b \in BOOLEAN, sys_open(p, fd, h, via, w, b)
    PROVE  IInv'
<1> USE DEF IInv
<1> USE DEF sys_open
<1>1. /\ count' \in [Vnodes -> 0 .. 255]
      /\ \A v \in Vnodes : count'[v] >= count[v]
      /\ count'[w] >= count[w] + 1
  BY NameiCount
<1>2. UNCHANGED <<state, pwd, root, busy, held>>
  OBVIOUS
<1>3. /\ files \in [Slots -> [Fds -> Handles \cup {NULL}]] /\ NULL \notin Handles
      /\ files[p][fd] = NULL /\ file[h] = NULL /\ file \in [Handles -> FILE \cup {NULL}]
  BY HandlesAssumption DEF TypeOK, IsLowestFree
<1>4. \A q \in Slots, e \in Fds :
        files'[q][e] = IF q = p /\ e = fd THEN h ELSE files[q][e]
  BY <1>3
<1>5. /\ file'[h] \in FILE /\ file'[h].node = w /\ file'[h].count = 1
      /\ \A g \in Handles \ {h} : file'[g] = file[g]
  BY <1>3 DEF FILE
<1>6. Refs(h) = {}
  BY <1>3 DEF FileCounts
<1>7. Refs(h)' = {<<p, fd>>}
  BY <1>3, <1>4, <1>6 DEF Refs
<1>8. \A g \in Handles \ {h} : Refs(g)' = Refs(g)
  BY <1>3, <1>4 DEF Refs
<1>9. FileCounts'
  <2>1. file'[h].count = Cardinality(Refs(h)') /\ Refs(h)' # {}
    BY <1>5, <1>7, FS_Singleton
  <2> QED
    BY <1>5, <1>8, <2>1, NullAssumption DEF FileCounts
<1>10. ASSUME NEW v \in Vnodes
       PROVE  IF v = w THEN Users(v)' \subseteq Users(v) \cup {<<"file", h>>}
              ELSE Users(v)' \subseteq Users(v)
  BY <1>2, <1>5 DEF Users
<1>11. NodesHeld'
  <2> SUFFICES ASSUME NEW v \in Vnodes PROVE count'[v] >= Cardinality(Users(v)')
    BY DEF NodesHeld
  <2>1. count'[v] \in Nat
    BY <1>1
  <2> QED
    BY <1>1, <1>10, <2>1, GrownHeld
<1>12. TypeOK'
  <2>1. file' \in [Handles -> FILE \cup {NULL}]
    BY <1>3 DEF FILE
  <2>2. files' \in [Slots -> [Fds -> Handles \cup {NULL}]]
    BY <1>3
  <2> QED
    BY <1>1, <1>2, <2>1, <2>2 DEF TypeOK
<1>13. DeadHaveNothing'
  BY <1>2, <1>4 DEF DeadHaveNothing, MayCall, InUser
<1>14. BusyFile'
  BY <1>2, <1>3, <1>4, <1>5, NullAssumption DEF BusyFile, TypeOK
<1> QED
  BY <1>9, <1>11, <1>12, <1>13, <1>14

\* dup2 to another descriptor takes the reference of the one it closes away and
\* gives it to the FILE of the other; a FILE that both refer to survives.
LEMMA Dup2Step ==
    ASSUME IInv, NEW p \in Slots, NEW fd \in Fds, NEW fd2 \in Fds, fd # fd2,
           sys_dup2(p, fd, fd2)
    PROVE  IInv'
<1> USE DEF IInv
<1>0. PICK h \in Handles : files[p][fd] = h
  BY DEF TypeOK, sys_dup2
<1> DEFINE S == {fd2}
           R(g) == Refs(g) \ MyRefs(p, S, g)
           F == FilesClosed(p, S)
<1>1. /\ files \in [Slots -> [Fds -> Handles \cup {NULL}]] /\ NULL \notin Handles
      /\ h # NULL /\ files[p][fd] = h
      /\ state[p] = "ALIVE" /\ busy[p] = NULL /\ held[p] = NULL
  BY <1>0, HandlesAssumption DEF TypeOK, sys_dup2, MayCall, InUser
<1>2. /\ UNCHANGED <<state, pwd, root, busy, held>>
      /\ count' = NodesClosed(p, S)
      /\ files' = [files EXCEPT ![p][fd2] = h]
      /\ file' = [F EXCEPT ![h].count = @ + 1]
  BY <1>0 DEF sys_dup2, Shared
<1>3. \A q \in Slots, e \in Fds :
        files'[q][e] = IF q = p /\ e = fd2 THEN h ELSE files[q][e]
  BY <1>1, <1>2
<1>4. ASSUME NEW g \in Handles
      PROVE  IF R(g) = {} THEN F[g] = NULL
             ELSE /\ file[g] # NULL
                  /\ F[g] \in FILE /\ F[g].node = file[g].node
                  /\ F[g].count = Cardinality(R(g))
  BY FilesClosedCount
<1>5. <<p, fd>> \in R(h) /\ <<p, fd2>> \notin R(h)
  BY <1>1 DEF Refs, MyRefs
<1>6. Refs(h)' = R(h) \cup {<<p, fd2>>}
  BY <1>1, <1>3 DEF Refs, MyRefs
<1>7. \A g \in Handles \ {h} : Refs(g)' = R(g)
  BY <1>1, <1>3 DEF Refs, MyRefs
<1>8. F \in [Handles -> FILE \cup {NULL}]
  BY <1>4 DEF FilesClosed
<1>9. Cardinality(Refs(h)') = Cardinality(R(h)) + 1
  <2>1. IsFiniteSet(R(h))
    BY <1>1, MyRefsCount, FS_Difference
  <2> DEFINE x == <<p, fd2>>
  <2>2. x \notin R(h) /\ Refs(h)' = R(h) \cup {x}
    BY <1>5, <1>6
  <2> HIDE DEF R, x
  <2>3. Cardinality(R(h) \cup {x}) = Cardinality(R(h)) + 1
    BY <2>1, <2>2, FS_AddElement
  <2> QED
    BY <2>2, <2>3
<1> HIDE DEF R, F
<1>10. /\ file'[h] = [F[h] EXCEPT !.count = @ + 1]
       /\ \A g \in Handles \ {h} : file'[g] = F[g]
  BY <1>1, <1>2, <1>8
<1>11. F[h] \in FILE /\ F[h].node = file[h].node /\ F[h].count = Cardinality(R(h)) /\ file[h] # NULL
  BY <1>1, <1>4, <1>5
<1>12. /\ file'[h] \in FILE /\ file'[h].node = file[h].node
       /\ file'[h].count = Cardinality(Refs(h)')
  BY <1>9, <1>10, <1>11 DEF FILE
<1>13. FileCounts'
  <2>1. Refs(h)' # {}
    BY <1>6
  <2>2. ASSUME NEW g \in Handles, g # h
        PROVE  IF file'[g] = NULL THEN Refs(g)' = {}
               ELSE file'[g].count = Cardinality(Refs(g)') /\ Refs(g)' # {}
    BY <1>4, <1>7, <1>10, <2>2, NullAssumption
  <2> QED
    BY <1>12, <2>1, <2>2, NullAssumption DEF FileCounts
<1>14. ASSUME NEW v \in Vnodes
       PROVE  Users(v)' \subseteq Users(v) \ FreedUsers(p, S, v)
  <2>1. ASSUME NEW g \in Handles, file'[g] # NULL
        PROVE  file[g] # NULL /\ file'[g].node = file[g].node /\ F[g] # NULL
    BY <1>4, <1>10, <1>11, <1>12, <2>1, NullAssumption
  <2>2. \A g \in Handles : file'[g] # NULL => g \notin Freed(p, S)
    BY <2>1 DEF Freed, F
  <2>3. UNCHANGED <<state, pwd, root, held>>
    BY <1>2
  <2> HIDE DEF S
  <2> QED
    BY <2>1, <2>2, <2>3 DEF Users, FreedUsers
<1>15. ASSUME NEW v \in Vnodes
       PROVE  count'[v] \in 0 .. 255 /\ count'[v] >= Cardinality(Users(v)')
  BY <1>2, <1>14, NodesClosedHeld, SMTT(30)
<1>16. NodesHeld'
  BY <1>15 DEF NodesHeld
<1>17. TypeOK'
  <2>1. count' \in [Vnodes -> 0 .. 255]
    BY <1>2, <1>15 DEF NodesClosed
  <2>2. file' \in [Handles -> FILE \cup {NULL}]
    <3>1. file' = [g \in Handles |-> file'[g]]
      BY <1>2, <1>8
    <3> QED
      BY <1>8, <1>10, <1>12, <3>1
  <2>3. files' \in [Slots -> [Fds -> Handles \cup {NULL}]]
    BY <1>1, <1>2
  <2> QED
    BY <1>2, <2>1, <2>2, <2>3 DEF TypeOK
<1>18. DeadHaveNothing'
  BY <1>1, <1>2, <1>3 DEF DeadHaveNothing
<1>19. BusyFile'
  <2> SUFFICES ASSUME NEW q \in Slots, busy[q] # NULL
               PROVE  /\ state'[q] = "ALIVE"
                      /\ \E e \in Fds : files'[q][e] = busy[q]
                      /\ file'[busy[q]] # NULL
    BY <1>2 DEF BusyFile
  <2>1. q # p /\ state[q] = "ALIVE" /\ busy[q] \in Handles
    BY <1>1 DEF BusyFile, TypeOK
  <2>2. PICK e \in Fds : files[q][e] = busy[q]
    BY DEF BusyFile
  <2>3. files'[q][e] = busy[q]
    BY <1>3, <2>1, <2>2
  <2>4. <<q, e>> \in Refs(busy[q])'
    BY <1>2, <2>3 DEF Refs
  <2> QED
    BY <1>2, <1>13, <2>1, <2>3, <2>4 DEF FileCounts
<1> QED
  BY <1>13, <1>16, <1>17, <1>18, <1>19


-----------------------------------------------------------------------------
\* The child has the descriptors of its parent, each counted, and takes its
\* directories, each with a reference of its own.
LEMMA ForkStep ==
    ASSUME IInv, NEW p \in Slots, NEW c \in Slots, sys_fork(p, c)
    PROVE  IInv'
<1> USE DEF IInv
<1> DEFINE C(h) == {c} \X {fd \in Fds : files[p][fd] = h}
<1>1. /\ files \in [Slots -> [Fds -> Handles \cup {NULL}]] /\ NULL \notin Handles
      /\ file \in [Handles -> FILE \cup {NULL}]
      /\ state[p] = "ALIVE" /\ state[c] = "FREE" /\ c # p
      /\ busy[c] = NULL /\ held[c] = NULL /\ \A fd \in Fds : files[c][fd] = NULL
  BY HandlesAssumption
     DEF TypeOK, DeadHaveNothing, sys_fork, MayCommand, InUser, InNish
<1>2. /\ UNCHANGED <<busy, held>>
      /\ state' = [state EXCEPT ![c] = "ALIVE"]
      /\ files' = [files EXCEPT ![c] = files[p]]
      /\ file' = Inherited(p)
      /\ pwd' = [pwd EXCEPT ![c] = pwd[p]] /\ root' = [root EXCEPT ![c] = root[p]]
      /\ count' = Taken(Taken(count, pwd[p]), root[p]) /\ Fits(count')
  BY DEF sys_fork, Adopted
<1>3. \A q \in Slots, fd \in Fds :
        files'[q][fd] = IF q = c THEN files[p][fd] ELSE files[q][fd]
  BY <1>1, <1>2
<1>4. ASSUME NEW h \in Handles
      PROVE  Refs(h)' = Refs(h) \cup C(h) /\ Refs(h) \cap C(h) = {}
  BY <1>1, <1>3 DEF Refs
<1>5. ASSUME NEW h \in Handles
      PROVE  /\ Cardinality(Refs(h)') = Cardinality(Refs(h)) + NrRefs(p, Fds, h)
             /\ NrRefs(p, Fds, h) \in Nat
             /\ Refs(h) = {} => C(h) = {}
  <2>1. /\ IsFiniteSet(Refs(h)) /\ Cardinality(Refs(h)) \in Nat
        /\ NrRefs(p, Fds, h) \in Nat
    BY MyRefsCount
  <2>2. IsFiniteSet(C(h)) /\ Cardinality(C(h)) = NrRefs(p, Fds, h)
    <3>1. IsFiniteSet({fd \in Fds : files[p][fd] = h})
      BY Finite, FS_Subset
    <3> QED
      BY <3>1, PairsCount DEF NrRefs
  <2>3. Refs(h) = {} => C(h) = {}
    <3>1. \A fd \in Fds : files[p][fd] = h => <<p, fd>> \in Refs(h)
      BY DEF Refs
    <3> QED
      BY <3>1
  <2> HIDE DEF C
  <2>4. Cardinality({}) = 0
    BY FS_EmptySet
  <2>5. Cardinality(Refs(h) \cup C(h))
          = Cardinality(Refs(h)) + Cardinality(C(h)) - Cardinality(Refs(h) \cap C(h))
    BY <2>1, <2>2, FS_Union
  <2>6. Cardinality(Refs(h) \cap C(h)) = 0
    BY <1>4, <2>4
  <2>7. Cardinality(Refs(h)') = Cardinality(Refs(h) \cup C(h))
    BY <1>4
  <2> QED
    BY <2>1, <2>2, <2>3, <2>5, <2>6, <2>7
<1>6. ASSUME NEW h \in Handles
      PROVE  IF file[h] = NULL THEN file'[h] = NULL
             ELSE /\ file'[h] \in FILE /\ file'[h].node = file[h].node
                  /\ file'[h].count = file[h].count + NrRefs(p, Fds, h)
  <2>1. file'[h] = IF file[h] = NULL THEN NULL
                   ELSE [file[h] EXCEPT !.count = @ + NrRefs(p, Fds, h)]
    BY <1>2 DEF Inherited
  <2>2. file[h] # NULL => file[h] \in FILE
    BY <1>1
  <2>3. NrRefs(p, Fds, h) \in Nat
    BY <1>5
  <2> QED
    BY <2>1, <2>2, <2>3 DEF FILE
<1>7. FileCounts'
  <2> SUFFICES ASSUME NEW h \in Handles
               PROVE  IF file'[h] = NULL THEN Refs(h)' = {}
                      ELSE file'[h].count = Cardinality(Refs(h)') /\ Refs(h)' # {}
    BY DEF FileCounts
  <2>1. CASE file[h] = NULL
    BY <1>4, <1>5, <1>6, <2>1 DEF FileCounts
  <2>2. CASE file[h] # NULL
    BY <1>4, <1>5, <1>6, <2>2, NullAssumption DEF FileCounts
  <2> QED
    BY <2>1, <2>2
<1>8. DeadHaveNothing'
  BY <1>1, <1>2, <1>3 DEF DeadHaveNothing, TypeOK
<1>9. BusyFile'
  <2> SUFFICES ASSUME NEW q \in Slots, busy[q] # NULL
               PROVE  /\ state'[q] = "ALIVE"
                      /\ \E fd \in Fds : files'[q][fd] = busy[q]
                      /\ file'[busy[q]] # NULL
    BY <1>2 DEF BusyFile
  <2>1. q # c /\ state[q] = "ALIVE" /\ busy[q] \in Handles /\ file[busy[q]] # NULL
    BY <1>1 DEF BusyFile, TypeOK
  <2>2. PICK fd \in Fds : files[q][fd] = busy[q]
    BY DEF BusyFile
  <2>3. files'[q][fd] = busy[q]
    BY <1>3, <2>1, <2>2
  <2>4. state'[q] = "ALIVE"
    BY <1>2, <2>1 DEF TypeOK
  <2>5. file'[busy[q]] # NULL
    BY <1>6, <2>1, NullAssumption
  <2> QED
    BY <2>3, <2>4, <2>5
<1>10. PICK d \in Dirs, r \in Dirs : d = pwd[p] /\ r = root[p]
  BY DEF TypeOK
<1> DEFINE x == <<"pwd", c>>
           y == <<"root", c>>
           New(v) == (IF v = d THEN {x} ELSE {}) \cup (IF v = r THEN {y} ELSE {})
<1>11. ASSUME NEW v \in Vnodes
       PROVE  /\ count[v] \in Nat /\ MaxCount[v] \in 0 .. 255
              /\ count'[v] = IF v = d THEN IF v = r THEN count[v] + 2 ELSE count[v] + 1
                             ELSE IF v = r THEN count[v] + 1 ELSE count[v]
              /\ count'[v] \in 0 .. 255 /\ count'[v] \in Nat
  <2>1. count[v] \in Nat /\ MaxCount[v] \in 0 .. 255 /\ count \in [Vnodes -> 0 .. 255]
    BY CountType, CountAssumption DEF TypeOK
  <2>2. count'[v] = IF v = d THEN IF v = r THEN (count[v] + 1) + 1 ELSE count[v] + 1
                    ELSE IF v = r THEN count[v] + 1 ELSE count[v]
    BY <1>2, <1>10, <2>1, VnodesAssumption DEF Taken
  <2>3. count'[v] <= MaxCount[v]
    BY <1>2 DEF Fits
  <2> QED
    BY <2>1, <2>2, <2>3, SMTT(30)
<1>12. ASSUME NEW v \in Vnodes
       PROVE  Users(v)' \subseteq Users(v) \cup New(v)
  <2>1. \A h \in Handles : file'[h] # NULL => file[h] # NULL /\ file'[h].node = file[h].node
    BY <1>6
  <2>2. /\ \A q \in Slots \ {c} : state'[q] = state[q] /\ pwd'[q] = pwd[q] /\ root'[q] = root[q]
        /\ pwd'[c] = d /\ root'[c] = r /\ held' = held
    BY <1>2, <1>10 DEF TypeOK
  <2> QED
    BY <2>1, <2>2 DEF Users
<1>13. NodesHeld'
  <2> SUFFICES ASSUME NEW v \in Vnodes PROVE count'[v] >= Cardinality(Users(v)')
    BY DEF NodesHeld
  <2> DEFINE U == Users(v)
             W == Users(v)'
  <2>1. W \subseteq U \cup (IF v = d THEN {x} ELSE {}) \cup (IF v = r THEN {y} ELSE {})
    BY <1>12
  <2>2. IsFiniteSet(U) /\ Cardinality(U) \in Nat /\ count[v] >= Cardinality(U)
    BY UsersFinite DEF NodesHeld
  <2>3. count[v] \in Nat
    BY <1>11
  <2> HIDE DEF U, W, x, y, New
  <2>4. /\ IsFiniteSet(U \cup {x})
        /\ Cardinality(U \cup {x}) \in Nat /\ Cardinality(U \cup {x}) <= Cardinality(U) + 1
    BY <2>2, AtMostOneMore, FS_CardinalityType
  <2>5. CASE v = d /\ v = r
    <3>1. W \subseteq (U \cup {x}) \cup {y}
      BY <2>1, <2>5
    <3>2. Cardinality(W) \in Nat /\ Cardinality(W) <= Cardinality(U \cup {x}) + 1
      BY <2>4, <3>1, AtMostOneMore, FS_CardinalityType
    <3>3. count'[v] = count[v] + 2
      BY <1>11, <2>5
    <3> QED
      BY <2>2, <2>3, <2>4, <3>2, <3>3 DEF W
  <2>6. CASE v = d /\ v # r
    <3>1. W \subseteq U \cup {x}
      BY <2>1, <2>6
    <3>2. count'[v] = count[v] + 1
      BY <1>11, <2>6
    <3>3. Cardinality(W) \in Nat /\ Cardinality(W) <= Cardinality(U) + 1
      BY <2>2, <3>1, AtMostOneMore, FS_CardinalityType
    <3> QED
      BY <2>2, <2>3, <3>2, <3>3 DEF W
  <2>7. CASE v # d /\ v = r
    <3>1. W \subseteq U \cup {y}
      BY <2>1, <2>7
    <3>2. count'[v] = count[v] + 1
      BY <1>11, <2>7
    <3>3. Cardinality(W) \in Nat /\ Cardinality(W) <= Cardinality(U) + 1
      BY <2>2, <3>1, AtMostOneMore, FS_CardinalityType
    <3> QED
      BY <2>2, <2>3, <3>2, <3>3 DEF W
  <2>8. CASE v # d /\ v # r
    <3>1. W \subseteq U
      BY <2>1, <2>8
    <3>2. count'[v] = count[v] /\ count'[v] \in Nat
      BY <1>11, <2>8
    <3> QED
      BY <2>3, <3>1, <3>2, GrownHeld DEF U, W
  <2> QED
    BY <2>5, <2>6, <2>7, <2>8
<1>14. TypeOK'
  <2>1. count' \in [Vnodes -> 0 .. 255]
    <3>1. count' = [v \in Vnodes |-> count'[v]]
      BY <1>2 DEF Taken, TypeOK
    <3> QED
      BY <1>11, <3>1
  <2>2. file' \in [Handles -> FILE \cup {NULL}]
    <3>1. file' = [h \in Handles |-> file'[h]]
      BY <1>2 DEF Inherited
    <3> QED
      BY <1>6, <3>1
  <2>3. files' \in [Slots -> [Fds -> Handles \cup {NULL}]]
    BY <1>1, <1>2
  <2>4. /\ state' \in [Slots -> {"FREE", "ALIVE", "ZOMBIE"}]
        /\ pwd' \in [Slots -> Dirs] /\ root' \in [Slots -> Dirs]
    BY <1>2 DEF TypeOK
  <2> QED
    BY <1>2, <2>1, <2>2, <2>3, <2>4 DEF TypeOK
<1> QED
  BY <1>7, <1>8, <1>9, <1>13, <1>14


-----------------------------------------------------------------------------
\* Entering a driver.
LEMMA DriverStep ==
    ASSUME IInv, NEW p \in Slots, NEW fd \in Fds,
           sys_read(p, fd) \/ sys_write(p, fd)
    PROVE  IInv'
<1> USE DEF IInv
<1>1. UNCHANGED <<state, files, file, count, pwd, root, held>>
  BY DEF sys_read, sys_write
<1>2. /\ busy \in [Slots -> Handles \cup {NULL}]
      /\ files \in [Slots -> [Fds -> Handles \cup {NULL}]]
      /\ NULL \notin Handles
  BY HandlesAssumption DEF TypeOK
<1>3. /\ busy' = [busy EXCEPT ![p] = files[p][fd]]
      /\ state[p] = "ALIVE" /\ files[p][fd] \in Handles
  BY <1>2 DEF sys_read, sys_write, MayCall, InUser
<1>4. files[p][fd] \in Handles => file[files[p][fd]] # NULL
  <2> SUFFICES ASSUME NEW h \in Handles, files[p][fd] = h PROVE file[h] # NULL
    OBVIOUS
  <2>1. <<p, fd>> \in Refs(h)
    BY DEF Refs
  <2> QED
    BY <2>1 DEF FileCounts
<1>5. BusyFile'
  BY <1>1, <1>2, <1>3, <1>4 DEF BusyFile
<1>6. TypeOK' /\ DeadHaveNothing'
  <2>1. TypeOK'
    BY <1>1, <1>2, <1>3 DEF TypeOK
  <2>2. DeadHaveNothing'
    BY <1>1, <1>2, <1>3 DEF DeadHaveNothing
  <2> QED
    BY <2>1, <2>2
<1>7. FileCounts'
  BY <1>1, SameFiles
<1>8. NodesHeld'
  BY <1>1 DEF NodesHeld, Users
<1> QED
  BY <1>5, <1>6, <1>7, <1>8

\* Leaving a driver.
LEMMA ReturnStep ==
    ASSUME IInv, NEW p \in Slots, CallReturns(p)
    PROVE  IInv'
<1>1. /\ UNCHANGED <<state, files, file, count, pwd, root, held>>
      /\ busy' = [busy EXCEPT ![p] = NULL] /\ busy \in [Slots -> Handles \cup {NULL}]
  BY DEF CallReturns, IInv, TypeOK
<1>2. TypeOK'
  BY <1>1 DEF IInv, TypeOK
<1>3. DeadHaveNothing'
  BY <1>1 DEF IInv, DeadHaveNothing
<1>4. BusyFile'
  BY <1>1 DEF IInv, BusyFile
<1>5. FileCounts'
  BY <1>1, SameFiles DEF IInv
<1>6. NodesHeld'
  BY <1>1 DEF IInv, NodesHeld, Users
<1> QED
  BY <1>2, <1>3, <1>4, <1>5, <1>6 DEF IInv

\* The vnode that was loaded from is given back with the pointer to it.
LEMMA LoadedStep ==
    ASSUME IInv, NEW p \in Slots, Loaded(p)
    PROVE  IInv'
<1> USE DEF IInv
<1>1. PICK w \in Vnodes : held[p] = w
  BY DEF TypeOK, Loaded
<1>2. /\ UNCHANGED <<state, files, file, pwd, root, busy>>
      /\ count' = iput(count, w) /\ held' = [held EXCEPT ![p] = NULL]
  BY <1>1 DEF Loaded
<1>3. /\ count \in [Vnodes -> 0 .. 255] /\ \A v \in Vnodes : count[v] \in Nat
      /\ held \in [Slots -> Vnodes \cup {NULL}] /\ NULL \notin Vnodes
  BY CountType, VnodesAssumption DEF TypeOK
<1>4. /\ \A v \in Vnodes \ {w} : count'[v] = count[v]
      /\ count'[w] = IF count[w] = 0 THEN 0 ELSE count[w] - 1
  BY <1>2, <1>3 DEF iput
<1>5. \A q \in Slots : held'[q] = IF q = p THEN NULL ELSE held[q]
  BY <1>2, <1>3
<1>6. ASSUME NEW v \in Vnodes
      PROVE  Users(v)' \subseteq Users(v)
  BY <1>2, <1>3, <1>5 DEF Users
<1> DEFINE x == <<"held", p>>
<1>7. Users(w)' \subseteq Users(w) \ {x} /\ {x} \subseteq Users(w)
  <2>1. x \notin Users(w)' /\ x \in Users(w)
    BY <1>1, <1>3, <1>5 DEF Users
  <2> QED
    BY <1>6, <2>1
<1>8. \A v \in Vnodes : IsFiniteSet(Users(v)) /\ count[v] >= Cardinality(Users(v))
  BY UsersFinite DEF NodesHeld
<1> HIDE DEF x
<1>9. count'[w] >= Cardinality(Users(w)') /\ count[w] # 0
  <2>1. /\ IsFiniteSet(Users(w) \ {x})
        /\ Cardinality(Users(w) \ {x}) = Cardinality(Users(w)) - 1
        /\ Cardinality(Users(w)) \in Nat /\ 1 <= Cardinality(Users(w))
    <3>1. Cardinality({x}) = 1
      BY FS_Singleton
    <3> QED
      BY <1>7, <1>8, <3>1, WithoutSubset
  <2>2. /\ Cardinality(Users(w)') \in Nat
        /\ Cardinality(Users(w)') <= Cardinality(Users(w)) - 1
    BY <1>7, <2>1, FS_Subset, FS_CardinalityType
  <2>3. count[w] \in Nat /\ count[w] >= Cardinality(Users(w))
    BY <1>3, <1>8
  <2> QED
    BY <1>4, <2>1, <2>2, <2>3
<1>10. ASSUME NEW v \in Vnodes, v # w
       PROVE  count'[v] >= Cardinality(Users(v)')
  <2>1. /\ Cardinality(Users(v)') \in Nat /\ Cardinality(Users(v)) \in Nat
        /\ Cardinality(Users(v)') <= Cardinality(Users(v))
    BY <1>6, <1>8, FS_Subset, FS_CardinalityType
  <2>2. count'[v] = count[v] /\ count[v] \in Nat /\ count[v] >= Cardinality(Users(v))
    BY <1>3, <1>4, <1>8, <1>10
  <2> QED
    BY <2>1, <2>2
<1>11. NodesHeld'
  BY <1>9, <1>10 DEF NodesHeld
<1>12. TypeOK'
  <2>1. count'[w] \in 0 .. 255
    <3>1. (IF count[w] <= 1 THEN 0 ELSE count[w] - 1) \in 0 .. 255
      BY <1>3, Lowered
    <3>2. count[w] \in Nat /\ count[w] # 0
      BY <1>3, <1>9
    <3>3. (IF count[w] <= 1 THEN 0 ELSE count[w] - 1) = count[w] - 1
      BY <3>2
    <3> QED
      BY <1>4, <3>1, <3>2, <3>3
  <2>2. count' = [v \in Vnodes |-> count'[v]]
    BY <1>2, <1>3 DEF iput
  <2>3. count' \in [Vnodes -> 0 .. 255]
    BY <1>3, <1>4, <2>1, <2>2
  <2> QED
    BY <1>2, <1>3, <2>3 DEF TypeOK
<1>13. DeadHaveNothing'
  BY <1>2, <1>5 DEF DeadHaveNothing
<1>14. FileCounts' /\ BusyFile'
  BY <1>2, SameFiles
<1> QED
  BY <1>11, <1>12, <1>13, <1>14

\* The slot of a task that had exited is free again.
LEMMA ReapedStep ==
    ASSUME IInv, NEW p \in Slots, Reaped(p)
    PROVE  IInv'
<1> USE DEF IInv
<1>1. /\ UNCHANGED <<files, file, count, pwd, root, busy, held>>
      /\ state[p] = "ZOMBIE" /\ state' = [state EXCEPT ![p] = "FREE"]
      /\ state \in [Slots -> {"FREE", "ALIVE", "ZOMBIE"}]
  BY DEF Reaped, TypeOK
<1>2. \A q \in Slots : (state'[q] = "ALIVE") <=> (state[q] = "ALIVE")
  BY <1>1
<1>3. \A v : Users(v)' = Users(v)
  BY <1>1, <1>2 DEF Users
<1>4. TypeOK'
  BY <1>1 DEF TypeOK
<1>5. FileCounts' /\ BusyFile'
  BY <1>1, <1>2, SameFiles
<1>6. DeadHaveNothing'
  BY <1>1, <1>2 DEF DeadHaveNothing
<1>7. NodesHeld'
  BY <1>1, <1>3 DEF NodesHeld
<1> QED
  BY <1>4, <1>5, <1>6, <1>7

-----------------------------------------------------------------------------
(***************************************************************************)
(* The theorem                                                             *)
(***************************************************************************)

\* After the boot what points to the vnodes is counted.
LEMMA InitUsers ==
    ASSUME Init, NEW v \in Vnodes
    PROVE  count[v] >= Cardinality(Users(v))
<1> DEFINE a == <<"pwd", 0>>
           b == <<"pwd", 1>>
           c == <<"root", 0>>
           d == <<"root", 1>>
           m == <<"mount", v>>
           s == <<"super", v>>
<1>1. 0 \in Slots /\ 1 \in Slots /\ \A p \in Slots : p < 2 => p = 0 \/ p = 1
  BY TableAssumption DEF Slots
<1>2. /\ NULL \notin Vnodes /\ Root \in Covered /\ Root \notin Tops
      /\ Top \in Tops /\ Top # Root
      /\ v \in Covered => v \notin Tops
  BY VnodesAssumption
<1>3. Users(v) = (IF v = Top THEN {a, b} ELSE {}) \cup (IF v = Root THEN {c, d} ELSE {})
                 \cup (IF v \in Covered THEN {m} ELSE {})
                 \cup (IF v \in Tops \/ v = Root THEN {s} ELSE {})
  BY <1>1, <1>2 DEF Init, Users
<1>4. count[v] = IF v = Root THEN 5 ELSE IF v = Top THEN 3
                 ELSE IF v \in Covered \cup Tops THEN 1 ELSE 0
  BY DEF Init
<1> HIDE DEF a, b, c, d, m, s
<1>5. CASE v = Root
  <2>1. Users(v) = {c} \cup {d} \cup {m} \cup {s} \cup {s}
    BY <1>2, <1>3, <1>5
  <2>2. LET T == {c} \cup {d} \cup {m}
            F == T \cup {s} \cup {s}
        IN  Cardinality(F) \in Nat /\ Cardinality(F) <= 5
    BY Five
  <2> QED
    BY <1>4, <1>5, <2>1, <2>2
<1>6. CASE v = Top
  <2>1. Users(v) = {a} \cup {b} \cup {s}
    BY <1>2, <1>3, <1>6
  <2>2. Cardinality(Users(v)) \in Nat /\ Cardinality(Users(v)) <= 3
    BY <2>1, Five
  <2> QED
    BY <1>2, <1>4, <1>6, <2>2
<1>7. CASE v # Root /\ v # Top /\ v \in Covered \cup Tops
  <2>1. Users(v) = {m} \/ Users(v) = {s}
    BY <1>2, <1>3, <1>7
  <2>2. Cardinality(Users(v)) = 1
    BY <2>1, FS_Singleton
  <2> QED
    BY <1>4, <1>7, <2>2
<1>8. CASE v # Root /\ v # Top /\ v \notin Covered \cup Tops
  <2>1. Users(v) = {}
    BY <1>2, <1>3, <1>8
  <2> QED
    BY <1>4, <1>8, <2>1, FS_EmptySet
<1> QED
  BY <1>5, <1>6, <1>7, <1>8

\* The inductive invariant holds after the boot.
LEMMA InitIInv == Init => IInv
<1> SUFFICES ASSUME Init PROVE IInv
  OBVIOUS
<1>1. TypeOK
  <2>1. Root \in Dirs /\ Top \in Dirs
    BY VnodesAssumption
  <2>2. count \in [Vnodes -> 0 .. 255]
    BY DEF Init
  <2> QED
    BY <2>1, <2>2 DEF TypeOK, Init
<1>2. DeadHaveNothing /\ BusyFile
  BY DEF DeadHaveNothing, BusyFile, Init
<1>3. FileCounts
  <2> SUFFICES ASSUME NEW h \in Handles PROVE Refs(h) = {}
    BY DEF FileCounts, Init
  <2> QED
    BY HandlesAssumption DEF Refs, Init
<1>4. NodesHeld
  BY InitUsers DEF NodesHeld
<1> QED
  BY <1>1, <1>2, <1>3, <1>4 DEF IInv

\* Closing one descriptor, dup2 and dup.
LEMMA DescriptorStep ==
    ASSUME IInv, NEW p \in Slots, NEW fd \in Fds, NEW fd2 \in Fds,
           \/ sys_close(p, fd) \/ sys_dup2(p, fd, fd2) \/ sys_dup(p, fd, fd2)
    PROVE  IInv'
<1>1. files \in [Slots -> [Fds -> Handles \cup {NULL}]]
  BY DEF IInv, TypeOK
<1>2. CASE sys_close(p, fd) \/ (sys_dup2(p, fd, fd2) /\ fd = fd2)
  <2>1. /\ files' = [files EXCEPT ![p][fd] = NULL] /\ file' = FilesClosed(p, {fd})
        /\ count' = NodesClosed(p, {fd}) /\ UNCHANGED <<state, pwd, root, busy, held>>
        /\ busy[p] = NULL /\ held[p] = NULL
    BY <1>2 DEF sys_close, sys_dup2, MayCall, InUser
  <2> DEFINE S == {fd}
  <2>2. files' = [files EXCEPT ![p] =
                    [e \in Fds |-> IF e \in S THEN NULL ELSE files[p][e]]]
    BY <1>1, <2>1
  <2>3. /\ S \in SUBSET Fds /\ file' = FilesClosed(p, S) /\ count' = NodesClosed(p, S)
        /\ UNCHANGED <<pwd, root, busy, held>> /\ state' = state
        /\ busy[p] = NULL /\ held[p] = NULL
    BY <2>1
  <2> HIDE DEF S
  <2> QED
    BY <2>2, <2>3, CloseStep
<1>3. CASE sys_dup2(p, fd, fd2) /\ fd # fd2
  BY <1>3, Dup2Step
<1> QED
  BY <1>2, <1>3 DEF sys_dup

\* The exit of a task closes all its descriptors.
LEMMA ExitStep ==
    ASSUME IInv, NEW p \in Slots, sys_exit(p)
    PROVE  IInv'
<1>1. /\ files' = [files EXCEPT ![p] = [e \in Fds |-> NULL]] /\ file' = FilesClosed(p, Fds)
      /\ count' = NodesClosed(p, Fds) /\ UNCHANGED <<pwd, root, busy, held>>
      /\ state' = [state EXCEPT ![p] = "ZOMBIE"]
      /\ busy[p] = NULL /\ held[p] = NULL
  BY DEF sys_exit, MayCall, InUser
<1>2. PICK S \in SUBSET Fds : S = Fds
  OBVIOUS
<1>3. [e \in Fds |-> NULL] = [e \in Fds |-> IF e \in S THEN NULL ELSE files[p][e]]
  BY <1>2
<1>4. files' = [files EXCEPT ![p] =
                  [e \in Fds |-> IF e \in S THEN NULL ELSE files[p][e]]]
  BY <1>1, <1>3
<1>5. /\ file' = FilesClosed(p, S) /\ count' = NodesClosed(p, S)
      /\ S = Fds /\ state' = [state EXCEPT ![p] = "ZOMBIE"]
  BY <1>1, <1>2
<1> QED
  BY <1>1, <1>4, <1>5, CloseStep

\* Every step keeps the inductive invariant.
LEMMA NextIInv == IInv /\ [Next]_vars => IInv'
<1> SUFFICES ASSUME IInv, [Next]_vars PROVE IInv'
  OBVIOUS
<1>1. CASE UNCHANGED vars
  <2>1. TypeOK' /\ DeadHaveNothing'
    BY <1>1 DEF vars, IInv, TypeOK, DeadHaveNothing
  <2>2. FileCounts' /\ BusyFile'
    BY <1>1, SameFiles DEF vars, IInv
  <2>3. NodesHeld'
    BY <1>1 DEF vars, IInv, NodesHeld, Users
  <2> QED
    BY <2>1, <2>2, <2>3 DEF IInv
<1>2. CASE Next
  <2>1. PICK p \in Slots :
          \/ Descriptors(p) \/ Paths(p) \/ CallReturns(p) \/ Loaded(p)
          \/ \E c \in Slots : sys_fork(p, c)
          \/ sys_exit(p) \/ Reaped(p)
    BY <1>2 DEF Next
  <2>2. CASE Descriptors(p)
    <3>1. PICK fd \in Fds :
            \/ sys_close(p, fd)
            \/ \E fd2 \in Fds : sys_dup2(p, fd, fd2) \/ sys_dup(p, fd, fd2)
            \/ sys_read(p, fd) \/ sys_write(p, fd)
      BY <2>2 DEF Descriptors
    <3> QED
      BY <3>1, DescriptorStep, DriverStep
  <2>3. CASE Paths(p)
    <3>1. PICK via \in SUBSET (Dirs \ Covered) :
            \/ NothingFound(p, via)
            \/ \E v \in Vnodes \ Covered :
                 \/ \E fd \in Fds, h \in Handles, w \in BOOLEAN : sys_open(p, fd, h, via, v, w)
                 \/ sys_chdir(p, via, v) \/ sys_chroot(p, via, v) \/ sys_execve(p, via, v)
      BY <2>3 DEF Paths
    <3>2. Root \in Vnodes /\ via \in SUBSET Dirs
      BY VnodesAssumption
    <3> QED
      BY <3>1, <3>2, PathStep, OpenStep
  <2>4. CASE CallReturns(p)
    BY <2>4, ReturnStep
  <2>5. CASE sys_exit(p)
    BY <2>5, ExitStep
  <2>6. CASE \E c \in Slots : sys_fork(p, c)
    BY <2>6, ForkStep
  <2> QED
    BY <2>1, <2>2, <2>3, <2>4, <2>5, <2>6, LoadedStep, ReapedStep
<1> QED
  BY <1>1, <1>2

\* For any number of tasks, descriptors, FILEs and vnodes: a FILE counts its
\* descriptors and lives exactly as long as it has any, a task inside a driver
\* keeps its FILE, and no vnode that something points to is freed before its
\* counter has reached the limit of an UCHAR.
THEOREM FilesSafe == Spec => [](TypeOK /\ FileCounts /\ BusyFile /\ NodesHeld)
<1>1. Init => IInv
  BY InitIInv
<1>2. IInv /\ [Next]_vars => IInv'
  BY NextIInv
<1>3. IInv => TypeOK /\ FileCounts /\ BusyFile /\ NodesHeld
  BY DEF IInv
<1> QED
  BY <1>1, <1>2, <1>3, PTL DEF Spec

\* The parts of it, each by its name: descriptors refer to FILEs and FILEs to vnodes.
THEOREM FilesTypes == Spec => []TypeOK
BY FilesSafe, PTL

\* sys_open, sys_close, dup and fork keep the counter of every FILE exact.
THEOREM FilesCounted == Spec => []FileCounts
BY FilesSafe, PTL

\* A task that waits inside read or write finds its FILE when it returns.
THEOREM FilesBusy == Spec => []BusyFile
BY FilesSafe, PTL

\* iput frees no vnode that a FILE, a task or a mount still points to.
THEOREM FilesNodes == Spec => []NodesHeld
BY FilesSafe, PTL

=============================================================================
