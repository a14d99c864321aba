----------------------------- MODULE VfsProofs -----------------------------
(***************************************************************************)
(* Names, mounts and the devfs for trees, paths, devices and numbers of    *)
(* mounts of any size: VfsInv is inductive.  The chains of mounts end      *)
(* because a volume is mounted on an older one; that namei finds what a    *)
(* path means is shown name by name, for paths of any length.              *)
(* Then what execve does with the program it has found: its segments and   *)
(* its first stack, for any number of headers and strings.  Last, what a   *)
(* volume of ext2 answers: the bytes of a file, the entries of a directory *)
(* and the places of inodes, block by block and record by record.          *)
(***************************************************************************)
EXTENDS Vfs, ExecImage, Ext2, SequenceTheorems, NaturalsInduction, WellFoundedInduction, TLAPS

-----------------------------------------------------------------------------
(***************************************************************************)
(* Induction over numbers, with a set for the property                     *)
(***************************************************************************)

\* A non-empty set of numbers has a least one.
LEMMA LeastNat ==
    ASSUME NEW S \in SUBSET Nat, S # {}
    PROVE  \E x \in S : \A y \in S : x <= y
<1> DEFINE Less == {ss \in Nat \X Nat : ss[1] < ss[2]}
<1>1. IsWellFoundedOn(Less, Nat)
  BY NatLessThanWellFounded DEF OpToRel
<1>2. PICK x \in S : \A y \in S : ~ (<<y, x>> \in Less)
  <2> HIDE DEF Less
  <2> QED BY <1>1, WFMin
<1>3. ASSUME NEW y \in S PROVE x <= y
  <2>1. x \in Nat /\ y \in Nat
    OBVIOUS
  <2>2. <<y, x>> \in Nat \X Nat /\ <<y, x>>[1] = y /\ <<y, x>>[2] = x
    BY <2>1
  <2>3. ~(y < x)
    BY <1>2, <2>2
  <2> QED
    BY <2>1, <2>3
<1> QED
  BY <1>2, <1>3

\* What holds of 0, and with a number below n also of the next, holds up to n.
LEMMA UpTo ==
    ASSUME NEW n \in Nat, NEW S, 0 \in S, \A k \in 1 .. n : k - 1 \in S => k \in S
    PROVE  \A k \in 0 .. n : k \in S
<1> DEFINE Bad == {k \in 0 .. n : k \notin S}
<1> SUFFICES ASSUME Bad # {} PROVE FALSE
  OBVIOUS
<1>1. Bad \in SUBSET Nat
  OBVIOUS
<1>2. PICK k \in Bad : \A j \in Bad : k <= j
  <2> HIDE DEF Bad
  <2> QED BY <1>1, LeastNat
<1>3. k \in 1 .. n /\ k - 1 \in 0 .. n
  BY <1>2
<1>4. k - 1 \in S
  BY <1>2, <1>3
<1> QED
  BY <1>2, <1>3, <1>4

\* The states of n steps from a, the k-th of which is G[k].
Iteration(f, n, a, G) == f[0] = a /\ \A k \in 1 .. n : f[k] = G[k][f[k - 1]]

\* Steps that lead from S into S can be taken n times.
LEMMA IterationExists ==
    ASSUME NEW n \in Nat, NEW S, NEW a \in S, NEW G \in [1 .. n -> [S -> S]]
    PROVE  \E f \in [0 .. n -> S] : Iteration(f, n, a, G)
<1> DEFINE Run(f, m) == f[0] = a /\ \A k \in 1 .. m : f[k] = G[k][f[k - 1]]
           Done == {m \in 0 .. n : \E f \in [0 .. n -> S] : Run(f, m)}
<1>1. 0 \in Done
  <2> DEFINE c == [i \in 0 .. n |-> a]
  <2>1. c \in [0 .. n -> S] /\ c[0] = a
    OBVIOUS
  <2>2. 0 \in 0 .. n /\ 1 .. 0 = {}
    OBVIOUS
  <2> HIDE DEF c
  <2>3. Run(c, 0)
    BY <2>1, <2>2
  <2> QED
    BY <2>1, <2>2, <2>3
<1>2. ASSUME NEW k \in 1 .. n, k - 1 \in Done PROVE k \in Done
  <2>1. PICK f \in [0 .. n -> S] : Run(f, k - 1)
    BY <1>2
  <2>2. k \in 0 .. n /\ k - 1 \in 0 .. n /\ f[k - 1] \in S
    OBVIOUS
  <2>3. G[k][f[k - 1]] \in S
    BY <2>2
  <2> DEFINE h == [f EXCEPT ![k] = G[k][f[k - 1]]]
  <2>4. h \in [0 .. n -> S] /\ h[k] = G[k][f[k - 1]] /\ \A i \in 0 .. n : i # k => h[i] = f[i]
    BY <2>2, <2>3
  <2>5. Run(h, k)
    <3> HIDE DEF h
    <3>1. h[0] = a
      BY <2>1, <2>4
    <3>2. ASSUME NEW i \in 1 .. k PROVE h[i] = G[i][h[i - 1]]
      <4>0. i - 1 \in 0 .. n /\ i - 1 # k /\ i \in 0 .. n
        OBVIOUS
      <4>1. h[i - 1] = f[i - 1]
        BY <2>4, <4>0
      <4>2. CASE i = k
        BY <2>4, <4>1, <4>2
      <4>3. CASE i # k
        <5>1. i \in 1 .. (k - 1)
          BY <4>3
        <5>2. h[i] = f[i]
          BY <2>4, <4>0, <4>3
        <5> QED
          BY <2>1, <4>1, <5>1, <5>2
      <4> QED
        BY <4>2, <4>3
    <3> QED
      BY <3>1, <3>2
  <2> QED
    BY <2>2, <2>4, <2>5
<1>3. n \in Done
  <2> HIDE DEF Done
  <2>1. \A k \in 0 .. n : k \in Done
    BY <1>1, <1>2, UpTo
  <2> QED
    BY <2>1
<1> QED
  BY <1>3 DEF Iteration

-----------------------------------------------------------------------------
(***************************************************************************)
(* The ends of chains                                                      *)
(***************************************************************************)

\* The vnodes on a chain of n links from v on, which stays at its end.
Chain(f, link, v, n) ==
    /\ f[0] = v
    /\ \A k \in 1 .. n : f[k] = IF f[k - 1] \in DOMAIN link THEN link[f[k - 1]] ELSE f[k - 1]

\* Followed takes the links one by one.
LEMMA FollowedPath ==
    ASSUME NEW n \in Nat, NEW V, NEW link, DOMAIN link \subseteq V,
           \A x \in DOMAIN link : link[x] \in V, NEW v \in V
    PROVE  \E f \in [0 .. n -> V] : Chain(f, link, v, n) /\ Followed(link, v, n) = f[n]
<1> DEFINE Next1(x) == IF x \in DOMAIN link THEN link[x] ELSE x
           G == [k \in 1 .. n |-> [x \in V |-> Next1(x)]]
           Rec(f) == f = [k \in 0 .. n |-> IF k = 0 THEN v
                                           ELSE IF f[k - 1] \in DOMAIN link THEN link[f[k - 1]]
                                                ELSE f[k - 1]]
           g == CHOOSE f : Rec(f)
<1>1. G \in [1 .. n -> [V -> V]]
  OBVIOUS
<1>2. PICK f \in [0 .. n -> V] : f[0] = v /\ \A k \in 1 .. n : f[k] = G[k][f[k - 1]]
  <2> HIDE DEF G
  <2>1. \E f \in [0 .. n -> V] : Iteration(f, n, v, G)
    BY <1>1, IterationExists, Zenon
  <2> QED BY <2>1 DEF Iteration
<1>3. ASSUME NEW k \in 1 .. n PROVE f[k] = Next1(f[k - 1])
  <2>1. k - 1 \in 0 .. n /\ f[k - 1] \in V
    OBVIOUS
  <2> QED
    BY <1>2, <2>1
<1>4. Rec(f)
  <2>1. ASSUME NEW k \in 0 .. n
        PROVE  f[k] = IF k = 0 THEN v ELSE IF f[k - 1] \in DOMAIN link THEN link[f[k - 1]]
                                           ELSE f[k - 1]
    BY <1>2, <1>3
  <2>2. f = [k \in 0 .. n |-> f[k]]
    OBVIOUS
  <2> QED
    BY <2>1, <2>2
<1>5. Rec(g)
  BY <1>4, Zenon
<1>6. Followed(link, v, n) = g[n]
  BY Zenon DEF Followed
<1>7. \A k \in 0 .. n : g[k] = f[k]
  <2> HIDE DEF g
  <2> DEFINE Same == {k \in 0 .. n : g[k] = f[k]}
  <2>0. \A k \in 0 .. n : g[k] = IF k = 0 THEN v ELSE IF g[k - 1] \in DOMAIN link THEN link[g[k - 1]]
                                 ELSE g[k - 1]
    BY <1>5
  <2>1. 0 \in Same
    BY <1>2, <2>0
  <2>2. ASSUME NEW k \in 1 .. n, k - 1 \in Same PROVE k \in Same
    <3>1. k \in 0 .. n /\ k # 0 /\ g[k - 1] = f[k - 1]
      BY <2>2
    <3>2. g[k] = Next1(g[k - 1])
      BY <2>0, <3>1
    <3> QED
      BY <1>3, <3>1, <3>2
  <2>3. \A k \in 0 .. n : k \in Same
    <3> HIDE DEF Same
    <3> QED BY <2>1, <2>2, UpTo
  <2> QED
    BY <2>3
<1>8. Followed(link, v, n) = f[n]
  <2> HIDE DEF g
  <2> QED BY <1>6, <1>7
<1> QED
  BY <1>2, <1>3, <1>8 DEF Chain

\* Every link leads down in rank, which is at most n.
Ranked(link, V, rank, n) ==
    /\ DOMAIN link \subseteq V /\ rank \in [V -> 0 .. n]
    /\ \A x \in DOMAIN link : link[x] \in V /\ rank[link[x]] < rank[x]

\* What holds of a vnode when it holds of all of lower rank holds of all.
LEMMA RankInduction ==
    ASSUME NEW n \in Nat, NEW V, NEW rank \in [V -> 0 .. n], NEW S,
           \A v \in V : (\A w \in V : rank[w] < rank[v] => w \in S) => v \in S
    PROVE  \A v \in V : v \in S
<1> DEFINE Bad == {v \in V : v \notin S}
           Ranks == {rank[v] : v \in Bad}
<1> SUFFICES ASSUME Bad # {} PROVE FALSE
  OBVIOUS
<1>1. Ranks \in SUBSET Nat /\ Ranks # {}
  OBVIOUS
<1>2. PICK r \in Ranks : \A q \in Ranks : r <= q
  <2> HIDE DEF Ranks
  <2> QED BY <1>1, LeastNat
<1>3. PICK v \in Bad : r = rank[v]
  BY <1>2
<1>4. ASSUME NEW w \in V, rank[w] < rank[v] PROVE w \in S
  <2>1. rank[w] \in Nat /\ rank[v] \in Nat
    BY <1>3
  <2>2. rank[w] \notin Ranks
    <3>1. ~(r <= rank[w])
      BY <1>3, <1>4, <2>1
    <3> HIDE DEF Ranks
    <3> QED
      BY <1>2, <3>1
  <2> QED
    BY <2>2
<1> QED
  BY <1>3, <1>4

\* A chain that leads down ends at the last link that is taken.
LEMMA ChainEnds ==
    ASSUME NEW n \in Nat, NEW V, NEW link, NEW rank, Ranked(link, V, rank, n),
           NEW v \in V, NEW f \in [0 .. n -> V], Chain(f, link, v, n)
    PROVE  f[n] \notin DOMAIN link
<1> DEFINE Low == {k \in 0 .. n : f[k] \in DOMAIN link => rank[f[k]] <= n - k}
<1>0. \A x \in V : rank[x] \in 0 .. n
  BY DEF Ranked
<1>1. 0 \in Low
  BY <1>0
<1>2. ASSUME NEW k \in 1 .. n, k - 1 \in Low PROVE k \in Low
  <2>1. k \in 0 .. n /\ k - 1 \in 0 .. n
    OBVIOUS
  <2>2. f[k] = IF f[k - 1] \in DOMAIN link THEN link[f[k - 1]] ELSE f[k - 1]
    BY DEF Chain
  <2>3. CASE f[k - 1] \in DOMAIN link
    <3>1. rank[f[k - 1]] <= n - (k - 1) /\ rank[f[k]] < rank[f[k - 1]]
      BY <1>2, <2>2, <2>3 DEF Ranked
    <3>2. rank[f[k]] \in 0 .. n /\ rank[f[k - 1]] \in 0 .. n
      BY <1>0, <2>1
    <3> QED
      BY <2>1, <3>1, <3>2
  <2>4. CASE f[k - 1] \notin DOMAIN link
    BY <2>1, <2>2, <2>4
  <2> QED
    BY <2>3, <2>4
<1>3. n \in Low
  <2> HIDE DEF Low
  <2>1. \A k \in 0 .. n : k \in Low
    BY <1>1, <1>2, UpTo
  <2> QED
    BY <2>1
<1>4. ASSUME f[n] \in DOMAIN link PROVE FALSE
  <2>1. rank[f[n]] <= 0
    BY <1>3, <1>4
  <2>2. link[f[n]] \in V /\ rank[link[f[n]]] < rank[f[n]]
    BY <1>4 DEF Ranked
  <2>3. rank[link[f[n]]] \in 0 .. n /\ rank[f[n]] \in 0 .. n
    BY <1>0, <2>2
  <2> QED
    BY <2>1, <2>2, <2>3
<1> QED
  BY <1>4

\* Followed finds the end of a chain that leads down: nothing follows on it, and it is
\* the end from the next vnode on as well.
LEMMA FollowedFacts ==
    ASSUME NEW n \in Nat, NEW V, NEW link, NEW rank, Ranked(link, V, rank, n), NEW v \in V
    PROVE  /\ Followed(link, v, n) \in V /\ Followed(link, v, n) \notin DOMAIN link
           /\ v \notin DOMAIN link => Followed(link, v, n) = v
           /\ v \in DOMAIN link => Followed(link, v, n) = Followed(link, link[v], n)
<1>0. /\ DOMAIN link \subseteq V
      /\ \A x \in DOMAIN link : link[x] \in V
  BY DEF Ranked
<1>a. \A w \in V : \E f \in [0 .. n -> V] : Chain(f, link, w, n) /\ Followed(link, w, n) = f[n]
  BY <1>0, FollowedPath
<1>1. PICK f \in [0 .. n -> V] : Chain(f, link, v, n) /\ Followed(link, v, n) = f[n]
  BY <1>a
<1>2. f[n] \in V /\ f[n] \notin DOMAIN link
  BY <1>1, ChainEnds
<1>3. ASSUME v \notin DOMAIN link PROVE f[n] = v
  <2> DEFINE Still == {k \in 0 .. n : f[k] = v}
  <2>1. 0 \in Still
    BY <1>1 DEF Chain
  <2>2. ASSUME NEW k \in 1 .. n, k - 1 \in Still PROVE k \in Still
    BY <1>1, <1>3, <2>2 DEF Chain
  <2>3. \A k \in 0 .. n : k \in Still
    <3> HIDE DEF Still
    <3> QED BY <2>1, <2>2, UpTo
  <2> QED
    BY <2>3
<1>4. ASSUME v \in DOMAIN link PROVE f[n] = Followed(link, link[v], n)
  <2>0. link[v] \in V
    BY <1>0, <1>4
  <2>1. PICK g \in [0 .. n -> V] : Chain(g, link, link[v], n) /\ Followed(link, link[v], n) = g[n]
    BY <1>a, <2>0, Zenon
  <2>2. n # 0
    BY <1>1, <1>2, <1>4 DEF Chain
  <2> DEFINE Behind == {k \in 0 .. (n - 1) : g[k] = f[k + 1]}
  <2>3. 0 \in Behind
    BY <1>1, <1>4, <2>1, <2>2 DEF Chain
  <2>4. ASSUME NEW k \in 1 .. (n - 1), k - 1 \in Behind PROVE k \in Behind
    <3>1. k \in 1 .. n /\ k + 1 \in 1 .. n /\ k - 1 + 1 = k /\ k + 1 - 1 = k
      OBVIOUS
    <3>2. g[k - 1] = f[k]
      BY <2>4, <3>1
    <3>3. g[k] = IF g[k - 1] \in DOMAIN link THEN link[g[k - 1]] ELSE g[k - 1]
      BY <2>1, <3>1 DEF Chain
    <3>4. f[k + 1] = IF f[k] \in DOMAIN link THEN link[f[k]] ELSE f[k]
      BY <1>1, <3>1 DEF Chain
    <3> QED
      BY <3>2, <3>3, <3>4
  <2>5. n - 1 \in Nat
    BY <2>2
  <2>6. \A k \in 0 .. (n - 1) : k \in Behind
    <3> HIDE DEF Behind
    <3> QED BY <2>3, <2>4, <2>5, UpTo
  <2>7. g[n - 1] = f[n]
    BY <2>5, <2>6
  <2>8. g[n] = g[n - 1]
    BY <1>2, <2>1, <2>2, <2>7 DEF Chain
  <2> QED
    BY <2>1, <2>7, <2>8
<1> QED
  BY <1>1, <1>2, <1>3, <1>4

-----------------------------------------------------------------------------
(***************************************************************************)
(* Mounts                                                                  *)
(***************************************************************************)

\* The vnodes of the rootfs and of n more volumes.
Vnodes(n) == (0 .. n) \X Nat

\* Each root of the n volumes covers a vnode of an older one, and what is mounted on a
\* vnode is the root that covers it.
Mounts(n, mt, cv) ==
    /\ n \in Nat
    /\ DOMAIN cv = {<<k, 0>> : k \in 1 .. n}
    /\ \A w \in DOMAIN cv : cv[w] \in Vnodes(n) /\ cv[w][1] < w[1]
    /\ DOMAIN mt \subseteq Vnodes(n)
    /\ \A v \in DOMAIN mt : mt[v] \in DOMAIN cv /\ cv[mt[v]] = v

\* Mounts lead to newer volumes and covers to older ones.
LEMMA MountsRanked ==
    ASSUME NEW n, NEW mt, NEW cv, Mounts(n, mt, cv)
    PROVE  /\ n \in Nat
           /\ Ranked(mt, Vnodes(n), [v \in Vnodes(n) |-> n - v[1]], n)
           /\ Ranked(cv, Vnodes(n), [v \in Vnodes(n) |-> v[1]], n)
<1> DEFINE V == Vnodes(n)
           up == [v \in V |-> n - v[1]]
           down == [v \in V |-> v[1]]
<1>0. n \in Nat
  BY DEF Mounts
<1>1. \A v \in V : v[1] \in 0 .. n
  BY DEF Vnodes
<1>2. up \in [V -> 0 .. n] /\ down \in [V -> 0 .. n]
  <2> HIDE DEF V
  <2> QED BY <1>0, <1>1
<1>3. DOMAIN cv \subseteq V
  BY <1>0 DEF Mounts, Vnodes
<1>4. ASSUME NEW x \in DOMAIN cv PROVE cv[x] \in V /\ down[cv[x]] < down[x]
  <2>1. cv[x] \in V /\ x \in V /\ cv[x][1] < x[1]
    BY <1>3 DEF Mounts
  <2> HIDE DEF V
  <2> QED
    BY <2>1
<1>5. ASSUME NEW x \in DOMAIN mt PROVE mt[x] \in V /\ up[mt[x]] < up[x]
  <2>1. mt[x] \in V /\ x \in V /\ x[1] < mt[x][1]
    BY <1>3 DEF Mounts
  <2> HIDE DEF V
  <2> QED
    BY <1>0, <1>1, <2>1
<1>6. DOMAIN mt \subseteq V
  BY DEF Mounts
<1> QED
  <2> HIDE DEF V, up, down
  <2>1. Ranked(mt, V, up, n) /\ Ranked(cv, V, down, n)
    BY <1>2, <1>3, <1>4, <1>5, <1>6 DEF Ranked
  <2> QED
    BY <1>0, <2>1 DEF V, up, down

\* What resolve_mount and the covers find.
LEMMA MountsFollowed ==
    ASSUME NEW n, NEW mt, NEW cv, Mounts(n, mt, cv), NEW v \in Vnodes(n)
    PROVE  /\ Followed(mt, v, n) \in Vnodes(n) /\ Followed(mt, v, n) \notin DOMAIN mt
           /\ v \notin DOMAIN mt => Followed(mt, v, n) = v
           /\ v \in DOMAIN mt => Followed(mt, v, n) = Followed(mt, mt[v], n)
           /\ Followed(cv, v, n) \in Vnodes(n) /\ Followed(cv, v, n) \notin DOMAIN cv
           /\ v \notin DOMAIN cv => Followed(cv, v, n) = v
           /\ v \in DOMAIN cv => Followed(cv, v, n) = Followed(cv, cv[v], n)
<1> DEFINE up == [x \in Vnodes(n) |-> n - x[1]]
           down == [x \in Vnodes(n) |-> x[1]]
<1>1. n \in Nat /\ Ranked(mt, Vnodes(n), up, n) /\ Ranked(cv, Vnodes(n), down, n)
  BY MountsRanked
<1> HIDE DEF up, down
<1>2. /\ Followed(mt, v, n) \in Vnodes(n) /\ Followed(mt, v, n) \notin DOMAIN mt
      /\ v \notin DOMAIN mt => Followed(mt, v, n) = v
      /\ v \in DOMAIN mt => Followed(mt, v, n) = Followed(mt, mt[v], n)
  BY <1>1, FollowedFacts
<1>3. /\ Followed(cv, v, n) \in Vnodes(n) /\ Followed(cv, v, n) \notin DOMAIN cv
      /\ v \notin DOMAIN cv => Followed(cv, v, n) = v
      /\ v \in DOMAIN cv => Followed(cv, v, n) = Followed(cv, cv[v], n)
  BY <1>1, FollowedFacts
<1> QED
  BY <1>2, <1>3

\* To go up the mounts first changes nothing for the covers, and ends at the vnode
\* itself or at a mounted root.
LEMMA UpAndDown ==
    ASSUME NEW n, NEW mt, NEW cv, Mounts(n, mt, cv)
    PROVE  \A v \in Vnodes(n) :
             /\ Followed(cv, Followed(mt, v, n), n) = Followed(cv, v, n)
             /\ Followed(mt, v, n) = v \/ Followed(mt, v, n) \in DOMAIN cv
<1> DEFINE V == Vnodes(n)
           up == [x \in V |-> n - x[1]]
           Good == {v \in V : /\ Followed(cv, Followed(mt, v, n), n) = Followed(cv, v, n)
                              /\ Followed(mt, v, n) = v \/ Followed(mt, v, n) \in DOMAIN cv}
<1>1. n \in Nat /\ Ranked(mt, V, up, n) /\ DOMAIN cv \subseteq V
  BY MountsRanked DEF Ranked
<1>2. ASSUME NEW v \in V, \A w \in V : up[w] < up[v] => w \in Good PROVE v \in Good
  <2>1. CASE v \notin DOMAIN mt
    BY <2>1, MountsFollowed
  <2>2. CASE v \in DOMAIN mt
    <3>1. mt[v] \in DOMAIN cv /\ mt[v] \in V /\ up[mt[v]] < up[v] /\ cv[mt[v]] = v
      <4> HIDE DEF up, V
      <4> QED BY <1>1, <2>2 DEF Mounts, Ranked
    <3>2. mt[v] \in Good
      <4> HIDE DEF Good, up, V
      <4> QED BY <1>2, <3>1
    <3>3. Followed(mt, v, n) = Followed(mt, mt[v], n)
      BY <2>2, MountsFollowed
    <3>4. Followed(cv, mt[v], n) = Followed(cv, v, n)
      <4> HIDE DEF Good, up
      <4>1. \A x \in Vnodes(n) : x \in DOMAIN cv => Followed(cv, x, n) = Followed(cv, cv[x], n)
        BY MountsFollowed
      <4> QED BY <3>1, <4>1
    <3> QED
      BY <3>1, <3>2, <3>3, <3>4
  <2> QED
    BY <2>1, <2>2
<1>3. \A v \in V : v \in Good
  <2>1. up \in [V -> 0 .. n]
    <3> HIDE DEF up
    <3> QED BY <1>1 DEF Ranked
  <2> HIDE DEF Good, up, V
  <2> QED
    BY <1>1, <1>2, <2>1, RankInduction
<1> QED
  BY <1>3

\* A new volume that is mounted on a vnode without a mount.
LEMMA OneMore ==
    ASSUME NEW n, NEW mt, NEW cv, Mounts(n, mt, cv), NEW m \in Vnodes(n), m \notin DOMAIN mt,
           NEW new, new = <<n + 1, 0>>
    PROVE  Mounts(n + 1, SetPointer(mt, m, new), SetPointer(cv, new, m))
<1> DEFINE mt2 == SetPointer(mt, m, new)
           cv2 == SetPointer(cv, new, m)
<1>0. n \in Nat /\ n + 1 \in Nat
  BY DEF Mounts
<1>1. /\ DOMAIN mt2 = {m} \cup DOMAIN mt
      /\ mt2[m] = new /\ \A x \in DOMAIN mt : mt2[x] = mt[x]
  BY DEF SetPointer
<1>2. new \notin DOMAIN cv /\ new[1] = n + 1
  BY <1>0 DEF Mounts
<1>3. /\ DOMAIN cv2 = {new} \cup DOMAIN cv
      /\ cv2[new] = m /\ \A x \in DOMAIN cv : cv2[x] = cv[x]
  BY <1>2 DEF SetPointer
<1> HIDE DEF mt2, cv2
<1>4. Vnodes(n) \subseteq Vnodes(n + 1) /\ m[1] \in 0 .. n
  BY <1>0 DEF Vnodes
<1>5. DOMAIN cv2 = {<<k, 0>> : k \in 1 .. (n + 1)}
  <2>1. 1 .. (n + 1) = (1 .. n) \cup {n + 1}
    BY <1>0
  <2>2. DOMAIN cv = {<<k, 0>> : k \in 1 .. n}
    BY DEF Mounts
  <2> QED
    BY <1>3, <2>1, <2>2
<1>6. ASSUME NEW w \in DOMAIN cv2 PROVE cv2[w] \in Vnodes(n + 1) /\ cv2[w][1] < w[1]
  <2>1. CASE w = new
    BY <1>0, <1>2, <1>3, <1>4, <2>1
  <2>2. CASE w \in DOMAIN cv
    BY <1>3, <1>4, <2>2 DEF Mounts
  <2> QED
    BY <1>3, <2>1, <2>2
<1>7. DOMAIN mt2 \subseteq Vnodes(n + 1)
  BY <1>1, <1>4 DEF Mounts
<1>8. ASSUME NEW v \in DOMAIN mt2 PROVE mt2[v] \in DOMAIN cv2 /\ cv2[mt2[v]] = v
  <2>1. CASE v = m
    BY <1>1, <1>3, <2>1
  <2>2. CASE v \in DOMAIN mt
    BY <1>1, <1>3, <2>2 DEF Mounts
  <2> QED
    BY <1>1, <2>1, <2>2
<1> QED
  BY <1>0, <1>5, <1>6, <1>7, <1>8 DEF Mounts, mt2, cv2

\* Then the ends of chains stay where they were, or move from the mount point to what is
\* mounted there.
LEMMA OneMoreFollowed ==
    ASSUME NEW n, NEW mt, NEW cv, Mounts(n, mt, cv), NEW m \in Vnodes(n), m \notin DOMAIN mt,
           NEW new, new = <<n + 1, 0>>
    PROVE  \A v \in Vnodes(n) :
             Followed(SetPointer(mt, m, new), v, n + 1)
               = IF Followed(mt, v, n) = m THEN new ELSE Followed(mt, v, n)
<1> DEFINE mt2 == SetPointer(mt, m, new)
           cv2 == SetPointer(cv, new, m)
           V == Vnodes(n)
           up == [x \in V |-> n - x[1]]
           Good == {v \in V : Followed(mt2, v, n + 1)
                                = IF Followed(mt, v, n) = m THEN new ELSE Followed(mt, v, n)}
<1>1. n \in Nat /\ Ranked(mt, V, up, n)
  BY MountsRanked
<1>2. Mounts(n + 1, mt2, cv2)
  BY OneMore
<1>3. /\ DOMAIN mt2 = {m} \cup DOMAIN mt
      /\ mt2[m] = new /\ \A x \in DOMAIN mt : mt2[x] = mt[x]
  BY DEF SetPointer
<1> HIDE DEF mt2, cv2
<1>4. V \subseteq Vnodes(n + 1) /\ new \in Vnodes(n + 1) /\ new \notin V
  BY <1>1 DEF Vnodes
<1>5. new \notin DOMAIN mt2
  BY <1>3, <1>4 DEF Mounts
<1>6. \A x \in Vnodes(n + 1) :
        /\ x \notin DOMAIN mt2 => Followed(mt2, x, n + 1) = x
        /\ x \in DOMAIN mt2 => Followed(mt2, x, n + 1) = Followed(mt2, mt2[x], n + 1)
  <2> HIDE DEF Good, up, V
  <2> QED BY <1>2, MountsFollowed
<1>7. ASSUME NEW v \in V, \A w \in V : up[w] < up[v] => w \in Good PROVE v \in Good
  <2>0. /\ v \in Vnodes(n + 1)
        /\ v \notin DOMAIN mt => Followed(mt, v, n) = v
        /\ v \in DOMAIN mt => Followed(mt, v, n) = Followed(mt, mt[v], n)
    BY <1>4, MountsFollowed
  <2>1. CASE v \in DOMAIN mt
    <3>1. mt[v] \in V /\ up[mt[v]] < up[v]
      <4> HIDE DEF up, V
      <4> QED BY <1>1, <2>1 DEF Ranked
    <3>2. mt[v] \in Good
      <4> HIDE DEF Good, up, V
      <4> QED BY <1>7, <3>1
    <3>3. Followed(mt2, v, n + 1) = Followed(mt2, mt[v], n + 1)
      <4> HIDE DEF Good, up, V
      <4> QED BY <1>3, <1>6, <2>0, <2>1
    <3> QED
      BY <2>0, <2>1, <3>2, <3>3
  <2>2. CASE v = m
    <3>1. Followed(mt2, v, n + 1) = Followed(mt2, new, n + 1) /\ Followed(mt2, new, n + 1) = new
      <4> HIDE DEF Good, up, V
      <4> QED BY <1>3, <1>4, <1>5, <1>6, <2>0, <2>2
    <3> QED
      BY <2>0, <2>2, <3>1
  <2>3. CASE v \notin DOMAIN mt /\ v # m
    <3>1. Followed(mt2, v, n + 1) = v
      <4> HIDE DEF Good, up, V
      <4> QED BY <1>3, <1>6, <2>0, <2>3
    <3> QED
      BY <2>0, <2>3, <3>1
  <2> QED
    BY <2>1, <2>2, <2>3
<1>8. \A v \in V : v \in Good
  <2>1. up \in [V -> 0 .. n]
    <3> HIDE DEF up
    <3> QED BY <1>1 DEF Ranked
  <2> HIDE DEF Good, up, V
  <2> QED
    BY <1>1, <1>7, <2>1, RankInduction
<1> QED
  BY <1>8 DEF mt2

-----------------------------------------------------------------------------
(***************************************************************************)
(* The invariant                                                           *)
(***************************************************************************)

\* The vnodes there are, and where the covers of mounted roots lead.
VN == Vnodes(Len(sbs))
Under(v) == Followed(cover, v, Len(sbs))

\* No volume is freed, the chains of mounts are in order, and mount points are directories.
MountsInv ==
    /\ sbs \in Seq({"initrdfs", "devfs"})
    /\ Mounts(Len(sbs), mount, cover)
    /\ \A v \in DOMAIN mount : IsDir(v)

\* c is no root, and if it is a directory its ".." leads to p.
Child(p, c) ==
    /\ c \in VN /\ c[1] # 0 /\ c[2] # 0
    /\ IsDir(c) => resolve_mount(<<c[1], Tree[c[2]][".."]>>) = resolve_mount(p)

\* A way of directories, each of which leads back to the one before.
Linked(t) ==
    /\ t \in Seq(VN) /\ t # <<>>
    /\ \A i \in 1 .. (Len(t) - 1) : Child(t[i], t[i + 1])

\* Root and current directory are directories, and the way to the current one holds.
TaskInv ==
    /\ root \in VN /\ IsDir(root)
    /\ pwd \in VN /\ IsDir(pwd)
    /\ Linked(trail) /\ resolve_mount(pwd) = resolve_mount(Last(trail))

\* The entries of the devfs: "." and "..", if it is mounted, and then those of devices.
DevInv ==
    /\ dev \in [entries : Seq([name : Devices \cup {".", ".."}, inode : Nat]),
                next : Nat \ {0}, cache : SUBSET Nat]
    /\ "devfs" \notin ToSet(sbs) => dev = [entries |-> <<>>, next |-> 1, cache |-> {}]
    /\ "devfs" \in ToSet(sbs) =>
         /\ Len(dev.entries) >= 2
         /\ dev.entries[1] = [name |-> ".", inode |-> 0] /\ dev.entries[2] = [name |-> "..", inode |-> 0]
    /\ \A i \in 3 .. Len(dev.entries) : dev.entries[i].name \in Devices /\ dev.entries[i].inode # 0
    /\ DevicesReachable

\* The inductive invariant.
VfsInv == MountsInv /\ TaskInv /\ DevInv

-----------------------------------------------------------------------------
(***************************************************************************)
(* One name                                                                *)
(***************************************************************************)

\* What the types of volumes say about directories.
LEMMA Directories ==
    ASSUME MountsInv, NEW v \in VN
    PROVE  /\ v[1] \in 0 .. Len(sbs) /\ v[2] \in Nat /\ v = <<v[1], v[2]>> /\ v # None
           /\ Type(v) \in {"rootfs", "initrdfs", "devfs"}
           /\ v[1] = 0 <=> Type(v) = "rootfs"
           /\ v \in DOMAIN cover <=> v[1] # 0 /\ v[2] = 0
           /\ v[2] = 0 => IsDir(v)
           /\ IsDir(v) /\ v[2] # 0 => Type(v) = "initrdfs" /\ v[2] \in DOMAIN Tree
<1>1. Len(sbs) \in Nat /\ \A i \in 1 .. Len(sbs) : sbs[i] \in {"initrdfs", "devfs"}
  BY DEF MountsInv
<1>2. v[1] \in 0 .. Len(sbs) /\ v[2] \in Nat /\ v = <<v[1], v[2]>>
  BY <1>1 DEF VN, Vnodes
<1>3. v # None
  BY <1>2 DEF None
<1>4. /\ Type(v) \in {"rootfs", "initrdfs", "devfs"}
      /\ v[1] = 0 <=> Type(v) = "rootfs"
  BY <1>1, <1>2 DEF Type
<1>5. v \in DOMAIN cover <=> v[1] # 0 /\ v[2] = 0
  <2>1. DOMAIN cover = {<<k, 0>> : k \in 1 .. Len(sbs)}
    BY DEF MountsInv, Mounts
  <2> QED
    BY <1>1, <1>2, <2>1
<1>6. v[2] = 0 => IsDir(v)
  BY VfsAssumption DEF IsDir, VfsAssumption
<1>7. IsDir(v) /\ v[2] # 0 => Type(v) = "initrdfs" /\ v[2] \in DOMAIN Tree
  BY <1>4 DEF IsDir
<1> QED
  BY <1>2, <1>3, <1>4, <1>5, <1>6, <1>7

\* What resolve_mount answers with has nothing mounted on it, and is a directory if the
\* vnode is.
LEMMA Resolved ==
    ASSUME MountsInv, NEW v \in VN
    PROVE  /\ resolve_mount(v) \in VN /\ resolve_mount(v) \notin DOMAIN mount
           /\ v \notin DOMAIN mount => resolve_mount(v) = v
           /\ resolve_mount(resolve_mount(v)) = resolve_mount(v)
           /\ IsDir(v) => IsDir(resolve_mount(v))
           /\ v \in DOMAIN mount => IsDir(v)
           /\ Under(v) \in VN /\ Under(v) \notin DOMAIN cover
           /\ Under(resolve_mount(v)) = Under(v)
           /\ v \notin DOMAIN cover => Under(v) = v
<1>1. Mounts(Len(sbs), mount, cover)
  BY DEF MountsInv
<1>2. \A x \in VN :
        /\ resolve_mount(x) \in VN /\ resolve_mount(x) \notin DOMAIN mount
        /\ x \notin DOMAIN mount => resolve_mount(x) = x
        /\ Under(x) \in VN /\ Under(x) \notin DOMAIN cover
        /\ x \notin DOMAIN cover => Under(x) = x
  BY <1>1, MountsFollowed DEF resolve_mount, Under, VN
<1>3. /\ Under(resolve_mount(v)) = Under(v)
      /\ resolve_mount(v) = v \/ resolve_mount(v) \in DOMAIN cover
  BY <1>1, UpAndDown DEF resolve_mount, Under, VN
<1>4. IsDir(v) => IsDir(resolve_mount(v))
  BY <1>2, <1>3, Directories
<1>5. v \in DOMAIN mount => IsDir(v)
  BY DEF MountsInv
<1> QED
  BY <1>2, <1>3, <1>4, <1>5

\* A set of numbers up to n has a greatest one, which Max finds.
LEMMA GreatestNat ==
    ASSUME NEW n \in Nat, NEW S \in SUBSET (1 .. n), S # {}
    PROVE  Max(S) \in S
<1> DEFINE R == {n - i : i \in S}
<1>1. R \in SUBSET Nat /\ R # {}
  <2>1. \A i \in S : n - i \in Nat
    OBVIOUS
  <2> QED
    BY <2>1
<1>2. PICK r \in R : \A q \in R : r <= q
  <2> HIDE DEF R
  <2> QED BY <1>1, LeastNat
<1>3. PICK x \in S : r = n - x
  BY <1>2
<1>4. ASSUME NEW y \in S PROVE x >= y
  <2>1. n - y \in R /\ x \in 1 .. n /\ y \in 1 .. n
    OBVIOUS
  <2>2. r <= n - y
    <3> HIDE DEF R
    <3> QED BY <1>2, <2>1
  <2> QED
    BY <1>3, <2>1, <2>2
<1> QED
  BY <1>3, <1>4 DEF Max

\* A lookup in the devfs answers with the inode of an entry of that name.
LEMMA DevfsLookup ==
    ASSUME DevInv, NEW name, devfs_lookup(name) # -1
    PROVE  \E i \in 1 .. Len(dev.entries) :
             dev.entries[i].name = name /\ devfs_lookup(name) = dev.entries[i].inode
<1> DEFINE I == {i \in 1 .. Len(dev.entries) : dev.entries[i].name = name}
<1>1. devfs_lookup(name) =
        IF (IF I # {} THEN Max(I) ELSE 0) = 0 THEN -1
        ELSE dev.entries[IF I # {} THEN Max(I) ELSE 0].inode
  BY DEF devfs_lookup, SelectLastInSeq
<1>2. Len(dev.entries) \in Nat
  BY DEF DevInv
<1>3. I # {}
  BY <1>1
<1>4. Max(I) \in I
  <2>1. I \in SUBSET (1 .. Len(dev.entries))
    OBVIOUS
  <2> HIDE DEF I
  <2> QED BY <1>2, <1>3, <2>1, GreatestNat
<1>5. devfs_lookup(name) = dev.entries[Max(I)].inode
  BY <1>1, <1>3
<1> QED
  BY <1>4, <1>5

\* What lookup finds in a directory, for names that getdentry asks for.
LEMMA LookedUp ==
    ASSUME MountsInv, DevInv, NEW v \in VN, IsDir(v), NEW name, name # ".",
           name = ".." => v \notin DOMAIN cover, lookup(v, name) # None
    PROVE  /\ lookup(v, name) \in VN /\ lookup(v, name)[1] = v[1] /\ v[1] # 0
           /\ name # ".." => lookup(v, name)[2] # 0
           /\ Type(v) = "devfs" => name \in Devices
           /\ Type(v) # "devfs" =>
                /\ Type(v) = "initrdfs" /\ v[2] \in DOMAIN Tree /\ name \in DOMAIN Tree[v[2]]
                /\ lookup(v, name) = <<v[1], Tree[v[2]][name]>>
<1>0. /\ v[1] \in 0 .. Len(sbs) /\ Len(sbs) \in Nat
      /\ Type(v) \in {"rootfs", "initrdfs", "devfs"}
      /\ v[1] = 0 <=> Type(v) = "rootfs"
  BY Directories DEF MountsInv
<1>1. CASE Type(v) = "devfs"
  <2>1. lookup(v, name) = IF devfs_lookup(name) = -1 THEN None ELSE <<v[1], devfs_lookup(name)>>
    BY <1>1 DEF lookup
  <2>2. PICK i \in 1 .. Len(dev.entries) :
          dev.entries[i].name = name /\ devfs_lookup(name) = dev.entries[i].inode
    BY <2>1, DevfsLookup
  <2>3. v[2] = 0 /\ v \in DOMAIN cover
    BY <1>0, <1>1, Directories DEF IsDir
  <2>4. name # ".."
    BY <2>3
  <2>5. "devfs" \in ToSet(sbs)
    <3>1. v[1] \in 1 .. Len(sbs) /\ sbs[v[1]] = "devfs"
      BY <1>0, <1>1 DEF Type
    <3> QED
      BY <3>1 DEF MountsInv, ToSet
  <2>6. Len(dev.entries) \in Nat /\ dev.entries[i] \in [name : Devices \cup {".", ".."}, inode : Nat]
    <3> DEFINE E == dev.entries
               R == [name : Devices \cup {".", ".."}, inode : Nat]
    <3>1. E \in Seq(R) /\ i \in 1 .. Len(E)
      BY DEF DevInv
    <3> HIDE DEF E, R
    <3>2. Len(E) \in Nat /\ E[i] \in R
      BY <3>1
    <3> QED
      BY <3>2 DEF E, R
  <2>7. i \in 3 .. Len(dev.entries)
    BY <2>2, <2>4, <2>5, <2>6 DEF DevInv
  <2>8. name \in Devices /\ dev.entries[i].inode \in Nat \ {0}
    BY <2>2, <2>6, <2>7 DEF DevInv
  <2>9. lookup(v, name) = <<v[1], dev.entries[i].inode>>
    BY <2>1, <2>2
  <2> QED
    BY <1>0, <1>1, <2>8, <2>9 DEF VN, Vnodes
<1>2. CASE Type(v) # "devfs"
  <2>1. Type(v) # "rootfs" /\ name \in DOMAIN Tree[v[2]] /\ lookup(v, name) = <<v[1], Tree[v[2]][name]>>
    BY <1>2 DEF lookup
  <2>2. v[2] \in DOMAIN Tree
    BY <1>2, <2>1 DEF IsDir
  <2>3. Tree[v[2]][name] \in Nat /\ (name # ".." => Tree[v[2]][name] # 0)
    BY <2>1, <2>2, VfsAssumption DEF VfsAssumption
  <2> QED
    BY <1>0, <1>2, <2>1, <2>2, <2>3 DEF VN, Vnodes
<1> QED
  BY <1>1, <1>2

\* The three cases of a name.
LEMMA StepCases ==
    ASSUME MountsInv, NEW v \in VN, NEW name
    PROVE  /\ name \in {"", "."} => Step(v, name) = resolve_mount(v)
           /\ name \notin {"", ".", ".."} =>
                Step(v, name) = IF ~IsDir(resolve_mount(v)) \/ lookup(resolve_mount(v), name) = None
                                THEN None ELSE resolve_mount(lookup(resolve_mount(v), name))
           /\ name = ".." =>
                Step(v, name) = IF Under(v) = resolve_mount(root) THEN Under(v)
                                ELSE IF ~IsDir(Under(v)) \/ lookup(Under(v), "..") = None THEN None
                                ELSE resolve_mount(lookup(Under(v), ".."))
<1>1. v # None /\ Followed(cover, resolve_mount(v), Len(sbs)) = Under(v)
  BY Directories, Resolved DEF Under
<1>2. CASE name \in {"", "."}
  BY <1>1, <1>2 DEF Step, getdentry
<1>3. CASE name \notin {"", ".", ".."}
  BY <1>1, <1>3 DEF Step, getdentry
<1>4. CASE name = ".."
  <2>1. Step(v, name) = getdentry(v, "..")
    BY <1>1, <1>4 DEF Step
  <2>2. getdentry(v, "..") = IF Under(v) = resolve_mount(root) THEN Under(v)
                             ELSE IF ~IsDir(Under(v)) THEN None
                             ELSE IF lookup(Under(v), "..") = None THEN None
                             ELSE resolve_mount(lookup(Under(v), ".."))
    BY <1>1 DEF getdentry
  <2> QED
    BY <1>4, <2>1, <2>2
<1> QED
  BY <1>2, <1>3, <1>4

\* A name leads to nothing or to a vnode that nothing is mounted on.
LEMMA StepResolved ==
    ASSUME MountsInv, DevInv, root \in VN, NEW v \in VN, NEW name, Step(v, name) # None
    PROVE  Step(v, name) \in VN /\ Step(v, name) \notin DOMAIN mount
<1>1. resolve_mount(v) \in VN /\ Under(v) \in VN /\ Under(v) \notin DOMAIN cover
  BY Resolved
<1>2. CASE name \in {"", "."}
  <2>1. Step(v, name) = resolve_mount(v)
    BY <1>2, StepCases
  <2> QED
    BY <2>1, Resolved
<1>3. CASE name \notin {"", ".", ".."}
  <2>1. /\ IsDir(resolve_mount(v)) /\ lookup(resolve_mount(v), name) # None
        /\ Step(v, name) = resolve_mount(lookup(resolve_mount(v), name))
    BY <1>3, StepCases
  <2>2. lookup(resolve_mount(v), name) \in VN
    BY <1>1, <1>3, <2>1, LookedUp
  <2> QED
    BY <2>1, <2>2, Resolved
<1>4. CASE name = ".."
  <2>1. CASE Under(v) = resolve_mount(root)
    <3>1. Step(v, name) = resolve_mount(root)
      BY <1>4, <2>1, StepCases
    <3> QED
      BY <3>1, Resolved
  <2>2. CASE Under(v) # resolve_mount(root)
    <3>1. /\ IsDir(Under(v)) /\ lookup(Under(v), "..") # None
          /\ Step(v, name) = resolve_mount(lookup(Under(v), ".."))
      BY <1>4, <2>2, StepCases
    <3>2. lookup(Under(v), "..") \in VN
      BY <1>1, <3>1, LookedUp
    <3> QED
      BY <3>1, <3>2, Resolved
  <2> QED
    BY <2>1, <2>2
<1> QED
  BY <1>2, <1>3, <1>4

\* A name that stands for no file leads from directories to directories.
LEMMA StepDirectory ==
    ASSUME MountsInv, DevInv, root \in VN, IsDir(root), NEW v \in VN, IsDir(v), NEW name,
           name \notin Devices,
           \A d \in DOMAIN Tree : name \in DOMAIN Tree[d] => Tree[d][name] \in DOMAIN Tree,
           Step(v, name) # None
    PROVE  IsDir(Step(v, name))
<1>1. /\ resolve_mount(v) \in VN /\ IsDir(resolve_mount(v))
      /\ Under(v) \in VN /\ Under(v) \notin DOMAIN cover
  BY Resolved
<1>2. ASSUME NEW w \in VN, IsDir(w), name # ".", name = ".." => w \notin DOMAIN cover,
             lookup(w, name) # None
      PROVE  IsDir(resolve_mount(lookup(w, name)))
  <2>1. lookup(w, name) \in VN /\ lookup(w, name)[1] = w[1]
    BY <1>2, LookedUp
  <2>2. /\ Type(w) = "initrdfs" /\ w[2] \in DOMAIN Tree /\ name \in DOMAIN Tree[w[2]]
        /\ lookup(w, name)[2] = Tree[w[2]][name]
    BY <1>2, LookedUp
  <2>3. Type(lookup(w, name)) = "initrdfs" /\ lookup(w, name)[2] \in DOMAIN Tree
    BY <2>1, <2>2 DEF Type
  <2>4. IsDir(lookup(w, name))
    BY <2>3 DEF IsDir
  <2> QED
    BY <2>1, <2>4, Resolved
<1>3. CASE name \in {"", "."}
  BY <1>1, <1>3, StepCases
<1>4. CASE name \notin {"", ".", ".."}
  <2>1. /\ lookup(resolve_mount(v), name) # None
        /\ Step(v, name) = resolve_mount(lookup(resolve_mount(v), name))
    BY <1>4, StepCases
  <2> QED
    BY <1>1, <1>2, <1>4, <2>1
<1>5. CASE name = ".."
  <2>1. CASE Under(v) = resolve_mount(root)
    <3>1. Step(v, name) = resolve_mount(root)
      BY <1>5, <2>1, StepCases
    <3> QED
      BY <3>1, Resolved
  <2>2. CASE Under(v) # resolve_mount(root)
    <3>1. /\ IsDir(Under(v)) /\ lookup(Under(v), name) # None
          /\ Step(v, name) = resolve_mount(lookup(Under(v), name))
      BY <1>5, <2>2, StepCases
    <3> QED
      BY <1>1, <1>2, <1>5, <3>1
  <2> QED
    BY <2>1, <2>2
<1> QED
  BY <1>3, <1>4, <1>5

-----------------------------------------------------------------------------
(***************************************************************************)
(* A name, and the way                                                     *)
(***************************************************************************)

\* Where the code has got to, and the way that led there.
Agree(v, t) ==
    \/ t = Open
    \/ t = Lost /\ v = None
    \/ Linked(t) /\ v \in VN /\ resolve_mount(v) = resolve_mount(Last(t))

\* A way that is linked is neither lost nor open, and ends at a vnode.
LEMMA LinkedWay ==
    ASSUME MountsInv, NEW t, Linked(t)
    PROVE  t # Lost /\ t # Open /\ Len(t) \in Nat \ {0} /\ Last(t) \in VN
<1>1. t \in Seq(VN) /\ t # <<>>
  BY DEF Linked
<1>2. Len(t) \in Nat \ {0} /\ t[1] \in VN /\ t[Len(t)] \in VN
  BY <1>1
<1>3. t # Open
  <2>1. t[1] # None
    BY <1>2, Directories
  <2> QED
    BY <2>1 DEF Open
<1> QED
  BY <1>1, <1>2, <1>3 DEF Lost, Last

\* What a name finds in a directory leads back to it.
LEMMA FoundIsChild ==
    ASSUME MountsInv, DevInv, NEW p \in VN, IsDir(resolve_mount(p)), NEW name,
           name \notin {".", ".."}, lookup(resolve_mount(p), name) # None
    PROVE  Child(p, lookup(resolve_mount(p), name))
<1> DEFINE here == resolve_mount(p)
           c == lookup(here, name)
<1>0. here \in VN /\ IsDir(here) /\ resolve_mount(here) = here
  BY Resolved
<1> HIDE DEF here
<1>1. /\ c \in VN /\ c[1] = here[1] /\ here[1] # 0 /\ c[2] # 0
      /\ Type(here) # "devfs" =>
           /\ Type(here) = "initrdfs" /\ here[2] \in DOMAIN Tree /\ name \in DOMAIN Tree[here[2]]
           /\ c = <<here[1], Tree[here[2]][name]>>
  BY <1>0, LookedUp DEF here
<1>2. ASSUME IsDir(c) PROVE resolve_mount(<<c[1], Tree[c[2]][".."]>>) = here
  <2> HIDE DEF c
  <2>1. Type(c) = "initrdfs" /\ c[2] \in DOMAIN Tree
    BY <1>1, <1>2, Directories
  <2>2. Type(here) = "initrdfs"
    BY <1>1, <2>1 DEF Type
  <2>3. Tree[c[2]][".."] = here[2]
    <3>1. /\ here[2] \in DOMAIN Tree /\ name \in DOMAIN Tree[here[2]] \ {".", ".."}
          /\ c[2] = Tree[here[2]][name]
      BY <1>1, <2>2
    <3>2. \A d \in DOMAIN Tree : \A x \in DOMAIN Tree[d] \ {".", ".."} :
            Tree[d][x] \in DOMAIN Tree => Tree[Tree[d][x]][".."] = d
      BY VfsAssumption DEF VfsAssumption
    <3> QED
      BY <2>1, <3>1, <3>2
  <2>4. <<c[1], Tree[c[2]][".."]>> = here
    BY <1>0, <1>1, <2>3, Directories
  <2> QED
    BY <1>0, <2>4
<1> QED
  <2> HIDE DEF c
  <2>1. Child(p, c)
    BY <1>1, <1>2 DEF Child, here
  <2> QED
    BY <2>1 DEF c, here

\* A way and what a name adds to it, and a way without its last directory.
LEMMA LinkedMore ==
    ASSUME MountsInv, NEW t, Linked(t), NEW c, Child(Last(t), c)
    PROVE  Linked(Append(t, c)) /\ Last(Append(t, c)) = c
<1>1. t \in Seq(VN) /\ Len(t) \in Nat \ {0} /\ c \in VN
  BY LinkedWay DEF Linked, Child
<1>2. /\ Append(t, c) \in Seq(VN) /\ Len(Append(t, c)) = Len(t) + 1
      /\ Append(t, c)[Len(t) + 1] = c
      /\ \A i \in 1 .. Len(t) : Append(t, c)[i] = t[i]
  BY <1>1
<1> DEFINE u == Append(t, c)
<1> HIDE DEF u
<1>3. ASSUME NEW i \in 1 .. (Len(u) - 1) PROVE Child(u[i], u[i + 1])
  <2>1. CASE i = Len(t)
    BY <1>1, <1>2, <2>1 DEF u, Last
  <2>2. CASE i # Len(t)
    <3>1. i \in 1 .. (Len(t) - 1) /\ i + 1 \in 1 .. Len(t) /\ i \in 1 .. Len(t)
      BY <1>1, <1>2, <2>2 DEF u
    <3>2. u[i] = t[i] /\ u[i + 1] = t[i + 1]
      BY <1>2, <3>1 DEF u
    <3> QED
      BY <3>1, <3>2 DEF Linked
  <2> QED
    BY <2>1, <2>2
<1>4. u # <<>>
  BY <1>1, <1>2 DEF u
<1> QED
  BY <1>2, <1>3, <1>4 DEF Linked, Last, u

\* The way back.
LEMMA LinkedBack ==
    ASSUME MountsInv, NEW t, Linked(t), Len(t) > 1
    PROVE  Linked(Front(t)) /\ Child(Last(Front(t)), Last(t))
<1>1. t \in Seq(VN) /\ Len(t) \in Nat
  BY DEF Linked
<1>2. /\ Front(t) \in Seq(VN) /\ Len(Front(t)) = Len(t) - 1
      /\ \A i \in 1 .. (Len(t) - 1) : Front(t)[i] = t[i]
  BY <1>1 DEF Front
<1> DEFINE u == Front(t)
<1> HIDE DEF u
<1>3. u \in Seq(VN) /\ Len(u) = Len(t) - 1 /\ \A i \in 1 .. (Len(t) - 1) : u[i] = t[i]
  BY <1>2 DEF u
<1>4. \A i \in 1 .. (Len(u) - 1) : Child(u[i], u[i + 1])
  <2> TAKE i \in 1 .. (Len(u) - 1)
  <2>1. i \in 1 .. (Len(t) - 1) /\ i + 1 \in 1 .. (Len(t) - 1)
    BY <1>1, <1>3
  <2> QED
    BY <1>3, <2>1 DEF Linked
<1>5. u # <<>>
  BY <1>1, <1>3
<1>6. Child(Last(u), Last(t))
  <2>1. Len(t) - 1 \in 1 .. (Len(t) - 1) /\ Len(t) - 1 + 1 = Len(t)
    BY <1>1
  <2>2. Child(t[Len(t) - 1], t[Len(t) - 1 + 1])
    BY <2>1 DEF Linked
  <2> QED
    BY <1>3, <2>1, <2>2 DEF Last
<1> QED
  BY <1>3, <1>4, <1>5, <1>6 DEF Linked, u

\* ".." leads from a directory to the one before it on the way.
LEMMA BackIsParent ==
    ASSUME MountsInv, DevInv, NEW v \in VN, NEW t, Linked(t), Len(t) > 1,
           resolve_mount(v) = resolve_mount(Last(t)), IsDir(resolve_mount(v)),
           ~(resolve_mount(v) = resolve_mount(root) /\ resolve_mount(v) \notin DOMAIN cover),
           root \in VN
    PROVE  Agree(Step(v, ".."), Front(t))
<1> DEFINE c == Last(t)
           p == Last(Front(t))
           up == <<c[1], Tree[c[2]][".."]>>
<1>1. Linked(Front(t)) /\ Child(p, c) /\ c \in VN /\ p \in VN
  BY LinkedBack, LinkedWay
<1>2. c \notin DOMAIN cover /\ Under(v) = c
  <2>1. c \notin DOMAIN cover
    BY <1>1, Directories DEF Child
  <2>2. Under(v) = Under(resolve_mount(v)) /\ Under(c) = Under(resolve_mount(c)) /\ Under(c) = c
    BY <1>1, <2>1, Resolved
  <2> QED
    BY <2>1, <2>2
<1>3. c # resolve_mount(root)
  <2>1. SUFFICES ASSUME c = resolve_mount(root) PROVE FALSE
    OBVIOUS
  <2>2. resolve_mount(c) = c
    BY <2>1, Resolved
  <2> QED
    BY <1>2, <2>1, <2>2
<1>4. IsDir(c)
  <2>1. c \in DOMAIN mount \/ resolve_mount(c) = c
    BY <1>1, Resolved
  <2> QED
    BY <1>1, <2>1, Resolved
<1>5. Type(c) = "initrdfs" /\ c[2] \in DOMAIN Tree
  BY <1>1, <1>4, Directories DEF Child
<1>6. ".." \in DOMAIN Tree[c[2]] /\ Tree[c[2]][".."] \in DOMAIN Tree /\ DOMAIN Tree \subseteq Nat
  BY <1>5, VfsAssumption DEF VfsAssumption
<1>7. lookup(c, "..") = up /\ up # None
  <2>1. Tree[c[2]][".."] # -1
    BY <1>6
  <2>2. lookup(c, "..") = up
    BY <1>5, <1>6, <2>1 DEF lookup
  <2> QED
    BY <2>1, <2>2 DEF None
<1>8. Step(v, "..") = resolve_mount(up)
  <2> HIDE DEF c, up
  <2> QED BY <1>2, <1>3, <1>4, <1>7, StepCases
<1>9. resolve_mount(up) = resolve_mount(p)
  BY <1>1, <1>4 DEF Child
<1> QED
  <2> HIDE DEF c, up, p
  <2>1. Step(v, "..") \in VN /\ resolve_mount(Step(v, "..")) = resolve_mount(p)
    BY <1>1, <1>8, <1>9, Resolved
  <2> QED
    BY <1>1, <2>1 DEF Agree, p

\* After a name the code and the way still agree.
LEMMA StepAgrees ==
    ASSUME MountsInv, DevInv, root \in VN, IsDir(root), NEW v \in VN \cup {None}, NEW t,
           Agree(v, t), NEW name
    PROVE  Agree(Step(v, name), Walk(t, name))
<1>1. CASE t = Open
  BY <1>1 DEF Agree, Walk
<1>2. CASE t = Lost /\ v = None
  BY <1>2 DEF Agree, Walk, Step
<1>3. CASE Linked(t) /\ v \in VN /\ resolve_mount(v) = resolve_mount(Last(t))
  <2> DEFINE here == resolve_mount(Last(t))
  <2>1. t \notin {Lost, Open} /\ Len(t) \in Nat \ {0} /\ Last(t) \in VN
    BY <1>3, LinkedWay
  <2>2. /\ here \in VN /\ here \notin DOMAIN mount /\ resolve_mount(here) = here
        /\ here = resolve_mount(v)
    BY <1>3, <2>1, Resolved
  <2>3. CASE name \in {"", "."}
    <3>1. Step(v, name) = here /\ Walk(t, name) = t
      BY <1>3, <2>1, <2>3, StepCases DEF Walk
    <3> QED
      BY <1>3, <2>2, <3>1 DEF Agree
  <2>4. CASE name \notin {"", ".", ".."}
    <3> DEFINE found == lookup(here, name)
    <3>1. Step(v, name) = IF ~IsDir(here) \/ found = None THEN None ELSE resolve_mount(found)
      BY <1>3, <2>4, StepCases, ZenonT(30)
    <3>2. Walk(t, name) = IF ~IsDir(here) \/ found = None THEN Lost ELSE Append(t, found)
      BY <2>1, <2>4 DEF Walk
    <3>3. CASE ~IsDir(here) \/ found = None
      BY <3>1, <3>2, <3>3 DEF Agree
    <3>4. CASE IsDir(here) /\ found # None
      <4>1. Child(Last(t), found)
        BY <2>1, <2>4, <3>4, FoundIsChild
      <4>2. Linked(Append(t, found)) /\ Last(Append(t, found)) = found
        BY <1>3, <4>1, LinkedMore
      <4>3. resolve_mount(found) \in VN /\ resolve_mount(resolve_mount(found)) = resolve_mount(found)
        BY <4>1, Resolved DEF Child
      <4> QED
        BY <3>1, <3>2, <3>4, <4>2, <4>3 DEF Agree
    <3> QED
      BY <3>3, <3>4
  <2>5. CASE name = ".."
    <3>0. Under(here) = Under(v) /\ (here \notin DOMAIN cover => Under(here) = here)
      BY <1>3, <2>2, Resolved
    <3>1. IsDir(resolve_mount(root))
      BY Resolved
    <3>2. CASE ~IsDir(here)
      <4>1. here \notin DOMAIN cover /\ Under(v) = here
        BY <2>2, <3>0, <3>2, Directories
      <4>2. Step(v, name) = None
        BY <1>3, <2>5, <3>1, <3>2, <4>1, StepCases
      <4>3. Walk(t, name) = Lost
        BY <2>1, <2>5, <3>2 DEF Walk
      <4> QED
        BY <4>2, <4>3 DEF Agree
    <3>3. CASE IsDir(here) /\ here = resolve_mount(root) /\ here \notin DOMAIN cover
      <4>1. Step(v, name) = here
        BY <1>3, <2>5, <3>0, <3>3, StepCases
      <4>2. Walk(t, name) = t
        BY <2>1, <2>5, <3>3 DEF Walk
      <4> QED
        BY <1>3, <2>2, <4>1, <4>2 DEF Agree
    <3>4. CASE IsDir(here) /\ ~(here = resolve_mount(root) /\ here \notin DOMAIN cover)
      <4>1. Walk(t, name) = IF Len(t) > 1 THEN Front(t) ELSE Open
        BY <2>1, <2>5, <3>4 DEF Walk
      <4>2. CASE Len(t) > 1
        <5>1. Agree(Step(v, ".."), Front(t))
          BY <1>3, <2>2, <3>4, <4>2, BackIsParent
        <5> QED
          BY <2>5, <4>1, <4>2, <5>1
      <4>3. CASE ~(Len(t) > 1)
        BY <4>1, <4>3 DEF Agree
      <4> QED
        BY <4>2, <4>3
    <3> QED
      BY <3>2, <3>3, <3>4
  <2> QED
    BY <2>3, <2>4, <2>5
<1> QED
  BY <1>1, <1>2, <1>3 DEF Agree

-----------------------------------------------------------------------------
(***************************************************************************)
(* All names of a path                                                     *)
(***************************************************************************)

\* n names of a path, from v on and from the way t on.
Steps(f, v, names, n) == f[0] = v /\ \A k \in 1 .. n : f[k] = Step(f[k - 1], names[k])
Walks(w, t, names, n) == w[0] = t /\ \A k \in 1 .. n : w[k] = Walk(w[k - 1], names[k])

\* igetdir takes the names one by one.
LEMMA IgetdirPath ==
    ASSUME MountsInv, DevInv, root \in VN, NEW v \in VN, NEW names, Len(names) \in Nat
    PROVE  \E f \in [0 .. Len(names) -> VN \cup {None}] :
             Steps(f, v, names, Len(names)) /\ igetdir(v, names) = f[Len(names)]
<1> DEFINE n == Len(names)
           S == VN \cup {None}
           G == [k \in 1 .. n |-> [x \in S |-> Step(x, names[k])]]
           Rec(f) == f = [k \in 0 .. n |-> IF k = 0 THEN v ELSE Step(f[k - 1], names[k])]
           g == CHOOSE f : Rec(f)
<1>1. G \in [1 .. n -> [S -> S]]
  <2>1. ASSUME NEW x \in S, NEW name PROVE Step(x, name) \in S
    <3>1. CASE x = None
      BY <3>1 DEF Step
    <3>2. CASE x \in VN
      BY <3>2, StepResolved
    <3> QED
      BY <3>1, <3>2
  <2> HIDE DEF S, n
  <2> QED BY <2>1
<1>2. PICK f \in [0 .. n -> S] : f[0] = v /\ \A k \in 1 .. n : f[k] = G[k][f[k - 1]]
  <2>0. v \in S
    OBVIOUS
  <2> HIDE DEF G, S, n
  <2>1. \E f \in [0 .. n -> S] : Iteration(f, n, v, G)
    <3>1. n \in Nat
      BY DEF n
    <3> QED
      BY <1>1, <2>0, <3>1, IterationExists, Zenon
  <2> QED BY <2>1 DEF Iteration
<1>3. ASSUME NEW k \in 1 .. n PROVE f[k] = Step(f[k - 1], names[k])
  <2>1. k - 1 \in 0 .. n /\ f[k - 1] \in S
    OBVIOUS
  <2> HIDE DEF S, n
  <2> QED
    BY <1>2, <2>1
<1>4. Rec(f)
  <2>1. ASSUME NEW k \in 0 .. n PROVE f[k] = IF k = 0 THEN v ELSE Step(f[k - 1], names[k])
    BY <1>2, <1>3
  <2>2. f = [k \in 0 .. n |-> f[k]]
    OBVIOUS
  <2> QED
    BY <2>1, <2>2
<1>5. Rec(g)
  BY <1>4, Zenon
<1>6. igetdir(v, names) = g[n]
  BY Zenon DEF igetdir
<1>7. \A k \in 0 .. n : g[k] = f[k]
  <2> HIDE DEF g
  <2> DEFINE Same == {k \in 0 .. n : g[k] = f[k]}
  <2>0. \A k \in 0 .. n : g[k] = IF k = 0 THEN v ELSE Step(g[k - 1], names[k])
    BY <1>5
  <2>1. 0 \in Same
    BY <1>2, <2>0
  <2>2. ASSUME NEW k \in 1 .. n, k - 1 \in Same PROVE k \in Same
    <3>1. k \in 0 .. n /\ k # 0 /\ g[k - 1] = f[k - 1]
      BY <2>2
    <3>2. g[k] = Step(g[k - 1], names[k])
      BY <2>0, <3>1
    <3> QED
      BY <1>3, <3>1, <3>2
  <2>3. \A k \in 0 .. n : k \in Same
    <3>1. n \in Nat
      OBVIOUS
    <3> HIDE DEF Same, n
    <3> QED BY <2>1, <2>2, <3>1, UpTo
  <2> QED
    BY <2>3
<1>8. igetdir(v, names) = f[n]
  <2> HIDE DEF g
  <2> QED BY <1>6, <1>7
<1> QED
  BY <1>2, <1>3, <1>8 DEF Steps

\* A name leads from a way of vnodes to one, or it is open where.
LEMMA WalkStays ==
    ASSUME MountsInv, DevInv, NEW t \in Seq(VN) \cup {Open}, NEW name
    PROVE  Walk(t, name) \in Seq(VN) \cup {Open}
<1> DEFINE here == resolve_mount(Last(t))
           found == IF IsDir(here) THEN lookup(here, name) ELSE None
<1>1. CASE t \in {Lost, Open}
  BY <1>1 DEF Walk
<1>2. CASE t \notin {Lost, Open}
  <2>1. t \in Seq(VN) /\ t # <<>>
    BY <1>2 DEF Lost
  <2>2. Last(t) \in VN /\ Len(t) \in Nat \ {0}
    BY <2>1 DEF Last
  <2>3. here \in VN
    BY <2>2, Resolved
  <2>4. Front(t) \in Seq(VN) /\ Lost \in Seq(VN)
    BY <2>1, <2>2 DEF Front, Lost
  <2>5. ASSUME name \notin {"", ".", ".."}, found # None PROVE Append(t, found) \in Seq(VN)
    <3>1. IsDir(here) /\ found = lookup(here, name)
      BY <2>5
    <3>2. found \in VN
      <4> HIDE DEF here
      <4> QED BY <2>3, <2>5, <3>1, LookedUp
    <3> HIDE DEF found
    <3> QED
      BY <2>1, <3>2
  <2>6. Walk(t, name) = IF name \in {"", "."} THEN t
                        ELSE IF name # ".." THEN IF found = None THEN Lost ELSE Append(t, found)
                        ELSE IF ~IsDir(here) THEN Lost
                        ELSE IF here = resolve_mount(root) /\ here \notin DOMAIN cover THEN t
                        ELSE IF Len(t) > 1 THEN Front(t) ELSE Open
    BY <1>2 DEF Walk
  <2> HIDE DEF here, found
  <2> QED
    BY <2>1, <2>4, <2>5, <2>6
<1> QED
  BY <1>1, <1>2

\* The way of a path, name by name.
LEMMA WayPath ==
    ASSUME MountsInv, DevInv, root \in VN, trail \in Seq(VN), NEW path, Len(path.comps) \in Nat
    PROVE  \E w \in [0 .. Len(path.comps) -> Seq(VN) \cup {Open}] :
             /\ Walks(w, IF path.abs THEN <<root>> ELSE trail, path.comps, Len(path.comps))
             /\ WayOf(path) = w[Len(path.comps)]
<1> DEFINE names == path.comps
           n == Len(names)
           t == IF path.abs THEN <<root>> ELSE trail
           S == Seq(VN) \cup {Open}
           G == [k \in 1 .. n |-> [x \in S |-> Walk(x, names[k])]]
           Rec(f) == f = [k \in 0 .. n |-> IF k = 0 THEN IF path.abs THEN <<root>> ELSE trail
                                           ELSE Walk(f[k - 1], path.comps[k])]
           g == CHOOSE f : Rec(f)
<1>0. t \in S /\ n \in Nat
  OBVIOUS
<1>1. G \in [1 .. n -> [S -> S]]
  <2>1. ASSUME NEW x \in S, NEW name PROVE Walk(x, name) \in S
    BY WalkStays
  <2> HIDE DEF S, n
  <2> QED BY <2>1
<1>2. PICK f \in [0 .. n -> S] : f[0] = t /\ \A k \in 1 .. n : f[k] = G[k][f[k - 1]]
  <2> HIDE DEF G, S, n, t
  <2>1. \E f \in [0 .. n -> S] : Iteration(f, n, t, G)
    BY <1>0, <1>1, IterationExists, Zenon
  <2> QED BY <2>1 DEF Iteration
<1>3. ASSUME NEW k \in 1 .. n PROVE f[k] = Walk(f[k - 1], names[k])
  <2>1. k - 1 \in 0 .. n /\ f[k - 1] \in S
    <3> HIDE DEF S, n
    <3> QED BY <1>0
  <2> HIDE DEF S, n
  <2> QED
    BY <1>2, <2>1
<1>4. Rec(f)
  <2>1. ASSUME NEW k \in 0 .. n
        PROVE  f[k] = IF k = 0 THEN IF path.abs THEN <<root>> ELSE trail
                      ELSE Walk(f[k - 1], path.comps[k])
    BY <1>2, <1>3
  <2>2. f = [k \in 0 .. n |-> f[k]]
    OBVIOUS
  <2> QED
    BY <2>1, <2>2
<1>5. Rec(g)
  BY <1>4, Zenon
<1>6. WayOf(path) = g[n]
  BY Zenon DEF WayOf
<1>7. \A k \in 0 .. n : g[k] = f[k]
  <2> HIDE DEF g
  <2> DEFINE Same == {k \in 0 .. n : g[k] = f[k]}
  <2>0. \A k \in 0 .. n : g[k] = IF k = 0 THEN t ELSE Walk(g[k - 1], names[k])
    BY <1>5
  <2> HIDE DEF t, names, S
  <2>1. 0 \in Same
    BY <1>0, <1>2, <2>0
  <2>2. ASSUME NEW k \in 1 .. n, k - 1 \in Same PROVE k \in Same
    <3>1. k \in 0 .. n /\ k # 0 /\ g[k - 1] = f[k - 1]
      BY <2>2
    <3>2. g[k] = Walk(g[k - 1], names[k])
      BY <2>0, <3>1
    <3> QED
      BY <1>3, <3>1, <3>2
  <2>3. \A k \in 0 .. n : k \in Same
    <3> HIDE DEF Same, n
    <3> QED BY <1>0, <2>1, <2>2, UpTo
  <2> QED
    BY <2>3
<1>8. WayOf(path) = f[n]
  <2> HIDE DEF g
  <2> QED BY <1>0, <1>6, <1>7
<1> QED
  BY <1>2, <1>3, <1>8 DEF Walks

-----------------------------------------------------------------------------
(***************************************************************************)
(* namei                                                                   *)
(***************************************************************************)

\* The paths there may be.
Paths == [abs : BOOLEAN, comps : Seq(STRING) \ {<<>>}]

\* All but the last of a sequence.
LEMMA FrontIs ==
    ASSUME NEW S, NEW s \in Seq(S), s # <<>>
    PROVE  /\ Len(s) \in Nat \ {0} /\ Len(Front(s)) = Len(s) - 1
           /\ \A k \in 1 .. (Len(s) - 1) : Front(s)[k] = s[k]
<1>1. Len(s) \in Nat \ {0}
  OBVIOUS
<1>2. Len(s) - 1 \in 0 .. Len(s) /\ Len(s) - 1 \in Nat
  BY <1>1
<1>3. Len(Front(s)) = Len(s) - 1
  <2>1. \A m \in 0 .. Len(s) : Len(SubSeq(s, 1, m)) = m
    OBVIOUS
  <2> QED
    BY <1>2, <2>1 DEF Front
<1>4. \A k \in 1 .. (Len(s) - 1) : Front(s)[k] = s[k]
  BY <1>1 DEF Front
<1> QED
  BY <1>1, <1>3, <1>4

\* A sequence of one.
LEMMA OneElement ==
    ASSUME NEW S, NEW s \in Seq(S), Len(s) = 1
    PROVE  s = <<s[1]>>
<1>1. <<s[1]>> \in Seq(S) /\ Len(<<s[1]>>) = 1 /\ <<s[1]>>[1] = s[1]
  OBVIOUS
<1>2. \A i \in 1 .. Len(s) : s[i] = <<s[1]>>[i]
  BY <1>1
<1> QED
  BY <1>1, <1>2, SeqEqual

\* Where a path begins, its names, and those before the last.
LEMMA PathParts ==
    ASSUME MountsInv, TaskInv, NEW path \in Paths
    PROVE  LET n == Len(path.comps)
               v == IF path.abs THEN root ELSE pwd
           IN  /\ n \in Nat \ {0} /\ Len(Front(path.comps)) = n - 1
               /\ \A k \in 1 .. (n - 1) : Front(path.comps)[k] = path.comps[k]
               /\ Last(path.comps) = path.comps[n]
               /\ v \in VN /\ IsDir(v)
               /\ Agree(v, IF path.abs THEN <<root>> ELSE trail)
<1> DEFINE s == path.comps
<1>1. s \in Seq(STRING) /\ s # <<>>
  BY DEF Paths
<1> HIDE DEF s
<1>2. /\ Len(s) \in Nat \ {0} /\ Len(Front(s)) = Len(s) - 1 /\ Last(s) = s[Len(s)]
      /\ \A k \in 1 .. (Len(s) - 1) : Front(s)[k] = s[k]
  BY <1>1, FrontIs DEF Last
<1>3. root \in VN /\ IsDir(root) /\ pwd \in VN /\ IsDir(pwd) /\ Agree(pwd, trail)
  BY DEF TaskInv, Agree
<1>4. Agree(root, <<root>>)
  <2>1. <<root>> \in Seq(VN) /\ <<root>> # <<>> /\ Len(<<root>>) = 1 /\ Last(<<root>>) = root
    BY <1>3 DEF Last
  <2>2. Linked(<<root>>)
    BY <2>1 DEF Linked
  <2> QED
    BY <1>3, <2>1, <2>2 DEF Agree
<1> QED
  BY <1>2, <1>3, <1>4 DEF s

\* Name by name, namei answers with what the way leads to, with nothing mounted on it.
LEMMA NameiAgrees ==
    ASSUME MountsInv, TaskInv, DevInv, NEW path \in Paths
    PROVE  /\ namei(path) # None => namei(path) \in VN /\ namei(path) \notin DOMAIN mount
           /\ path.abs \/ path.comps # <<"">> => Agree(namei(path), WayOf(path))
           /\ ~path.abs /\ path.comps = <<"">> => namei(path) = None
<1> DEFINE s == path.comps
           n == Len(s)
           v == IF path.abs THEN root ELSE pwd
           t == IF path.abs THEN <<root>> ELSE trail
           dir == igetdir(v, Front(s))
<1>1. /\ n \in Nat \ {0} /\ Len(Front(s)) = n - 1 /\ Last(s) = s[n]
      /\ \A k \in 1 .. (n - 1) : Front(s)[k] = s[k]
      /\ v \in VN /\ IsDir(v) /\ Agree(v, t)
  BY PathParts
<1>2. root \in VN /\ IsDir(root) /\ trail \in Seq(VN)
  BY DEF TaskInv, Linked
<1>3. namei(path) = IF s = <<"">> THEN IF path.abs THEN resolve_mount(v) ELSE None
                    ELSE IF dir = None \/ Last(s) = "" THEN dir
                    ELSE Step(dir, Last(s))
  BY DEF namei
<1>4. PICK f \in [0 .. (n - 1) -> VN \cup {None}] : Steps(f, v, Front(s), n - 1) /\ dir = f[n - 1]
  <2>1. n - 1 \in Nat
    BY <1>1
  <2> HIDE DEF s, n, v
  <2> QED
    BY <1>1, <1>2, <2>1, IgetdirPath, ZenonT(30)
<1>5. PICK w \in [0 .. n -> Seq(VN) \cup {Open}] : Walks(w, t, s, n) /\ WayOf(path) = w[n]
  BY <1>1, <1>2, WayPath
<1> HIDE DEF s, n, v, t, dir
<1>6. /\ f[0] = v /\ \A k \in 1 .. (n - 1) : f[k] = Step(f[k - 1], s[k])
      /\ w[0] = t /\ \A k \in 1 .. n : w[k] = Walk(w[k - 1], s[k])
  BY <1>1, <1>4, <1>5 DEF Steps, Walks
<1> DEFINE Good == {k \in 0 .. (n - 1) : /\ Agree(f[k], w[k])
                                         /\ k # 0 /\ f[k] # None => f[k] \notin DOMAIN mount}
<1>7. \A k \in 0 .. (n - 1) : k \in Good
  <2>0. n - 1 \in Nat
    BY <1>1
  <2>1. 0 \in Good
    BY <1>1, <1>6, <2>0
  <2>2. ASSUME NEW k \in 1 .. (n - 1), k - 1 \in Good PROVE k \in Good
    <3>1. k \in 0 .. (n - 1) /\ k \in 1 .. n /\ k - 1 \in 0 .. (n - 1)
      BY <1>1
    <3>2. f[k - 1] \in VN \cup {None} /\ Agree(f[k - 1], w[k - 1])
      BY <2>2, <3>1
    <3>3. f[k] = Step(f[k - 1], s[k]) /\ w[k] = Walk(w[k - 1], s[k])
      BY <1>6, <3>1
    <3>4. Agree(f[k], w[k])
      BY <1>2, <3>2, <3>3, StepAgrees
    <3>5. ASSUME f[k] # None PROVE f[k] \notin DOMAIN mount
      <4>1. f[k - 1] \in VN
        BY <3>2, <3>3, <3>5 DEF Step
      <4> QED
        BY <1>2, <3>3, <3>5, <4>1, StepResolved
    <3> QED
      BY <3>1, <3>4, <3>5
  <2> HIDE DEF Good
  <2> QED
    BY <2>0, <2>1, <2>2, UpTo
<1>8. /\ dir \in VN \cup {None} /\ Agree(dir, w[n - 1])
      /\ n # 1 /\ dir # None => dir \notin DOMAIN mount
      /\ WayOf(path) = Walk(w[n - 1], s[n])
  <2>1. n - 1 \in 0 .. (n - 1) /\ n \in 1 .. n /\ (n # 1 => n - 1 # 0)
    BY <1>1
  <2>2. n - 1 \in Good
    <3> HIDE DEF Good
    <3> QED BY <1>7, <2>1
  <2> QED
    BY <1>4, <1>5, <1>6, <2>1, <2>2
<1>9. Agree(Step(dir, s[n]), WayOf(path))
  BY <1>2, <1>8, StepAgrees
<1>10. CASE s = <<"">>
  <2>1. n = 1 /\ s[n] = ""
    <3>1. Len(<<"">>) = 1 /\ <<"">>[1] = ""
      OBVIOUS
    <3>2. n = 1
      BY <1>10, <3>1 DEF n
    <3>3. s[1] = ""
      BY <1>10, <3>1
    <3> QED
      BY <3>2, <3>3
  <2>a. dir = v
    <3>0. n = 1
      BY <2>1
    <3>1. n - 1 = 0
      BY <3>0
    <3>2. dir = f[0]
      BY <1>4, <3>1
    <3> QED
      BY <1>6, <3>2
  <2>2. Step(dir, s[n]) = resolve_mount(v)
    BY <1>1, <2>1, <2>a, StepCases
  <2>3. resolve_mount(v) \in VN /\ resolve_mount(v) \notin DOMAIN mount
    BY <1>1, Resolved
  <2> QED
    BY <1>3, <1>9, <1>10, <2>2, <2>3 DEF s
<1>11. CASE s # <<"">> /\ dir = None
  <2>1. namei(path) = None /\ Step(dir, s[n]) = None
    BY <1>3, <1>11 DEF Step
  <2> QED
    BY <1>9, <1>11, <2>1 DEF s
<1>12. CASE s # <<"">> /\ dir # None /\ Last(s) = ""
  <2>1. n # 1
    <3>1. s \in Seq(STRING)
      BY DEF Paths, s
    <3>2. SUFFICES ASSUME n = 1 PROVE s = <<"">>
      BY <1>12
    <3>3. Len(s) = 1 /\ s[1] = ""
      BY <1>1, <1>12, <3>2 DEF n
    <3> QED
      BY <3>1, <3>3, OneElement
  <2>2. dir \in VN /\ dir \notin DOMAIN mount /\ namei(path) = dir
    BY <1>3, <1>8, <1>12, <2>1
  <2>3. Step(dir, s[n]) = resolve_mount(dir) /\ resolve_mount(dir) = dir
    <3>1. resolve_mount(dir) = dir
      BY <2>2, Resolved
    <3>2. s[n] = ""
      BY <1>1, <1>12
    <3> QED
      BY <2>2, <3>1, <3>2, StepCases
  <2> QED
    BY <1>9, <1>12, <2>2, <2>3 DEF s
<1>13. CASE s # <<"">> /\ dir # None /\ Last(s) # ""
  <2>1. namei(path) = Step(dir, s[n]) /\ dir \in VN
    BY <1>1, <1>3, <1>8, <1>13
  <2>2. namei(path) # None => namei(path) \in VN /\ namei(path) \notin DOMAIN mount
    BY <1>2, <2>1, StepResolved
  <2> QED
    BY <1>9, <1>13, <2>1, <2>2 DEF s
<1> QED
  BY <1>10, <1>11, <1>12, <1>13

\* The paths of system calls lead to directories.
LEMMA NameiDirectory ==
    ASSUME MountsInv, TaskInv, DevInv, NEW path \in SomePaths, namei(path) # None
    PROVE  IsDir(namei(path))
<1> DEFINE s == path.comps
           n == Len(s)
           v == IF path.abs THEN root ELSE pwd
           dir == igetdir(v, Front(s))
<1>0. path \in Paths
  BY VfsAssumption DEF VfsAssumption, Paths
<1>1. /\ n \in Nat \ {0} /\ Len(Front(s)) = n - 1 /\ Last(s) = s[n]
      /\ \A k \in 1 .. (n - 1) : Front(s)[k] = s[k]
      /\ v \in VN /\ IsDir(v)
  BY <1>0, PathParts
<1>2. root \in VN /\ IsDir(root)
  BY DEF TaskInv
<1>3. namei(path) = IF s = <<"">> THEN IF path.abs THEN resolve_mount(v) ELSE None
                    ELSE IF dir = None \/ Last(s) = "" THEN dir
                    ELSE Step(dir, Last(s))
  BY DEF namei
<1>4. PICK f \in [0 .. (n - 1) -> VN \cup {None}] : Steps(f, v, Front(s), n - 1) /\ dir = f[n - 1]
  <2>1. n - 1 \in Nat
    BY <1>1
  <2> HIDE DEF s, n, v
  <2> QED
    BY <1>1, <1>2, <2>1, IgetdirPath
<1>5. \A k \in 1 .. n :
        /\ s[k] \notin Devices
        /\ \A d \in DOMAIN Tree : s[k] \in DOMAIN Tree[d] => Tree[d][s[k]] \in DOMAIN Tree
  <2>1. DOMAIN s = 1 .. n
    BY <1>0 DEF Paths
  <2> QED
    BY <2>1, VfsAssumption DEF VfsAssumption
<1> HIDE DEF s, n, v, dir
<1>6. /\ f[0] = v /\ \A k \in 1 .. (n - 1) : f[k] = Step(f[k - 1], s[k])
  BY <1>1, <1>4 DEF Steps
<1> DEFINE Good == {k \in 0 .. (n - 1) : f[k] # None => IsDir(f[k])}
<1>7. \A k \in 0 .. (n - 1) : k \in Good
  <2>0. n - 1 \in Nat
    BY <1>1
  <2>1. 0 \in Good
    BY <1>1, <1>6, <2>0
  <2>2. ASSUME NEW k \in 1 .. (n - 1), k - 1 \in Good PROVE k \in Good
    <3>1. k \in 0 .. (n - 1) /\ k \in 1 .. n /\ k - 1 \in 0 .. (n - 1)
      BY <1>1
    <3>2. f[k] = Step(f[k - 1], s[k]) /\ f[k - 1] \in VN \cup {None}
      BY <1>6, <3>1
    <3>3. ASSUME f[k] # None PROVE IsDir(f[k])
      <4>1. f[k - 1] \in VN /\ f[k - 1] # None
        <5>1. f[k - 1] # None
          BY <3>2, <3>3 DEF Step
        <5> QED
          BY <3>2, <5>1
      <4>2. IsDir(f[k - 1])
        BY <2>2, <4>1
      <4> QED
        BY <1>2, <1>5, <3>1, <3>2, <3>3, <4>1, <4>2, StepDirectory
    <3> QED
      BY <3>1, <3>3
  <2> HIDE DEF Good
  <2> QED
    BY <2>0, <2>1, <2>2, UpTo
<1>8. dir \in VN \cup {None} /\ (dir # None => IsDir(dir))
  <2>1. n - 1 \in 0 .. (n - 1)
    BY <1>1
  <2> QED
    BY <1>4, <1>7, <2>1
<1>9. CASE s = <<"">>
  <2>1. IsDir(resolve_mount(v))
    BY <1>1, Resolved
  <2> QED
    BY <1>3, <1>9, <2>1
<1>10. CASE s # <<"">> /\ (dir = None \/ Last(s) = "")
  BY <1>3, <1>8, <1>10
<1>11. CASE s # <<"">> /\ dir # None /\ Last(s) # ""
  <2>1. namei(path) = Step(dir, s[n]) /\ dir \in VN /\ IsDir(dir) /\ n \in 1 .. n
    <3>1. n \in 1 .. n /\ Last(s) = s[n]
      BY <1>1
    <3> QED
      BY <1>3, <1>8, <1>11, <3>1
  <2> QED
    BY <1>2, <1>5, <2>1, StepDirectory
<1> QED
  BY <1>9, <1>10, <1>11

-----------------------------------------------------------------------------
(***************************************************************************)
(* The actions                                                             *)
(***************************************************************************)

\* The rootfs alone.
LEMMA InitInv ==
    ASSUME VfsInit
    PROVE  VfsInv
<1>0. sbs = <<>> /\ Len(sbs) = 0 /\ DOMAIN mount = {} /\ DOMAIN cover = {} /\ 1 .. 0 = {}
  BY DEF VfsInit
<1>1. MountsInv
  <2>1. Mounts(0, mount, cover)
    BY <1>0 DEF Mounts
  <2> QED
    BY <1>0, <2>1 DEF MountsInv
<1>2. TaskInv
  <2>1. root_vnode \in VN /\ IsDir(root_vnode)
    BY <1>0 DEF VN, Vnodes, root_vnode, IsDir, Type
  <2>2. root = root_vnode /\ pwd = root_vnode /\ trail = <<root_vnode>>
    BY DEF VfsInit
  <2>3. /\ <<root_vnode>> \in Seq(VN) /\ <<root_vnode>> # <<>> /\ Len(<<root_vnode>>) = 1
        /\ Last(<<root_vnode>>) = root_vnode
    BY <2>1 DEF Last
  <2>4. Linked(<<root_vnode>>)
    BY <2>3 DEF Linked
  <2> QED
    BY <2>1, <2>2, <2>3, <2>4 DEF TaskInv
<1>3. DevInv
  <2>1. dev = [entries |-> <<>>, next |-> 1, cache |-> {}] /\ ToSet(sbs) = {}
    BY <1>0 DEF VfsInit, ToSet
  <2>2. Len(dev.entries) = 0 /\ dev.cache = {} /\ 1 .. 0 = {} /\ 3 .. 0 = {}
    BY <2>1
  <2>3. DevicesReachable
    BY <2>2 DEF DevicesReachable
  <2>4. dev \in [entries : Seq([name : Devices \cup {".", ".."}, inode : Nat]),
                 next : Nat \ {0}, cache : SUBSET Nat]
    BY <2>1
  <2> QED
    BY <2>1, <2>2, <2>3, <2>4 DEF DevInv
<1> QED
  BY <1>1, <1>2, <1>3 DEF VfsInv

\* What is said of vnodes and ways only depends on the volumes and the mounts.
LEMMA SameMounts ==
    ASSUME MountsInv, UNCHANGED <<sbs, mount, cover>>
    PROVE  /\ MountsInv' /\ VN' = VN
           /\ \A v : IsDir(v)' = IsDir(v) /\ resolve_mount(v)' = resolve_mount(v)
           /\ \A t : Linked(t)' <=> Linked(t)
<1>1. VN' = VN
  BY DEF VN
<1>2. \A v : IsDir(v)' = IsDir(v)
  BY DEF IsDir, Type
<1>3. \A v : resolve_mount(v)' = resolve_mount(v)
  BY DEF resolve_mount
<1>4. MountsInv'
  BY <1>2 DEF MountsInv
<1>5. \A p, c : Child(p, c)' <=> Child(p, c)
  BY <1>1, <1>2, <1>3 DEF Child
<1>6. \A t : Linked(t)' <=> Linked(t)
  BY <1>1, <1>5 DEF Linked
<1> QED
  BY <1>1, <1>2, <1>3, <1>4, <1>6

\* The invariant of the devfs only depends on the devfs and the volumes.
LEMMA SameDevices ==
    ASSUME DevInv, UNCHANGED <<sbs, dev>>
    PROVE  DevInv'
BY DEF DevInv, DevicesReachable

\* namei answers with None or with a vnode that is no mount point.
LEMMA NameiNoMountPoint ==
    ASSUME VfsInv, NEW path \in SomePaths
    PROVE  /\ namei(path) \notin DOMAIN mount
           /\ namei(path) # None => namei(path) \in VN /\ IsDir(namei(path))
<1>1. path \in Paths
  BY VfsAssumption DEF VfsAssumption, Paths
<1>2. namei(path) # None => namei(path) \in VN /\ namei(path) \notin DOMAIN mount
  BY <1>1, NameiAgrees DEF VfsInv
<1>3. None \notin DOMAIN mount
  <2>1. DOMAIN mount \subseteq VN
    BY DEF VfsInv, MountsInv, Mounts, VN
  <2>2. None \notin VN
    BY Directories DEF VfsInv
  <2> QED
    BY <2>1, <2>2
<1> QED
  BY <1>2, <1>3, NameiDirectory DEF VfsInv

\* sys_umount finds nothing to unmount.
LEMMA UmountNothing ==
    ASSUME VfsInv, NEW path \in SomePaths, sys_umount(path)
    PROVE  UNCHANGED volumes
BY NameiNoMountPoint DEF sys_umount

\* The old vnodes after a mount: the same are directories, and those that led to the same
\* vnode still do.
LEMMA MountKeepsNames ==
    ASSUME VfsInv, NEW path \in SomePaths, NEW type \in {"initrdfs", "devfs"},
           sys_mount(path, type), namei(path) # None
    PROVE  /\ MountsInv' /\ Len(sbs') = Len(sbs) + 1 /\ VN \subseteq VN'
           /\ \A i \in 1 .. Len(sbs) : sbs'[i] = sbs[i]
           /\ \A v \in VN : IsDir(v)' = IsDir(v)
           /\ \A v, w \in VN : resolve_mount(v) = resolve_mount(w)
                                 => resolve_mount(v)' = resolve_mount(w)'
<1> DEFINE n == Len(sbs)
           m == namei(path)
           new == <<n + 1, 0>>
<1>0. /\ sbs \in Seq({"initrdfs", "devfs"}) /\ n \in Nat /\ Mounts(n, mount, cover)
      /\ m \in VN /\ IsDir(m) /\ m \notin DOMAIN mount
  BY NameiNoMountPoint DEF VfsInv, MountsInv
<1>1. /\ sbs' = Append(sbs, type) /\ mount' = SetPointer(mount, m, new)
      /\ cover' = SetPointer(cover, new, m)
  BY DEF sys_mount
<1> HIDE DEF m
<1>2. /\ sbs' \in Seq({"initrdfs", "devfs"}) /\ Len(sbs') = n + 1
      /\ \A i \in 1 .. n : sbs'[i] = sbs[i]
  BY <1>0, <1>1
<1> HIDE DEF n
<1>3. Mounts(n + 1, mount', cover')
  BY <1>0, <1>1, OneMore DEF VN, n
<1>4. VN \subseteq VN'
  BY <1>0, <1>2 DEF VN, Vnodes, n
<1>5. \A v \in VN : IsDir(v)' = IsDir(v)
  <2> TAKE v \in VN
  <2>1. v[1] \in 0 .. n
    BY Directories DEF VfsInv, n
  <2>2. Type(v)' = Type(v)
    BY <1>0, <1>2, <2>1 DEF Type
  <2> QED
    BY <2>2 DEF IsDir
<1>6. \A v \in VN : resolve_mount(v)' = IF resolve_mount(v) = m THEN new ELSE resolve_mount(v)
  <2>1. \A v \in Vnodes(n) :
          Followed(SetPointer(mount, m, new), v, n + 1)
            = IF Followed(mount, v, n) = m THEN new ELSE Followed(mount, v, n)
    <3>1. m \in Vnodes(n)
      BY <1>0 DEF VN, n
    <3> QED
      BY <1>0, <3>1, OneMoreFollowed
  <2> TAKE v \in VN
  <2>2. resolve_mount(v)' = Followed(SetPointer(mount, m, new), v, n + 1)
    BY <1>1, <1>2 DEF resolve_mount
  <2>3. resolve_mount(v) = Followed(mount, v, n) /\ v \in Vnodes(n)
    BY DEF resolve_mount, n, VN
  <2> QED
    BY <2>1, <2>2, <2>3
<1>7. \A v \in DOMAIN mount' : IsDir(v)'
  <2>1. DOMAIN mount' = DOMAIN mount \cup {m}
    BY <1>1 DEF SetPointer
  <2>2. \A v \in DOMAIN mount : v \in VN /\ IsDir(v)
    BY DEF VfsInv, MountsInv, Mounts, VN
  <2> QED
    BY <1>0, <1>5, <2>1, <2>2
<1>8. MountsInv'
  BY <1>2, <1>3, <1>7 DEF MountsInv
<1> QED
  BY <1>2, <1>4, <1>5, <1>6, <1>8 DEF n

\* A mount.
LEMMA MountInv ==
    ASSUME VfsInv, NEW path \in SomePaths, NEW type \in {"initrdfs", "devfs"},
           sys_mount(path, type)
    PROVE  VfsInv'
<1>1. CASE namei(path) = None
  <2>1. UNCHANGED <<sbs, mount, cover, root, pwd, dev, trail>>
    BY <1>1 DEF sys_mount, volumes
  <2>2. MountsInv' /\ DevInv'
    BY <2>1, SameMounts, SameDevices DEF VfsInv
  <2>3. TaskInv'
    BY <2>1, SameMounts DEF VfsInv, TaskInv
  <2> QED
    BY <2>2, <2>3 DEF VfsInv
<1>2. CASE namei(path) # None
  <2>1. UNCHANGED <<root, pwd, trail>> /\ sbs' = Append(sbs, type)
    BY <1>2 DEF sys_mount
  <2>2. /\ MountsInv' /\ Len(sbs') = Len(sbs) + 1 /\ VN \subseteq VN'
        /\ \A v \in VN : IsDir(v)' = IsDir(v)
        /\ \A v, w \in VN : resolve_mount(v) = resolve_mount(w)
                              => resolve_mount(v)' = resolve_mount(w)'
    BY <1>2, MountKeepsNames
  <2>3. ASSUME NEW p \in VN, NEW c, Child(p, c) PROVE Child(p, c)'
    <3>1. c \in VN /\ c[1] # 0 /\ c[2] # 0
      BY <2>3 DEF Child
    <3>2. ASSUME IsDir(c) PROVE resolve_mount(<<c[1], Tree[c[2]][".."]>>)' = resolve_mount(p)'
      <4>1. c[2] \in DOMAIN Tree /\ c[1] \in 0 .. Len(sbs)
        BY <3>1, <3>2, Directories DEF VfsInv
      <4>2. <<c[1], Tree[c[2]][".."]>> \in VN
        <5>1. Tree[c[2]][".."] \in Nat
          BY <4>1, VfsAssumption DEF VfsAssumption
        <5> QED
          BY <4>1, <5>1 DEF VN, Vnodes
      <4>3. resolve_mount(<<c[1], Tree[c[2]][".."]>>) = resolve_mount(p)
        BY <2>3, <3>2 DEF Child
      <4> QED
        BY <2>2, <4>2, <4>3
    <3>3. c \in VN' /\ IsDir(c)' = IsDir(c)
      BY <2>2, <3>1
    <3> QED
      BY <3>1, <3>2, <3>3 DEF Child
  <2>4. Linked(trail)' /\ Last(trail) \in VN
    <3>1. Linked(trail) /\ trail \in Seq(VN) /\ Len(trail) \in Nat \ {0} /\ Last(trail) \in VN
      BY LinkedWay DEF VfsInv, TaskInv, Linked
    <3>2. trail \in Seq(VN')
      BY <2>2, <3>1
    <3>3. ASSUME NEW j \in 1 .. (Len(trail) - 1) PROVE Child(trail[j], trail[j + 1])'
      <4>1. trail[j] \in VN /\ Child(trail[j], trail[j + 1])
        BY <3>1 DEF Linked
      <4>2. \A p \in VN : \A c : Child(p, c) => Child(p, c)'
        BY <2>3
      <4>3. trail' = trail
        BY <2>1
      <4> QED
        BY <4>1, <4>2, <4>3
    <3>4. trail # <<>>
      BY <3>1 DEF Linked
    <3> QED
      BY <2>1, <3>1, <3>2, <3>3, <3>4 DEF Linked
  <2>5. TaskInv'
    <3>1. /\ root \in VN /\ IsDir(root) /\ pwd \in VN /\ IsDir(pwd)
          /\ resolve_mount(pwd) = resolve_mount(Last(trail))
      BY DEF VfsInv, TaskInv
    <3>2. /\ root' \in VN' /\ pwd' \in VN' /\ IsDir(root)' /\ IsDir(pwd)'
      BY <2>1, <2>2, <3>1
    <3>3. resolve_mount(pwd)' = resolve_mount(Last(trail))'
      BY <2>1, <2>2, <2>4, <3>1
    <3> QED
      BY <2>4, <3>2, <3>3 DEF TaskInv
  <2>6. DevInv'
    <3>0. sbs \in Seq({"initrdfs", "devfs"}) /\ DevInv
      BY DEF VfsInv, MountsInv
    <3>1. ToSet(sbs') = ToSet(sbs) \cup {type}
      BY <2>1, <3>0 DEF ToSet
    <3>2. CASE type # "devfs"
      <4>1. dev' = dev /\ ("devfs" \in ToSet(sbs') <=> "devfs" \in ToSet(sbs))
        BY <1>2, <3>1, <3>2 DEF sys_mount
      <4> QED
        BY <3>0, <4>1 DEF DevInv, DevicesReachable
    <3>3. CASE type = "devfs"
      <4>1. "devfs" \notin ToSet(sbs) /\ dev' = read_devfs_sb(dev) /\ "devfs" \in ToSet(sbs')
        BY <1>2, <3>1, <3>3 DEF sys_mount
      <4>2. dev = [entries |-> <<>>, next |-> 1, cache |-> {}]
        BY <3>0, <4>1 DEF DevInv
      <4>3. /\ dev' = [entries |-> devfs_empty_dir(0, 0), next |-> 1, cache |-> {0}]
        BY <4>1, <4>2 DEF read_devfs_sb
      <4> DEFINE E == devfs_empty_dir(0, 0)
                 R == [name : Devices \cup {".", ".."}, inode : Nat]
      <4>4. /\ E \in Seq(R) /\ Len(E) = 2
            /\ E[1] = [name |-> ".", inode |-> 0] /\ E[2] = [name |-> "..", inode |-> 0]
        <5>1. [name |-> ".", inode |-> 0] \in R /\ [name |-> "..", inode |-> 0] \in R
          OBVIOUS
        <5> HIDE DEF R
        <5> QED
          BY <5>1 DEF devfs_empty_dir
      <4>5. dev' \in [entries : Seq(R), next : Nat \ {0}, cache : SUBSET Nat]
        <5> HIDE DEF E, R
        <5> QED BY <4>3, <4>4 DEF E
      <4>6. dev'.entries = E /\ dev'.cache = {0}
        BY <4>3
      <4>7. 3 .. 2 = {} /\ \A j \in 1 .. 2 : E[j].inode = 0
        BY <4>4
      <4>8. DevicesReachable'
        <5> HIDE DEF E
        <5> QED BY <4>4, <4>6, <4>7 DEF DevicesReachable
      <4> QED
        <5>1. Len(E) >= 2
          BY <4>4
        <5>2. 3 .. Len(E) = {}
          BY <4>4, <4>7
        <5> HIDE DEF E
        <5> QED BY <4>1, <4>4, <4>5, <4>6, <4>8, <5>1, <5>2 DEF DevInv
    <3> QED
      BY <3>2, <3>3
  <2> QED
    BY <2>2, <2>5, <2>6 DEF VfsInv
<1> QED
  BY <1>1, <1>2

\* A change of the current directory.
LEMMA ChdirInv ==
    ASSUME VfsInv, NEW path \in SomePaths, sys_chdir(path)
    PROVE  VfsInv'
<1>0. MountsInv /\ TaskInv /\ DevInv /\ path \in Paths
  BY VfsAssumption DEF VfsInv, VfsAssumption, Paths
<1>1. UNCHANGED <<sbs, mount, cover, root, dev>>
  BY DEF sys_chdir
<1>2. /\ MountsInv' /\ DevInv' /\ VN' = VN
      /\ \A v : IsDir(v)' = IsDir(v) /\ resolve_mount(v)' = resolve_mount(v)
      /\ \A t : Linked(t)' <=> Linked(t)
  BY <1>0, <1>1, SameMounts, SameDevices
<1>3. root' \in VN' /\ IsDir(root)'
  BY <1>0, <1>1, <1>2 DEF TaskInv
<1>4. CASE UNCHANGED <<pwd, trail>>
  BY <1>0, <1>2, <1>3, <1>4 DEF TaskInv, VfsInv
<1>5. CASE ~UNCHANGED <<pwd, trail>>
  <2> DEFINE node == namei(path)
             way == WayOf(path)
  <2>1. /\ node # None /\ IsDir(node) /\ pwd' = node
        /\ trail' = IF way \in {Lost, Open} THEN <<node>> ELSE way
    BY <1>5 DEF sys_chdir
  <2>2. node \in VN /\ Agree(node, way)
    BY <1>0, <2>1, NameiAgrees
  <2> HIDE DEF node, way
  <2>3. Linked(trail') /\ resolve_mount(node) = resolve_mount(Last(trail'))
    <3>1. CASE way \in {Lost, Open}
      <4>1. <<node>> \in Seq(VN) /\ <<node>> # <<>> /\ Len(<<node>>) = 1 /\ Last(<<node>>) = node
        BY <2>2 DEF Last
      <4>2. Linked(<<node>>)
        BY <4>1 DEF Linked
      <4> QED
        BY <2>1, <3>1, <4>1, <4>2
    <3>2. CASE way \notin {Lost, Open}
      BY <2>1, <2>2, <3>2 DEF Agree
    <3> QED
      BY <3>1, <3>2
  <2>4. TaskInv'
    <3>1. pwd' \in VN' /\ IsDir(pwd)'
      BY <1>2, <2>1, <2>2
    <3>2. Linked(trail)' /\ resolve_mount(pwd)' = resolve_mount(Last(trail))'
      BY <1>2, <2>1, <2>3
    <3> QED
      BY <1>3, <3>1, <3>2 DEF TaskInv
  <2> QED
    BY <1>2, <2>4 DEF VfsInv
<1> QED
  BY <1>4, <1>5

\* A change of the root.
LEMMA ChrootInv ==
    ASSUME VfsInv, NEW path \in SomePaths, sys_chroot(path)
    PROVE  VfsInv'
<1>0. MountsInv /\ TaskInv /\ DevInv
  BY DEF VfsInv
<1>1. UNCHANGED <<sbs, mount, cover, pwd, dev, trail>>
  BY DEF sys_chroot
<1>2. /\ MountsInv' /\ DevInv' /\ VN' = VN
      /\ \A v : IsDir(v)' = IsDir(v) /\ resolve_mount(v)' = resolve_mount(v)
      /\ \A t : Linked(t)' <=> Linked(t)
  BY <1>0, <1>1, SameMounts, SameDevices
<1>3. root' = root \/ (root' = namei(path) /\ namei(path) # None)
  BY DEF sys_chroot
<1>4. root' \in VN /\ IsDir(root')
  BY <1>0, <1>3, NameiNoMountPoint DEF TaskInv
<1>5. TaskInv'
  <2>1. root' \in VN' /\ IsDir(root)'
    BY <1>2, <1>4
  <2>2. pwd' \in VN' /\ IsDir(pwd)' /\ Linked(trail)'
    BY <1>0, <1>1, <1>2 DEF TaskInv
  <2>3. resolve_mount(pwd)' = resolve_mount(Last(trail))'
    BY <1>0, <1>1, <1>2 DEF TaskInv
  <2> QED
    BY <2>1, <2>2, <2>3 DEF TaskInv
<1> QED
  BY <1>2, <1>5 DEF VfsInv

\* A device is registered under a number that no entry has.
LEMMA RegisterInv ==
    ASSUME VfsInv, NEW name \in Devices, devfs_register_device(name)
    PROVE  VfsInv'
<1>0. MountsInv /\ TaskInv /\ DevInv
  BY DEF VfsInv
<1>1. UNCHANGED <<sbs, mount, cover, root, pwd, trail>> /\ "devfs" \in ToSet(sbs)
  BY DEF devfs_register_device
<1>2. MountsInv' /\ TaskInv'
  <2>1. /\ MountsInv' /\ VN' = VN
        /\ \A v : IsDir(v)' = IsDir(v) /\ resolve_mount(v)' = resolve_mount(v)
        /\ \A t : Linked(t)' <=> Linked(t)
    BY <1>0, <1>1, SameMounts
  <2> QED
    BY <1>0, <1>1, <2>1 DEF TaskInv
<1> DEFINE E == dev.entries
           F == dev'.entries
           k == dev.next
           R == [name : Devices \cup {".", ".."}, inode : Nat]
           e == [name |-> name, inode |-> k]
<1>3. /\ E \in Seq(R) /\ k \in Nat \ {0} /\ dev.cache \in SUBSET Nat
      /\ Len(E) >= 2 /\ E[1] = [name |-> ".", inode |-> 0] /\ E[2] = [name |-> "..", inode |-> 0]
      /\ \A i \in 3 .. Len(E) : E[i].name \in Devices /\ E[i].inode # 0
  BY <1>0, <1>1 DEF DevInv
<1>4. /\ \A i \in 1 .. Len(E) : E[i].inode \in dev.cache
      /\ \A i, j \in 3 .. Len(E) : E[i].inode = E[j].inode => i = j
      /\ \A ino \in dev.cache \ {0} : ino < k /\ \E i \in 3 .. Len(E) : E[i].inode = ino
  BY <1>0 DEF DevInv, DevicesReachable
<1>5. /\ F = Append(E, e) /\ dev'.next = k + 1 /\ dev'.cache = dev.cache \cup {k}
      /\ dev' = [entries |-> F, next |-> dev'.next, cache |-> dev'.cache]
  BY DEF devfs_register_device, devfs_add_d_entry
<1>6. e \in R /\ e.name \in Devices /\ e.inode = k
  BY <1>3
<1> HIDE DEF E, F, k, R, e
<1>7. /\ F \in Seq(R) /\ Len(E) \in Nat /\ Len(F) = Len(E) + 1 /\ F[Len(E) + 1] = e
      /\ \A i \in 1 .. Len(E) : F[i] = E[i]
  BY <1>3, <1>5, <1>6
<1>8. dev' \in [entries : Seq(R), next : Nat \ {0}, cache : SUBSET Nat]
  <2>1. k + 1 \in Nat \ {0} /\ dev.cache \cup {k} \in SUBSET Nat
    BY <1>3
  <2>2. dev' = [entries |-> F, next |-> k + 1, cache |-> dev.cache \cup {k}]
    BY <1>5
  <2> QED
    BY <1>7, <2>1, <2>2
<1>9. \A i \in 3 .. Len(F) : F[i].name \in Devices /\ F[i].inode # 0
  BY <1>3, <1>6, <1>7
<1>10. \A i \in 3 .. Len(E) : E[i].inode < k
  BY <1>3, <1>4, <1>7
<1>11. DevicesReachable'
  <2>1. \A i \in 1 .. Len(F) : F[i].inode \in dev'.cache
    BY <1>4, <1>5, <1>6, <1>7
  <2>2. ASSUME NEW i \in 3 .. Len(F), NEW j \in 3 .. Len(F), F[i].inode = F[j].inode PROVE i = j
    <3>1. CASE i = Len(E) + 1 /\ j # Len(E) + 1
      <4>1. j \in 3 .. Len(E) /\ F[j] = E[j] /\ F[i].inode = k
        BY <1>6, <1>7, <3>1
      <4>2. E[j].inode < k
        BY <1>10, <4>1
      <4> QED
        BY <1>3, <2>2, <4>1, <4>2
    <3>2. CASE j = Len(E) + 1 /\ i # Len(E) + 1
      <4>1. i \in 3 .. Len(E) /\ F[i] = E[i] /\ F[j].inode = k
        BY <1>6, <1>7, <3>2
      <4>2. E[i].inode < k
        BY <1>10, <4>1
      <4> QED
        BY <1>3, <2>2, <4>1, <4>2
    <3>3. CASE i # Len(E) + 1 /\ j # Len(E) + 1
      <4>1. i \in 3 .. Len(E) /\ j \in 3 .. Len(E) /\ F[i] = E[i] /\ F[j] = E[j]
        BY <1>7, <3>3
      <4> QED
        BY <1>4, <2>2, <4>1
    <3> QED
      BY <3>1, <3>2, <3>3
  <2>3. ASSUME NEW ino \in dev'.cache \ {0}
        PROVE  ino < dev'.next /\ \E i \in 3 .. Len(F) : F[i].inode = ino
    <3>1. CASE ino = k
      <4>1. Len(E) + 1 \in 3 .. Len(F) /\ F[Len(E) + 1].inode = ino
        BY <1>3, <1>6, <1>7, <3>1
      <4> QED
        BY <1>3, <1>5, <3>1, <4>1
    <3>2. CASE ino # k
      <4>1. ino \in dev.cache \ {0} /\ ino \in Nat
        BY <1>3, <1>5, <2>3, <3>2
      <4>2. ino < k /\ \E i \in 3 .. Len(E) : E[i].inode = ino
        BY <1>4, <4>1
      <4> QED
        BY <1>3, <1>5, <1>7, <4>1, <4>2
    <3> QED
      BY <3>1, <3>2
  <2> QED
    BY <2>1, <2>2, <2>3 DEF DevicesReachable, F
<1>12. DevInv'
  <2>1. ToSet(sbs') = ToSet(sbs)
    BY <1>1
  <2>2. Len(F) >= 2 /\ F[1] = [name |-> ".", inode |-> 0] /\ F[2] = [name |-> "..", inode |-> 0]
    BY <1>3, <1>7
  <2> QED
    BY <1>1, <1>8, <1>9, <1>11, <2>1, <2>2 DEF DevInv, F, R
<1> QED
  BY <1>2, <1>12 DEF VfsInv

\* A sequence without its m-th element.
LEMMA WithoutOne ==
    ASSUME NEW S, NEW s \in Seq(S), NEW m \in 1 .. Len(s)
    PROVE  LET u == SubSeq(s, 1, m - 1) \o SubSeq(s, m + 1, Len(s))
           IN  /\ u \in Seq(S) /\ Len(u) = Len(s) - 1
               /\ \A i \in 1 .. (m - 1) : u[i] = s[i]
               /\ \A i \in m .. (Len(s) - 1) : u[i] = s[i + 1]
<1> DEFINE a == SubSeq(s, 1, m - 1)
           b == SubSeq(s, m + 1, Len(s))
<1>0. Len(s) \in Nat /\ m - 1 \in 0 .. Len(s)
  OBVIOUS
<1>1. a \in Seq(S) /\ Len(a) = m - 1 /\ \A i \in 1 .. (m - 1) : a[i] = s[i]
  <2>1. \A j \in 0 .. Len(s) : /\ SubSeq(s, 1, j) \in Seq(S) /\ Len(SubSeq(s, 1, j)) = j
                               /\ \A i \in 1 .. j : SubSeq(s, 1, j)[i] = s[i]
    OBVIOUS
  <2> QED
    BY <1>0, <2>1
<1>2. /\ b \in Seq(S) /\ Len(b) = Len(s) - m
      /\ \A i \in 1 .. (Len(s) - m) : b[i] = s[m + i]
  <2>1. m + 1 \in Int /\ Len(s) \in Int /\ \A i \in (m + 1) .. Len(s) : s[i] \in S
    BY <1>0
  <2>2. /\ b \in Seq(S)
        /\ Len(b) = IF m + 1 <= Len(s) THEN Len(s) - (m + 1) + 1 ELSE 0
        /\ \A i \in 1 .. (Len(s) - (m + 1) + 1) : b[i] = s[m + 1 + i - 1]
    BY <2>1, SubSeqProperties
  <2> HIDE DEF b
  <2>3. Len(b) = Len(s) - m
    BY <1>0, <2>2
  <2>4. ASSUME NEW i \in 1 .. (Len(s) - m) PROVE b[i] = s[m + i]
    <3>1. i \in 1 .. (Len(s) - (m + 1) + 1) /\ m + 1 + i - 1 = m + i
      BY <1>0
    <3>2. b[i] = s[m + 1 + i - 1]
      BY <2>2, <3>1
    <3> QED
      BY <3>1, <3>2
  <2> QED
    BY <2>2, <2>3, <2>4
<1> HIDE DEF a, b
<1>3. /\ a \o b \in Seq(S) /\ Len(a \o b) = Len(a) + Len(b)
      /\ \A i \in 1 .. (Len(a) + Len(b)) :
           (a \o b)[i] = IF i <= Len(a) THEN a[i] ELSE b[i - Len(a)]
  BY <1>1, <1>2, ConcatProperties
<1>4. Len(a \o b) = Len(s) - 1 /\ \A i \in 1 .. (m - 1) : (a \o b)[i] = s[i]
  BY <1>0, <1>1, <1>2, <1>3
<1>5. ASSUME NEW i \in m .. (Len(s) - 1) PROVE (a \o b)[i] = s[i + 1]
  <2> DEFINE j == i - Len(a)
  <2>1. /\ j \in 1 .. (Len(s) - m) /\ m + j = i + 1
        /\ i \in 1 .. (Len(a) + Len(b)) /\ ~(i <= Len(a))
    BY <1>0, <1>1, <1>2
  <2>2. (a \o b)[i] = b[j]
    BY <1>3, <2>1
  <2> HIDE DEF j
  <2> QED
    BY <1>2, <2>1, <2>2
<1> QED
  BY <1>3, <1>4, <1>5 DEF a, b

\* The least of one number.
LEMMA MinOfOne ==
    ASSUME NEW x \in Nat
    PROVE  Min({x}) = x
BY DEF Min

\* A device is taken away: its entry, and with it its handle.
LEMMA UnregisterInv ==
    ASSUME VfsInv, NEW ino \in dev.cache, devfs_unregister_device(ino)
    PROVE  VfsInv'
<1>0. MountsInv /\ TaskInv /\ DevInv
  BY DEF VfsInv
<1>1. UNCHANGED <<sbs, mount, cover, root, pwd, trail>> /\ ino \in dev.cache \ {0}
  BY DEF devfs_unregister_device
<1>2. MountsInv' /\ TaskInv'
  <2>1. /\ MountsInv' /\ VN' = VN
        /\ \A v : IsDir(v)' = IsDir(v) /\ resolve_mount(v)' = resolve_mount(v)
        /\ \A t : Linked(t)' <=> Linked(t)
    BY <1>0, <1>1, SameMounts
  <2> QED
    BY <1>0, <1>1, <2>1 DEF TaskInv
<1> DEFINE E == dev.entries
           F == dev'.entries
           k == dev.next
           R == [name : Devices \cup {".", ".."}, inode : Nat]
           found == {i \in 3 .. Len(E) : E[i].inode = ino}
<1>a. "devfs" \in ToSet(sbs)
  <2> SUFFICES ASSUME "devfs" \notin ToSet(sbs) PROVE FALSE
    OBVIOUS
  <2>1. dev = [entries |-> <<>>, next |-> 1, cache |-> {}]
    BY <1>0 DEF DevInv
  <2> QED
    BY <1>1, <2>1
<1>3. /\ E \in Seq(R) /\ k \in Nat \ {0} /\ dev.cache \in SUBSET Nat
      /\ Len(E) >= 2 /\ E[1] = [name |-> ".", inode |-> 0] /\ E[2] = [name |-> "..", inode |-> 0]
      /\ \A i \in 3 .. Len(E) : E[i].name \in Devices /\ E[i].inode # 0
  BY <1>0, <1>a DEF DevInv
<1>4. /\ \A i \in 1 .. Len(E) : E[i].inode \in dev.cache
      /\ \A i, j \in 3 .. Len(E) : E[i].inode = E[j].inode => i = j
      /\ \A x \in dev.cache \ {0} : x < k /\ \E i \in 3 .. Len(E) : E[i].inode = x
  BY <1>0 DEF DevInv, DevicesReachable
<1>5. /\ F = devfs_del_d_entry(E, ino) /\ dev'.next = k /\ dev'.cache = dev.cache \ {ino}
      /\ dev' = [entries |-> F, next |-> dev'.next, cache |-> dev'.cache]
  BY <1>0 DEF devfs_unregister_device, devfs_del_from_cache, DevInv
<1> HIDE DEF E, F, k, R
<1>6. PICK m \in 3 .. Len(E) : E[m].inode = ino
  BY <1>1, <1>4
<1>7. found = {m} /\ Len(E) \in Nat /\ m \in Nat
  BY <1>3, <1>4, <1>6, SMTT(30)
<1>8. F = SubSeq(E, 1, m - 1) \o SubSeq(E, m + 1, Len(E))
  <2>1. Min(found) = m
    BY <1>7, MinOfOne
  <2>2. F = IF found = {} THEN E ELSE RemoveAt(E, Min(found))
    BY <1>5 DEF devfs_del_d_entry
  <2> HIDE DEF found
  <2> QED
    BY <1>7, <2>1, <2>2 DEF RemoveAt
<1>9. /\ F \in Seq(R) /\ Len(F) = Len(E) - 1
      /\ \A i \in 1 .. (m - 1) : F[i] = E[i]
      /\ \A i \in m .. (Len(E) - 1) : F[i] = E[i + 1]
  <2>1. m \in 1 .. Len(E)
    BY <1>7
  <2> QED
    BY <1>3, <1>8, <2>1, WithoutOne, ZenonT(30)
<1>10. dev' \in [entries : Seq(R), next : Nat \ {0}, cache : SUBSET Nat]
  BY <1>3, <1>5, <1>9
<1> DEFINE old(i) == IF i < m THEN i ELSE i + 1
<1>11. \A i \in 1 .. Len(F) : /\ old(i) \in 1 .. Len(E) /\ old(i) # m /\ F[i] = E[old(i)]
                              /\ i >= 3 => old(i) \in 3 .. Len(E)
                              /\ old(i) < 3 => old(i) = i
  <2> TAKE i \in 1 .. Len(F)
  <2>1. i \in Nat /\ m \in Nat /\ m >= 3 /\ i <= Len(E) - 1 /\ Len(E) \in Nat /\ i >= 1
    BY <1>7, <1>9
  <2>2. CASE i < m
    <3>1. i \in 1 .. (m - 1) /\ old(i) = i
      BY <2>1, <2>2
    <3>2. F[i] = E[old(i)]
      BY <1>9, <3>1
    <3> QED
      BY <2>1, <2>2, <3>1, <3>2
  <2>3. CASE ~(i < m)
    <3>1. i \in m .. (Len(E) - 1) /\ old(i) = i + 1
      BY <2>1, <2>3
    <3>2. F[i] = E[old(i)]
      BY <1>9, <3>1
    <3> QED
      BY <2>1, <2>3, <3>1, <3>2
  <2> QED
    BY <2>2, <2>3
<1>12. \A i \in 3 .. Len(F) : F[i].name \in Devices /\ F[i].inode # 0
  <2> TAKE i \in 3 .. Len(F)
  <2>1. i \in 1 .. Len(F) /\ i >= 3
    BY <1>7, <1>9
  <2> HIDE DEF old
  <2>2. old(i) \in 3 .. Len(E) /\ F[i] = E[old(i)]
    BY <1>11, <2>1
  <2> QED BY <1>3, <2>2
<1>13. DevicesReachable'
  <2>1. ASSUME NEW i \in 1 .. Len(F) PROVE F[i].inode \in dev'.cache
    <3>1. F[i].inode \in dev.cache
      <4> HIDE DEF old
      <4> QED BY <1>4, <1>11
    <3>2. F[i].inode # ino
      <4>1. CASE old(i) >= 3
        <5>1. old(i) \in 3 .. Len(E) /\ old(i) # m /\ F[i] = E[old(i)]
          BY <1>7, <1>11, <4>1
        <5> HIDE DEF old
        <5> QED BY <1>4, <1>6, <5>1
      <4>2. CASE ~(old(i) >= 3)
        <5>1. F[i] = E[i] /\ i \in {1, 2}
          BY <1>7, <1>9, <1>11, <4>2
        <5>2. F[i].inode = 0
          BY <1>3, <5>1
        <5> QED
          BY <1>1, <5>2
      <4> QED
        BY <4>1, <4>2
    <3> QED
      BY <1>5, <3>1, <3>2
  <2>2. ASSUME NEW i \in 3 .. Len(F), NEW j \in 3 .. Len(F), F[i].inode = F[j].inode PROVE i = j
    <3>1. i \in 1 .. Len(F) /\ j \in 1 .. Len(F)
      BY <1>7, <1>9
    <3>2. /\ old(i) \in 3 .. Len(E) /\ F[i] = E[old(i)]
          /\ old(j) \in 3 .. Len(E) /\ F[j] = E[old(j)]
      <4> HIDE DEF old
      <4> QED BY <1>11, <2>2, <3>1, <1>7, <1>9
    <3>3. old(i) = old(j)
      <4> HIDE DEF old
      <4> QED BY <1>4, <2>2, <3>2
    <3> QED
      BY <1>7, <3>1, <3>3
  <2>3. ASSUME NEW x \in dev'.cache \ {0}
        PROVE  x < dev'.next /\ \E i \in 3 .. Len(F) : F[i].inode = x
    <3>1. x \in dev.cache \ {0} /\ x # ino
      BY <1>5, <2>3
    <3>2. PICK j \in 3 .. Len(E) : E[j].inode = x
      BY <1>4, <3>1
    <3>3. x < k /\ j # m
      BY <1>4, <1>6, <3>1, <3>2
    <3>4. CASE j < m
      <4>1. j \in 3 .. Len(F) /\ F[j] = E[j]
        BY <1>7, <1>9, <3>4
      <4> QED
        BY <1>5, <3>2, <3>3, <4>1
    <3>5. CASE j > m
      <4>1. j - 1 \in 3 .. Len(F) /\ F[j - 1] = E[j]
        BY <1>6, <1>7, <1>9, <3>5
      <4> QED
        BY <1>5, <3>2, <3>3, <4>1
    <3> QED
      BY <1>7, <3>3, <3>4, <3>5
  <2> QED
    BY <2>1, <2>2, <2>3 DEF DevicesReachable, F
<1>14. DevInv'
  <2>1. ToSet(sbs') = ToSet(sbs)
    BY <1>1
  <2>2. Len(F) >= 2 /\ F[1] = [name |-> ".", inode |-> 0] /\ F[2] = [name |-> "..", inode |-> 0]
    BY <1>3, <1>6, <1>7, <1>9
  <2> QED
    BY <1>a, <1>10, <1>12, <1>13, <2>1, <2>2 DEF DevInv, F, R
<1> QED
  BY <1>2, <1>14 DEF VfsInv

-----------------------------------------------------------------------------
(***************************************************************************)
(* The theorems                                                            *)
(***************************************************************************)

\* Every step keeps the invariant.
LEMMA NextInv ==
    ASSUME VfsInv, [VfsNext]_vfsVars
    PROVE  VfsInv'
<1>1. CASE UNCHANGED volumes
  <2>1. UNCHANGED <<sbs, mount, cover, root, pwd, dev, trail>>
    BY <1>1 DEF volumes
  <2>2. MountsInv' /\ DevInv'
    BY <2>1, SameMounts, SameDevices DEF VfsInv
  <2>3. TaskInv'
    BY <2>1, SameMounts DEF VfsInv, TaskInv
  <2> QED
    BY <2>2, <2>3 DEF VfsInv
<1>2. ASSUME NEW path \in SomePaths, NEW type \in {"initrdfs", "devfs"}, sys_mount(path, type)
      PROVE  VfsInv'
  BY <1>2, MountInv
<1>3. ASSUME NEW path \in SomePaths, sys_umount(path) PROVE VfsInv'
  BY <1>1, <1>3, UmountNothing
<1>4. ASSUME NEW path \in SomePaths, sys_chdir(path) PROVE VfsInv'
  BY <1>4, ChdirInv
<1>5. ASSUME NEW path \in SomePaths, sys_chroot(path) PROVE VfsInv'
  BY <1>5, ChrootInv
<1>6. ASSUME NEW name \in Devices, devfs_register_device(name) PROVE VfsInv'
  BY <1>6, RegisterInv
<1>7. ASSUME NEW ino \in dev.cache, devfs_unregister_device(ino) PROVE VfsInv'
  BY <1>7, UnregisterInv
<1>8. DevPath \in SomePaths /\ RootPath \in SomePaths
  BY VfsAssumption DEF VfsAssumption
<1>9. CASE RebootUnmountsDev \/ RebootUnmountsRoot
  BY <1>3, <1>8, <1>9 DEF RebootUnmountsDev, RebootUnmountsRoot
<1> QED
  BY <1>1, <1>2, <1>3, <1>4, <1>5, <1>6, <1>7, <1>9 DEF VfsNext, Running, vfsVars

\* VfsInv is an invariant.
THEOREM VfsInvariant == VfsSpec => []VfsInv
<1>1. VfsInit => VfsInv
  BY InitInv
<1>2. VfsInv /\ [VfsNext]_vfsVars => VfsInv'
  BY NextInv
<1> QED
  BY <1>1, <1>2, PTL DEF VfsSpec

\* The invariant says that namei finds what a path means.
LEMMA InvNames ==
    ASSUME VfsInv
    PROVE  NamesResolve
<1>1. ASSUME NEW path \in AllPaths, WayOf(path) # Open, path.abs \/ path.comps # <<"">>
      PROVE  namei(path) = IF WayOf(path) = Lost THEN None ELSE resolve_mount(Last(WayOf(path)))
  <2>1. path \in Paths /\ MountsInv
    BY VfsAssumption DEF VfsAssumption, Paths, VfsInv
  <2>2. /\ namei(path) # None => namei(path) \notin DOMAIN mount
        /\ Agree(namei(path), WayOf(path))
    BY <1>1, <2>1, NameiAgrees DEF VfsInv
  <2>3. CASE WayOf(path) = Lost /\ namei(path) = None
    BY <2>3
  <2>4. CASE /\ Linked(WayOf(path)) /\ namei(path) \in VN
             /\ resolve_mount(namei(path)) = resolve_mount(Last(WayOf(path)))
    <3>1. WayOf(path) # Lost
      BY <2>1, <2>4, LinkedWay
    <3>2. namei(path) # None
      BY <2>1, <2>4, Directories
    <3>3. resolve_mount(namei(path)) = namei(path)
      BY <2>1, <2>2, <2>4, <3>2, Resolved
    <3> QED
      BY <2>4, <3>1, <3>3
  <2> QED
    BY <1>1, <2>2, <2>3, <2>4 DEF Agree
<1>2. NameiWalks
  BY <1>1 DEF NameiWalks
<1>3. DevicesReachable
  BY DEF VfsInv, DevInv
<1> QED
  BY <1>2, <1>3 DEF NamesResolve

\* Paths of any length, on trees of any shape and after any mounts, changes of directory
\* and of the root, lead to what they mean, and every entry of the devfs has a handle.
THEOREM VfsNamesResolve == VfsSpec => []NamesResolve
<1>1. VfsInv => NamesResolve
  BY InvNames
<1> QED
  BY <1>1, VfsInvariant, PTL

\* No volume is ever unmounted, by a program or by sys_reboot, since namei never answers
\* with a mount point.
THEOREM VfsMountsStay == VfsSpec => MountsStay
<1>1. ASSUME VfsInv, [VfsNext]_vfsVars PROVE [\A i \in DOMAIN sbs : sbs'[i] = sbs[i]]_vfsVars
  <2>0. DOMAIN sbs = 1 .. Len(sbs)
    BY <1>1 DEF VfsInv, MountsInv
  <2>1. ASSUME sbs' = sbs PROVE \A i \in DOMAIN sbs : sbs'[i] = sbs[i]
    BY <2>1
  <2>2. CASE UNCHANGED vfsVars
    BY <2>2
  <2>3. DevPath \in SomePaths /\ RootPath \in SomePaths
    BY VfsAssumption DEF VfsAssumption
  <2>4. ASSUME NEW path \in SomePaths, NEW type \in {"initrdfs", "devfs"}, sys_mount(path, type)
        PROVE  \A i \in DOMAIN sbs : sbs'[i] = sbs[i]
    <3>1. CASE namei(path) = None
      BY <2>1, <2>4, <3>1 DEF sys_mount, volumes
    <3>2. CASE namei(path) # None
      BY <1>1, <2>0, <2>4, <3>2, MountKeepsNames
    <3> QED
      BY <3>1, <3>2
  <2>5. ASSUME NEW path \in SomePaths, sys_umount(path) PROVE sbs' = sbs
    BY <1>1, <2>5, UmountNothing DEF volumes
  <2>6. ASSUME NEW path \in SomePaths, sys_chdir(path) \/ sys_chroot(path) PROVE sbs' = sbs
    BY <2>6 DEF sys_chdir, sys_chroot
  <2>7. ASSUME NEW name \in Devices, devfs_register_device(name) PROVE sbs' = sbs
    BY <2>7 DEF devfs_register_device
  <2>8. ASSUME NEW ino \in dev.cache, devfs_unregister_device(ino) PROVE sbs' = sbs
    BY <2>8 DEF devfs_unregister_device
  <2> QED
    BY <1>1, <2>1, <2>2, <2>3, <2>4, <2>5, <2>6, <2>7, <2>8
    DEF VfsNext, Running, RebootUnmountsDev, RebootUnmountsRoot
<1> QED
  BY <1>1, VfsInvariant, PTL DEF VfsSpec, MountsStay

-----------------------------------------------------------------------------
(***************************************************************************)
(* The stack of a new program                                              *)
(***************************************************************************)

\* What was not written over is still there.
LEMMA OverCells ==
    ASSUME NEW f, NEW m
    PROVE  /\ DOMAIN Over(f, m) = DOMAIN f \cup DOMAIN m
           /\ \A a \in DOMAIN f : Over(f, m)[a] = f[a]
           /\ \A a \in DOMAIN m : a \notin DOMAIN f => Over(f, m)[a] = m[a]
BY DEF Over

\* Strings one behind the other up to buf, each with its zero.
Placed(vec, buf, at) ==
    /\ at \in [1 .. Len(vec) + 1 -> Int] /\ at[Len(vec) + 1] = buf
    /\ \A i \in 1 .. Len(vec) : at[i] = at[i + 1] - (Len(vec[i]) + 1)

\* Places of strings can be given out from the last one down.
LEMMA PlacesExist ==
    ASSUME NEW vec \in Vectors, NEW buf \in Int
    PROVE  \E at : Placed(vec, buf, at)
<1> DEFINE n == Len(vec)
           G == [k \in 1 .. n |-> [x \in Int |-> x - (Len(vec[n + 1 - k]) + 1)]]
<1>1. n \in Nat /\ \A i \in 1 .. n : Len(vec[i]) \in Nat
  BY DEF Vectors
<1>2. G \in [1 .. n -> [Int -> Int]]
  <2>1. ASSUME NEW k \in 1 .. n
        PROVE  [x \in Int |-> x - (Len(vec[n + 1 - k]) + 1)] \in [Int -> Int]
    <3>1. n + 1 - k \in 1 .. n
      BY <1>1
    <3>2. Len(vec[n + 1 - k]) \in Nat
      BY <1>1, <3>1
    <3> QED
      BY <3>2
  <2> QED
    BY <2>1
<1>3. PICK f \in [0 .. n -> Int] : Iteration(f, n, buf, G)
  <2> HIDE DEF n, G
  <2> QED
    BY <1>1, <1>2, IterationExists
<1> DEFINE at == [i \in 1 .. n + 1 |-> f[n + 1 - i]]
<1>4. at \in [1 .. n + 1 -> Int] /\ at[n + 1] = buf
  <2>1. \A i \in 1 .. n + 1 : n + 1 - i \in 0 .. n
    BY <1>1
  <2>2. n + 1 \in 1 .. n + 1 /\ n + 1 - (n + 1) = 0
    BY <1>1
  <2> QED
    BY <1>3, <2>1, <2>2 DEF Iteration
<1>5. ASSUME NEW i \in 1 .. n
      PROVE  at[i] = at[i + 1] - (Len(vec[i]) + 1)
  <2>1. /\ n + 1 - i \in 1 .. n /\ n + 1 - i \in 0 .. n /\ (n + 1 - i) - 1 = n + 1 - (i + 1)
        /\ n + 1 - (i + 1) \in 0 .. n /\ n + 1 - (n + 1 - i) = i /\ i \in 1 .. n + 1 /\ i + 1 \in 1 .. n + 1
    BY <1>1
  <2>2. f[n + 1 - i] = G[n + 1 - i][f[(n + 1 - i) - 1]]
    BY <1>3, <2>1 DEF Iteration
  <2>3. f[n + 1 - (i + 1)] \in Int
    BY <2>1
  <2>4. G[n + 1 - i][f[n + 1 - (i + 1)]] = f[n + 1 - (i + 1)] - (Len(vec[i]) + 1)
    BY <2>1, <2>3
  <2>5. at[i] = f[n + 1 - i] /\ at[i + 1] = f[n + 1 - (i + 1)]
    BY <2>1
  <2> HIDE DEF at, G
  <2> QED
    BY <2>1, <2>2, <2>4, <2>5
<1> HIDE DEF at
<1> QED
  BY <1>4, <1>5 DEF Placed

\* StringsAt gives them out that way.
LEMMA StringsPlaced ==
    ASSUME NEW vec \in Vectors, NEW buf \in Int
    PROVE  Placed(vec, buf, StringsAt(vec, buf))
<1> DEFINE n == Len(vec)
           Rec(f) == f = [i \in 1 .. Len(vec) + 1 |-> IF i = Len(vec) + 1 THEN buf
                                                      ELSE f[i + 1] - (Len(vec[i]) + 1)]
<1>0. n \in Nat
  BY DEF Vectors
<1>1. PICK g : Placed(vec, buf, g)
  BY PlacesExist
<1>2. Rec(g)
  <2>1. ASSUME NEW i \in 1 .. Len(vec) + 1
        PROVE  g[i] = IF i = Len(vec) + 1 THEN buf ELSE g[i + 1] - (Len(vec[i]) + 1)
    <3>1. CASE i = Len(vec) + 1
      BY <1>1, <3>1 DEF Placed
    <3>2. CASE i # Len(vec) + 1
      <4>1. i \in 1 .. Len(vec)
        BY <1>0, <3>2
      <4> QED
        BY <1>1, <3>2, <4>1 DEF Placed
    <3> QED
      BY <3>1, <3>2
  <2>2. g = [i \in 1 .. Len(vec) + 1 |-> g[i]]
    BY <1>1 DEF Placed
  <2> QED
    BY <2>1, <2>2
<1>3. StringsAt(vec, buf) = CHOOSE f : Rec(f)
  BY Zenon DEF StringsAt
<1> DEFINE at == StringsAt(vec, buf)
<1>4. Rec(at)
  <2> HIDE DEF Rec
  <2> QED
    BY <1>2, <1>3
<1> HIDE DEF at
<1>5. /\ DOMAIN at = 1 .. n + 1 /\ at[n + 1] = buf
      /\ \A i \in 1 .. n : at[i] = at[i + 1] - (Len(vec[i]) + 1)
  <2>1. n + 1 \in 1 .. n + 1 /\ \A i \in 1 .. n : i \in 1 .. n + 1 /\ i # n + 1
    BY <1>0
  <2> QED
    BY <1>4, <2>1
<1> DEFINE S == {d \in 0 .. n : at[n + 1 - d] = g[n + 1 - d]}
<1>6. \A d \in 0 .. n : d \in S
  <2>1. 0 \in S
    BY <1>0, <1>1, <1>5 DEF Placed
  <2>2. ASSUME NEW d \in 1 .. n, d - 1 \in S
        PROVE  d \in S
    <3>1. n + 1 - d \in 1 .. n /\ (n + 1 - d) + 1 = n + 1 - (d - 1) /\ d \in 0 .. n
      BY <1>0
    <3>2. at[n + 1 - d] = at[n + 1 - (d - 1)] - (Len(vec[n + 1 - d]) + 1)
      BY <1>5, <3>1
    <3>3. g[n + 1 - d] = g[n + 1 - (d - 1)] - (Len(vec[n + 1 - d]) + 1)
      BY <1>1, <3>1 DEF Placed
    <3> QED
      BY <2>2, <3>1, <3>2, <3>3
  <2> HIDE DEF S
  <2> QED
    BY <1>0, <2>1, <2>2, UpTo
<1>7. ASSUME NEW i \in 1 .. n + 1
      PROVE  at[i] = g[i]
  <2>1. n + 1 - i \in 0 .. n /\ n + 1 - (n + 1 - i) = i
    BY <1>0
  <2> QED
    BY <1>6, <2>1
<1>8. at = [i \in 1 .. n + 1 |-> at[i]]
  BY <1>4, <1>5
<1>9. at \in [1 .. n + 1 -> Int]
  BY <1>1, <1>7, <1>8 DEF Placed
<1> QED
  BY <1>5, <1>9 DEF Placed, at

\* A string ends before the next ones begin.
LEMMA PlacesApart ==
    ASSUME NEW vec \in Vectors, NEW buf \in Int, NEW at, Placed(vec, buf, at),
           NEW i \in 1 .. Len(vec) + 1, NEW j \in i .. Len(vec) + 1
    PROVE  at[i] <= at[j] /\ (i < j => at[i] + Len(vec[i]) + 1 <= at[j])
<1> DEFINE n == Len(vec)
           len == [k \in 1 .. n |-> Len(vec[k])]
<1>0. n \in Nat /\ len \in [1 .. n -> Nat]
  BY DEF Vectors
<1>a. /\ at \in [1 .. n + 1 -> Int] /\ \A k \in 1 .. n : at[k] = at[k + 1] - (len[k] + 1)
      /\ \A k \in 1 .. n : Len(vec[k]) = len[k]
  BY DEF Placed
<1>b. i \in 1 .. n + 1 /\ j \in i .. n + 1
  OBVIOUS
<1> HIDE DEF n, len
<1>c. \A x, y, z \in Int : \A l \in Nat : y = z - (l + 1) => (x <= y => x <= z) /\ (z <= x => y + l + 1 <= x)
  OBVIOUS
<1>1. ASSUME NEW b \in 1 .. n + 1
      PROVE  \A d \in 0 .. n + 1 - b : at[b] <= at[b + d]
  <2> DEFINE S == {d \in 0 .. n + 1 - b : at[b] <= at[b + d]}
  <2>0. n + 1 - b \in Nat /\ at[b] \in Int /\ b + 0 = b
    BY <1>0, <1>a
  <2>1. 0 \in S
    BY <1>0, <2>0
  <2>2. ASSUME NEW d \in 1 .. n + 1 - b, d - 1 \in S
        PROVE  d \in S
    <3> DEFINE e == b + (d - 1)
               f == b + d
    <3>1. /\ e \in 1 .. n /\ e + 1 = f /\ d \in 0 .. n + 1 - b /\ f \in 1 .. n + 1 /\ e \in 1 .. n + 1
      BY <1>0
    <3>2. at[b] <= at[e]
      BY <2>2
    <3> HIDE DEF e, f
    <3>3. at[e] = at[f] - (len[e] + 1)
      BY <1>a, <3>1
    <3>4. len[e] \in Nat /\ at[f] \in Int /\ at[e] \in Int
      BY <1>0, <1>a, <3>1
    <3>5. at[b] <= at[f]
      BY <1>c, <2>0, <3>2, <3>3, <3>4
    <3> QED
      BY <3>1, <3>5 DEF f
  <2>3. \A d \in 0 .. n + 1 - b : d \in S
    <3> HIDE DEF S
    <3> QED
      BY <2>0, <2>1, <2>2, UpTo
  <2> QED
    BY <2>3
<1>2. at[i] <= at[j]
  <2>1. j - i \in 0 .. n + 1 - i /\ i + (j - i) = j
    BY <1>0, <1>b
  <2> QED
    BY <1>1, <1>b, <2>1
<1>3. ASSUME i < j
      PROVE  at[i] + Len(vec[i]) + 1 <= at[j]
  <2>1. i \in 1 .. n /\ i + 1 \in 1 .. n + 1 /\ j \in 1 .. n + 1
        /\ j - (i + 1) \in 0 .. n + 1 - (i + 1) /\ (i + 1) + (j - (i + 1)) = j
    BY <1>0, <1>b, <1>3
  <2>2. at[i + 1] <= at[j]
    BY <1>1, <2>1
  <2>3. at[i] = at[i + 1] - (len[i] + 1) /\ at[i] \in Int /\ at[i + 1] \in Int /\ at[j] \in Int
    BY <1>a, <1>b, <2>1
  <2>4. len[i] \in Nat /\ Len(vec[i]) = len[i]
    BY <1>0, <1>a, <2>1
  <2>5. at[i] + len[i] + 1 <= at[j]
    BY <1>c, <2>2, <2>3, <2>4
  <2> QED
    BY <2>4, <2>5, Zenon
<1> QED
  BY <1>2, <1>3

\* A string is read back from its cells.
LEMMA StringReadsBack ==
    ASSUME NEW m, NEW a \in Int, NEW top \in Int, NEW s \in Seq(Nat \ {0}), a + Len(s) < top,
           \A k \in 0 .. Len(s) : m[a + k] = IF k = Len(s) THEN 0 ELSE s[k + 1]
    PROVE  StringFrom(m, a, top) = s
<1> DEFINE L == Len(s)
           Ends(n) == m[a + n] = 0 /\ \A k \in 0 .. n - 1 : m[a + k] # 0
           len == CHOOSE n \in 0 .. top - a - 1 : Ends(n)
<1>0. L \in Nat /\ s = [k \in 1 .. L |-> s[k]] /\ \A k \in 1 .. L : s[k] # 0
  OBVIOUS
<1>a. a + L < top /\ \A k \in 0 .. L : m[a + k] = IF k = L THEN 0 ELSE s[k + 1]
  OBVIOUS
<1> HIDE DEF L
<1>1. ASSUME NEW k \in 0 .. L - 1
      PROVE  m[a + k] = s[k + 1] /\ m[a + k] # 0
  <2>1. k \in 0 .. L /\ k # L /\ k + 1 \in 1 .. L
    BY <1>0
  <2> QED
    BY <1>0, <1>a, <2>1
<1>2. L \in 0 .. top - a - 1 /\ Ends(L)
  <2>1. L \in 0 .. top - a - 1 /\ L \in 0 .. L
    BY <1>0, <1>a
  <2> QED
    BY <1>1, <1>a, <2>1
<1>3. len \in 0 .. top - a - 1 /\ Ends(len)
  <2> HIDE DEF Ends
  <2> QED
    BY <1>2
<1> HIDE DEF len
<1>4. len = L
  <2>0. len \in Nat
    BY <1>3
  <2>1. len < L => len \in 0 .. L - 1
    BY <1>0, <2>0
  <2>2. L < len => L \in 0 .. len - 1
    BY <1>0, <2>0
  <2> QED
    BY <1>0, <1>1, <1>2, <1>3, <2>0, <2>1, <2>2
<1>5. StringFrom(m, a, top) = [k \in 1 .. len |-> m[a + k - 1]]
  BY Zenon DEF StringFrom, len
<1>6. ASSUME NEW k \in 1 .. L
      PROVE  m[a + k - 1] = s[k]
  <2>1. k - 1 \in 0 .. L - 1 /\ a + (k - 1) = a + k - 1 /\ (k - 1) + 1 = k
    BY <1>0
  <2>2. m[a + (k - 1)] = s[(k - 1) + 1]
    BY <1>1, <2>1
  <2> QED
    BY <2>1, <2>2
<1> QED
  BY <1>0, <1>4, <1>5, <1>6

\* Multiples of the size of a pointer lie apart by it.
LEMMA Multiples ==
    ASSUME NEW j \in Nat, NEW k \in Nat
    PROVE  /\ Ptr * j \in Nat /\ Ptr * (j + k) = Ptr * j + Ptr * k
           /\ j < k => Ptr * j + Ptr <= Ptr * k
<1>1. Ptr \in Nat /\ Ptr >= 1
  BY ExecAssumption
<1>2. Ptr * j \in Nat /\ Ptr * (j + k) = Ptr * j + Ptr * k
  BY <1>1
<1>3. ASSUME j < k
      PROVE  Ptr * j + Ptr <= Ptr * k
  <2>1. k - j - 1 \in Nat /\ k = j + 1 + (k - j - 1)
    BY <1>3
  <2>2. Ptr * (k - j - 1) \in Nat
    BY <1>1, <2>1
  <2>3. Ptr * k = Ptr * j + Ptr + Ptr * (k - j - 1)
    BY <1>1, <2>1
  <2> QED
    BY <1>1, <1>2, <2>2, <2>3
<1> QED
  BY <1>2, <1>3

\* String s lies at a in memory m, with its zero, below pos.
StringIn(m, a, s, pos) ==
    /\ a \in Int /\ a + Len(s) < pos
    /\ \A k \in 0 .. Len(s) : a + k \in DOMAIN m /\ m[a + k] = IF k = Len(s) THEN 0 ELSE s[k + 1]

\* At v lies a vector of pointers to strings, ended by the null pointer.
VectorIn(m, v, strings, pos) ==
    /\ v + Ptr * Len(strings) \in DOMAIN m /\ m[v + Ptr * Len(strings)] = 0
    /\ \A i \in 1 .. Len(strings) : /\ v + Ptr * (i - 1) \in DOMAIN m
                                    /\ StringIn(m, m[v + Ptr * (i - 1)], strings[i], pos)

\* Writing elsewhere leaves a vector and its strings as they are.
LEMMA VectorStays ==
    ASSUME NEW m, NEW w, DOMAIN m \subseteq DOMAIN w, \A a \in DOMAIN m : w[a] = m[a],
           NEW v, NEW strings, NEW pos, VectorIn(m, v, strings, pos)
    PROVE  VectorIn(w, v, strings, pos)
<1>1. v + Ptr * Len(strings) \in DOMAIN w /\ w[v + Ptr * Len(strings)] = 0
  BY DEF VectorIn
<1>2. ASSUME NEW i \in 1 .. Len(strings)
      PROVE  /\ v + Ptr * (i - 1) \in DOMAIN w
             /\ StringIn(w, w[v + Ptr * (i - 1)], strings[i], pos)
  <2> DEFINE p == v + Ptr * (i - 1)
             s == strings[i]
  <2>1. p \in DOMAIN m /\ StringIn(m, m[p], s, pos)
    BY DEF VectorIn
  <2>2. p \in DOMAIN w /\ w[p] = m[p]
    BY <2>1
  <2> HIDE DEF p, s
  <2>3. StringIn(w, m[p], s, pos)
    BY <2>1 DEF StringIn
  <2> QED
    BY <2>2, <2>3 DEF p, s
<1> QED
  BY <1>1, <1>2 DEF VectorIn

\* What the places of a vector's strings and pointers are to each other.
SlotsApart(n, low, slot) ==
    /\ slot \in [1 .. n + 1 -> Int]
    /\ \A i \in 1 .. n + 1 : /\ slot[1] <= slot[i] /\ slot[i] < low
                             /\ slot[1] + Ptr * (i - 1) = slot[i]
    /\ \A i, j \in 1 .. n + 1 : slot[i] = slot[j] => i = j

\* The pointers lie one behind the other below the strings.
LEMMA SlotsOfVector ==
    ASSUME NEW n \in Nat, NEW low \in Int
    PROVE  SlotsApart(n, low, [i \in 1 .. n + 1 |-> low - Ptr * (n + 2 - i)])
<1> DEFINE slot == [i \in 1 .. n + 1 |-> low - Ptr * (n + 2 - i)]
<1>0. Ptr \in Nat /\ Ptr >= 1
  BY ExecAssumption
<1>1. ASSUME NEW i \in 1 .. n + 1
      PROVE  /\ slot[i] = low - Ptr * (n + 2 - i) /\ n + 2 - i \in Nat /\ Ptr * (n + 2 - i) \in Nat
             /\ slot[i] \in Int /\ slot[i] < low
  <2>1. n + 2 - i \in Nat /\ 0 \in Nat /\ 0 < n + 2 - i
    OBVIOUS
  <2>2. Ptr * (n + 2 - i) \in Nat /\ Ptr * 0 + Ptr <= Ptr * (n + 2 - i)
    BY <2>1, Multiples
  <2>3. Ptr * (n + 2 - i) >= 1
    BY <1>0, <2>2
  <2> QED
    BY <2>1, <2>2, <2>3
<1>2. ASSUME NEW i \in 1 .. n + 1
      PROVE  slot[1] + Ptr * (i - 1) = slot[i] /\ slot[1] <= slot[i]
  <2>1. i - 1 \in Nat /\ n + 2 - i \in Nat /\ (n + 2 - i) + (i - 1) = n + 2 - 1 /\ 1 \in 1 .. n + 1
    OBVIOUS
  <2>2. Ptr * (n + 2 - 1) = Ptr * (n + 2 - i) + Ptr * (i - 1) /\ Ptr * (i - 1) \in Nat
    BY <2>1, Multiples
  <2>3. slot[1] = low - Ptr * (n + 2 - 1) /\ slot[1] \in Int /\ slot[i] = low - Ptr * (n + 2 - i)
        /\ slot[i] \in Int /\ Ptr * (n + 2 - i) \in Nat
    BY <1>1, <2>1
  <2> HIDE DEF slot
  <2>4. \A x, y, z \in Nat : x = y + z => (low - x) + z = low - y /\ low - x <= low - y
    OBVIOUS
  <2>5. Ptr * (n + 2 - 1) \in Nat
    BY <2>2, <2>3
  <2> QED
    BY <2>2, <2>3, <2>4, <2>5
<1>3. ASSUME NEW i \in 1 .. n + 1, NEW j \in 1 .. n + 1, slot[i] = slot[j]
      PROVE  i = j
  <2> DEFINE p == n + 2 - i
             q == n + 2 - j
  <2>1. p \in Nat /\ q \in Nat /\ (p = q => i = j)
    OBVIOUS
  <2>2. slot[i] = low - Ptr * p /\ slot[j] = low - Ptr * q /\ Ptr * p \in Nat /\ Ptr * q \in Nat
    BY <1>1
  <2> HIDE DEF slot, p, q
  <2>a. \A x, y \in Nat : low - x = low - y => x = y
    OBVIOUS
  <2>b. low - Ptr * p = low - Ptr * q
    BY <1>3, <2>2, Zenon
  <2>3. Ptr * p = Ptr * q
    BY <2>2, <2>a, <2>b
  <2>4. ~(p < q) /\ ~(q < p)
    BY <1>0, <2>1, <2>2, <2>3, Multiples
  <2> QED
    BY <2>1, <2>4
<1>4. slot \in [1 .. n + 1 -> Int]
  BY <1>1
<1> HIDE DEF slot
<1>5. SlotsApart(n, low, slot)
  BY <1>1, <1>2, <1>3, <1>4 DEF SlotsApart
<1> QED
  BY <1>5 DEF slot

\* r is mem with more written to it, from r.at to buf.
Grown(r, mem, buf, pos) ==
    /\ r.at \in Int /\ r.at < buf /\ DOMAIN r.mem \subseteq r.at .. pos - 1
    /\ DOMAIN mem \subseteq DOMAIN r.mem /\ \A a \in DOMAIN mem : r.mem[a] = mem[a]

\* write_vector writes below buf only, and leaves there the vector with its strings.
LEMMA VectorWritten ==
    ASSUME NEW mem, NEW vector, ~vector.null, vector.strings \in Vectors,
           NEW buf \in Int, NEW pos \in Int, buf <= pos, DOMAIN mem \subseteq buf .. pos - 1,
           NEW r, r = write_vector(mem, vector, buf)
    PROVE  Grown(r, mem, buf, pos) /\ VectorIn(r.mem, r.at, vector.strings, pos)
<1> DEFINE vec == vector.strings
           n == Len(vec)
           at == StringsAt(vec, buf)
           chars == [a \in at[1] .. buf - 1 |->
                       LET i == CHOOSE j \in 1 .. n : at[j] <= a /\ a < at[j + 1]
                           k == a - at[i] + 1
                       IN IF k > Len(vec[i]) THEN 0 ELSE vec[i][k]]
           place(i) == at[1] - Ptr * (n + 2 - i)
           pointers == [a \in {place(i) : i \in 1 .. n + 1} |->
                          LET i == CHOOSE j \in 1 .. n + 1 : place(j) = a
                          IN IF i = n + 1 THEN 0 ELSE at[i]]
           slot == [i \in 1 .. n + 1 |-> at[1] - Ptr * (n + 2 - i)]
           m == Over(pointers, Over(chars, mem))
<1>1. r = [mem |-> m, at |-> place(1)]
  BY Zenon DEF write_vector
<1>2. n \in Nat /\ Placed(vec, buf, at) /\ \A i \in 1 .. n : vec[i] \in Seq(Nat \ {0}) /\ Len(vec[i]) \in Nat
  BY StringsPlaced DEF Vectors
<1>3. /\ at \in [1 .. n + 1 -> Int] /\ at[n + 1] = buf
      /\ \A i \in 1 .. n : at[i] = at[i + 1] - (Len(vec[i]) + 1)
  BY <1>2 DEF Placed
<1>4. \A i \in 1 .. n + 1 : \A j \in i .. n + 1 : at[i] <= at[j] /\ (i < j => at[i] + Len(vec[i]) + 1 <= at[j])
  <2> HIDE DEF at
  <2> QED
    BY <1>2, PlacesApart
<1>5. at[1] \in Int /\ at[1] <= buf
  <2>1. 1 \in 1 .. n + 1 /\ n + 1 \in 1 .. n + 1
    BY <1>2
  <2> HIDE DEF n, at
  <2> QED
    BY <1>3, <1>4, <2>1
<1>6. SlotsApart(n, at[1], slot) /\ \A i \in 1 .. n + 1 : place(i) = slot[i]
  <2> HIDE DEF at, n
  <2> QED
    BY <1>2, <1>5, SlotsOfVector
<1>7. ASSUME NEW i \in 1 .. n, NEW k \in 0 .. Len(vec[i])
      PROVE  /\ at[i] + k \in at[1] .. buf - 1
             /\ chars[at[i] + k] = IF k = Len(vec[i]) THEN 0 ELSE vec[i][k + 1]
  <2> DEFINE a == at[i] + k
             I == CHOOSE j \in 1 .. n : at[j] <= a /\ a < at[j + 1]
             l == Len(vec[i])
  <2> HIDE DEF n, at
  <2>1. /\ i \in 1 .. n + 1 /\ i + 1 \in 1 .. n + 1 /\ 1 \in 1 .. n + 1 /\ i \in 1 .. n + 1
        /\ n + 1 \in i .. n + 1 /\ i < n + 1 /\ n + 1 \in 1 .. n + 1
    BY <1>2
  <2>2. at[i] \in Int /\ at[i + 1] \in Int /\ at[i] = at[i + 1] - (l + 1) /\ l \in Nat /\ k \in 0 .. l
    BY <1>2, <1>3, <2>1
  <2>3. at[1] <= at[i] /\ at[i] + l + 1 <= buf
    BY <1>3, <1>4, <2>1
  <2> HIDE DEF l
  <2>4. a \in Int /\ at[i] <= a /\ a < at[i + 1] /\ a \in at[1] .. buf - 1 /\ a - at[i] + 1 = k + 1
        /\ (k + 1 > l <=> k = l)
    <3> DEFINE x == at[i]
               y == at[i + 1]
               z == at[1]
    <3>1. x \in Int /\ y \in Int /\ z \in Int /\ l \in Nat /\ k \in 0 .. l /\ x = y - (l + 1) /\ z <= x
          /\ x + l + 1 <= buf /\ a = x + k
      BY <1>5, <2>2, <2>3
    <3> HIDE DEF x, y, z, a
    <3>2. a \in Int /\ x <= a /\ a < y /\ a \in z .. buf - 1 /\ a - x + 1 = k + 1 /\ (k + 1 > l <=> k = l)
      BY <3>1
    <3> QED
      BY <3>2 DEF x, y, z
  <2>5. ASSUME NEW j \in 1 .. n, at[j] <= a, a < at[j + 1]
        PROVE  j = i
    <3> HIDE DEF a
    <3>1. j \in 1 .. n + 1 /\ j + 1 \in 1 .. n + 1 /\ at[j] \in Int /\ at[j + 1] \in Int
      BY <1>2, <1>3
    <3>2. ~(j < i)
      <4>1. j < i => i \in j + 1 .. n + 1
        BY <2>1
      <4>2. j < i => at[j + 1] <= at[i]
        BY <1>4, <3>1, <4>1
      <4> QED
        BY <2>2, <2>4, <2>5, <3>1, <4>2
    <3>3. ~(i < j)
      <4>1. i < j => j \in i + 1 .. n + 1
        BY <3>1
      <4>2. i < j => at[i + 1] <= at[j]
        BY <1>4, <2>1, <4>1
      <4> QED
        BY <2>2, <2>4, <2>5, <3>1, <4>2
    <3> QED
      BY <3>2, <3>3, <1>2
  <2>6. I = i
    <3> HIDE DEF a
    <3> QED
      BY <2>4, <2>5
  <2> HIDE DEF I
  <2>7. chars[a] = IF a - at[I] + 1 > Len(vec[I]) THEN 0 ELSE vec[I][a - at[I] + 1]
    <3> HIDE DEF a
    <3> QED
      BY <2>4 DEF I
  <2> HIDE DEF chars
  <2>8. chars[a] = IF k + 1 > l THEN 0 ELSE vec[i][k + 1]
    <3> HIDE DEF a
    <3> QED
      BY <2>4, <2>6, <2>7 DEF l
  <2> QED
    BY <2>4, <2>8 DEF l
<1>8. ASSUME NEW i \in 1 .. n + 1
      PROVE  slot[i] \in DOMAIN pointers /\ pointers[slot[i]] = IF i = n + 1 THEN 0 ELSE at[i]
  <2> DEFINE I == CHOOSE j \in 1 .. n + 1 : place(j) = slot[i]
  <2>1. slot[i] = place(i)
    BY <1>6
  <2>2. \A j \in 1 .. n + 1 : place(j) = slot[i] => j = i
    <3> HIDE DEF slot, place, n
    <3> QED
      BY <1>6 DEF SlotsApart
  <2>3. I = i
    <3> HIDE DEF slot, place, n
    <3> QED
      BY <2>1, <2>2
  <2>4. slot[i] \in DOMAIN pointers
    <3> HIDE DEF slot, place, n
    <3> QED
      BY <2>1
  <2>5. pointers[slot[i]] = IF I = n + 1 THEN 0 ELSE at[I]
    <3> HIDE DEF slot, place, n
    <3> QED
      BY <2>4
  <2> HIDE DEF I, pointers
  <2> QED
    BY <2>3, <2>4, <2>5
<1>9. \A a \in DOMAIN pointers : a \in Int /\ slot[1] <= a /\ a < at[1]
  <2> HIDE DEF slot, place, n, at
  <2>1. \A a \in DOMAIN pointers : \E i \in 1 .. n + 1 : a = place(i)
    OBVIOUS
  <2> HIDE DEF pointers
  <2> QED
    BY <1>6, <2>1 DEF SlotsApart
<1>10. DOMAIN chars = at[1] .. buf - 1
  OBVIOUS
<1>11. place(1) = slot[1] /\ slot[1] \in Int /\ slot[1] < at[1]
  <2>1. 1 \in 1 .. n + 1
    BY <1>2
  <2> HIDE DEF slot, place, n, at
  <2> QED
    BY <1>6, <2>1 DEF SlotsApart
<1> HIDE DEF pointers, chars, slot, place, at, n
<1>12. /\ DOMAIN m = DOMAIN pointers \cup DOMAIN chars \cup DOMAIN mem
       /\ \A a \in DOMAIN pointers : m[a] = pointers[a]
       /\ \A a \in DOMAIN chars : m[a] = chars[a]
       /\ \A a \in DOMAIN mem : m[a] = mem[a]
  <2> DEFINE o == Over(chars, mem)
  <2>1. /\ DOMAIN o = DOMAIN chars \cup DOMAIN mem /\ \A a \in DOMAIN chars : o[a] = chars[a]
        /\ \A a \in DOMAIN mem : a \notin DOMAIN chars => o[a] = mem[a]
    BY OverCells
  <2>2. \A a \in DOMAIN mem : a \in Int /\ buf <= a
    OBVIOUS
  <2>3. \A a \in DOMAIN mem : a \notin DOMAIN chars /\ a \notin DOMAIN pointers
    BY <1>5, <1>9, <1>10, <2>2
  <2>4. \A a \in DOMAIN mem : o[a] = mem[a]
    BY <2>1, <2>3
  <2>5. \A a \in DOMAIN chars : a \notin DOMAIN pointers
    BY <1>5, <1>9, <1>10
  <2> HIDE DEF o
  <2>6. /\ DOMAIN Over(pointers, o) = DOMAIN pointers \cup DOMAIN o
        /\ \A a \in DOMAIN pointers : Over(pointers, o)[a] = pointers[a]
        /\ \A a \in DOMAIN o : a \notin DOMAIN pointers => Over(pointers, o)[a] = o[a]
    BY OverCells
  <2>7. m = Over(pointers, o)
    BY DEF o
  <2> HIDE DEF m
  <2> QED
    BY <2>1, <2>3, <2>4, <2>5, <2>6, <2>7
<1> HIDE DEF m
<1>13. DOMAIN m \subseteq slot[1] .. pos - 1
  <2>1. \A a \in DOMAIN m : a \in Int /\ slot[1] <= a /\ a < pos
    BY <1>5, <1>9, <1>10, <1>11, <1>12
  <2> QED
    BY <1>11, <2>1
<1>14. VectorIn(m, slot[1], vec, pos)
  <2>1. \A i \in 1 .. n + 1 : slot[1] + Ptr * (i - 1) = slot[i]
    BY <1>6 DEF SlotsApart
  <2>2. slot[1] + Ptr * n \in DOMAIN m /\ m[slot[1] + Ptr * n] = 0
    <3>1. n + 1 \in 1 .. n + 1 /\ (n + 1) - 1 = n
      BY <1>2
    <3>2. slot[1] + Ptr * n = slot[n + 1]
      BY <2>1, <3>1
    <3> QED
      BY <1>8, <1>12, <3>1, <3>2
  <2>3. ASSUME NEW i \in 1 .. n
        PROVE  slot[1] + Ptr * (i - 1) \in DOMAIN m /\ StringIn(m, m[slot[1] + Ptr * (i - 1)], vec[i], pos)
    <3>1. i \in 1 .. n + 1 /\ i # n + 1
      BY <1>2
    <3>2. slot[i] \in DOMAIN m /\ m[slot[i]] = at[i]
      BY <1>8, <1>12, <3>1
    <3>3. at[i] \in Int
      BY <1>3, <3>1
    <3>4. \A k \in 0 .. Len(vec[i]) : /\ at[i] + k \in DOMAIN chars
                                      /\ chars[at[i] + k] = IF k = Len(vec[i]) THEN 0 ELSE vec[i][k + 1]
      BY <1>7, <1>10
    <3>5. at[i] + Len(vec[i]) < pos
      <4>1. Len(vec[i]) \in 0 .. Len(vec[i])
        BY <1>2
      <4>2. at[i] + Len(vec[i]) \in at[1] .. buf - 1
        BY <1>7, <4>1
      <4> QED
        BY <4>2
    <3>6. StringIn(m, at[i], vec[i], pos)
      BY <1>12, <3>3, <3>4, <3>5 DEF StringIn
    <3> QED
      BY <2>1, <3>1, <3>2, <3>6
  <2> QED
    BY <2>2, <2>3 DEF VectorIn, n
<1>15. r.mem = m /\ r.at = slot[1]
  BY <1>1, <1>11
<1> QED
  BY <1>5, <1>11, <1>12, <1>13, <1>14, <1>15 DEF Grown

\* The vector at v, as the program that gets it reads it.
ReadsBack(m, v, strings, pos) ==
    /\ [i \in 1 .. Len(strings) |-> StringFrom(m, m[v + Ptr * (i - 1)], pos)] = strings
    /\ m[v + Ptr * Len(strings)] = 0

\* The strings of a vector are read back through its pointers.
LEMMA VectorReadsBack ==
    ASSUME NEW m, NEW v, NEW strings \in Vectors, NEW pos \in Int, VectorIn(m, v, strings, pos)
    PROVE  ReadsBack(m, v, strings, pos)
<1>1. ASSUME NEW i \in 1 .. Len(strings)
      PROVE  StringFrom(m, m[v + Ptr * (i - 1)], pos) = strings[i]
  <2> DEFINE a == m[v + Ptr * (i - 1)]
             s == strings[i]
  <2>1. s \in Seq(Nat \ {0})
    BY DEF Vectors
  <2>2. StringIn(m, a, s, pos)
    BY DEF VectorIn
  <2> HIDE DEF a, s
  <2>3. a \in Int /\ a + Len(s) < pos /\ \A k \in 0 .. Len(s) : m[a + k] = IF k = Len(s) THEN 0 ELSE s[k + 1]
    BY <2>2 DEF StringIn
  <2>4. StringFrom(m, a, pos) = s
    BY <2>1, <2>3, StringReadsBack
  <2> QED
    BY <2>4 DEF a, s
<1>2. strings = [i \in 1 .. Len(strings) |-> strings[i]]
  BY DEF Vectors
<1>3. m[v + Ptr * Len(strings)] = 0
  BY DEF VectorIn
<1> QED
  BY <1>1, <1>2, <1>3 DEF ReadsBack

\* What make_new_stack leaves, whether there are arguments and an environment or not.
LEMMA NewStack ==
    ASSUME NEW argv, NEW envp, NEW pos \in Nat, NEW low, argv.null \/ argv.strings \in Vectors,
           envp.null \/ envp.strings \in Vectors, Fits(argv, envp, pos)
    PROVE  LET st == make_new_stack(argv, envp, pos, low)
           IN  StackShows(st.mem, st.esp, argv, envp, pos)
<1> DEFINE envs == write_vector(Nothing, envp, pos)
           top == IF envs.at = 0 THEN pos ELSE envs.at
           args == write_vector(envs.mem, argv, top)
           base == IF args.at = 0 THEN top ELSE args.at
           esp == base - 3 * Ptr
           words == [a \in {esp, esp + Ptr, esp + 2 * Ptr} |->
                       IF a = esp THEN CountOf(argv, low) ELSE IF a = esp + Ptr THEN args.at ELSE envs.at]
           m == Over(words, args.mem)
<1>1. make_new_stack(argv, envp, pos, low) = [esp |-> esp, mem |-> m]
  BY Zenon DEF make_new_stack, MainArguments
<1>2. /\ top \in Int /\ top <= pos /\ DOMAIN envs.mem \subseteq top .. pos - 1
      /\ envp.null => envs.at = 0
      /\ ~envp.null => envp.strings \in Vectors /\ VectorIn(envs.mem, envs.at, envp.strings, pos)
      /\ ~argv.null => args.at > 3 * Ptr
      /\ top > 3 * Ptr
  <2>a. 3 * Ptr \in Nat
    BY ExecAssumption
  <2>0. /\ ~envp.null => envs.at > 3 * Ptr
        /\ \A t : t = (IF envp.null THEN pos ELSE envs.at) =>
              t > 3 * Ptr /\ (argv.null \/ write_vector(envs.mem, argv, t).at > 3 * Ptr)
    BY DEF Fits
  <2>1. CASE envp.null
    <3>1. envs = [mem |-> Nothing, at |-> 0]
      BY <2>1 DEF write_vector
    <3>2. DOMAIN Nothing = {}
      BY DEF Nothing
    <3>3. top = pos
      BY <3>1
    <3>4. (~argv.null => args.at > 3 * Ptr) /\ top > 3 * Ptr
      <4> HIDE DEF envs, top
      <4> QED
        BY <2>0, <2>1, <3>3
    <3> HIDE DEF envs, args
    <3> QED
      BY <2>1, <3>1, <3>2, <3>4
  <2>2. CASE ~envp.null
    <3>1. DOMAIN Nothing \subseteq pos .. pos - 1 /\ pos \in Int /\ pos <= pos
      BY DEF Nothing
    <3>2. envp.strings \in Vectors /\ envs.at > 3 * Ptr
      BY <2>0, <2>2
    <3> HIDE DEF envs
    <3>3. /\ envs.at \in Int /\ envs.at < pos /\ DOMAIN envs.mem \subseteq envs.at .. pos - 1
          /\ VectorIn(envs.mem, envs.at, envp.strings, pos)
      BY <2>2, <3>1, <3>2, VectorWritten DEF envs, Grown
    <3>4. top = envs.at
      BY <2>a, <3>2, <3>3
    <3>5. (~argv.null => args.at > 3 * Ptr) /\ top > 3 * Ptr
      <4> HIDE DEF top
      <4> QED
        BY <2>0, <2>2, <3>4
    <3> HIDE DEF args, top
    <3> QED
      BY <2>2, <3>2, <3>3, <3>4, <3>5
  <2> QED
    BY <2>1, <2>2
<1> HIDE DEF envs, top
<1>3. /\ base \in Int /\ base <= top /\ base > 3 * Ptr /\ DOMAIN args.mem \subseteq base .. pos - 1
      /\ DOMAIN envs.mem \subseteq DOMAIN args.mem /\ \A a \in DOMAIN envs.mem : args.mem[a] = envs.mem[a]
      /\ argv.null => args.at = 0
      /\ ~argv.null => VectorIn(args.mem, args.at, argv.strings, pos)
  <2>1. CASE argv.null
    <3>1. args = [mem |-> envs.mem, at |-> 0]
      BY <2>1 DEF write_vector
    <3> HIDE DEF args
    <3> QED
      BY <1>2, <2>1, <3>1
  <2>2. CASE ~argv.null
    <3>1. pos \in Int /\ args = write_vector(envs.mem, argv, top) /\ argv.strings \in Vectors
      BY <2>2
    <3>2. top \in Int /\ top <= pos /\ DOMAIN envs.mem \subseteq top .. pos - 1 /\ args.at > 3 * Ptr
      BY <1>2, <2>2
    <3> HIDE DEF args
    <3>3. Grown(args, envs.mem, top, pos) /\ VectorIn(args.mem, args.at, argv.strings, pos)
      BY <2>2, <3>1, <3>2, VectorWritten, Zenon
    <3>4. /\ args.at \in Int /\ args.at < top /\ DOMAIN args.mem \subseteq args.at .. pos - 1
          /\ DOMAIN envs.mem \subseteq DOMAIN args.mem /\ \A a \in DOMAIN envs.mem : args.mem[a] = envs.mem[a]
      BY <3>3, Zenon DEF Grown
    <3>5. base = args.at
      BY <3>2, <3>4, ExecAssumption
    <3>6. base \in Int /\ base <= top /\ base > 3 * Ptr
      <4>1. top \in Int /\ args.at \in Int /\ args.at < top => args.at <= top
        OBVIOUS
      <4> QED
        BY <3>2, <3>4, <3>5, <4>1
    <3> HIDE DEF base
    <3> QED
      BY <2>2, <3>3, <3>4, <3>5, <3>6, Zenon
  <2> QED
    BY <2>1, <2>2
<1>4. /\ esp \in Int /\ esp > 0 /\ esp < base /\ esp + Ptr < base /\ esp + 2 * Ptr < base
      /\ esp # esp + Ptr /\ esp # esp + 2 * Ptr /\ esp + Ptr # esp + 2 * Ptr
  <2>1. \A x \in Int : \A p \in Nat \ {0} :
          LET e == x - 3 * p
          IN e \in Int /\ (x > 3 * p => e > 0) /\ e < x /\ e + p < x /\ e + 2 * p < x /\ e # e + p /\ e # e + 2 * p /\ e + p # e + 2 * p
    OBVIOUS
  <2> HIDE DEF base
  <2> QED
    BY <1>3, <2>1, ExecAssumption
<1> HIDE DEF args, base, esp
<1>5. /\ DOMAIN words = {esp, esp + Ptr, esp + 2 * Ptr} /\ words[esp] = CountOf(argv, low)
      /\ words[esp + Ptr] = args.at /\ words[esp + 2 * Ptr] = envs.at
  BY <1>4
<1> HIDE DEF words
<1>6. /\ DOMAIN m = DOMAIN words \cup DOMAIN args.mem /\ \A a \in DOMAIN words : m[a] = words[a]
      /\ \A a \in DOMAIN args.mem : m[a] = args.mem[a]
  <2>1. /\ DOMAIN m = DOMAIN words \cup DOMAIN args.mem /\ \A a \in DOMAIN words : m[a] = words[a]
        /\ \A a \in DOMAIN args.mem : a \notin DOMAIN words => m[a] = args.mem[a]
    BY OverCells
  <2>2. \A a \in DOMAIN args.mem : a \in Int /\ base <= a
    BY <1>3
  <2> HIDE DEF m
  <2>3. \A a \in DOMAIN args.mem : a \notin DOMAIN words
    BY <1>3, <1>4, <1>5, <2>2
  <2> QED
    BY <2>1, <2>3
<1> HIDE DEF m
<1>7. ~argv.null => VectorIn(m, args.at, argv.strings, pos)
  BY <1>3, <1>6, VectorStays
<1>8. ~envp.null => VectorIn(m, envs.at, envp.strings, pos)
  <2>1. DOMAIN envs.mem \subseteq DOMAIN m /\ \A a \in DOMAIN envs.mem : m[a] = envs.mem[a]
    BY <1>3, <1>6
  <2> QED
    BY <1>2, <2>1, VectorStays
<1>9. /\ argv.null \/ m[esp] = Len(argv.strings)
      /\ m[esp + Ptr] = args.at /\ m[esp + 2 * Ptr] = envs.at
  BY <1>5, <1>6 DEF CountOf
<1>10. DOMAIN m \subseteq esp .. pos - 1
  <2>1. \A a \in DOMAIN args.mem : a \in esp .. pos - 1
    BY <1>3, <1>4
  <2>2. \A a \in DOMAIN words : a \in esp .. pos - 1
    <3>1. base \in Int /\ base <= pos
      BY <1>2, <1>3
    <3> QED
      BY <1>4, <1>5, <3>1, ExecAssumption
  <2> QED
    BY <1>6, <2>1, <2>2
<1>11. pos \in Int
  OBVIOUS
<1>12. /\ argv.null \/ m[esp] = Len(argv.strings)
       /\ IF argv.null THEN m[esp + Ptr] = 0 ELSE ReadsBack(m, m[esp + Ptr], argv.strings, pos)
       /\ IF envp.null THEN m[esp + 2 * Ptr] = 0 ELSE ReadsBack(m, m[esp + 2 * Ptr], envp.strings, pos)
       /\ esp > 0 /\ DOMAIN m \subseteq esp .. pos - 1
  BY <1>2, <1>3, <1>4, <1>7, <1>8, <1>9, <1>10, <1>11, VectorReadsBack
<1>13. StackShows(m, esp, argv, envp, pos)
  BY <1>12, Zenon DEF StackShows, ReadsBack
<1> QED
  BY <1>1, <1>13

-----------------------------------------------------------------------------
(***************************************************************************)
(* The segments of a program                                               *)
(***************************************************************************)

\* An address lies in the page that it is aligned down to, and the pages between those
\* of two addresses are found by steps of a page from the first.
LEMMA PagesFrom ==
    ASSUME NEW v \in Nat, NEW a \in Nat, v <= a
    PROVE  /\ AlignDown(v) \in Int /\ AlignDown(a) \in Int /\ AlignDown(v) <= AlignDown(a) /\ AlignDown(a) <= a
           /\ (AlignDown(a) - AlignDown(v)) % FrameSize = 0
<1>1. FrameSize \in Nat /\ FrameSize >= 1
  BY ExecAssumption
<1> DEFINE p == v \div FrameSize
           q == a \div FrameSize
           r == v % FrameSize
           s == a % FrameSize
<1>2. /\ p \in Int /\ q \in Int /\ r \in 0 .. FrameSize - 1 /\ s \in 0 .. FrameSize - 1
      /\ v = FrameSize * p + r /\ a = FrameSize * q + s
  BY <1>1
<1>3. AlignDown(v) = v - r /\ AlignDown(a) = a - s
  BY DEF AlignDown
<1> HIDE DEF p, q, r, s
<1>4. FrameSize * p \in Int /\ FrameSize * q \in Int
  BY <1>1, <1>2
<1>5. AlignDown(v) = FrameSize * p /\ AlignDown(a) = FrameSize * q
  BY <1>2, <1>3, <1>4
<1>6. p <= q
  <2> SUFFICES ASSUME q < p PROVE FALSE
    BY <1>2
  <2>1. p - q - 1 \in Nat /\ p = q + 1 + (p - q - 1)
    BY <1>2
  <2>2. FrameSize * (p - q - 1) \in Nat
    BY <1>1, <2>1
  <2>3. FrameSize * p = FrameSize * q + FrameSize + FrameSize * (p - q - 1)
    BY <1>1, <1>2, <2>1
  <2>4. FrameSize * p >= FrameSize * q + FrameSize
    BY <1>1, <1>4, <2>2, <2>3
  <2> QED
    BY <1>1, <1>2, <1>4, <2>4
<1>7. FrameSize * p <= FrameSize * q /\ FrameSize * q - FrameSize * p = FrameSize * (q - p)
  <2>1. q - p \in Nat /\ q = p + (q - p)
    BY <1>2, <1>6
  <2>2. FrameSize * (q - p) \in Nat
    BY <1>1, <2>1
  <2>3. FrameSize * q = FrameSize * p + FrameSize * (q - p)
    BY <1>1, <1>2, <2>1
  <2> QED
    BY <1>4, <2>2, <2>3
<1>8. (FrameSize * (q - p)) % FrameSize = 0
  <2> DEFINE k == q - p
             t == (FrameSize * k) % FrameSize
             u == (FrameSize * k) \div FrameSize
  <2>1. k \in Int
    BY <1>2
  <2> HIDE DEF k
  <2>2. FrameSize * k \in Int
    BY <1>1, <2>1
  <2>a. \A z \in Int : /\ z % FrameSize \in 0 .. FrameSize - 1 /\ z \div FrameSize \in Int
                       /\ z = FrameSize * (z \div FrameSize) + (z % FrameSize)
    BY <1>1
  <2>3. t \in 0 .. FrameSize - 1 /\ u \in Int /\ FrameSize * k = FrameSize * u + t
    BY <2>2, <2>a, Zenon
  <2> HIDE DEF t, u
  <2>4. FrameSize * (k - u) = t
    BY <1>1, <2>1, <2>3
  <2>5. k - u \in Int /\ (k - u >= 1 => FrameSize * (k - u) >= FrameSize)
        /\ (k - u <= -1 => FrameSize * (k - u) <= -FrameSize)
    BY <1>1, <2>1, <2>3
  <2>6. k - u = 0
    BY <1>1, <2>3, <2>4, <2>5
  <2>7. t = 0
    BY <1>1, <2>1, <2>3, <2>4, <2>6
  <2> QED
    BY <2>7 DEF t, k
<1> QED
  BY <1>2, <1>3, <1>4, <1>5, <1>7, <1>8

\* The addresses of a segment, and those of them that are filled from the file.
Extent(seg) == seg.vaddr .. seg.vaddr + seg.memsz - 1
Filled(seg) == seg.vaddr .. seg.vaddr + Min({seg.filesz, seg.memsz}) - 1

\* r is st with a segment mapped and filled from the file, and the rest as it was.
SegmentIs(r, st, image, seg) ==
    /\ st.pages \subseteq r.pages
    /\ \A a \in Extent(seg) : AlignDown(a) \in r.pages
    /\ \A a \in Filled(seg) : a \in DOMAIN r.mem /\ r.mem[a] = image.data[seg.offset + a - seg.vaddr + 1]
    /\ \A a \in DOMAIN st.mem : a \in DOMAIN r.mem /\ (a \notin Filled(seg) => r.mem[a] = st.mem[a])

\* elf_load_segment does that.
LEMMA SegmentLoaded ==
    ASSUME NEW image, NEW seg \in Headers, NEW st, NEW r, r = elf_load_segment(st, image, seg)
    PROVE  SegmentIs(r, st, image, seg)
<1> DEFINE first == AlignDown(seg.vaddr)
           fresh == {p \in first .. seg.vaddr + seg.memsz - 1 : (p - first) % FrameSize = 0}
           cells == [a \in Filled(seg) |-> image.data[seg.offset + a - seg.vaddr + 1]]
<1>1. r = [pages |-> st.pages \cup fresh, mem |-> Over(cells, st.mem)]
  BY Zenon DEF elf_load_segment, Filled
<1>2. seg.vaddr \in Nat /\ seg.memsz \in Nat
  BY DEF Headers
<1>3. ASSUME NEW a \in Extent(seg)
      PROVE  AlignDown(a) \in fresh
  <2>1. a \in Nat /\ seg.vaddr <= a /\ a <= seg.vaddr + seg.memsz - 1
    BY <1>2 DEF Extent
  <2>2. /\ first \in Int /\ AlignDown(a) \in Int /\ first <= AlignDown(a) /\ AlignDown(a) <= a
        /\ (AlignDown(a) - first) % FrameSize = 0
    BY <1>2, <2>1, PagesFrom
  <2> HIDE DEF first
  <2>3. AlignDown(a) <= seg.vaddr + seg.memsz - 1
    BY <1>2, <2>1, <2>2
  <2> QED
    BY <1>2, <2>2, <2>3
<1> HIDE DEF fresh
<1>4. DOMAIN cells = Filled(seg) /\ \A a \in Filled(seg) : cells[a] = image.data[seg.offset + a - seg.vaddr + 1]
  OBVIOUS
<1> HIDE DEF cells
<1>5. r.pages = st.pages \cup fresh /\ r.mem = Over(cells, st.mem)
  BY <1>1
<1>6. /\ DOMAIN r.mem = Filled(seg) \cup DOMAIN st.mem
      /\ \A a \in Filled(seg) : r.mem[a] = cells[a]
      /\ \A a \in DOMAIN st.mem : a \notin Filled(seg) => r.mem[a] = st.mem[a]
  <2>1. /\ DOMAIN Over(cells, st.mem) = DOMAIN cells \cup DOMAIN st.mem
        /\ \A a \in DOMAIN cells : Over(cells, st.mem)[a] = cells[a]
        /\ \A a \in DOMAIN st.mem : a \notin DOMAIN cells => Over(cells, st.mem)[a] = st.mem[a]
    BY OverCells, Zenon
  <2> QED
    BY <1>4, <1>5, <2>1, Zenon
<1>7. \A a \in Filled(seg) : a \in DOMAIN r.mem /\ r.mem[a] = image.data[seg.offset + a - seg.vaddr + 1]
  BY <1>4, <1>6, Zenon
<1>8. \A a \in DOMAIN st.mem : a \in DOMAIN r.mem /\ (a \notin Filled(seg) => r.mem[a] = st.mem[a])
  BY <1>6, Zenon
<1>9. st.pages \subseteq r.pages /\ \A a \in Extent(seg) : AlignDown(a) \in r.pages
  BY <1>3, <1>5
<1> QED
  BY <1>7, <1>8, <1>9, Zenon DEF SegmentIs

\* The answer to the header, and to it and the first k program headers.
HeaderAnswer(image) ==
    CASE image.magic # "ELF" -> "NOELF"
      [] image.magic = "ELF" /\ image.version # "CURRENT" -> "SUPPORT"
      [] image.magic = "ELF" /\ image.version = "CURRENT" /\ image.machine # "386" -> "MACHINE"
      [] OTHER -> IF image.kind # "ET_EXEC" THEN "SUPPORT" ELSE "OK"
Refused(seg) == seg.type \in {"PT_DYNAMIC", "PT_SHLIB"}
AnswerAt(image, k) ==
    IF HeaderAnswer(image) # "OK" THEN HeaderAnswer(image)
    ELSE IF \E j \in 1 .. k : Refused(image.segments[j]) THEN "DYNAMIC" ELSE "OK"

\* One round of the loop of load_elf
LoadStep(image, pretend, s, seg) ==
    IF s.ret # "OK" THEN s
    ELSE IF Refused(seg) THEN [s EXCEPT !.ret = "DYNAMIC"]
    ELSE IF seg.type = "PT_LOAD" /\ ~pretend
    THEN [ret |-> "OK", st |-> elf_load_segment(s.st, image, seg)]
    ELSE s

\* The rounds of the loop over m program headers
LoadRun(image, pretend, st, m, f) ==
    f = [k \in 0 .. m |-> IF k = 0 THEN [ret |-> HeaderAnswer(image), st |-> st]
                          ELSE LoadStep(image, pretend, f[k - 1], image.segments[k])]

\* The loop can be run over any number of program headers.
LEMMA LoadRunExists ==
    ASSUME NEW image, NEW pretend, NEW st, NEW n \in Nat
    PROVE  \E f : LoadRun(image, pretend, st, n, f)
<1> DEFINE Done == {m \in 0 .. n : \E f : LoadRun(image, pretend, st, m, f)}
<1>1. 0 \in Done
  <2> DEFINE c == [k \in 0 .. 0 |-> [ret |-> HeaderAnswer(image), st |-> st]]
  <2>1. LoadRun(image, pretend, st, 0, c)
    BY DEF LoadRun
  <2> QED
    BY <2>1
<1>2. ASSUME NEW k \in 1 .. n, k - 1 \in Done
      PROVE  k \in Done
  <2>1. PICK f : LoadRun(image, pretend, st, k - 1, f)
    BY <1>2
  <2> DEFINE last == LoadStep(image, pretend, f[k - 1], image.segments[k])
             h == [i \in 0 .. k |-> IF i = k THEN last ELSE f[i]]
             Value(g, i) == IF i = 0 THEN [ret |-> HeaderAnswer(image), st |-> st]
                            ELSE LoadStep(image, pretend, g[i - 1], image.segments[i])
  <2>2. \A i \in 0 .. k - 1 : f[i] = Value(f, i)
    BY <2>1 DEF LoadRun
  <2>3. ASSUME NEW i \in 0 .. k
        PROVE  h[i] = Value(h, i)
    <3>1. CASE i = 0
      BY <2>2, <3>1
    <3>2. CASE i # 0
      <4>1. i - 1 \in 0 .. k /\ i - 1 # k /\ (i # k => i \in 0 .. k - 1)
        BY <3>2
      <4>2. h[i - 1] = f[i - 1]
        BY <4>1
      <4>3. CASE i = k
        BY <3>2, <4>2, <4>3
      <4>4. CASE i # k
        BY <2>2, <3>2, <4>1, <4>2, <4>4
      <4> QED
        BY <4>3, <4>4
    <3> QED
      BY <3>1, <3>2
  <2>4. h = [i \in 0 .. k |-> h[i]]
    OBVIOUS
  <2> HIDE DEF h
  <2>5. LoadRun(image, pretend, st, k, h)
    BY <2>3, <2>4 DEF LoadRun
  <2> QED
    BY <2>5
<1>3. n \in Done
  <2> HIDE DEF Done
  <2>1. \A k \in 0 .. n : k \in Done
    BY <1>1, <1>2, UpTo
  <2> QED
    BY <2>1
<1> QED
  BY <1>3

\* load_elf is what the loop comes to.
LEMMA LoadElfRuns ==
    ASSUME NEW image, NEW pretend, NEW st, Len(image.segments) \in Nat
    PROVE  \E f : LoadRun(image, pretend, st, Len(image.segments), f)
                    /\ load_elf(st, image, pretend) = f[Len(image.segments)]
<1> DEFINE n == Len(image.segments)
           f == CHOOSE g : LoadRun(image, pretend, st, n, g)
<1>1. LoadRun(image, pretend, st, n, f)
  <2>1. \E g : LoadRun(image, pretend, st, n, g)
    BY LoadRunExists
  <2> QED
    BY <2>1, Zenon
<1>2. load_elf(st, image, pretend) = f[n]
  BY Zenon DEF load_elf, LoadRun, LoadStep, HeaderAnswer, Refused
<1> QED
  BY <1>1, <1>2

\* The pass that only looks loads nothing.
LEMMA PretendLooks ==
    ASSUME NEW image, image.segments \in Seq(Headers), NEW st
    PROVE  load_elf(st, image, TRUE) = [ret |-> AnswerAt(image, Len(image.segments)), st |-> st]
<1> DEFINE n == Len(image.segments)
<1>0. n \in Nat
  OBVIOUS
<1>1. PICK f : LoadRun(image, TRUE, st, n, f) /\ load_elf(st, image, TRUE) = f[n]
  BY <1>0, LoadElfRuns
<1> HIDE DEF n
<1> DEFINE S == {k \in 0 .. n : f[k] = [ret |-> AnswerAt(image, k), st |-> st]}
<1>2. /\ f[0] = [ret |-> HeaderAnswer(image), st |-> st]
      /\ \A k \in 1 .. n : f[k] = LoadStep(image, TRUE, f[k - 1], image.segments[k])
  <2>1. 0 \in 0 .. n /\ \A k \in 1 .. n : k \in 0 .. n /\ k # 0
    BY <1>0
  <2> QED
    BY <1>1, <2>1 DEF LoadRun
<1>3. 0 \in S
  <2>1. AnswerAt(image, 0) = HeaderAnswer(image)
    BY DEF AnswerAt
  <2> QED
    BY <1>0, <1>2, <2>1
<1>4. ASSUME NEW k \in 1 .. n, k - 1 \in S
      PROVE  k \in S
  <2> DEFINE s == f[k - 1]
             seg == image.segments[k]
             A == AnswerAt(image, k - 1)
  <2>1. s = [ret |-> A, st |-> st]
    BY <1>4
  <2>2. f[k] = LoadStep(image, TRUE, s, seg)
    BY <1>2
  <2>3. AnswerAt(image, k) = IF A # "OK" THEN A ELSE IF Refused(seg) THEN "DYNAMIC" ELSE "OK"
    <3>1. (\E j \in 1 .. k : Refused(image.segments[j]))
            <=> (\E j \in 1 .. k - 1 : Refused(image.segments[j])) \/ Refused(seg)
      <4>1. 1 .. k = (1 .. k - 1) \cup {k}
        BY <1>0
      <4> QED
        BY <4>1
    <3> QED
      BY <3>1 DEF AnswerAt
  <2> HIDE DEF s, seg, A
  <2>4. f[k] = [ret |-> IF A # "OK" THEN A ELSE IF Refused(seg) THEN "DYNAMIC" ELSE "OK", st |-> st]
    <3>1. s.ret = A /\ [s EXCEPT !.ret = "DYNAMIC"] = [ret |-> "DYNAMIC", st |-> st]
      BY <2>1
    <3> QED
      BY <2>1, <2>2, <3>1 DEF LoadStep
  <2> QED
    BY <1>0, <2>3, <2>4
<1>5. \A k \in 0 .. n : k \in S
  <2> HIDE DEF S
  <2> QED
    BY <1>0, <1>3, <1>4, UpTo
<1>6. n \in S
  BY <1>0, <1>5
<1> QED
  BY <1>1, <1>6 DEF n

\* After k program headers: the segments are mapped, and of those that overlap the later
\* one is what the memory holds.
SegmentsIn(image, k, st) ==
    \A j \in 1 .. k : image.segments[j].type = "PT_LOAD" =>
      /\ \A a \in Extent(image.segments[j]) : AlignDown(a) \in st.pages
      /\ \A a \in Filled(image.segments[j]) :
           /\ a \in DOMAIN st.mem
           /\ (\A i \in 1 .. k : image.segments[i].type = "PT_LOAD" /\ i > j => a \notin Filled(image.segments[i])) =>
                st.mem[a] = image.data[image.segments[j].offset + a - image.segments[j].vaddr + 1]

\* One more segment.
LEMMA SegmentsMore ==
    ASSUME NEW image, NEW k \in Nat \ {0}, NEW st, SegmentsIn(image, k - 1, st), image.segments[k] \in Headers,
           image.segments[k].type = "PT_LOAD"
    PROVE  SegmentsIn(image, k, elf_load_segment(st, image, image.segments[k]))
<1> DEFINE seg(j) == image.segments[j]
           r == elf_load_segment(st, image, seg(k))
           data(j, a) == image.data[seg(j).offset + a - seg(j).vaddr + 1]
<1>1. /\ st.pages \subseteq r.pages
      /\ \A a \in Extent(seg(k)) : AlignDown(a) \in r.pages
      /\ \A a \in Filled(seg(k)) : a \in DOMAIN r.mem /\ r.mem[a] = data(k, a)
      /\ \A a \in DOMAIN st.mem : a \in DOMAIN r.mem /\ (a \notin Filled(seg(k)) => r.mem[a] = st.mem[a])
  <2>1. SegmentIs(r, st, image, image.segments[k])
    BY SegmentLoaded, Zenon
  <2> HIDE DEF r
  <2> QED
    BY <2>1, Zenon DEF SegmentIs
<1>2. \A j \in 1 .. k - 1 : seg(j).type = "PT_LOAD" =>
        /\ \A a \in Extent(seg(j)) : AlignDown(a) \in st.pages
        /\ \A a \in Filled(seg(j)) :
             /\ a \in DOMAIN st.mem
             /\ (\A i \in 1 .. k - 1 : seg(i).type = "PT_LOAD" /\ i > j => a \notin Filled(seg(i))) =>
                  st.mem[a] = data(j, a)
  BY DEF SegmentsIn
<1>3. seg(k).type = "PT_LOAD"
  OBVIOUS
<1> HIDE DEF r
<1> SUFFICES ASSUME NEW j \in 1 .. k, seg(j).type = "PT_LOAD"
             PROVE  /\ \A a \in Extent(seg(j)) : AlignDown(a) \in r.pages
                    /\ \A a \in Filled(seg(j)) :
                         /\ a \in DOMAIN r.mem
                         /\ (\A i \in 1 .. k : seg(i).type = "PT_LOAD" /\ i > j => a \notin Filled(seg(i))) =>
                              r.mem[a] = data(j, a)
  BY DEF SegmentsIn, r
<1> HIDE DEF seg, data
<1>4. CASE j = k
  BY <1>1, <1>4
<1>5. CASE j # k
  <2>1. j \in 1 .. k - 1 /\ k \in 1 .. k /\ k > j /\ \A i \in 1 .. k - 1 : i \in 1 .. k
    BY <1>5
  <2>2. \A a \in Extent(seg(j)) : AlignDown(a) \in r.pages
    BY <1>1, <1>2, <2>1
  <2>3. ASSUME NEW a \in Filled(seg(j))
        PROVE  a \in DOMAIN r.mem
    BY <1>1, <1>2, <2>1
  <2>4. ASSUME NEW a \in Filled(seg(j)),
               \A i \in 1 .. k : seg(i).type = "PT_LOAD" /\ i > j => a \notin Filled(seg(i))
        PROVE  r.mem[a] = data(j, a)
    <3>1. a \notin Filled(seg(k))
      BY <1>3, <2>1, <2>4
    <3>2. a \in DOMAIN st.mem /\ st.mem[a] = data(j, a)
      BY <1>2, <2>1, <2>4
    <3> QED
      BY <1>1, <3>1, <3>2
  <2> QED
    BY <2>2, <2>3, <2>4
<1> QED
  BY <1>4, <1>5

\* The second pass loads all segments of a program that the first has not refused.
LEMMA SegmentsLoaded ==
    ASSUME NEW image, image.segments \in Seq(Headers), NEW st, AnswerAt(image, Len(image.segments)) = "OK"
    PROVE  /\ load_elf(st, image, FALSE).ret = "OK"
           /\ SegmentsIn(image, Len(image.segments), load_elf(st, image, FALSE).st)
<1> DEFINE n == Len(image.segments)
<1>0. n \in Nat /\ \A k \in 1 .. n : image.segments[k] \in Headers
  OBVIOUS
<1>1. PICK f : LoadRun(image, FALSE, st, n, f) /\ load_elf(st, image, FALSE) = f[n]
  BY <1>0, LoadElfRuns
<1>a. HeaderAnswer(image) = "OK" /\ \A k \in 1 .. n : ~Refused(image.segments[k])
  BY DEF AnswerAt
<1> HIDE DEF n
<1>2. /\ f[0] = [ret |-> HeaderAnswer(image), st |-> st]
      /\ \A k \in 1 .. n : f[k] = LoadStep(image, FALSE, f[k - 1], image.segments[k])
  <2>1. 0 \in 0 .. n /\ \A k \in 1 .. n : k \in 0 .. n /\ k # 0
    BY <1>0
  <2> QED
    BY <1>1, <2>1 DEF LoadRun
<1> DEFINE S == {k \in 0 .. n : f[k].ret = "OK" /\ SegmentsIn(image, k, f[k].st)}
<1>3. 0 \in S
  BY <1>0, <1>2, <1>a DEF SegmentsIn
<1>4. ASSUME NEW k \in 1 .. n, k - 1 \in S
      PROVE  k \in S
  <2> DEFINE s == f[k - 1]
             seg == image.segments[k]
  <2>1. s.ret = "OK" /\ SegmentsIn(image, k - 1, s.st)
    BY <1>4
  <2>2. f[k] = IF seg.type = "PT_LOAD" THEN [ret |-> "OK", st |-> elf_load_segment(s.st, image, seg)] ELSE s
    BY <1>2, <1>a, <2>1 DEF LoadStep
  <2>3. k \in Nat \ {0} /\ seg \in Headers /\ k \in 0 .. n
    BY <1>0
  <2>4. CASE seg.type = "PT_LOAD"
    <3>1. SegmentsIn(image, k, elf_load_segment(s.st, image, seg))
      BY <2>1, <2>3, <2>4, SegmentsMore
    <3> QED
      BY <2>2, <2>3, <2>4, <3>1
  <2>5. CASE seg.type # "PT_LOAD"
    <3>1. f[k] = s
      BY <2>2, <2>5
    <3>2. SegmentsIn(image, k, s.st)
      <4>1. \A j \in 1 .. k : j \in 1 .. k - 1 \/ j = k
        BY <1>0
      <4>2. \A j \in 1 .. k - 1 : j \in 1 .. k
        BY <1>0
      <4> HIDE DEF s
      <4> QED
        BY <2>1, <2>5, <4>1, <4>2 DEF SegmentsIn
    <3> QED
      BY <2>1, <2>3, <3>1, <3>2
  <2> QED
    BY <2>4, <2>5
<1>5. \A k \in 0 .. n : k \in S
  <2> HIDE DEF S
  <2> QED
    BY <1>0, <1>3, <1>4, UpTo
<1>6. n \in S
  BY <1>0, <1>5
<1> QED
  BY <1>1, <1>6 DEF n

\* Every call under way is one of Calls.
CallsInv == call = Idle \/ \E k \in DOMAIN Calls : call \in Calls[k]

\* A call under way is one of Calls, whatever was called before.
LEMMA CallsInvariant == CallsSpec => []CallsInv
<1>1. CallsInit => CallsInv
  BY DEF CallsInit, CallsInv
<1>2. CallsInv /\ [CallsNext]_call => CallsInv'
  BY DEF CallsInv, CallsNext, Call, Return
<1> QED
  BY <1>1, <1>2, PTL DEF CallsSpec

\* A program gets its arguments and its environment as they were given to execve.
LEMMA StackHolds == CallsInv => StackReadsBack
<1> SUFFICES ASSUME CallsInv, call.fn = "stack"
             PROVE  StackReadsBack
  BY DEF StackReadsBack
<1>1. /\ call.pos \in Nat /\ Fits(call.argv, call.envp, call.pos)
      /\ call.argv.null \/ call.argv.strings \in Vectors
      /\ call.envp.null \/ call.envp.strings \in Vectors
  BY ExecCallsAssumption DEF CallsInv, Idle
<1> QED
  BY <1>1, NewStack, Zenon DEF StackReadsBack

\* A program is loaded with all its segments or not at all.
LEMMA LoadHolds == CallsInv => LoadAllOrNothing
<1> SUFFICES ASSUME CallsInv, call.fn = "elf"
             PROVE  LoadAllOrNothing
  BY DEF LoadAllOrNothing
<1> DEFINE image == call.image
           before == [pages |-> {}, mem |-> Nothing]
           n == Len(image.segments)
           r == LoadProgram(before, image)
           seg(k) == image.segments[k]
           segs == {k \in DOMAIN image.segments : seg(k).type = "PT_LOAD"}
<1>1. image.segments \in Seq(Headers)
  BY ExecCallsAssumption DEF CallsInv, Idle
<1>2. DOMAIN image.segments = 1 .. n
  BY <1>1
<1>3. load_elf(before, image, TRUE) = [ret |-> AnswerAt(image, n), st |-> before]
  BY <1>1, PretendLooks
<1>4. r = IF AnswerAt(image, n) # "OK" THEN [ret |-> AnswerAt(image, n), st |-> before]
          ELSE load_elf(before, image, FALSE)
  <2> HIDE DEF before, image, n
  <2> DEFINE looked == load_elf(before, image, TRUE)
             A == AnswerAt(image, n)
  <2>a. looked = [ret |-> A, st |-> before]
    BY <1>3
  <2> HIDE DEF looked, A
  <2>b. looked.ret = A
    BY <2>a
  <2>1. load_elf(before, image, TRUE).ret = AnswerAt(image, n)
    BY <2>b DEF looked, A
  <2> QED
    BY <1>3, <2>1 DEF LoadProgram
<1>5. AnswerAt(image, n) = "OK" => r.ret = "OK" /\ SegmentsIn(image, n, r.st)
  <2> HIDE DEF before, r
  <2> QED
    BY <1>1, <1>4, SegmentsLoaded
<1>6. r.ret # "OK" => r.st = before
  <2> HIDE DEF before, r
  <2> QED
    BY <1>4, <1>5
<1>7. r.ret = "OK" => SegmentsIn(image, n, r.st)
  <2> HIDE DEF before, r
  <2> QED
    BY <1>4, <1>5
<1> HIDE DEF r
<1>8. ASSUME r.ret = "OK", NEW k \in segs
      PROVE  /\ \A a \in seg(k).vaddr .. seg(k).vaddr + seg(k).memsz - 1 : AlignDown(a) \in r.st.pages
             /\ \A a \in Filled(seg(k)) : (\A j \in segs : j > k => a \notin Filled(seg(j))) =>
                  r.st.mem[a] = image.data[seg(k).offset + a - seg(k).vaddr + 1]
  <2>1. k \in 1 .. n /\ seg(k).type = "PT_LOAD"
    BY <1>2
  <2>2. \A j \in 1 .. n : seg(j).type = "PT_LOAD" => j \in segs
    BY <1>2
  <2>3. SegmentsIn(image, n, r.st)
    BY <1>7, <1>8
  <2> HIDE DEF image, n, segs
  <2>4. \A a \in Extent(seg(k)) : AlignDown(a) \in r.st.pages
    BY <2>1, <2>3 DEF SegmentsIn
  <2>5. ASSUME NEW a \in Filled(seg(k)), \A j \in segs : j > k => a \notin Filled(seg(j))
        PROVE  r.st.mem[a] = image.data[seg(k).offset + a - seg(k).vaddr + 1]
    <3>1. \A i \in 1 .. n : seg(i).type = "PT_LOAD" /\ i > k => a \notin Filled(seg(i))
      BY <2>2, <2>5
    <3> QED
      BY <2>1, <2>3, <3>1 DEF SegmentsIn
  <2> QED
    BY <2>4, <2>5, Zenon DEF Extent
<1>9. IF r.ret # "OK" THEN r.st = before
      ELSE \A k \in segs :
             /\ \A a \in seg(k).vaddr .. seg(k).vaddr + seg(k).memsz - 1 : AlignDown(a) \in r.st.pages
             /\ \A a \in Filled(seg(k)) : (\A j \in segs : j > k => a \notin Filled(seg(j))) =>
                  r.st.mem[a] = image.data[seg(k).offset + a - seg(k).vaddr + 1]
  <2> HIDE DEF before, segs
  <2> QED
    BY <1>6, <1>8, Zenon
<1> QED
  BY <1>9, Zenon DEF LoadAllOrNothing, r, Filled

\* Whatever program is executed with whatever arguments, or none: on the stack it finds the
\* arguments and the environment of execve, and load_elf maps and fills either all
\* segments of its image or none.
THEOREM ProgramIsRight == CallsSpec => []ProgramRight
<1>1. CallsInv => ProgramRight
  BY StackHolds, LoadHolds DEF ProgramRight
<1> QED
  BY <1>1, CallsInvariant, PTL
-----------------------------------------------------------------------------
(***************************************************************************)
(* The bytes of a file of ext2                                             *)
(***************************************************************************)

\* A cell lies in the block and at the place that division says, and in no other.
LEMMA CellsOfBlocks ==
    ASSUME NEW a \in Nat
    PROVE  /\ a \div BlockSize \in Nat /\ a % BlockSize \in 0 .. BlockSize - 1
           /\ a = (a \div BlockSize) * BlockSize + (a % BlockSize)
           /\ \A b \in Nat : \A i \in 0 .. BlockSize - 1 :
                a = b * BlockSize + i => a \div BlockSize = b /\ a % BlockSize = i
<1>1. BlockSize \in Nat /\ BlockSize >= 1
  BY Ext2Assumption
<1>2. /\ a \div BlockSize \in Nat /\ a % BlockSize \in 0 .. BlockSize - 1
      /\ a = (a \div BlockSize) * BlockSize + (a % BlockSize)
  BY <1>1
<1>3. ASSUME NEW b \in Nat, NEW i \in 0 .. BlockSize - 1, a = b * BlockSize + i
      PROVE  a \div BlockSize = b /\ a % BlockSize = i
  <2> DEFINE q == a \div BlockSize
             r == a % BlockSize
  <2>1. q \in Nat /\ r \in 0 .. BlockSize - 1 /\ q * BlockSize + r = b * BlockSize + i
    BY <1>2, <1>3
  <2> HIDE DEF q, r
  <2>2. (q - b) * BlockSize = i - r /\ q * BlockSize \in Int /\ b * BlockSize \in Int
    BY <1>1, <2>1
  <2>3. q = b
    <3>1. CASE q > b
      <4>1. (q - b - 1) * BlockSize >= 0 /\ (q - b) * BlockSize = (q - b - 1) * BlockSize + BlockSize
        BY <1>1, <2>1, <3>1
      <4> QED
        BY <1>1, <2>1, <2>2, <4>1
    <3>2. CASE q < b
      <4>1. (b - q - 1) * BlockSize >= 0 /\ (q - b) * BlockSize = -((b - q - 1) * BlockSize) - BlockSize
        BY <1>1, <2>1, <3>2
      <4> QED
        BY <1>1, <2>1, <2>2, <4>1
    <3> QED
      BY <2>1, <3>1, <3>2
  <2> QED
    BY <1>1, <2>1, <2>3 DEF q, r
<1> QED
  BY <1>2, <1>3

\* A block of a file that is read holds the cells of its place.
LEMMA BlockRead ==
    ASSUME NEW disk, NEW inode, Readable(disk, inode), NEW b \in Nat,
           ext2_read_block(disk, file_ext2_block(inode, b)) # IOError
    PROVE  LET g == ext2_read_block(disk, file_ext2_block(inode, b)) IN
           /\ g \in Seq(Int) /\ Len(g) = BlockSize
           /\ \A i \in 0 .. BlockSize - 1 : g[i + 1] = CellAt(disk, inode, b * BlockSize + i)
<1> DEFINE g == ext2_read_block(disk, file_ext2_block(inode, b))
           nr == IF b < NDirBlocks THEN inode.blocks[b + 1] ELSE 0
           cleared(i) == IF i <= HoleSize THEN 0 ELSE Untouched
<1>1. BlockSize \in Nat /\ BlockSize >= 1 /\ NDirBlocks \in Nat /\ HoleSize \in Nat
  BY Ext2Assumption
<1>2. file_ext2_block(inode, b) = nr /\ nr \in Nat
  BY <1>1 DEF file_ext2_block, Readable
<1>3. g = IF nr = 0 THEN [i \in 1 .. BlockSize |-> cleared(i)] ELSE disk[nr]
  BY <1>2 DEF ext2_read_block
<1>4. nr = 0 \/ nr \in DOMAIN disk
  BY <1>2 DEF ext2_read_block
<1>5. g \in [1 .. BlockSize -> Int]
  BY <1>3, <1>4 DEF Readable, Untouched
<1>6. g \in Seq(Int) /\ Len(g) = BlockSize
  <2> HIDE DEF g
  <2> QED
    BY <1>1, <1>5
<1>7. ASSUME NEW i \in 0 .. BlockSize - 1
      PROVE  g[i + 1] = CellAt(disk, inode, b * BlockSize + i)
  <2> DEFINE a == b * BlockSize + i
  <2>1. a \in Nat /\ i + 1 \in 1 .. BlockSize
    BY <1>1
  <2>2. a \div BlockSize = b /\ a % BlockSize = i
    <3> HIDE DEF a
    <3>1. a = b * BlockSize + i
      BY DEF a
    <3> QED
      BY <2>1, <3>1, CellsOfBlocks
  <2> HIDE DEF a, g
  <2>3. CellAt(disk, inode, a) = IF nr = 0 THEN (IF i < HoleSize THEN 0 ELSE Untouched) ELSE disk[nr][i + 1]
    BY <2>2 DEF CellAt
  <2>4. g[i + 1] = IF nr = 0 THEN cleared(i + 1) ELSE disk[nr][i + 1]
    BY <1>3, <2>1
  <2>5. i + 1 <= HoleSize <=> i < HoleSize
    BY <1>1
  <2> QED
    BY <2>3, <2>4, <2>5 DEF a
<1> QED
  BY <1>6, <1>7 DEF g

\* The parts of ext2_read: what is there of asked cells, the number of blocks they lie in,
\* a block, and what is copied from it.
ThereOf(inode, offset, asked) == IF offset + asked > inode.size THEN inode.size - offset ELSE asked
BlocksOf(offset, size) == Max({(offset + size - 1) \div BlockSize - offset \div BlockSize + 1, 1})
BlockGot(disk, inode, offset, k) == ext2_read_block(disk, file_ext2_block(inode, offset \div BlockSize + k - 1))
CopiedFrom(disk, inode, offset, size, k) ==
    IF k = 1 THEN SubSeq(BlockGot(disk, inode, offset, 1), (offset % BlockSize) + 1, BlockSize)
    ELSE IF k < BlocksOf(offset, size) THEN BlockGot(disk, inode, offset, k)
    ELSE SubSeq(BlockGot(disk, inode, offset, k), 1, (offset + size) % BlockSize)

\* Text f is what was copied after each block.
ReadRun(disk, inode, offset, size, f) ==
    f = [k \in 0 .. BlocksOf(offset, size) |->
           IF k = 0 THEN <<>> ELSE f[k - 1] \o CopiedFrom(disk, inode, offset, size, k)]

\* A buffer of room cells with text in it
Buffered(room, text) == [i \in 1 .. room |-> IF i <= Len(text) THEN text[i] ELSE Untouched]

\* The answer of ext2_read, case by case
ReadAnswer(disk, inode, offset, asked, room) ==
    LET size == ThereOf(inode, offset, asked)
        n == BlocksOf(offset, size)
        text == CHOOSE g : ReadRun(disk, inode, offset, size, g)
        r == ext2_read(disk, inode, offset, asked, room)
    IN /\ offset > inode.size => r.ret = 0
       /\ offset <= inode.size /\ offset + size = 0 => r.ret = Runaway
       /\ offset <= inode.size /\ offset + size # 0 =>
            IF \E k \in 1 .. n : BlockGot(disk, inode, offset, k) = IOError THEN r.ret = -1
            ELSE r.ret = size /\ r.buf = Buffered(room, text[n])

\* ext2_read answers so.
LEMMA ReadCases ==
    ASSUME NEW disk, NEW inode, NEW offset \in Nat, NEW asked \in Nat, NEW room, inode.size \in Nat
    PROVE  ReadAnswer(disk, inode, offset, asked, room)
<1> DEFINE size == ThereOf(inode, offset, asked)
           n == BlocksOf(offset, size)
           r == ext2_read(disk, inode, offset, asked, room)
           bad == {k \in 1 .. n : BlockGot(disk, inode, offset, k) = IOError}
           text == CHOOSE g : ReadRun(disk, inode, offset, size, g)
           done == IF bad = {} THEN n ELSE Min(bad) - 1
<1>1. r = CASE offset > inode.size -> [ret |-> 0, buf |-> Buffered(room, <<>>)]
            [] offset <= inode.size /\ offset + size = 0 -> [ret |-> Runaway, buf |-> Buffered(room, <<>>)]
            [] OTHER -> [ret |-> IF bad = {} THEN size ELSE -1, buf |-> Buffered(room, text[done])]
  BY Zenon DEF ext2_read, ThereOf, BlocksOf, BlockGot, CopiedFrom, ReadRun, Buffered
<1> HIDE DEF r, text, bad
<1>2. size \in Int
  BY DEF ThereOf
<1> HIDE DEF size
<1>3. offset > inode.size => r.ret = 0
  BY <1>1
<1>4. offset <= inode.size /\ offset + size = 0 => r.ret = Runaway
  BY <1>1
<1>5. offset <= inode.size /\ offset + size # 0 =>
        r.ret = (IF bad = {} THEN size ELSE -1) /\ r.buf = Buffered(room, text[done])
  BY <1>1
<1>6. bad = {} <=> ~ \E k \in 1 .. n : BlockGot(disk, inode, offset, k) = IOError
  BY DEF bad
<1> QED
  BY <1>3, <1>4, <1>5, <1>6, Zenon DEF ReadAnswer, r, text, size

\* What is copied from blocks that can be read is a text.
LEMMA CopiedCells ==
    ASSUME NEW disk, NEW inode, Readable(disk, inode), NEW offset \in Nat, NEW size \in Nat, offset + size > 0,
           NEW k \in 1 .. BlocksOf(offset, size), BlockGot(disk, inode, offset, k) # IOError
    PROVE  LET c == CopiedFrom(disk, inode, offset, size, k)
               b == offset \div BlockSize + k - 1
               o == offset % BlockSize
           IN /\ c \in Seq(Int)
              /\ k = 1 => /\ Len(c) = BlockSize - o
                          /\ \A i \in 0 .. BlockSize - o - 1 : c[i + 1] = CellAt(disk, inode, b * BlockSize + (o + i))
              /\ k # 1 /\ k < BlocksOf(offset, size) =>
                   Len(c) = BlockSize /\ \A i \in 0 .. BlockSize - 1 : c[i + 1] = CellAt(disk, inode, b * BlockSize + i)
              /\ k # 1 /\ ~(k < BlocksOf(offset, size)) =>
                   /\ Len(c) = (offset + size) % BlockSize
                   /\ \A i \in 0 .. Len(c) - 1 : c[i + 1] = CellAt(disk, inode, b * BlockSize + i)
<1> DEFINE n == BlocksOf(offset, size)
           b == offset \div BlockSize + k - 1
           o == offset % BlockSize
           e == (offset + size) % BlockSize
           g == BlockGot(disk, inode, offset, k)
           c == CopiedFrom(disk, inode, offset, size, k)
<1>1. BlockSize \in Nat /\ BlockSize >= 1
  BY Ext2Assumption
<1>2. o \in 0 .. BlockSize - 1 /\ e \in 0 .. BlockSize - 1 /\ offset \div BlockSize \in Nat
  BY <1>1, CellsOfBlocks
<1>3. k \in Int /\ k >= 1
  OBVIOUS
<1>4. b \in Nat
  BY <1>2, <1>3
<1>5. /\ g \in Seq(Int) /\ Len(g) = BlockSize
      /\ \A i \in 0 .. BlockSize - 1 : g[i + 1] = CellAt(disk, inode, b * BlockSize + i)
  <2> HIDE DEF b
  <2>1. g = ext2_read_block(disk, file_ext2_block(inode, b))
    BY DEF BlockGot, b
  <2> HIDE DEF g
  <2>2. ext2_read_block(disk, file_ext2_block(inode, b)) # IOError
    BY <2>1 DEF g
  <2> QED
    BY <1>4, <2>1, <2>2, BlockRead
<1>6. c = IF k = 1 THEN SubSeq(g, o + 1, BlockSize) ELSE IF k < n THEN g ELSE SubSeq(g, 1, e)
  BY Zenon DEF CopiedFrom
<1> HIDE DEF b, o, e, g, c, n
<1>7. \A i \in 1 .. BlockSize : g[i] \in Int
  BY <1>5
<1>8. CASE k = 1
  <2>1. c = SubSeq(g, o + 1, BlockSize)
    BY <1>6, <1>8
  <2>2. \A i \in o + 1 .. BlockSize : g[i] \in Int
    BY <1>2, <1>7
  <2>3. /\ c \in Seq(Int) /\ Len(c) = BlockSize - o
        /\ \A i \in 1 .. BlockSize - o : c[i] = g[o + 1 + i - 1]
    BY <1>1, <1>2, <2>1, <2>2, SubSeqProperties
  <2>4. ASSUME NEW i \in 0 .. BlockSize - o - 1
        PROVE  c[i + 1] = CellAt(disk, inode, b * BlockSize + (o + i))
    <3>1. o + i \in 0 .. BlockSize - 1 /\ i + 1 \in 1 .. BlockSize - o /\ o + 1 + (i + 1) - 1 = o + i + 1
      BY <1>1, <1>2
    <3>2. g[o + i + 1] = CellAt(disk, inode, b * BlockSize + (o + i))
      BY <1>5, <3>1
    <3> QED
      BY <2>3, <3>1, <3>2
  <2> QED
    BY <1>8, <2>3, <2>4 DEF b, o, c, n
<1>9. CASE k # 1 /\ k < n
  BY <1>5, <1>6, <1>9 DEF b, o, c, n
<1>10. CASE k # 1 /\ ~(k < n)
  <2>1. c = SubSeq(g, 1, e)
    BY <1>6, <1>10
  <2>2. \A i \in 1 .. e : g[i] \in Int
    BY <1>1, <1>2, <1>7
  <2>3. /\ c \in Seq(Int) /\ Len(c) = e
        /\ \A i \in 1 .. e : c[i] = g[1 + i - 1]
    BY <1>1, <1>2, <2>1, <2>2, SubSeqProperties
  <2>4. ASSUME NEW i \in 0 .. e - 1
        PROVE  c[i + 1] = CellAt(disk, inode, b * BlockSize + i)
    <3>1. i \in 0 .. BlockSize - 1 /\ i + 1 \in 1 .. e /\ 1 + (i + 1) - 1 = i + 1
      BY <1>1, <1>2
    <3> QED
      BY <1>5, <2>3, <3>1
  <2> QED
    BY <1>10, <2>3, <2>4 DEF b, o, c, n, e
<1> QED
  BY <1>8, <1>9, <1>10

\* The greater of a number above zero and one.
LEMMA MaxWithOne ==
    ASSUME NEW x \in Int, x >= 1
    PROVE  Max({x, 1}) = x
<1>1. x \in {x, 1} /\ \A y \in {x, 1} : x >= y
  OBVIOUS
<1>2. ASSUME NEW z \in {x, 1}, \A y \in {x, 1} : z >= y
      PROVE  z = x
  <2>1. z >= x /\ x >= z /\ z \in Int
    BY <1>2
  <2> QED
    BY <2>1
<1> QED
  BY <1>1, <1>2 DEF Max

\* A read of some cells lies in the blocks from that of the first to that of the last one.
LEMMA BlocksCounted ==
    ASSUME NEW offset \in Nat, NEW size \in Nat \ {0}
    PROVE  /\ BlocksOf(offset, size) \in Nat \ {0}
           /\ BlocksOf(offset, size) = (offset + size - 1) \div BlockSize - offset \div BlockSize + 1
<1> DEFINE s == offset \div BlockSize
           e == (offset + size - 1) \div BlockSize
           r == offset % BlockSize
           t == (offset + size - 1) % BlockSize
<1>1. BlockSize \in Nat /\ BlockSize >= 1
  BY Ext2Assumption
<1>2. s \in Nat /\ r \in 0 .. BlockSize - 1 /\ offset = s * BlockSize + r
  BY CellsOfBlocks
<1>3. offset + size - 1 \in Nat /\ offset + size - 1 >= offset
  OBVIOUS
<1>4. e \in Nat /\ t \in 0 .. BlockSize - 1 /\ offset + size - 1 = e * BlockSize + t
  BY <1>3, CellsOfBlocks
<1> HIDE DEF s, e, r, t
<1>5. e >= s
  <2> SUFFICES ASSUME e < s PROVE FALSE
    BY <1>2, <1>4
  <2>1. (s - e - 1) * BlockSize >= 0 /\ s * BlockSize = e * BlockSize + BlockSize + (s - e - 1) * BlockSize
    BY <1>1, <1>2, <1>4
  <2>2. e * BlockSize \in Int /\ s * BlockSize \in Int /\ (s - e - 1) * BlockSize \in Int
    BY <1>1, <1>2, <1>4
  <2> QED
    BY <1>1, <1>2, <1>3, <1>4, <2>1, <2>2
<1>6. BlocksOf(offset, size) = e - s + 1
  BY <1>2, <1>4, <1>5, MaxWithOne DEF BlocksOf, e, s
<1> QED
  BY <1>2, <1>4, <1>5, <1>6 DEF e, s

\* All blocks of a read are there.
AllGot(disk, inode, offset, size) ==
    \A k \in 1 .. BlocksOf(offset, size) : BlockGot(disk, inode, offset, k) # IOError

\* Then the blocks can be copied one behind the other.
LEMMA ReadRunExists ==
    ASSUME NEW disk, NEW inode, Readable(disk, inode), NEW offset \in Nat, NEW size \in Nat \ {0},
           AllGot(disk, inode, offset, size)
    PROVE  \E f : ReadRun(disk, inode, offset, size, f) /\ f \in [0 .. BlocksOf(offset, size) -> Seq(Int)]
<1> DEFINE n == BlocksOf(offset, size)
           c(k) == CopiedFrom(disk, inode, offset, size, k)
           G == [k \in 1 .. n |-> [x \in Seq(Int) |-> x \o c(k)]]
<1>1. n \in Nat
  BY BlocksCounted
<1>2. \A k \in 1 .. n : c(k) \in Seq(Int)
  BY CopiedCells DEF AllGot
<1> HIDE DEF n, c
<1>3. G \in [1 .. n -> [Seq(Int) -> Seq(Int)]] /\ <<>> \in Seq(Int)
  <2>1. ASSUME NEW k \in 1 .. n
        PROVE  [x \in Seq(Int) |-> x \o c(k)] \in [Seq(Int) -> Seq(Int)]
    <3>1. \A x \in Seq(Int) : x \o c(k) \in Seq(Int)
      BY <1>2, <2>1
    <3> QED
      BY <3>1
  <2>2. <<>> \in Seq(Int)
    OBVIOUS
  <2> QED
    BY <2>1, <2>2
<1>4. PICK f \in [0 .. n -> Seq(Int)] : Iteration(f, n, <<>>, G)
  <2> HIDE DEF G
  <2> QED
    BY <1>1, <1>3, IterationExists
<1>5. ASSUME NEW k \in 0 .. n
      PROVE  f[k] = IF k = 0 THEN <<>> ELSE f[k - 1] \o c(k)
  <2>1. CASE k = 0
    BY <1>4, <2>1 DEF Iteration
  <2>2. CASE k # 0
    <3>1. k \in 1 .. n /\ k - 1 \in 0 .. n
      BY <1>1, <2>2
    <3>2. f[k] = G[k][f[k - 1]] /\ f[k - 1] \in Seq(Int)
      BY <1>4, <3>1 DEF Iteration
    <3> QED
      BY <2>2, <3>1, <3>2
  <2> QED
    BY <2>1, <2>2
<1>6. f = [k \in 0 .. n |-> IF k = 0 THEN <<>> ELSE f[k - 1] \o c(k)]
  <2> HIDE DEF G
  <2> QED
    BY <1>5
<1> QED
  BY <1>6, Zenon DEF ReadRun, n, c

\* There is one way to copy them.
LEMMA ReadRunSame ==
    ASSUME NEW disk, NEW inode, NEW offset \in Nat, NEW size \in Nat \ {0},
           NEW f, ReadRun(disk, inode, offset, size, f), NEW g, ReadRun(disk, inode, offset, size, g)
    PROVE  f = g
<1> DEFINE n == BlocksOf(offset, size)
           c(k) == CopiedFrom(disk, inode, offset, size, k)
           Same == {k \in 0 .. n : f[k] = g[k]}
<1>1. n \in Nat
  BY BlocksCounted
<1>2. /\ f = [k \in 0 .. n |-> IF k = 0 THEN <<>> ELSE f[k - 1] \o c(k)]
      /\ g = [k \in 0 .. n |-> IF k = 0 THEN <<>> ELSE g[k - 1] \o c(k)]
  BY Zenon DEF ReadRun
<1> HIDE DEF n, c
<1>3. \A k \in 0 .. n : /\ f[k] = IF k = 0 THEN <<>> ELSE f[k - 1] \o c(k)
                        /\ g[k] = IF k = 0 THEN <<>> ELSE g[k - 1] \o c(k)
  BY <1>2, Zenon
<1>4. 0 \in Same
  BY <1>1, <1>3
<1>5. ASSUME NEW k \in 1 .. n, k - 1 \in Same
      PROVE  k \in Same
  <2>1. k \in 0 .. n /\ k # 0 /\ f[k - 1] = g[k - 1]
    BY <1>5
  <2> QED
    BY <1>3, <2>1
<1>6. \A k \in 0 .. n : k \in Same
  <2> HIDE DEF Same
  <2> QED
    BY <1>1, <1>4, <1>5, UpTo
<1>7. DOMAIN f = 0 .. n /\ DOMAIN g = 0 .. n /\ f = [k \in DOMAIN f |-> f[k]] /\ g = [k \in DOMAIN g |-> g[k]]
  BY <1>2
<1> QED
  BY <1>6, <1>7

\* Text t holds the cells of a file from offset to the end of its m-th block from there.
HoldsCells(disk, inode, offset, t, m) ==
    /\ Len(t) = (offset \div BlockSize + m) * BlockSize - offset
    /\ \A i \in 1 .. Len(t) : t[i] = CellAt(disk, inode, offset + i - 1)

\* Each whole block brings its cells to their place behind those before it.
LEMMA TextGrows ==
    ASSUME NEW disk, NEW inode, Readable(disk, inode), NEW offset \in Nat, NEW size \in Nat \ {0},
           AllGot(disk, inode, offset, size), NEW f \in [0 .. BlocksOf(offset, size) -> Seq(Int)],
           ReadRun(disk, inode, offset, size, f),
           NEW m \in 1 .. BlocksOf(offset, size), m = 1 \/ m < BlocksOf(offset, size)
    PROVE  HoldsCells(disk, inode, offset, f[m], m)
<1> DEFINE n == BlocksOf(offset, size)
           s == offset \div BlockSize
           o == offset % BlockSize
           Up(k) == (s + k) * BlockSize
           c(k) == CopiedFrom(disk, inode, offset, size, k)
           Cell(a) == CellAt(disk, inode, a)
           Grown1(k) == /\ Len(f[k]) = Up(k) - offset
                        /\ \A i \in 1 .. Len(f[k]) : f[k][i] = Cell(offset + i - 1)
           Good == {k \in 0 .. m : k = 0 \/ Grown1(k)}
<1>1. /\ BlockSize \in Nat /\ BlockSize >= 1 /\ n \in Nat /\ m \in Nat /\ m <= n /\ m >= 1
      /\ s \in Nat /\ o \in 0 .. BlockSize - 1 /\ offset = s * BlockSize + o
  <2>1. n \in Nat
    BY BlocksCounted
  <2>2. s \in Nat /\ o \in 0 .. BlockSize - 1 /\ offset = s * BlockSize + o
    BY CellsOfBlocks
  <2> QED
    BY <2>1, <2>2, Ext2Assumption
<1>2. ASSUME NEW k \in 1 .. n
      PROVE  /\ f[k] = f[k - 1] \o c(k) /\ c(k) \in Seq(Int) /\ f[k - 1] \in Seq(Int)
             /\ k = 1 => /\ Len(c(k)) = BlockSize - o
                         /\ \A i \in 0 .. BlockSize - o - 1 : c(k)[i + 1] = Cell((s + k - 1) * BlockSize + (o + i))
             /\ k # 1 /\ k < n => Len(c(k)) = BlockSize
                                  /\ \A i \in 0 .. BlockSize - 1 : c(k)[i + 1] = Cell((s + k - 1) * BlockSize + i)
  <2>1. k \in 0 .. n /\ k - 1 \in 0 .. n /\ k # 0
    BY <1>1
  <2>2. f[k] = f[k - 1] \o c(k) /\ f[k - 1] \in Seq(Int)
    BY <2>1, Zenon DEF ReadRun
  <2>3. BlockGot(disk, inode, offset, k) # IOError
    BY DEF AllGot
  <2> QED
    BY <2>2, <2>3, CopiedCells
<1>3. f[0] = <<>>
  <2>1. 0 \in 0 .. n
    BY <1>1
  <2> QED
    BY <2>1, Zenon DEF ReadRun
<1>4. ASSUME NEW k \in Nat \ {0}
      PROVE  Up(k - 1) \in Nat /\ Up(k) = Up(k - 1) + BlockSize
  <2> DEFINE j == s + k - 1
  <2>1. j \in Nat /\ s + k = j + 1 /\ s + (k - 1) = j
    <3>1. s \in Nat /\ k \in Nat /\ k >= 1
      BY <1>1
    <3> HIDE DEF s
    <3> QED
      BY <3>1
  <2>2. Up(k - 1) = j * BlockSize /\ Up(k) = (j + 1) * BlockSize
    BY <2>1
  <2> HIDE DEF j, Up
  <2>3. (j + 1) * BlockSize = j * BlockSize + BlockSize /\ j * BlockSize \in Nat
    BY <1>1, <2>1
  <2> QED
    BY <2>2, <2>3
<1>a. \A k \in 1 .. n : Up(k - 1) = (s + k - 1) * BlockSize
  BY <1>1
<1>b. Up(0) = s * BlockSize
  BY <1>1
<1>c. m = 1 \/ m < n
  OBVIOUS
<1> HIDE DEF n, s, o, c, Cell, Up
<1>5. 0 \in Good
  BY <1>1
<1>6. ASSUME NEW k \in 1 .. m, k - 1 \in Good
      PROVE  k \in Good
  <2>1. k \in 1 .. n /\ k \in 0 .. m /\ k - 1 \in Nat /\ (k = 1 \/ k < n)
    BY <1>1, <1>c
  <2>2. Up(k - 1) \in Nat /\ Up(k) = Up(k - 1) + BlockSize
    <3>1. k \in Nat \ {0}
      BY <2>1
    <3> QED
      BY <1>4, <3>1
  <2>3. f[k] = f[k - 1] \o c(k) /\ c(k) \in Seq(Int) /\ f[k - 1] \in Seq(Int)
    BY <1>2, <2>1
  <2>4. CASE k = 1
    <3>1. f[k] = c(k) /\ Up(k - 1) = s * BlockSize
      <4>1. k - 1 = 0 /\ f[k - 1] = <<>>
        BY <1>3, <2>4
      <4>2. <<>> \o c(k) = c(k)
        BY <2>3, ConcatEmptySeq
      <4> QED
        BY <1>b, <2>3, <4>1, <4>2
    <3>2. Len(f[k]) = Up(k) - offset
      <4>1. Len(c(k)) = BlockSize - o
        BY <1>2, <2>1, <2>4
      <4> QED
        BY <1>1, <2>2, <3>1, <4>1
    <3>3. ASSUME NEW i \in 1 .. Len(f[k])
          PROVE  f[k][i] = Cell(offset + i - 1)
      <4>1. i - 1 \in 0 .. BlockSize - o - 1 /\ (i - 1) + 1 = i
        BY <1>1, <1>2, <2>1, <2>4, <3>1
      <4>2. c(k)[i] = Cell(Up(k - 1) + (o + (i - 1)))
        BY <1>2, <1>a, <2>1, <2>4, <4>1
      <4>3. Up(k - 1) + (o + (i - 1)) = offset + i - 1
        BY <1>1, <2>2, <3>1, <4>1
      <4> QED
        BY <3>1, <4>2, <4>3
    <3> QED
      BY <2>1, <3>2, <3>3
  <2>5. CASE k # 1
    <3>1. /\ Len(c(k)) = BlockSize
          /\ \A i \in 0 .. BlockSize - 1 : c(k)[i + 1] = Cell(Up(k - 1) + i)
      BY <1>2, <1>a, <2>1, <2>5
    <3>2. Grown1(k - 1) /\ k - 1 \in Nat
      BY <1>6, <2>1, <2>5
    <3> DEFINE x == f[k - 1]
               L == Len(x)
    <3>3. L \in Nat /\ L = Up(k - 1) - offset /\ \A i \in 1 .. L : x[i] = Cell(offset + i - 1)
      BY <2>3, <3>2
    <3>4. /\ Len(f[k]) = L + BlockSize
          /\ \A i \in 1 .. L + BlockSize : f[k][i] = IF i <= L THEN x[i] ELSE c(k)[i - L]
      <4>1. x \in Seq(Int) /\ c(k) \in Seq(Int) /\ f[k] = x \o c(k)
        BY <2>3
      <4> DEFINE y == c(k)
      <4> HIDE DEF x, y
      <4>2. /\ Len(x \o y) = Len(x) + Len(y)
            /\ \A i \in 1 .. Len(x) + Len(y) : (x \o y)[i] = IF i <= Len(x) THEN x[i] ELSE y[i - Len(x)]
        BY <4>1, ConcatProperties DEF y
      <4>3. Len(y) = BlockSize /\ f[k] = x \o y
        BY <3>1, <4>1 DEF y
      <4>4. /\ Len(f[k]) = L + BlockSize
            /\ \A i \in 1 .. L + BlockSize : f[k][i] = IF i <= L THEN x[i] ELSE y[i - L]
        BY <4>2, <4>3
      <4> QED
        BY <4>4 DEF y
    <3> HIDE DEF x, L
    <3>5. Len(f[k]) = Up(k) - offset
      BY <1>1, <2>2, <3>3, <3>4
    <3>6. ASSUME NEW i \in 1 .. Len(f[k])
          PROVE  f[k][i] = Cell(offset + i - 1)
      <4>1. i \in 1 .. L + BlockSize
        BY <3>4
      <4>2. CASE i <= L
        <5>1. i \in 1 .. L
          BY <3>3, <4>1, <4>2
        <5> QED
          BY <3>3, <3>4, <4>1, <4>2, <5>1
      <4>3. CASE ~(i <= L)
        <5>0. L \in Nat /\ BlockSize \in Nat
          BY <1>1, <3>3
        <5>1. i - L - 1 \in 0 .. BlockSize - 1 /\ (i - L - 1) + 1 = i - L
          BY <4>1, <4>3, <5>0
        <5>2. c(k)[i - L] = Cell(Up(k - 1) + (i - L - 1))
          BY <3>1, <5>1
        <5>3. Up(k - 1) + (i - L - 1) = offset + i - 1
          <6> DEFINE u == Up(k - 1)
          <6>1. u \in Nat /\ L \in Nat /\ L = u - offset /\ i \in Int
            BY <2>2, <3>3, <4>1
          <6> HIDE DEF u, L
          <6>2. u + (i - L - 1) = offset + i - 1
            BY <6>1
          <6> QED
            BY <6>2 DEF u
        <5> QED
          BY <3>4, <4>1, <4>3, <5>2, <5>3
      <4> QED
        BY <4>2, <4>3
    <3> QED
      BY <2>1, <3>5, <3>6
  <2> QED
    BY <2>4, <2>5
<1>7. m \in Good
  <2> HIDE DEF Good
  <2>1. \A k \in 0 .. m : k \in Good
    BY <1>1, <1>5, <1>6, UpTo
  <2> QED
    BY <1>1, <2>1
<1>8. Grown1(m)
  BY <1>1, <1>7
<1> QED
  BY <1>8 DEF Up, Cell, s, HoldsCells

\* What is there is not more than what was asked for.
LEMMA ThereBounds ==
    ASSUME NEW inode, inode.size \in Nat, NEW offset \in Nat, NEW asked \in Nat, offset <= inode.size
    PROVE  /\ ThereOf(inode, offset, asked) \in Nat /\ ThereOf(inode, offset, asked) <= asked
           /\ ThereOf(inode, offset, asked) <= inode.size - offset
           /\ ThereOf(inode, offset, asked) \in {asked, inode.size - offset}
BY DEF ThereOf

\* The i-th of size cells, as it should be in text t, or one of those that are left out.
InPlace(disk, inode, offset, size, t, i) ==
    IF /\ (offset + size) % BlockSize = 0 /\ i > BlockSize - (offset % BlockSize)
       /\ offset + i > (offset + size) - BlockSize
    THEN i > Len(t)
    ELSE i <= Len(t) /\ t[i] = CellAt(disk, inode, offset + i - 1)

\* A read that finds all its blocks has each cell in its place, but for those of a last
\* block at whose end it ends.
LEMMA CellsInPlace ==
    ASSUME NEW disk, NEW inode, Readable(disk, inode), NEW offset \in Nat, NEW size \in Nat \ {0},
           AllGot(disk, inode, offset, size), NEW f \in [0 .. BlocksOf(offset, size) -> Seq(Int)],
           ReadRun(disk, inode, offset, size, f), NEW i \in 1 .. size
    PROVE  InPlace(disk, inode, offset, size, f[BlocksOf(offset, size)], i)
<1>0. ASSUME NEW m \in 1 .. BlocksOf(offset, size), m = 1 \/ m < BlocksOf(offset, size)
      PROVE  HoldsCells(disk, inode, offset, f[m], m)
  BY <1>0, TextGrows
<1> DEFINE n == BlocksOf(offset, size)
           s == offset \div BlockSize
           o == offset % BlockSize
           e == (offset + size - 1) \div BlockSize
           r == (offset + size - 1) % BlockSize
           z == (offset + size) % BlockSize
           t == f[n]
           Cell(a) == CellAt(disk, inode, a)
<1>1. /\ BlockSize \in Nat /\ BlockSize >= 1 /\ n \in Nat /\ n >= 1 /\ n = e - s + 1
      /\ s \in Nat /\ o \in 0 .. BlockSize - 1 /\ offset = s * BlockSize + o
      /\ e \in Nat /\ r \in 0 .. BlockSize - 1 /\ offset + size - 1 = e * BlockSize + r
  <2>1. n \in Nat /\ n >= 1 /\ n = e - s + 1
    <3>1. n \in Nat \ {0} /\ n = e - s + 1
      BY BlocksCounted
    <3> HIDE DEF n, e, s
    <3> QED
      BY <3>1
  <2>2. s \in Nat /\ o \in 0 .. BlockSize - 1 /\ offset = s * BlockSize + o
    BY CellsOfBlocks
  <2>3. offset + size - 1 \in Nat
    OBVIOUS
  <2>4. e \in Nat /\ r \in 0 .. BlockSize - 1 /\ offset + size - 1 = e * BlockSize + r
    BY <2>3, CellsOfBlocks
  <2> QED
    BY <2>1, <2>2, <2>4, Ext2Assumption
<1>2. IF r = BlockSize - 1 THEN z = 0 ELSE z = r + 1
  <2>1. offset + size \in Nat /\ e \in Nat /\ e + 1 \in Nat
    BY <1>1
  <2> HIDE DEF e, r
  <2>2. CASE r = BlockSize - 1
    <3>1. offset + size = (e + 1) * BlockSize + 0 /\ 0 \in 0 .. BlockSize - 1
      BY <1>1, <2>2
    <3> QED
      BY <2>1, <2>2, <3>1, CellsOfBlocks
  <2>3. CASE r # BlockSize - 1
    <3>1. offset + size = e * BlockSize + (r + 1) /\ r + 1 \in 0 .. BlockSize - 1
      BY <1>1, <2>3
    <3>2. \A b \in Nat : \A d \in 0 .. BlockSize - 1 : offset + size = b * BlockSize + d => z = d
      BY <2>1, CellsOfBlocks
    <3>3. z = r + 1
      BY <2>1, <3>1, <3>2
    <3> QED
      BY <2>3, <3>3
  <2> QED
    BY <2>2, <2>3
<1>3. n \in 1 .. n /\ n \in 0 .. n /\ n - 1 \in 0 .. n
  BY <1>1
<1>4. CASE n = 1
  <2>1. /\ Len(t) = (s + 1) * BlockSize - offset
        /\ \A j \in 1 .. Len(t) : t[j] = Cell(offset + j - 1)
    <3>1. /\ Len(t) = (s + n) * BlockSize - offset
          /\ \A j \in 1 .. Len(t) : t[j] = Cell(offset + j - 1)
      <4> HIDE DEF n, s
      <4> QED
        BY <1>0, <1>3, <1>4 DEF n, s, HoldsCells
    <3> HIDE DEF n, s, t, Cell
    <3> QED
      BY <1>4, <3>1
  <2> HIDE DEF n, s, o, e, r, z, t, Cell
  <2>2. e = s /\ (s + 1) * BlockSize = s * BlockSize + BlockSize
    BY <1>1, <1>4
  <2>3. s * BlockSize \in Nat
    BY <1>1
  <2>4. Len(t) = BlockSize - o /\ size <= BlockSize - o
    BY <1>1, <2>1, <2>2, <2>3
  <2>5. i \in 1 .. Len(t) /\ ~(i > BlockSize - o)
    BY <1>1, <2>4
  <2> QED
    BY <2>1, <2>5 DEF z, o, t, n, Cell, InPlace
<1>5. CASE n # 1
  <2> DEFINE x == f[n - 1]
             c == CopiedFrom(disk, inode, offset, size, n)
             L == Len(x)
  <2>1. n - 1 \in 1 .. n /\ n - 1 < n /\ n # 0
    BY <1>1, <1>5
  <2>2. /\ L = (s + (n - 1)) * BlockSize - offset
        /\ \A j \in 1 .. L : x[j] = Cell(offset + j - 1)
    <3> DEFINE m == n - 1
    <3>1. m \in 1 .. n /\ m < n
      BY <2>1
    <3> HIDE DEF m
    <3>2. /\ Len(f[m]) = (s + m) * BlockSize - offset
          /\ \A j \in 1 .. Len(f[m]) : f[m][j] = Cell(offset + j - 1)
      BY <1>0, <3>1 DEF HoldsCells
    <3> QED
      BY <3>2, Zenon DEF m
  <2>3. t = x \o c /\ x \in Seq(Int)
    BY <1>3, <2>1, Zenon DEF ReadRun
  <2>4. BlockGot(disk, inode, offset, n) # IOError
    BY <1>3 DEF AllGot
  <2>5. /\ c \in Seq(Int) /\ Len(c) = z
        /\ \A j \in 0 .. Len(c) - 1 : c[j + 1] = Cell((s + n - 1) * BlockSize + j)
    <3>1. ~(n < n) /\ n \in 1 .. n
      BY <1>1
    <3>2. offset + size > 0
      OBVIOUS
    <3> QED
      BY <1>5, <2>4, <3>1, <3>2, CopiedCells, SMTT(30)
  <2> HIDE DEF n, s, o, e, r, z, t, Cell, x, c, L
  <2>6. s + (n - 1) = e /\ s + n - 1 = e /\ e >= s + 1
    BY <1>1, <1>5
  <2>7. /\ L \in Nat /\ Len(t) = L + z
        /\ \A j \in 1 .. L + z : t[j] = IF j <= L THEN x[j] ELSE c[j - L]
    <3>1. L \in Nat /\ L = Len(x) /\ Len(c) = z
      BY <2>3, <2>5 DEF L
    <3>2. /\ Len(x \o c) = Len(x) + Len(c)
          /\ \A j \in 1 .. Len(x) + Len(c) : (x \o c)[j] = IF j <= Len(x) THEN x[j] ELSE c[j - Len(x)]
      BY <2>3, <2>5, ConcatProperties
    <3> QED
      BY <2>3, <3>1, <3>2
  <2>8. z \in 0 .. BlockSize - 1
    BY <1>1, <1>2
  <2>9. e * BlockSize \in Nat /\ s * BlockSize \in Nat /\ e * BlockSize >= s * BlockSize + BlockSize
    <3>1. e - s - 1 \in Nat
      BY <1>1, <2>6
    <3>2. (e - s - 1) * BlockSize \in Nat /\ e * BlockSize = s * BlockSize + BlockSize + (e - s - 1) * BlockSize
      BY <1>1, <3>1
    <3> QED
      BY <1>1, <3>2
  <2>10. L = e * BlockSize - offset
    BY <2>2, <2>6
  <2>11. CASE i <= L
    <3>1. i \in 1 .. L /\ i \in 1 .. L + z
      BY <2>7, <2>8, <2>11
    <3>2. ~(z = 0 /\ offset + i > (offset + size) - BlockSize)
      BY <1>1, <1>2, <2>9, <2>10, <2>11
    <3>3. i <= L + z /\ t[i] = Cell(offset + i - 1)
      BY <2>2, <2>7, <2>8, <2>11, <3>1
    <3> QED
      BY <2>7, <3>2, <3>3 DEF z, o, t, n, Cell, InPlace
  <2>12. CASE ~(i <= L)
    <3> DEFINE j == i - L - 1
    <3>1. j \in 0 .. BlockSize - 1 /\ j <= r /\ offset + i - 1 = e * BlockSize + j
      <4> DEFINE E == e * BlockSize
      <4>1. /\ E \in Nat /\ L = E - offset /\ offset + size - 1 = E + r /\ r \in 0 .. BlockSize - 1
            /\ i \in Int /\ i <= size /\ L \in Nat /\ ~(i <= L) /\ BlockSize \in Nat
        BY <1>1, <2>7, <2>9, <2>10, <2>12
      <4> HIDE DEF E
      <4>2. j \in 0 .. BlockSize - 1 /\ j <= r /\ offset + i - 1 = E + j
        BY <4>1
      <4> QED
        BY <4>2 DEF E
    <3>2. CASE z = 0
      <4>1. i > BlockSize - o /\ offset + i > (offset + size) - BlockSize
        <5> DEFINE E == e * BlockSize
                   S == s * BlockSize
        <5>1. /\ E \in Nat /\ S \in Nat /\ L = E - offset /\ offset = S + o /\ E >= S + BlockSize
              /\ offset + size - 1 = E + r /\ L \in Nat /\ ~(i <= L) /\ BlockSize \in Nat /\ i \in Int
              /\ o \in 0 .. BlockSize - 1 /\ r \in 0 .. BlockSize - 1
          BY <1>1, <2>7, <2>9, <2>10, <2>12
        <5>2. r = BlockSize - 1
          BY <1>1, <1>2, <3>2
        <5> HIDE DEF E, S
        <5> QED
          BY <5>1, <5>2
      <4>2. i > Len(t)
        BY <2>7, <2>12, <3>2
      <4> QED
        BY <3>2, <4>1, <4>2 DEF z, o, t, n, InPlace
    <3>3. CASE z # 0
      <4>1. z = r + 1
        BY <1>2, <3>3
      <4>2. j \in 0 .. Len(c) - 1 /\ i \in 1 .. L + z /\ i - L = j + 1
        BY <1>1, <2>5, <2>7, <3>1, <4>1
      <4> HIDE DEF j
      <4>3. c[j + 1] = Cell(e * BlockSize + j)
        BY <2>5, <2>6, <4>2
      <4>4. t[i] = Cell(offset + i - 1) /\ i <= Len(t)
        BY <2>7, <2>12, <3>1, <4>2, <4>3
      <4> QED
        BY <3>3, <4>4 DEF z, o, t, n, Cell, InPlace
    <3> QED
      BY <3>2, <3>3
  <2> QED
    BY <2>11, <2>12
<1> QED
  BY <1>4, <1>5

\* The lesser of two numbers.
LEMMA MinOfTwo ==
    ASSUME NEW x \in Int, NEW y \in Int
    PROVE  Min({x, y}) = IF x <= y THEN x ELSE y
<1> DEFINE w == IF x <= y THEN x ELSE y
<1>1. w \in {x, y} /\ \A v \in {x, y} : w <= v
  OBVIOUS
<1>2. ASSUME NEW z \in {x, y}, \A v \in {x, y} : z <= v
      PROVE  z = w
  <2>1. z <= w /\ w <= z /\ z \in Int /\ w \in Int
    BY <1>1, <1>2
  <2> QED
    BY <2>1
<1> HIDE DEF w
<1>3. Min({x, y}) = w
  BY <1>1, <1>2 DEF Min
<1> QED
  BY <1>3 DEF w

\* A block that is on the disk, or a hole, can be read.
LEMMA BlockThere ==
    ASSUME NEW disk, NEW inode, Readable(disk, inode), NEW nr \in DOMAIN disk \cup {0}
    PROVE  ext2_read_block(disk, nr) # IOError
<1> DEFINE g == ext2_read_block(disk, nr)
           hole == [i \in 1 .. BlockSize |-> IF i <= HoleSize THEN 0 ELSE Untouched]
<1>1. BlockSize \in Nat /\ BlockSize >= 1
  BY Ext2Assumption
<1>2. g = IF nr = 0 THEN hole ELSE disk[nr]
  BY DEF ext2_read_block
<1>3. DOMAIN g = 1 .. BlockSize
  BY <1>2 DEF Readable
<1>4. 1 \in DOMAIN g /\ DOMAIN <<>> = {}
  BY <1>1, <1>3
<1> HIDE DEF g
<1>5. g # <<>>
  BY <1>4
<1> QED
  BY <1>5 DEF g, IOError

\* If the direct blocks of a file can be read, so can all.
LEMMA IntactGot ==
    ASSUME NEW disk, NEW inode, Readable(disk, inode), NEW offset \in Nat, NEW size \in Nat \ {0},
           \A k \in 1 .. NDirBlocks : inode.blocks[k] \in DOMAIN disk \cup {0}
    PROVE  AllGot(disk, inode, offset, size)
<1> SUFFICES ASSUME NEW k \in 1 .. BlocksOf(offset, size)
             PROVE  BlockGot(disk, inode, offset, k) # IOError
  BY DEF AllGot
<1> DEFINE b == offset \div BlockSize + k - 1
           nr == file_ext2_block(inode, b)
<1>1. NDirBlocks \in Nat
  BY Ext2Assumption
<1>2. b \in Nat
  <2>1. offset \div BlockSize \in Nat /\ k \in Int /\ k >= 1
    BY CellsOfBlocks
  <2> QED
    BY <2>1
<1> HIDE DEF b
<1>3. nr \in DOMAIN disk \cup {0}
  <2>1. CASE b < NDirBlocks
    <3>1. b + 1 \in 1 .. NDirBlocks
      BY <1>1, <1>2, <2>1
    <3> QED
      BY <2>1, <3>1 DEF file_ext2_block
  <2>2. CASE ~(b < NDirBlocks)
    BY <2>2 DEF file_ext2_block
  <2> QED
    BY <2>1, <2>2
<1> HIDE DEF nr
<1>4. ext2_read_block(disk, nr) # IOError
  BY <1>3, BlockThere
<1> QED
  BY <1>4 DEF BlockGot, nr, b

\* What is to hold of a read: cells in place, and all that are there if no block is missing.
ReadHolds(disk, inode, offset, asked) ==
    LET r == ext2_read(disk, inode, offset, asked, asked)
        skipped(i) == (offset + r.ret) % BlockSize = 0 /\ i > BlockSize - (offset % BlockSize)
                        /\ offset + i > (offset + r.ret) - BlockSize
        there == Min({asked, inode.size - offset})
        intact == \A k \in 1 .. NDirBlocks : inode.blocks[k] \in DOMAIN disk \cup {0}
    IN /\ r.ret > 0 => \A i \in 1 .. r.ret :
            r.buf[i] = (IF skipped(i) THEN Untouched ELSE CellAt(disk, inode, offset + i - 1))
       /\ intact /\ there > 0 => r.ret = there

\* It holds of every file and every read.
LEMMA ReadRight ==
    ASSUME NEW disk, NEW inode, Readable(disk, inode), NEW offset \in Nat, NEW asked \in Nat
    PROVE  ReadHolds(disk, inode, offset, asked)
<1> DEFINE r == ext2_read(disk, inode, offset, asked, asked)
           size == ThereOf(inode, offset, asked)
           n == BlocksOf(offset, size)
           text == CHOOSE g : ReadRun(disk, inode, offset, size, g)
           skipped(i) == (offset + r.ret) % BlockSize = 0 /\ i > BlockSize - (offset % BlockSize)
                           /\ offset + i > (offset + r.ret) - BlockSize
           there == Min({asked, inode.size - offset})
           intact == \A k \in 1 .. NDirBlocks : inode.blocks[k] \in DOMAIN disk \cup {0}
<1>1. Readable(disk, inode) /\ inode.size \in Nat /\ offset \in Nat /\ asked \in Nat
  BY DEF Readable
<1>2. /\ offset > inode.size => r.ret = 0
      /\ offset <= inode.size /\ offset + size = 0 => r.ret = Runaway
      /\ offset <= inode.size /\ offset + size # 0 =>
           IF \E k \in 1 .. n : BlockGot(disk, inode, offset, k) = IOError THEN r.ret = -1
           ELSE r.ret = size /\ r.buf = Buffered(asked, text[n])
  <2>1. ReadAnswer(disk, inode, offset, asked, asked)
    BY <1>1, ReadCases
  <2> QED
    BY <2>1, Zenon DEF ReadAnswer
<1>3. offset <= inode.size => size \in Nat /\ size <= asked /\ size <= inode.size - offset
                                /\ size \in {asked, inode.size - offset}
  BY <1>1, ThereBounds
<1> HIDE DEF r, size, text
<1>4. ASSUME r.ret > 0, NEW i \in 1 .. r.ret
      PROVE  r.buf[i] = IF skipped(i) THEN Untouched ELSE CellAt(disk, inode, offset + i - 1)
  <2>1. /\ offset <= inode.size /\ offset + size # 0 /\ r.ret = size /\ r.buf = Buffered(asked, text[n])
        /\ \A k \in 1 .. n : BlockGot(disk, inode, offset, k) # IOError
    <3> HIDE DEF n
    <3>1. ~(0 > 0) /\ ~(-1 > 0) /\ ~(Runaway > 0) /\ (offset <= inode.size \/ offset > inode.size)
      BY <1>1 DEF Runaway
    <3> QED
      BY <1>2, <1>4, <3>1
  <2>2. size \in Nat \ {0} /\ size <= asked
    BY <1>3, <1>4, <2>1
  <2>3. AllGot(disk, inode, offset, size)
    BY <2>1 DEF AllGot
  <2>4. ReadRun(disk, inode, offset, size, text) /\ text \in [0 .. n -> Seq(Int)]
    <3>1. PICK f : ReadRun(disk, inode, offset, size, f) /\ f \in [0 .. n -> Seq(Int)]
      BY <1>1, <2>2, <2>3, ReadRunExists
    <3>2. ReadRun(disk, inode, offset, size, text)
      BY <3>1, Zenon DEF text
    <3>3. text = f
      BY <1>1, <2>2, <3>1, <3>2, ReadRunSame
    <3> QED
      BY <3>1, <3>2, <3>3
  <2>5. i \in 1 .. size /\ i \in 1 .. asked
    BY <1>1, <2>1, <2>2
  <2>6. InPlace(disk, inode, offset, size, text[n], i)
    BY <1>1, <2>2, <2>3, <2>4, <2>5, CellsInPlace
  <2>7. r.buf[i] = IF i <= Len(text[n]) THEN text[n][i] ELSE Untouched
    BY <2>1, <2>5 DEF Buffered
  <2>8. Len(text[n]) \in Nat
    <3>1. n \in Nat \ {0}
      BY <1>1, <2>2, BlocksCounted
    <3> HIDE DEF n
    <3>2. n \in 0 .. n
      BY <3>1
    <3> QED
      BY <2>4, <3>2
  <2> QED
    BY <2>1, <2>5, <2>6, <2>7, <2>8 DEF InPlace
<1>5. ASSUME intact, there > 0
      PROVE  r.ret = there
  <2>1. there = IF asked <= inode.size - offset THEN asked ELSE inode.size - offset
    BY <1>1, MinOfTwo
  <2> HIDE DEF there
  <2>2. offset <= inode.size /\ size = there
    BY <1>1, <1>3, <1>5, <2>1
  <2>3. size \in Nat \ {0}
    BY <1>3, <1>5, <2>2
  <2>4. AllGot(disk, inode, offset, size)
    BY <1>1, <1>5, <2>3, IntactGot
  <2> QED
    BY <1>1, <1>2, <2>2, <2>3, <2>4 DEF AllGot
<1>6. /\ r.ret > 0 => \A i \in 1 .. r.ret :
           r.buf[i] = IF skipped(i) THEN Untouched ELSE CellAt(disk, inode, offset + i - 1)
      /\ intact /\ there > 0 => r.ret = there
  BY <1>4, <1>5
<1> QED
  BY <1>6, Zenon DEF ReadHolds, r

\* Every read is of a file of the disk.
LEMMA BytesHold == CallsInv => BytesInPlace
<1> SUFFICES ASSUME CallsInv, call.fn = "ext2_read"
             PROVE  BytesInPlace
  BY DEF BytesInPlace
<1>1. Readable(call.disk, call.inode) /\ call.offset \in Nat /\ call.size \in Nat
  BY Ext2CallsAssumption DEF CallsInv, Idle, Readable
<1>2. ReadHolds(call.disk, call.inode, call.offset, call.size)
  BY <1>1, ReadRight
<1> QED
  BY <1>2 DEF ReadHolds, BytesInPlace

-----------------------------------------------------------------------------
(***************************************************************************)
(* The inodes of ext2                                                      *)
(***************************************************************************)

\* Quotient and remainder make the number, and the quotient is not greater than it.
LEMMA Quotients ==
    ASSUME NEW a \in Nat, NEW p \in Nat \ {0}
    PROVE  /\ a \div p \in Nat /\ a % p \in 0 .. p - 1 /\ a = (a \div p) * p + (a % p)
           /\ a \div p <= a /\ (a < p => a \div p = 0 /\ a % p = a) /\ (a >= p => a \div p # 0)
<1> DEFINE q == a \div p
           r == a % p
<1>1. q \in Nat /\ r \in 0 .. p - 1 /\ a = q * p + r
  OBVIOUS
<1>2. a < p => q = 0 /\ r = a
  OBVIOUS
<1> HIDE DEF q, r
<1>3. q * p = q + q * (p - 1) /\ q * (p - 1) \in Nat /\ q * p \in Nat
  BY <1>1
<1>4. q <= a
  BY <1>1, <1>3
<1>5. q = 0 => a < p
  BY <1>1
<1> QED
  BY <1>1, <1>2, <1>4, <1>5 DEF q, r

\* The super block and the only group of a volume that can be mounted
OneGroup(sb, group) ==
    /\ sb.first \in Nat /\ sb.blocks_count \in Nat /\ sb.blocks_per_group \in Nat
    /\ sb.blocks_count < sb.blocks_per_group
    /\ sb.inodes_count \in Nat /\ sb.inodes_per_group \in Nat \ {0}
    /\ sb.inodes_count <= sb.inodes_per_group /\ sb.ino_size \in 1 .. BlockSize
    /\ group.used \subseteq 0 .. sb.inodes_count - 1 /\ group.inode_table \in Nat \ {0}

\* What was mounted of it is that group.
LEMMA GroupRead ==
    ASSUME NEW disk, NEW sb, NEW group, OneGroup(sb, group),
           sb.first + 1 \in DOMAIN disk => disk[sb.first + 1] # IOError /\ disk[sb.first + 1][1] = group,
           read_ext2_sb(disk, sb) # NoVolume
    PROVE  read_ext2_sb(disk, sb) = [group_count |-> 1, groups |-> [i \in 0 .. 0 |-> group]]
<1> DEFINE gc == sb.blocks_count \div sb.blocks_per_group + 1
           at(i) == sb.first + sb.blocks_per_group * i + 1
           table(i) == ext2_read_block(disk, at(i))
           desc(i) == table(i)[1]
<1>1. gc = 1
  <2>1. sb.blocks_count \in Nat /\ sb.blocks_per_group \in Nat \ {0} /\ sb.blocks_count < sb.blocks_per_group
    BY DEF OneGroup
  <2> QED
    BY <2>1, Quotients
<1>2. /\ ~ \E i \in 0 .. gc - 1 : table(i) = IOError
      /\ read_ext2_sb(disk, sb) = [group_count |-> gc, groups |-> [i \in 0 .. gc - 1 |-> desc(i)]]
  BY Zenon DEF read_ext2_sb
<1>3. at(0) = sb.first + 1 /\ at(0) # 0 /\ 0 \in 0 .. gc - 1 /\ gc - 1 = 0
  BY <1>1 DEF OneGroup
<1>4. table(0) # IOError
  <2> HIDE DEF gc, table
  <2> QED
    BY <1>2, <1>3
<1>5. sb.first + 1 \in DOMAIN disk /\ table(0) = disk[sb.first + 1]
  BY <1>3, <1>4 DEF ext2_read_block
<1>6. desc(0) = group
  BY <1>5
<1> HIDE DEF gc, table, desc
<1>7. [i \in 0 .. 0 |-> desc(i)] = [i \in 0 .. 0 |-> group]
  BY <1>6
<1> QED
  BY <1>1, <1>2, <1>3, <1>7

\* Each inode in use has a place in the table of its group.
LEMMA PlaceOfInode ==
    ASSUME NEW sb, NEW group, OneGroup(sb, group), NEW ino \in 1 .. sb.inodes_count
    PROVE  LET discr == [group_count |-> 1, groups |-> [i \in 0 .. 0 |-> group]]
               per == BlockSize \div sb.ino_size
           IN InodePlace(discr, sb, ino) =
                IF ino - 1 \in group.used
                THEN [block |-> group.inode_table + (ino - 1) \div per, index |-> (ino - 1) % per]
                ELSE NoPlace
<1> DEFINE discr == [group_count |-> 1, groups |-> [i \in 0 .. 0 |-> group]]
           goff == (ino - 1) % sb.inodes_per_group
           g == (ino - 1) \div sb.inodes_per_group
<1>1. ino - 1 \in Nat /\ sb.inodes_per_group \in Nat \ {0} /\ ino - 1 < sb.inodes_per_group
  BY DEF OneGroup
<1>2. g = 0 /\ goff = ino - 1
  BY <1>1, Quotients
<1>3. ~(ino = 0 \/ ino > sb.inodes_count \/ g >= discr.group_count)
  BY <1>2 DEF OneGroup
<1>4. discr.groups[g] = group
  BY <1>2
<1> HIDE DEF g, goff, discr
<1> QED
  BY <1>2, <1>3, <1>4, Zenon DEF InodePlace, g, goff, discr

\* On a volume of one group the places of inodes differ.
LEMMA InodesHold == CallsInv => InodesApart
<1> SUFFICES ASSUME CallsInv, call.fn = "ext2_sb", read_ext2_sb(call.disk, call.sb) # NoVolume
             PROVE  InodesApart
  BY DEF InodesApart
<1> DEFINE sb == call.sb
           group == call.group
           discr == read_ext2_sb(call.disk, sb)
           place(i) == InodePlace(discr, sb, i)
           used == {i \in 1 .. sb.inodes_count : place(i) # NoPlace}
           per == BlockSize \div sb.ino_size
           first == group.inode_table
<1>1. /\ OneGroup(sb, group)
      /\ sb.first + 1 \in DOMAIN call.disk => /\ call.disk[sb.first + 1] # IOError
                                              /\ call.disk[sb.first + 1][1] = group
  BY Ext2CallsAssumption DEF CallsInv, Idle, OneGroup
<1>2. discr = [group_count |-> 1, groups |-> [i \in 0 .. 0 |-> group]]
  BY <1>1, GroupRead
<1>3. per \in Nat \ {0}
  <2>1. BlockSize \in Nat /\ sb.ino_size \in Nat \ {0} /\ sb.ino_size <= BlockSize
    BY <1>1, Ext2Assumption DEF OneGroup
  <2> QED
    BY <2>1, Quotients
<1>4. /\ sb.inodes_count \in Nat /\ group.used \subseteq 0 .. sb.inodes_count - 1 /\ first \in Nat
  BY <1>1 DEF OneGroup
<1> HIDE DEF discr, sb, group, first
<1>5. ASSUME NEW i \in 1 .. sb.inodes_count
      PROVE  /\ i - 1 \in group.used =>
                  place(i) = [block |-> first + (i - 1) \div per, index |-> (i - 1) % per] /\ place(i) # NoPlace
             /\ i - 1 \notin group.used => place(i) = NoPlace
             /\ (i - 1) \div per \in Nat /\ (i - 1) \div per <= i - 1
             /\ i - 1 = ((i - 1) \div per) * per + ((i - 1) % per)
  <2>1. place(i) = IF i - 1 \in group.used
                   THEN [block |-> first + (i - 1) \div per, index |-> (i - 1) % per] ELSE NoPlace
    BY <1>1, <1>2, PlaceOfInode DEF first
  <2>2. [block |-> first + (i - 1) \div per, index |-> (i - 1) % per] # NoPlace
    <3>1. "index" \in DOMAIN [block |-> first + (i - 1) \div per, index |-> (i - 1) % per]
      OBVIOUS
    <3>2. "index" \notin DOMAIN NoPlace
      BY DEF NoPlace
    <3> QED
      BY <3>1, <3>2
  <2>3. i - 1 \in Nat
    BY <1>4
  <2> HIDE DEF per
  <2>4. /\ (i - 1) \div per \in Nat /\ (i - 1) \div per <= i - 1
        /\ i - 1 = ((i - 1) \div per) * per + ((i - 1) % per)
    BY <1>3, <2>3, Quotients
  <2> QED
    BY <2>1, <2>2, <2>4
<1> HIDE DEF place, per
<1>6. used = {g + 1 : g \in group.used}
  <2>1. \A i \in used : i - 1 \in group.used /\ i = (i - 1) + 1
    BY <1>4, <1>5
  <2>2. ASSUME NEW g \in group.used
        PROVE  g + 1 \in used
    <3>1. g \in 0 .. sb.inodes_count - 1
      BY <1>4
    <3>2. g + 1 \in 1 .. sb.inodes_count /\ (g + 1) - 1 = g
      BY <1>4, <3>1
    <3> QED
      BY <1>5, <3>2
  <2> HIDE DEF used
  <2> QED
    BY <2>1, <2>2
<1>7. ASSUME NEW i \in used, NEW j \in used, i # j
      PROVE  place(i) # place(j)
  <2>1. /\ i \in 1 .. sb.inodes_count /\ j \in 1 .. sb.inodes_count
        /\ i - 1 \in group.used /\ j - 1 \in group.used
    BY <1>5
  <2> SUFFICES ASSUME place(i) = place(j) PROVE FALSE
    OBVIOUS
  <2>2. /\ first + (i - 1) \div per = first + (j - 1) \div per
        /\ (i - 1) % per = (j - 1) % per
    <3>1. place(i).block = first + (i - 1) \div per /\ place(i).index = (i - 1) % per
      BY <1>5, <2>1
    <3>2. place(j).block = first + (j - 1) \div per /\ place(j).index = (j - 1) % per
      BY <1>5, <2>1
    <3> QED
      BY <3>1, <3>2
  <2>3. (i - 1) \div per \in Nat /\ (j - 1) \div per \in Nat
    BY <1>5, <2>1
  <2>4. (i - 1) \div per = (j - 1) \div per
    BY <1>4, <2>2, <2>3
  <2>5. i - 1 = j - 1
    BY <1>5, <2>1, <2>2, <2>4
  <2> QED
    BY <1>4, <1>7, <2>1, <2>5
<1>8. ASSUME NEW i \in used
      PROVE  place(i).block \in first .. first + sb.inodes_count - 1
  <2>1. i \in 1 .. sb.inodes_count /\ i - 1 \in group.used
    BY <1>5
  <2>2. place(i).block = first + (i - 1) \div per
    BY <1>5, <2>1
  <2>3. (i - 1) \div per \in Nat /\ (i - 1) \div per <= i - 1
    BY <1>5, <2>1
  <2> QED
    BY <1>4, <2>1, <2>2, <2>3
<1>9. /\ used = {g + 1 : g \in group.used}
      /\ \A i, j \in used : i # j => place(i) # place(j)
      /\ \A i \in used : place(i).block \in first .. first + sb.inodes_count - 1
  <2> HIDE DEF used
  <2> QED
    BY <1>6, <1>7, <1>8
<1> QED
  BY <1>9, Zenon DEF InodesApart, discr, sb, group, first, place

-----------------------------------------------------------------------------
(***************************************************************************)
(* Directories of ext2                                                     *)
(***************************************************************************)

\* Names as they are compared: without an end of a path component in them
PlainNames == Seq(Nat \ {0, Slash})

\* The character of a string at each place, up to its end.
LEMMA CharAt ==
    ASSUME NEW s \in PlainNames
    PROVE  /\ Len(s) \in Nat
           /\ \A j \in 1 .. Len(s) : At(s, j) = s[j] /\ ~is_end_chr(At(s, j))
           /\ is_end_chr(At(s, Len(s) + 1))
<1>1. Len(s) \in Nat
  BY DEF PlainNames
<1>2. \A j \in 1 .. Len(s) : s[j] \in Nat \ {0, Slash}
  BY DEF PlainNames
<1>3. Len(s) + 1 \notin 1 .. Len(s)
  BY <1>1
<1> QED
  BY <1>1, <1>2, <1>3 DEF At, is_end_chr

\* The character of a record's name at each place, and what follows it.
LEMMA CharOfRecord ==
    ASSUME NEW s \in PlainNames, NEW c \in Nat
    PROVE  /\ \A j \in 1 .. Len(s) : At(s \o <<c>>, j) = s[j] /\ ~is_end_chr(s[j])
           /\ At(s \o <<c>>, Len(s) + 1) = c
<1>1. Len(s) \in Nat /\ s \in Seq(Nat) /\ <<c>> \in Seq(Nat) /\ Len(<<c>>) = 1 /\ <<c>>[1] = c
  BY DEF PlainNames
<1>2. /\ Len(s \o <<c>>) = Len(s) + 1
      /\ \A j \in 1 .. Len(s) + 1 : (s \o <<c>>)[j] = IF j <= Len(s) THEN s[j] ELSE <<c>>[j - Len(s)]
  BY <1>1, ConcatProperties
<1>3. \A j \in 1 .. Len(s) : j \in 1 .. Len(s) + 1 /\ j <= Len(s)
  BY <1>1
<1>4. Len(s) + 1 \in 1 .. Len(s) + 1 /\ ~(Len(s) + 1 <= Len(s)) /\ Len(s) + 1 - Len(s) = 1
  BY <1>1
<1>5. At(s \o <<c>>, Len(s) + 1) = c
  BY <1>1, <1>2, <1>4 DEF At
<1>6. ASSUME NEW j \in 1 .. Len(s)
      PROVE  At(s \o <<c>>, j) = s[j]
  BY <1>2, <1>3 DEF At
<1> QED
  BY <1>5, <1>6, CharAt

\* A record is taken for a name if it has it, or if its name is the begin of it and no end
\* follows.
LEMMA NmatchMeans ==
    ASSUME NEW name \in PlainNames, NEW rec, rec.name \in PlainNames, rec.next \in Nat
    PROVE  namei_nmatch(name, rec.name \o <<rec.next>>, Len(rec.name))
             <=> (rec.name = name \/ TakenFor(rec, name))
<1> DEFINE s2 == rec.name \o <<rec.next>>
           L == Len(rec.name)
           N == Len(name)
           stop(j) == is_end_chr(At(name, j)) \/ is_end_chr(At(s2, j)) \/ j > L
           D == {j \in 1 .. N + 1 : stop(j) \/ At(name, j) # At(s2, j)}
           i == Min(D)
           match == /\ stop(i)
                    /\ \/ is_end_chr(At(name, i)) /\ i = L + 1
                       \/ is_end_chr(At(name, i)) = is_end_chr(At(s2, i))
<1>1. /\ L \in Nat /\ N \in Nat
      /\ \A j \in 1 .. N : At(name, j) = name[j] /\ ~is_end_chr(At(name, j))
      /\ is_end_chr(At(name, N + 1))
  BY CharAt
<1>2. /\ \A j \in 1 .. L : At(s2, j) = rec.name[j] /\ ~is_end_chr(At(s2, j))
      /\ At(s2, L + 1) = rec.next
  BY CharOfRecord
<1>3. namei_nmatch(name, s2, L) = match
  BY Zenon DEF namei_nmatch
<1> HIDE DEF s2, L, N
<1>4. i \in D /\ \A j \in D : i <= j
  <2>1. N + 1 \in D /\ D \in SUBSET Nat
    BY <1>1
  <2> HIDE DEF D
  <2>2. \E x \in D : \A y \in D : x <= y
    BY <2>1, LeastNat
  <2> QED
    BY <2>2 DEF Min
<1> HIDE DEF i
<1>5. i \in 1 .. N + 1 /\ (stop(i) \/ At(name, i) # At(s2, i))
  BY <1>4
<1>6. \A j \in 1 .. N + 1 : j < i => ~stop(j) /\ At(name, j) = At(s2, j)
  BY <1>1, <1>4, <1>5
<1>a. rec.name \in Seq(Nat) /\ name \in Seq(Nat) /\ Len(rec.name) = L /\ Len(name) = N
  BY DEF PlainNames, L, N
<1>7. ASSUME match
      PROVE  rec.name = name \/ TakenFor(rec, name)
  <2>1. ~(i <= L)
    <3> SUFFICES ASSUME i <= L PROVE FALSE
      OBVIOUS
    <3>1. i \in 1 .. L /\ ~is_end_chr(At(s2, i)) /\ ~(i > L) /\ i # L + 1
      BY <1>1, <1>2, <1>5
    <3> QED
      BY <1>7, <3>1
  <2>2. L + 1 \in 1 .. N + 1 /\ stop(L + 1)
    BY <1>1, <1>5, <2>1
  <2>3. i = L + 1
    <3>1. ~(L + 1 < i)
      BY <1>6, <2>2
    <3> QED
      BY <1>1, <1>5, <2>1, <3>1
  <2>4. \A j \in 1 .. L : name[j] = rec.name[j]
    <3> TAKE j \in 1 .. L
    <3>1. j \in 1 .. N + 1 /\ j < i /\ j \in 1 .. N
      BY <1>1, <2>2, <2>3
    <3> QED
      BY <1>1, <1>2, <1>6, <3>1
  <2>5. CASE L = N
    <3>1. Len(rec.name) = Len(name) /\ \A j \in 1 .. Len(rec.name) : rec.name[j] = name[j]
      BY <1>a, <2>4, <2>5
    <3>2. rec.name = name
      BY <1>a, <3>1, SeqEqual
    <3> QED
      BY <3>2
  <2>6. CASE L # N
    <3>1. L < N /\ i \in 1 .. N
      BY <1>1, <2>2, <2>3, <2>6
    <3>2. ~is_end_chr(At(name, i))
      BY <1>1, <3>1
    <3>3. ~is_end_chr(rec.next)
      BY <1>2, <1>7, <2>3, <3>2
    <3>4. SubSeq(name, 1, L) = rec.name
      <4>1. \A j \in 1 .. L : name[j] \in Nat
        BY <1>1, <1>a, <3>1
      <4>2. /\ SubSeq(name, 1, L) \in Seq(Nat) /\ Len(SubSeq(name, 1, L)) = IF 1 <= L THEN L - 1 + 1 ELSE 0
            /\ \A j \in 1 .. L - 1 + 1 : SubSeq(name, 1, L)[j] = name[1 + j - 1]
        BY <1>1, <4>1, SubSeqProperties
      <4>3. Len(SubSeq(name, 1, L)) = L /\ L - 1 + 1 = L /\ \A j \in 1 .. L : 1 + j - 1 = j
        BY <1>1, <4>2
      <4>4. \A j \in 1 .. L : SubSeq(name, 1, L)[j] = rec.name[j]
        BY <2>4, <4>2, <4>3
      <4> QED
        BY <1>a, <4>2, <4>3, <4>4
    <3> QED
      BY <1>a, <3>1, <3>3, <3>4 DEF TakenFor
  <2> QED
    BY <2>5, <2>6
<1>8. ASSUME L <= N, \A j \in 1 .. L : name[j] = rec.name[j]
      PROVE  i = L + 1
  <2>1. ~(i <= L)
    <3> SUFFICES ASSUME i <= L PROVE FALSE
      OBVIOUS
    <3>1. i \in 1 .. L /\ i \in 1 .. N /\ ~(i > L)
      BY <1>1, <1>5, <1>8
    <3>2. At(name, i) = At(s2, i) /\ ~is_end_chr(At(name, i)) /\ ~is_end_chr(At(s2, i))
      BY <1>1, <1>2, <1>8, <3>1
    <3> QED
      BY <1>5, <3>1, <3>2
  <2>2. L + 1 \in 1 .. N + 1 /\ stop(L + 1)
    BY <1>1, <1>8
  <2>3. ~(L + 1 < i)
    BY <1>6, <2>2
  <2> QED
    BY <1>1, <1>5, <2>1, <2>3
<1>9. ASSUME rec.name = name
      PROVE  match
  <2>1. L = N /\ \A j \in 1 .. L : name[j] = rec.name[j]
    BY <1>9 DEF L, N
  <2>2. i = L + 1
    BY <1>1, <1>8, <2>1
  <2>3. is_end_chr(At(name, i)) /\ i > L
    BY <1>1, <2>1, <2>2
  <2> QED
    BY <2>2, <2>3
<1>10. ASSUME TakenFor(rec, name)
       PROVE  match
  <2>1. L < N /\ SubSeq(name, 1, L) = rec.name /\ ~is_end_chr(rec.next)
    BY <1>10, <1>a DEF TakenFor
  <2>2. \A j \in 1 .. L : name[j] = rec.name[j]
    <3>1. \A j \in 1 .. L : name[j] \in Nat
      BY <1>1, <1>a, <2>1
    <3>2. \A j \in 1 .. L - 1 + 1 : SubSeq(name, 1, L)[j] = name[1 + j - 1]
      BY <1>1, <3>1, SubSeqProperties
    <3>3. L - 1 + 1 = L /\ \A j \in 1 .. L : 1 + j - 1 = j
      BY <1>1
    <3> QED
      BY <2>1, <3>2, <3>3
  <2>3. i = L + 1
    BY <1>1, <1>8, <2>1, <2>2
  <2>4. i > L /\ i \in 1 .. N
    BY <1>1, <2>1, <2>3
  <2>5. is_end_chr(At(name, i)) = FALSE /\ is_end_chr(At(s2, i)) = FALSE
    <3>1. ~is_end_chr(At(name, i)) /\ ~is_end_chr(At(s2, i))
      BY <1>1, <1>2, <2>1, <2>3, <2>4
    <3> QED
      BY <3>1 DEF is_end_chr
  <2> QED
    BY <2>4, <2>5
<1> QED
  BY <1>3, <1>7, <1>9, <1>10 DEF s2, L

\* Each record of a directory has a length, and a name that can be compared.
LEMMA RecordOf ==
    ASSUME NEW recs \in Seq(Records), NEW k \in 1 .. Len(recs)
    PROVE  recs[k].rec_len \in Nat \ {0} /\ recs[k].name \in PlainNames /\ recs[k].next \in Nat
<1>1. recs[k] \in Records
  OBVIOUS
<1> QED
  BY <1>1 DEF Records, PlainNames

\* Each record of a directory ends its length behind the one before it.
LEMMA EndsAdd ==
    ASSUME NEW recs \in Seq(Records)
    PROVE  /\ EndOf(recs, 0) = 0
           /\ \A k \in 0 .. Len(recs) : EndOf(recs, k) \in Nat
           /\ \A k \in 1 .. Len(recs) : EndOf(recs, k) = EndOf(recs, k - 1) + recs[k].rec_len
<1> DEFINE n == Len(recs)
           rec_len(k) == recs[k].rec_len
           G == [k \in 1 .. n |-> [x \in Nat |-> x + rec_len(k)]]
           Sums(f) == f = [k \in 0 .. n |-> IF k = 0 THEN 0 ELSE f[k - 1] + rec_len(k)]
           end == CHOOSE f : Sums(f)
<1>1. n \in Nat
  OBVIOUS
<1>2. \A k \in 1 .. n : rec_len(k) \in Nat
  BY RecordOf
<1>3. \A k : EndOf(recs, k) = end[k]
  BY Zenon DEF EndOf
<1> HIDE DEF n, rec_len
<1>4. PICK f \in [0 .. n -> Nat] : Iteration(f, n, 0, G)
  <2>1. G \in [1 .. n -> [Nat -> Nat]]
    BY <1>2
  <2> HIDE DEF G
  <2> QED
    BY <1>1, <2>1, IterationExists
<1>5. f[0] = 0 /\ \A k \in 1 .. n : f[k] = f[k - 1] + rec_len(k)
  <2>1. ASSUME NEW k \in 1 .. n
        PROVE  f[k] = f[k - 1] + rec_len(k)
    <3>1. k - 1 \in 0 .. n
      BY <1>1
    <3>2. f[k - 1] \in Nat
      BY <3>1
    <3>3. f[k] = G[k][f[k - 1]]
      BY <1>4 DEF Iteration
    <3> QED
      BY <3>2, <3>3
  <2> QED
    BY <1>4, <2>1 DEF Iteration
<1>6. Sums(f)
  <2>1. \A k \in 0 .. n : f[k] = IF k = 0 THEN 0 ELSE f[k - 1] + rec_len(k)
    BY <1>1, <1>5
  <2> QED
    BY <2>1
<1> HIDE DEF Sums
<1>7. Sums(end)
  BY <1>6, Zenon
<1>8. \A k \in 0 .. n : end[k] = f[k]
  <2> DEFINE Same == {k \in 0 .. n : end[k] = f[k]}
  <2>1. end = [k \in 0 .. n |-> IF k = 0 THEN 0 ELSE end[k - 1] + rec_len(k)]
    BY <1>7 DEF Sums
  <2> HIDE DEF end
  <2>2. \A k \in 0 .. n : end[k] = IF k = 0 THEN 0 ELSE end[k - 1] + rec_len(k)
    BY <2>1
  <2>3. 0 \in Same
    BY <1>1, <1>5, <2>2
  <2>4. \A k \in 1 .. n : k - 1 \in Same => k \in Same
    BY <1>1, <1>5, <2>2
  <2> HIDE DEF Same
  <2>5. \A k \in 0 .. n : k \in Same
    BY <1>1, <2>3, <2>4, UpTo
  <2> QED
    BY <2>5 DEF Same
<1> HIDE DEF end
<1>9. \A k \in 1 .. n : k \in 0 .. n /\ k - 1 \in 0 .. n
  BY <1>1
<1>10. 0 \in 0 .. n
  BY <1>1
<1>11. \A k \in 0 .. n : EndOf(recs, k) = f[k]
  BY <1>3, <1>8
<1>12. \A k \in 1 .. n : EndOf(recs, k) = EndOf(recs, k - 1) + rec_len(k)
  BY <1>5, <1>9, <1>11
<1> QED
  BY <1>5, <1>10, <1>11, <1>12 DEF n, rec_len

\* Each record ends behind the ones before it.
LEMMA EndsGrow ==
    ASSUME NEW recs \in Seq(Records), NEW j \in 0 .. Len(recs), NEW k \in 0 .. Len(recs), j <= k
    PROVE  /\ EndOf(recs, j) \in Nat /\ EndOf(recs, k) \in Nat /\ EndOf(recs, j) <= EndOf(recs, k)
           /\ j < k => EndOf(recs, j) < EndOf(recs, k)
<1> DEFINE n == Len(recs)
           E(i) == EndOf(recs, i)
           S == {i \in 0 .. n : i < j \/ (E(j) <= E(i) /\ (j < i => E(j) < E(i)))}
<1>1. n \in Nat /\ j \in 0 .. n /\ k \in 0 .. n
  OBVIOUS
<1>2. /\ \A i \in 0 .. n : E(i) \in Nat
      /\ \A i \in 1 .. n : E(i) = E(i - 1) + recs[i].rec_len
  BY EndsAdd
<1>3. \A i \in 1 .. n : recs[i].rec_len \in Nat \ {0}
  BY RecordOf
<1> HIDE DEF n, E
<1>4. 0 \in S
  BY <1>1, <1>2
<1>5. ASSUME NEW i \in 1 .. n, i - 1 \in S
      PROVE  i \in S
  <2>1. i \in 0 .. n /\ i - 1 \in 0 .. n /\ E(i) > E(i - 1) /\ E(i) \in Nat /\ E(i - 1) \in Nat /\ E(j) \in Nat
    <3>1. i \in 0 .. n /\ i - 1 \in 0 .. n
      BY <1>1
    <3>2. E(i) = E(i - 1) + recs[i].rec_len /\ recs[i].rec_len \in Nat /\ recs[i].rec_len > 0
      BY <1>2, <1>3
    <3>3. E(i) \in Nat /\ E(i - 1) \in Nat /\ E(j) \in Nat
      BY <1>1, <1>2, <3>1
    <3> QED
      BY <3>1, <3>2, <3>3
  <2>2. CASE i - 1 < j
    BY <1>1, <2>1, <2>2
  <2>3. CASE ~(i - 1 < j)
    BY <1>1, <1>5, <2>1, <2>3
  <2> QED
    BY <2>2, <2>3
<1> HIDE DEF S
<1>6. k \in S
  BY <1>1, <1>4, <1>5, UpTo
<1>7. E(j) \in Nat /\ E(k) \in Nat /\ E(j) <= E(k) /\ (j < k => E(j) < E(k))
  BY <1>1, <1>2, <1>6 DEF S
<1> QED
  BY <1>7 DEF E

\* Lengths c counted down from a size one after the other
CountsDown(n, c, size, g) ==
    g \in [0 .. n -> Int] /\ g[0] = size /\ \A k \in 1 .. n : g[k] = g[k - 1] - c[k]

\* Lengths can be counted down.
LEMMA CountDown ==
    ASSUME NEW n \in Nat, NEW c, \A k \in 1 .. n : c[k] \in Int, NEW size \in Int
    PROVE  \E g : CountsDown(n, c, size, g)
<1> DEFINE G == [k \in 1 .. n |-> [x \in Int |-> x - c[k]]]
<1>1. PICK g \in [0 .. n -> Int] : Iteration(g, n, size, G)
  <2>1. G \in [1 .. n -> [Int -> Int]]
    OBVIOUS
  <2> HIDE DEF G
  <2> QED
    BY <2>1, IterationExists
<1>2. ASSUME NEW k \in 1 .. n
      PROVE  g[k] = g[k - 1] - c[k]
  <2>1. k - 1 \in 0 .. n
    OBVIOUS
  <2>2. g[k] = G[k][g[k - 1]] /\ g[k - 1] \in Int
    BY <1>1, <2>1 DEF Iteration
  <2> QED
    BY <2>2
<1>3. g[0] = size
  BY <1>1 DEF Iteration
<1> QED
  BY <1>2, <1>3 DEF CountsDown

\* What is shown at the place of a record is a number long.
LEMMA ShownLength ==
    ASSUME NEW recs \in Seq(Records), NEW buf, NEW k \in 1 .. Len(recs)
    PROVE  RecordShown(recs, buf, k).rec_len \in Int /\ recs[k] # Junk
<1>1. recs[k] \in Records
  OBVIOUS
<1>2. recs[k].rec_len \in Int /\ recs[k].inode # -1
  <2>1. recs[k].rec_len \in Nat /\ recs[k].inode \in Nat
    BY <1>1 DEF Records
  <2> QED
    BY <2>1
<1>3. RecordShown(recs, buf, k) \in {Junk, Zeros, recs[k]}
  BY Zenon DEF RecordShown
<1>4. Junk.rec_len \in Int /\ Zeros.rec_len \in Int /\ Junk.inode = -1
  BY DEF Junk, Zeros, Untouched
<1> QED
  BY <1>2, <1>3, <1>4

\* The buffer shows the first m records, and next behind them if they are not all.
ShowsFirst(recs, buf, m, next) ==
    /\ m \in 1 .. Len(recs) /\ next \in {Zeros, Junk}
    /\ \A k \in 1 .. m : RecordShown(recs, buf, k) = recs[k]
    /\ m < Len(recs) => RecordShown(recs, buf, m + 1) = next

\* Reading the directory shows its first m records and next behind them.
DirReads(disk, dir, recs, m, next) ==
    LET r == ext2_read(disk, dir, 0, dir.size, dir.size)
    IN recs \in Seq(Records) /\ dir.size = SizeOf(recs) /\ r.ret \in Nat \ {0} /\ ShowsFirst(recs, r.buf, m, next)

\* What readdir then answers for an index
ReaddirSays(disk, dir, recs, index, m, next) ==
    ext2_readdir(disk, dir, recs, index) =
      IF index < m
      THEN IF recs[index + 1].inode = 0 THEN NoEntry
           ELSE [ino |-> recs[index + 1].inode, name |-> recs[index + 1].name]
      ELSE IF m = Len(recs) \/ next = Zeros THEN NoEntry ELSE WildEntry

\* Reading a directory record by record answers those that the buffer shows, and then the
\* end or junk.
LEMMA ReaddirRight ==
    ASSUME NEW disk, NEW dir, NEW recs, NEW m, NEW next, DirReads(disk, dir, recs, m, next),
           NEW index \in 0 .. Len(recs)
    PROVE  ReaddirSays(disk, dir, recs, index, m, next)
<1> SUFFICES ext2_readdir(disk, dir, recs, index) =
               IF index < m
               THEN IF recs[index + 1].inode = 0 THEN NoEntry
                    ELSE [ino |-> recs[index + 1].inode, name |-> recs[index + 1].name]
               ELSE IF m = Len(recs) \/ next = Zeros THEN NoEntry ELSE WildEntry
  BY Zenon DEF ReaddirSays
<1> DEFINE n == Len(recs)
           q == ext2_read(disk, dir, 0, dir.size, dir.size)
           ent(k) == RecordShown(recs, q.buf, k)
           Counts(f) == f = [k \in 0 .. n |-> IF k = 0 THEN dir.size ELSE f[k - 1] - ent(k).rec_len]
           left == CHOOSE f : Counts(f)
           passed(k) == k <= n /\ ent(k) # Junk /\ left[k] > 0 /\ ent(k).rec_len # 0
           reached(k) == \A j \in 1 .. k - 1 : passed(j)
           wild == \E k \in 1 .. n : k <= index + 1 /\ reached(k) /\ ent(k) = Junk
           E(k) == EndOf(recs, k)
           answer == ext2_readdir(disk, dir, recs, index)
<1>0. recs \in Seq(Records) /\ dir.size = SizeOf(recs) /\ q.ret \in Nat \ {0} /\ ShowsFirst(recs, q.buf, m, next)
  BY Zenon DEF DirReads
<1>1. answer = CASE q.ret <= 0 -> ReadFailed(q.ret)
                 [] q.ret > 0 /\ wild -> WildEntry
                 [] OTHER -> IF ~reached(index + 1) \/ ent(index + 1).inode = 0 THEN NoEntry
                             ELSE [ino |-> ent(index + 1).inode, name |-> ent(index + 1).name]
  BY Zenon DEF ext2_readdir
<1>2. n \in Nat /\ m \in 1 .. n /\ index \in 0 .. n
  BY <1>0 DEF ShowsFirst
<1>3. /\ next \in {Zeros, Junk}
      /\ \A k \in 1 .. m : ent(k) = recs[k]
      /\ m < n => ent(m + 1) = next
  BY <1>0, Zenon DEF ShowsFirst
<1>4. \A k \in 1 .. n : ent(k).rec_len \in Int /\ recs[k] # Junk
  BY <1>0, ShownLength
<1>5. \A k \in 1 .. n : recs[k].rec_len \in Nat \ {0}
  BY <1>0, RecordOf
<1>6. dir.size = E(n) /\ E(0) = 0 /\ (\A k \in 0 .. n : E(k) \in Nat)
        /\ (\A k \in 1 .. n : E(k) = E(k - 1) + recs[k].rec_len)
  BY <1>0, EndsAdd DEF SizeOf
<1>7. \A k \in 0 .. n : k < n => E(k) < E(n)
  <2>1. n \in 0 .. n /\ \A k \in 0 .. n : k <= n
    BY <1>2
  <2> QED
    BY <1>0, <2>1, EndsGrow
<1>8. q.ret > 0 /\ ~(q.ret <= 0)
  BY <1>0
<1>9. Zeros # Junk /\ Zeros.rec_len = 0
  BY DEF Zeros, Junk, Untouched
<1> HIDE DEF n, q, ent, E, answer
<1>10. Counts(left)
  <2> DEFINE c == [k \in 1 .. n |-> ent(k).rec_len]
  <2>1. c \in [1 .. n -> Int] /\ dir.size \in Int
    <3>1. n \in 0 .. n
      BY <1>2
    <3> QED
      BY <1>4, <1>6, <3>1
  <2>2. PICK g : CountsDown(n, c, dir.size, g)
    <3>1. \A k \in 1 .. n : c[k] \in Int
      BY <2>1
    <3> HIDE DEF c
    <3> QED
      BY <1>2, <2>1, <3>1, CountDown
  <2>3. \A k \in 0 .. n : g[k] = IF k = 0 THEN dir.size ELSE g[k - 1] - ent(k).rec_len
    <3> TAKE k \in 0 .. n
    <3>1. CASE k = 0
      BY <2>2, <3>1 DEF CountsDown
    <3>2. CASE k # 0
      <4>1. k \in 1 .. n
        BY <1>2, <3>2
      <4>2. c[k] = ent(k).rec_len /\ g[k] = g[k - 1] - c[k]
        BY <2>2, <4>1 DEF CountsDown
      <4> QED
        BY <3>2, <4>2
    <3> QED
      BY <3>1, <3>2
  <2>4. Counts(g)
    <3>1. g \in [0 .. n -> Int]
      BY <2>2, Zenon DEF CountsDown
    <3>2. g = [k \in 0 .. n |-> g[k]]
      BY <3>1
    <3> HIDE DEF c
    <3> QED
      BY <2>3, <3>2
  <2> QED
    BY <2>4, Zenon
<1>11. \A k \in 0 .. m : left[k] = E(n) - E(k)
  <2> DEFINE Same == {k \in 0 .. m : left[k] = E(n) - E(k)}
  <2>1. left = [k \in 0 .. n |-> IF k = 0 THEN dir.size ELSE left[k - 1] - ent(k).rec_len]
    BY <1>10
  <2> HIDE DEF left
  <2>2. \A k \in 0 .. n : left[k] = IF k = 0 THEN dir.size ELSE left[k - 1] - ent(k).rec_len
    BY <2>1
  <2>3. 0 \in Same
    <3>1. 0 \in 0 .. n /\ 0 \in 0 .. m /\ n \in 0 .. n
      BY <1>2
    <3> QED
      BY <1>6, <2>2, <3>1
  <2>4. ASSUME NEW k \in 1 .. m, k - 1 \in Same
        PROVE  k \in Same
    <3>1. k \in 0 .. n /\ k \in 1 .. n /\ k \in 0 .. m /\ k # 0 /\ k - 1 \in 0 .. n /\ n \in 0 .. n
      BY <1>2
    <3>2. left[k] = (E(n) - E(k - 1)) - recs[k].rec_len
      BY <1>3, <2>2, <2>4, <3>1
    <3>3. /\ E(k) = E(k - 1) + recs[k].rec_len
          /\ E(k) \in Nat /\ E(k - 1) \in Nat /\ recs[k].rec_len \in Nat /\ E(n) \in Nat
      BY <1>5, <1>6, <3>1
    <3> DEFINE x == E(k - 1)
               w == recs[k].rec_len
    <3>a. left[k] = (E(n) - x) - w /\ E(k) = x + w /\ x \in Nat /\ w \in Nat /\ E(n) \in Nat
      BY <3>2, <3>3, Zenon
    <3> HIDE DEF x, w
    <3>4. left[k] = E(n) - E(k)
      BY <3>a
    <3> QED
      BY <3>1, <3>4
  <2> HIDE DEF Same
  <2>5. m \in Nat
    BY <1>2
  <2>6. \A k \in 0 .. m : k \in Same
    BY <2>3, <2>4, <2>5, UpTo
  <2> QED
    BY <2>6 DEF Same
<1> HIDE DEF left
<1>12. \A k \in 1 .. m : k < n => passed(k)
  <2> TAKE k \in 1 .. m
  <2> HAVE k < n
  <2>1. k \in 0 .. m /\ k \in 1 .. n /\ k \in 0 .. n /\ n \in 0 .. n
    BY <1>2
  <2>2. left[k] > 0
    <3>1. left[k] = E(n) - E(k) /\ E(k) < E(n) /\ E(k) \in Nat /\ E(n) \in Nat
      BY <1>6, <1>7, <1>11, <2>1
    <3> QED
      BY <3>1
  <2>3. ent(k) # Junk /\ ent(k).rec_len # 0
    <3>1. ent(k) = recs[k] /\ recs[k] # Junk
      BY <1>3, <1>4, <2>1, Zenon
    <3>2. recs[k].rec_len # 0
      BY <1>5, <2>1
    <3> QED
      BY <3>1, <3>2, Zenon
  <2>4. k <= n
    BY <2>1
  <2> QED
    BY <2>2, <2>3, <2>4, Zenon
<1>13. m = n => ~passed(n)
  <2> HAVE m = n
  <2>1. n \in 0 .. m /\ n \in 0 .. n
    BY <1>2
  <2>2. left[n] = 0
    <3>1. left[n] = E(n) - E(n) /\ E(n) \in Nat
      BY <1>6, <1>11, <2>1
    <3> QED
      BY <3>1
  <2> QED
    BY <2>2
<1>14. m < n => ~passed(m + 1)
  BY <1>3, <1>9
<1> HIDE DEF passed
<1>15. \A k \in 1 .. n + 1 : reached(k) <=> k <= m + 1 /\ k <= n
  <2> TAKE k \in 1 .. n + 1
  <2>1. CASE k <= m + 1 /\ k <= n
    <3>1. \A j \in 1 .. k - 1 : j \in 1 .. m /\ j < n
      BY <1>2, <2>1
    <3> QED
      BY <1>12, <2>1, <3>1
  <2>2. CASE ~(k <= m + 1) /\ m < n
    <3>1. m + 1 \in 1 .. k - 1
      BY <1>2, <2>2
    <3> QED
      BY <1>14, <2>2, <3>1
  <2>3. CASE m = n /\ ~(k <= n)
    <3>1. n \in 1 .. k - 1
      BY <1>2, <2>3
    <3> QED
      BY <1>13, <2>3, <3>1
  <2> QED
    BY <1>2, <2>1, <2>2, <2>3
<1> HIDE DEF reached
<1>16. wild <=> m < n /\ next = Junk /\ ~(index < m)
  <2>1. ASSUME wild
        PROVE  m < n /\ next = Junk /\ ~(index < m)
    <3>1. PICK k \in 1 .. n : k <= index + 1 /\ reached(k) /\ ent(k) = Junk
      BY <2>1
    <3>2. k \in 1 .. n + 1 /\ k <= m + 1
      BY <1>2, <1>15, <3>1
    <3>3. ~(k \in 1 .. m)
      BY <1>2, <1>3, <1>4, <3>1
    <3>4. k = m + 1 /\ m < n
      BY <1>2, <3>1, <3>2, <3>3
    <3>5. next = Junk
      BY <1>3, <3>1, <3>4
    <3> QED
      BY <1>2, <3>1, <3>4, <3>5
  <2>2. ASSUME m < n, next = Junk, ~(index < m)
        PROVE  wild
    <3>1. m + 1 \in 1 .. n /\ m + 1 \in 1 .. n + 1 /\ m + 1 <= index + 1 /\ m + 1 <= m + 1 /\ m + 1 <= n
      BY <1>2, <2>2
    <3>2. reached(m + 1) /\ ent(m + 1) = Junk
      BY <1>3, <1>15, <2>2, <3>1
    <3> QED
      BY <3>1, <3>2
  <2> QED
    BY <2>1, <2>2
<1> HIDE DEF wild
<1>17. answer = IF wild THEN WildEntry
                ELSE IF ~reached(index + 1) \/ ent(index + 1).inode = 0 THEN NoEntry
                ELSE [ino |-> ent(index + 1).inode, name |-> ent(index + 1).name]
  BY <1>1, <1>8
<1>18. index + 1 \in 1 .. n + 1
  BY <1>2
<1>19. CASE index < m
  <2>1. index + 1 \in 1 .. m /\ index + 1 <= m + 1 /\ index + 1 <= n
    BY <1>2, <1>19
  <2>2. ~wild /\ reached(index + 1) /\ ent(index + 1) = recs[index + 1]
    BY <1>3, <1>15, <1>16, <1>18, <1>19, <2>1
  <2> QED
    BY <1>17, <1>19, <2>2 DEF answer
<1>20. CASE ~(index < m) /\ (m = n \/ next = Zeros)
  <2>1. ~wild
    BY <1>2, <1>9, <1>16, <1>20
  <2>2. reached(index + 1) => ent(index + 1).inode = 0
    <3> HAVE reached(index + 1)
    <3>1. index + 1 <= m + 1 /\ index + 1 <= n
      BY <1>15, <1>18
    <3>2. index = m /\ m < n
      BY <1>2, <1>20, <3>1
    <3>3. ent(m + 1) = Zeros
      BY <1>2, <1>3, <1>20, <3>2
    <3> QED
      BY <3>2, <3>3 DEF Zeros
  <2>3. answer = NoEntry
    BY <1>17, <2>1, <2>2
  <2> QED
    BY <1>20, <2>3 DEF answer, n
<1>21. CASE ~(index < m) /\ ~(m = n \/ next = Zeros)
  <2>1. m < n /\ next = Junk
    BY <1>2, <1>3, <1>21
  <2>2. answer = WildEntry
    BY <1>16, <1>17, <1>21, <2>1
  <2> QED
    BY <1>21, <2>2 DEF answer, n
<1> QED
  BY <1>19, <1>20, <1>21

\* The records among the first m that the search takes for a name
Matching(recs, name, m) ==
    {k \in 1 .. m : namei_nmatch(name, recs[k].name \o <<recs[k].next>>, Len(recs[k].name))}

\* What a search then answers
LookupSays(disk, dir, recs, name, beyond, m, next) ==
    LET found == ext2_lookup(disk, dir, recs, name, beyond) IN
    /\ \A k \in Matching(recs, name, m) :
         (\A j \in Matching(recs, name, m) : k <= j) => found = recs[k].inode
    /\ Matching(recs, name, m) = {} =>
         found = IF m = Len(recs) THEN (IF beyond < recs[1].rec_len THEN Wild ELSE 0)
                 ELSE IF next = Zeros THEN 0 ELSE Wild

\* The search reaches every record that the buffer shows up to the first one it takes, and
\* if it takes none what is behind them: the end of a hole, junk, or what lies behind the
\* directory if that looks shorter than the first record.
LEMMA LookupAnswer ==
    ASSUME NEW disk, NEW dir, NEW recs, NEW m, NEW next, DirReads(disk, dir, recs, m, next),
           NEW name, NEW beyond \in Nat
    PROVE  LookupSays(disk, dir, recs, name, beyond, m, next)
<1> DEFINE n == Len(recs)
           q == ext2_read(disk, dir, 0, dir.size, dir.size)
           ent(k) == RecordShown(recs, q.buf, k)
           rec_len(k) == IF k <= n THEN ent(k).rec_len ELSE beyond
           Counts(f) == f = [k \in 0 .. n |-> IF k = 0 THEN dir.size ELSE f[k - 1] - rec_len(k + 1)]
           left == CHOOSE f : Counts(f)
           taken(e) == namei_nmatch(name, e.name \o <<e.next>>, Len(e.name))
           matches(k) == namei_nmatch(name, ent(k).name \o <<ent(k).next>>, Len(ent(k).name))
           passed(k) == left[k - 1] > 0 /\ ent(k) # Junk /\ ~matches(k) /\ ent(k).rec_len # 0
           reached(k) == \A j \in 1 .. k - 1 : passed(j)
           hits == {k \in 1 .. n : reached(k) /\ left[k - 1] > 0 /\ ent(k) # Junk /\ matches(k)}
           strays == (reached(n + 1) /\ left[n] > 0) \/ (\E k \in 1 .. n : reached(k) /\ ent(k) = Junk)
           M == Matching(recs, name, m)
           E(k) == EndOf(recs, k)
           found == ext2_lookup(disk, dir, recs, name, beyond)
<1>0. recs \in Seq(Records) /\ dir.size = SizeOf(recs) /\ q.ret \in Nat \ {0} /\ ShowsFirst(recs, q.buf, m, next)
  BY Zenon DEF DirReads
<1>1. found = CASE q.ret <= 0 -> 0
                [] q.ret > 0 /\ hits # {} -> ent(CHOOSE k \in hits : TRUE).inode
                [] OTHER -> IF strays THEN Wild ELSE 0
  BY Zenon DEF ext2_lookup
<1>2. n \in Nat /\ n >= 1 /\ m \in 1 .. n
  <2>1. m \in 1 .. n /\ n \in Nat
    BY <1>0 DEF ShowsFirst
  <2> HIDE DEF n
  <2> QED
    BY <2>1
<1>3. /\ next \in {Zeros, Junk}
      /\ \A k \in 1 .. m : ent(k) = recs[k]
      /\ m < n => ent(m + 1) = next
  BY <1>0, Zenon DEF ShowsFirst
<1>4. \A k \in 1 .. n : ent(k).rec_len \in Int /\ recs[k] # Junk
  BY <1>0, ShownLength
<1>5. \A k \in 1 .. n : recs[k].rec_len \in Nat \ {0}
  BY <1>0, RecordOf
<1>6. dir.size = E(n) /\ E(0) = 0 /\ (\A k \in 0 .. n : E(k) \in Nat)
        /\ (\A k \in 1 .. n : E(k) = E(k - 1) + recs[k].rec_len)
  BY <1>0, EndsAdd DEF SizeOf
<1>7. \A k \in 0 .. n : E(k) <= E(n)
  <2>1. n \in 0 .. n /\ \A k \in 0 .. n : k <= n
    BY <1>2
  <2> QED
    BY <1>0, <2>1, EndsGrow
<1>8. M = {k \in 1 .. m : taken(recs[k])}
  BY Zenon DEF Matching
<1>9. Zeros # Junk /\ Zeros.rec_len = 0 /\ Zeros.inode = 0
  BY DEF Zeros, Junk, Untouched
<1>10. \A k : matches(k) <=> taken(ent(k))
  OBVIOUS
<1>11. q.ret > 0 /\ ~(q.ret <= 0)
  BY <1>0
<1> HIDE DEF n, q, ent, E, found, M, matches, taken
<1>12. \A k \in 1 .. m : matches(k) <=> k \in M
  BY <1>3, <1>8, <1>10
<1>13. \A k \in 1 .. m : rec_len(k) = recs[k].rec_len
  <2> TAKE k \in 1 .. m
  <2>1. k <= n /\ ent(k) = recs[k]
    BY <1>2, <1>3
  <2> QED
    BY <2>1
<1>14. rec_len(n + 1) = beyond /\ \A k \in 1 .. n + 1 : rec_len(k) \in Int
  <2>1. ~(n + 1 <= n) /\ \A k \in 1 .. n + 1 : k <= n => k \in 1 .. n
    BY <1>2
  <2> QED
    BY <1>4, <2>1
<1> HIDE DEF rec_len
<1>15. Counts(left)
  <2> DEFINE c == [k \in 1 .. n |-> rec_len(k + 1)]
  <2>1. c \in [1 .. n -> Int] /\ dir.size \in Int
    <3>1. n \in 0 .. n /\ \A k \in 1 .. n : k + 1 \in 1 .. n + 1
      BY <1>2
    <3> QED
      BY <1>6, <1>14, <3>1
  <2>2. PICK g : CountsDown(n, c, dir.size, g)
    <3>1. \A k \in 1 .. n : c[k] \in Int
      BY <2>1
    <3> HIDE DEF c
    <3> QED
      BY <1>2, <2>1, <3>1, CountDown
  <2>3. \A k \in 0 .. n : g[k] = IF k = 0 THEN dir.size ELSE g[k - 1] - rec_len(k + 1)
    <3> TAKE k \in 0 .. n
    <3>1. CASE k = 0
      BY <2>2, <3>1 DEF CountsDown
    <3>2. CASE k # 0
      <4>1. k \in 1 .. n
        BY <1>2, <3>2
      <4>2. c[k] = rec_len(k + 1) /\ g[k] = g[k - 1] - c[k]
        BY <2>2, <4>1 DEF CountsDown
      <4> QED
        BY <3>2, <4>2
    <3> QED
      BY <3>1, <3>2
  <2>4. Counts(g)
    <3>1. g \in [0 .. n -> Int]
      BY <2>2, Zenon DEF CountsDown
    <3>2. g = [k \in 0 .. n |-> g[k]]
      BY <3>1
    <3> HIDE DEF c
    <3> QED
      BY <2>3, <3>2
  <2> QED
    BY <2>4, Zenon
<1>16. \A k \in 0 .. n : left[k] = IF k = 0 THEN dir.size ELSE left[k - 1] - rec_len(k + 1)
  <2>1. left = [k \in 0 .. n |-> IF k = 0 THEN dir.size ELSE left[k - 1] - rec_len(k + 1)]
    BY <1>15
  <2> HIDE DEF left
  <2> QED
    BY <2>1
<1> HIDE DEF left
<1>17. E(1) = recs[1].rec_len /\ E(1) \in Nat \ {0} /\ E(n) \in Nat
  <2>1. 1 \in 1 .. n /\ 1 - 1 = 0 /\ n \in 0 .. n
    BY <1>2
  <2>2. recs[1].rec_len \in Nat \ {0} /\ E(1) = 0 + recs[1].rec_len
    BY <1>5, <1>6, <2>1
  <2> QED
    BY <1>6, <2>1, <2>2
<1>18. \A k \in 0 .. m - 1 : left[k] = (E(n) - E(k + 1)) + E(1)
  <2> DEFINE Same == {k \in 0 .. m - 1 : left[k] = (E(n) - E(k + 1)) + E(1)}
  <2>1. 0 \in Same
    <3>1. 0 \in 0 .. n /\ 0 \in 0 .. m - 1 /\ 0 + 1 = 1
      BY <1>2
    <3>2. left[0] = E(n)
      BY <1>6, <1>16, <3>1
    <3> QED
      BY <1>17, <3>1, <3>2
  <2>2. ASSUME NEW k \in 1 .. m - 1, k - 1 \in Same
        PROVE  k \in Same
    <3>1. k \in 0 .. n /\ k \in 0 .. m - 1 /\ k # 0 /\ k + 1 \in 1 .. m /\ k + 1 \in 1 .. n /\ (k - 1) + 1 = k
            /\ (k + 1) - 1 = k
      BY <1>2
    <3>2. left[k] = left[k - 1] - recs[k + 1].rec_len
      BY <1>13, <1>16, <3>1
    <3>3. left[k - 1] = (E(n) - E(k)) + E(1)
      BY <2>2, <3>1
    <3>4. E(k + 1) = E(k) + recs[k + 1].rec_len /\ E(k) \in Nat /\ recs[k + 1].rec_len \in Nat
      <4>1. E(k + 1) = E((k + 1) - 1) + recs[k + 1].rec_len
        BY <1>6, <3>1
      <4> QED
        BY <1>5, <1>6, <3>1, <4>1
    <3>5. left[k] = (E(n) - E(k + 1)) + E(1)
      BY <1>17, <3>2, <3>3, <3>4
    <3> QED
      BY <3>1, <3>5
  <2> HIDE DEF Same
  <2>3. m - 1 \in Nat
    BY <1>2
  <2>4. \A k \in 0 .. m - 1 : k \in Same
    BY <2>1, <2>2, <2>3, UpTo
  <2> QED
    BY <2>4 DEF Same
<1>19. \A k \in 1 .. m : left[k - 1] > 0 /\ ent(k) # Junk /\ ent(k).rec_len # 0
  <2> TAKE k \in 1 .. m
  <2>1. k - 1 \in 0 .. m - 1 /\ (k - 1) + 1 = k /\ k \in 0 .. n /\ k \in 1 .. n
    BY <1>2
  <2>2. left[k - 1] = (E(n) - E(k)) + E(1)
    BY <1>18, <2>1
  <2>3. E(k) \in Nat /\ E(k) <= E(n)
    BY <1>6, <1>7, <2>1
  <2>4. left[k - 1] > 0
    BY <1>17, <2>2, <2>3
  <2>5. ent(k) = recs[k] /\ recs[k] # Junk /\ recs[k].rec_len # 0
    BY <1>3, <1>4, <1>5, <2>1
  <2> QED
    BY <2>4, <2>5
<1>20. m = n => left[n] = E(1) - beyond
  <2> HAVE m = n
  <2>1. n - 1 \in 0 .. m - 1 /\ (n - 1) + 1 = n /\ n \in 0 .. n /\ n # 0
    BY <1>2
  <2>2. left[n - 1] = (E(n) - E(n)) + E(1)
    BY <1>18, <2>1
  <2>3. left[n] = left[n - 1] - beyond
    BY <1>14, <1>16, <2>1
  <2> QED
    BY <1>17, <2>2, <2>3
<1>21. /\ \A k \in 1 .. m : passed(k) <=> k \notin M
       /\ m < n => ~passed(m + 1)
  <2>1. \A k \in 1 .. m : passed(k) <=> k \notin M
    BY <1>12, <1>19
  <2>2. m < n => ~passed(m + 1)
    BY <1>3, <1>9
  <2> QED
    BY <2>1, <2>2
<1> HIDE DEF passed
<1>22. \A k \in 1 .. m + 1 : reached(k) <=> \A j \in 1 .. k - 1 : j \notin M
  <2> TAKE k \in 1 .. m + 1
  <2>1. \A j \in 1 .. k - 1 : j \in 1 .. m
    BY <1>2
  <2> QED
    BY <1>21, <2>1
<1>23. \A k \in 1 .. n + 1 : reached(k) => k <= m + 1
  <2> TAKE k \in 1 .. n + 1
  <2> HAVE reached(k)
  <2> SUFFICES ASSUME ~(k <= m + 1) PROVE FALSE
    OBVIOUS
  <2>1. m + 1 \in 1 .. k - 1 /\ m < n
    BY <1>2
  <2> QED
    BY <1>21, <2>1
<1> HIDE DEF reached
<1>24. M \subseteq 1 .. m
  BY <1>8
<1>25. \A k \in 1 .. m : k \in hits <=> k \in M /\ \A j \in 1 .. k - 1 : j \notin M
  <2> TAKE k \in 1 .. m
  <2>1. k \in 1 .. n /\ k \in 1 .. m + 1
    BY <1>2
  <2> QED
    BY <1>12, <1>19, <1>22, <2>1
<1>26. \A k \in hits : k \in 1 .. n /\ reached(k) /\ ent(k) # Junk /\ (k \in 1 .. m \/ (k = m + 1 /\ m < n))
  <2> TAKE k \in hits
  <2>1. k \in 1 .. n /\ reached(k) /\ ent(k) # Junk
    OBVIOUS
  <2>2. k \in 1 .. n + 1
    BY <1>2, <2>1
  <2>3. k <= m + 1
    BY <1>23, <2>1, <2>2
  <2> QED
    BY <1>2, <2>1, <2>3
<1> HIDE DEF hits
<1>27. ASSUME NEW k \in M, \A j \in M : k <= j
       PROVE  found = recs[k].inode
  <2>1. k \in 1 .. m /\ k \in 1 .. m + 1 /\ k \in Int
    BY <1>2, <1>24
  <2>2. \A j \in 1 .. k - 1 : j \notin M
    <3> TAKE j \in 1 .. k - 1
    <3>1. ~(k <= j)
      BY <2>1
    <3> QED
      BY <1>27, <3>1
  <2>3. k \in hits
    BY <1>25, <2>1, <2>2
  <2>4. ASSUME NEW i \in hits
        PROVE  i = k
    <3>1. CASE i \in 1 .. m
      <4>1. i \in M /\ \A j \in 1 .. i - 1 : j \notin M
        BY <1>25, <3>1
      <4>2. k <= i /\ ~(k \in 1 .. i - 1)
        BY <1>27, <4>1
      <4> QED
        BY <2>1, <3>1, <4>2
    <3>2. CASE i = m + 1
      <4>1. i \in 1 .. m + 1 /\ k \in 1 .. i - 1 /\ reached(i)
        BY <1>2, <1>26, <2>1, <3>2
      <4> QED
        BY <1>22, <4>1
    <3> QED
      BY <1>26, <3>1, <3>2
  <2>5. (CHOOSE i \in hits : TRUE) = k
    BY <2>3, <2>4
  <2>6. found = ent(k).inode
    BY <1>1, <1>11, <2>3, <2>5
  <2> QED
    BY <1>3, <2>1, <2>6
<1>28. ASSUME M = {}
       PROVE  found = IF m = n THEN (IF beyond < recs[1].rec_len THEN Wild ELSE 0)
                      ELSE IF next = Zeros THEN 0 ELSE Wild
  <2>1. \A k \in hits : k = m + 1 /\ m < n /\ ent(k) # Junk
    BY <1>25, <1>26, <1>28
  <2>2. reached(m + 1)
    <3>1. m + 1 \in 1 .. m + 1
      BY <1>2
    <3> QED
      BY <1>22, <1>28, <3>1
  <2>3. \A k \in 1 .. n : reached(k) /\ ent(k) = Junk => k = m + 1 /\ m < n
    <3> TAKE k \in 1 .. n
    <3> HAVE reached(k) /\ ent(k) = Junk
    <3>1. k \in 1 .. n + 1 /\ k <= m + 1
      BY <1>2, <1>23
    <3>2. ~(k \in 1 .. m)
      BY <1>19
    <3> QED
      BY <1>2, <3>1, <3>2
  <2>4. CASE m = n
    <3>1. hits = {}
      BY <1>2, <2>1, <2>4
    <3>2. strays <=> left[n] > 0
      BY <1>2, <2>2, <2>3, <2>4
    <3>3. left[n] > 0 <=> beyond < recs[1].rec_len
      BY <1>17, <1>20, <2>4
    <3> HIDE DEF strays
    <3> QED
      BY <1>1, <1>11, <2>4, <3>1, <3>2, <3>3
  <2>5. CASE m # n /\ next = Zeros
    <3>1. m < n /\ ent(m + 1) = Zeros
      BY <1>2, <1>3, <2>5
    <3>2. ~strays
      <4>1. ~reached(n + 1)
        <5>1. n + 1 \in 1 .. n + 1 /\ ~(n + 1 <= m + 1)
          BY <1>2, <3>1
        <5> QED
          BY <1>23, <5>1
      <4>2. ~ \E k \in 1 .. n : reached(k) /\ ent(k) = Junk
        BY <1>9, <2>3, <3>1
      <4> QED
        BY <4>1, <4>2
    <3>3. hits # {} => ent(CHOOSE k \in hits : TRUE).inode = 0
      <4> HAVE hits # {}
      <4>1. (CHOOSE k \in hits : TRUE) \in hits
        OBVIOUS
      <4>2. (CHOOSE k \in hits : TRUE) = m + 1
        BY <2>1, <4>1
      <4> QED
        BY <1>9, <3>1, <4>2
    <3> HIDE DEF strays
    <3>4. found = 0
      BY <1>1, <1>11, <3>2, <3>3
    <3> QED
      BY <2>5, <3>4
  <2>6. CASE m # n /\ next # Zeros
    <3>1. m < n /\ ent(m + 1) = Junk /\ m + 1 \in 1 .. n
      BY <1>2, <1>3, <2>6
    <3>2. hits = {}
      BY <2>1, <3>1
    <3>3. strays
      BY <2>2, <3>1
    <3> HIDE DEF strays
    <3>4. found = Wild
      BY <1>1, <1>11, <3>2, <3>3
    <3> QED
      BY <2>6, <3>4
  <2> QED
    BY <2>4, <2>5, <2>6
<1> QED
  BY <1>27, <1>28, Zenon DEF M, found, n, LookupSays

\* The number of the last block of a directory, and that of the block each record begins in
LastBlock(dir) == dir.size \div BlockSize - 1
BlockOf(recs, k) == EndOf(recs, k - 1) \div BlockSize

\* The records in direct blocks, of which the last of two or more is not copied
Told(dir, recs) ==
    {k \in 1 .. Len(recs) : BlockOf(recs, k) < NDirBlocks /\ (BlockOf(recs, k) < LastBlock(dir) \/ BlockOf(recs, k) = 0)}

\* Some block of a directory is not on the disk.
Missing(disk, dir) == \E b \in 0 .. LastBlock(dir) : file_ext2_block(dir, b) \notin DOMAIN disk \cup {0}

\* A directory is some whole blocks long, and reading it reads all of them.
LEMMA DirectoryBlocks ==
    ASSUME NEW disk, NEW dir, NEW recs, Holds(disk, dir, recs)
    PROVE  /\ dir.size \in Nat \ {0} /\ LastBlock(dir) \in Nat
           /\ dir.size = LastBlock(dir) * BlockSize + BlockSize
           /\ ThereOf(dir, 0, dir.size) = dir.size
           /\ BlocksOf(0, dir.size) = LastBlock(dir) + 1
           /\ \A k \in Nat : BlockGot(disk, dir, 0, k + 1) = ext2_read_block(disk, file_ext2_block(dir, k))
<1> DEFINE size == dir.size
           last == LastBlock(dir)
           n == Len(recs)
<1>1. BlockSize \in Nat /\ BlockSize >= 1
  BY Ext2Assumption
<1>2. recs \in Seq(Records) /\ recs # <<>> /\ size = EndOf(recs, n) /\ size % BlockSize = 0
  BY DEF Holds, SizeOf
<1>3. n \in Nat /\ n >= 1
  <2>1. Len(recs) \in Nat /\ Len(recs) # 0
    BY <1>2, EmptySeq
  <2> QED
    BY <2>1
<1>4. size \in Nat \ {0}
  <2>1. 0 \in 0 .. n /\ n \in 0 .. n /\ 0 <= n /\ 0 < n
    BY <1>3
  <2>2. EndOf(recs, 0) = 0 /\ EndOf(recs, n) \in Nat /\ EndOf(recs, 0) < EndOf(recs, n)
    BY <1>2, <2>1, EndsAdd, EndsGrow
  <2> QED
    BY <1>2, <2>2
<1> HIDE DEF size, n
<1>5. last \in Nat /\ size = last * BlockSize + BlockSize
  <2> DEFINE w == size \div BlockSize
  <2>1. w \in Nat /\ size = w * BlockSize + 0
    BY <1>2, <1>4, CellsOfBlocks
  <2>2. last = w - 1
    BY DEF LastBlock, size
  <2> HIDE DEF w, last
  <2>3. w # 0
    <3> SUFFICES ASSUME w = 0 PROVE FALSE
      OBVIOUS
    <3>1. size = 0
      BY <1>1, <2>1
    <3> QED
      BY <1>4, <3>1
  <2>4. w * BlockSize = (w - 1) * BlockSize + BlockSize /\ (w - 1) * BlockSize \in Int /\ w * BlockSize \in Int
    BY <1>1, <2>1
  <2> QED
    BY <2>1, <2>2, <2>3, <2>4
<1> HIDE DEF last
<1>6. 0 \div BlockSize = 0
  <2>1. 0 = 0 * BlockSize + 0 /\ 0 \in 0 .. BlockSize - 1
    BY <1>1
  <2> QED
    BY <2>1, CellsOfBlocks
<1>7. (0 + size - 1) \div BlockSize = last
  <2> DEFINE a == 0 + size - 1
  <2>1. a \in Nat
    BY <1>4
  <2>2. a = last * BlockSize + (BlockSize - 1) /\ BlockSize - 1 \in 0 .. BlockSize - 1
    <3>1. last * BlockSize \in Nat
      BY <1>1, <1>5
    <3> QED
      BY <1>1, <1>5, <3>1
  <2> HIDE DEF a
  <2>3. a \div BlockSize = last
    BY <1>5, <2>1, <2>2, CellsOfBlocks
  <2> QED
    BY <2>3 DEF a
<1>8. BlocksOf(0, size) = last + 1
  <2>1. BlocksOf(0, size) = (0 + size - 1) \div BlockSize - 0 \div BlockSize + 1
    BY <1>4, BlocksCounted
  <2> QED
    BY <1>5, <1>6, <1>7, <2>1
<1>9. ThereOf(dir, 0, size) = size
  BY <1>4 DEF ThereOf, size
<1>10. ASSUME NEW k \in Nat
       PROVE  BlockGot(disk, dir, 0, k + 1) = ext2_read_block(disk, file_ext2_block(dir, k))
  <2>1. 0 \div BlockSize + (k + 1) - 1 = k
    BY <1>6
  <2> QED
    BY <2>1 DEF BlockGot
<1> QED
  BY <1>4, <1>5, <1>8, <1>9, <1>10 DEF size, last

\* A directory with a missing block is not read; any other one is read to its end, and
\* each cell is in its place.
LEMMA DirectoryRead ==
    ASSUME NEW disk, NEW dir, NEW recs, Readable(disk, dir), Holds(disk, dir, recs)
    PROVE  LET r == ext2_read(disk, dir, 0, dir.size, dir.size) IN
           /\ Missing(disk, dir) => r.ret = -1
           /\ ~Missing(disk, dir) =>
                /\ r.ret = dir.size
                /\ \A i \in 1 .. dir.size :
                     r.buf[i] = IF i > BlockSize /\ i > dir.size - BlockSize THEN Untouched ELSE CellAt(disk, dir, i - 1)
<1> DEFINE r == ext2_read(disk, dir, 0, dir.size, dir.size)
           size == dir.size
           last == LastBlock(dir)
<1>1. BlockSize \in Nat /\ BlockSize >= 1
  BY Ext2Assumption
<1>2. /\ size \in Nat \ {0} /\ last \in Nat /\ size = last * BlockSize + BlockSize
      /\ ThereOf(dir, 0, size) = size /\ BlocksOf(0, size) = last + 1
      /\ \A k \in Nat : BlockGot(disk, dir, 0, k + 1) = ext2_read_block(disk, file_ext2_block(dir, k))
  BY DirectoryBlocks
<1>3. ReadAnswer(disk, dir, 0, size, size) /\ ReadHolds(disk, dir, 0, size)
  <2>1. dir.size \in Nat /\ 0 \in Nat /\ size \in Nat
    BY <1>2
  <2> HIDE DEF size
  <2> QED
    BY <2>1, ReadCases, ReadRight
<1>4. IF \E k \in 1 .. last + 1 : BlockGot(disk, dir, 0, k) = IOError THEN r.ret = -1 ELSE r.ret = size
  <2>1. 0 <= dir.size /\ 0 + ThereOf(dir, 0, size) # 0
    BY <1>2
  <2> QED
    BY <1>2, <1>3, <2>1 DEF ReadAnswer
<1>5. 0 % BlockSize = 0 /\ size % BlockSize = 0
  <2>1. 0 = 0 * BlockSize + 0 /\ 0 \in 0 .. BlockSize - 1
    BY <1>1
  <2> QED
    BY <2>1, CellsOfBlocks DEF Holds
<1>6. r.ret > 0 => \A i \in 1 .. r.ret :
        r.buf[i] = IF /\ (0 + r.ret) % BlockSize = 0 /\ i > BlockSize - (0 % BlockSize)
                      /\ 0 + i > (0 + r.ret) - BlockSize
                   THEN Untouched ELSE CellAt(disk, dir, 0 + i - 1)
  BY <1>3, Zenon DEF ReadHolds
<1> HIDE DEF r, size, last
<1>7. ASSUME Missing(disk, dir)
      PROVE  r.ret = -1
  <2>1. PICK b \in 0 .. last : file_ext2_block(dir, b) \notin DOMAIN disk \cup {0}
    BY <1>7 DEF Missing, last
  <2>2. ext2_read_block(disk, file_ext2_block(dir, b)) = IOError
    BY <2>1 DEF ext2_read_block
  <2>3. b + 1 \in 1 .. last + 1 /\ b \in Nat
    BY <1>2
  <2>4. BlockGot(disk, dir, 0, b + 1) = IOError
    BY <1>2, <2>2, <2>3
  <2> QED
    BY <1>4, <2>3, <2>4
<1>8. ASSUME ~Missing(disk, dir)
      PROVE  /\ r.ret = size
             /\ \A i \in 1 .. size :
                  r.buf[i] = IF i > BlockSize /\ i > size - BlockSize THEN Untouched ELSE CellAt(disk, dir, i - 1)
  <2>1. \A k \in 1 .. last + 1 : BlockGot(disk, dir, 0, k) # IOError
    <3> TAKE k \in 1 .. last + 1
    <3>1. k - 1 \in 0 .. last /\ k - 1 \in Nat /\ (k - 1) + 1 = k
      BY <1>2
    <3>2. file_ext2_block(dir, k - 1) \in DOMAIN disk \cup {0}
      BY <1>8, <3>1 DEF Missing, last
    <3>3. ext2_read_block(disk, file_ext2_block(dir, k - 1)) # IOError
      BY <3>2, BlockThere
    <3>4. BlockGot(disk, dir, 0, (k - 1) + 1) = ext2_read_block(disk, file_ext2_block(dir, k - 1))
      BY <1>2, <3>1
    <3> QED
      BY <3>1, <3>3, <3>4
  <2>2. r.ret = size /\ size > 0
    BY <1>2, <1>4, <2>1
  <2>3. ASSUME NEW i \in 1 .. size
        PROVE  r.buf[i] = IF i > BlockSize /\ i > size - BlockSize THEN Untouched ELSE CellAt(disk, dir, i - 1)
    <3>1. /\ 0 + r.ret = size /\ 0 + i = i /\ 0 + i - 1 = i - 1 /\ BlockSize - (0 % BlockSize) = BlockSize
      BY <1>1, <1>2, <1>5, <2>2
    <3> QED
      BY <1>5, <1>6, <2>2, <3>1
  <2> QED
    BY <2>2, <2>3
<1> QED
  BY <1>7, <1>8, Zenon DEF r, size

\* A place behind another one lies in the same block or in a later one.
LEMMA BlocksInOrder ==
    ASSUME NEW a \in Nat, NEW b \in Nat, a <= b
    PROVE  a \div BlockSize <= b \div BlockSize
<1> DEFINE p == a \div BlockSize
           q == b \div BlockSize
           x == a % BlockSize
           y == b % BlockSize
<1>1. BlockSize \in Nat /\ BlockSize >= 1
  BY Ext2Assumption
<1>2. /\ p \in Nat /\ x \in 0 .. BlockSize - 1 /\ a = p * BlockSize + x
      /\ q \in Nat /\ y \in 0 .. BlockSize - 1 /\ b = q * BlockSize + y
  BY CellsOfBlocks
<1> HIDE DEF p, q, x, y
<1>3. p <= q
  <2> SUFFICES ASSUME q < p PROVE FALSE
    BY <1>2
  <2>1. (p - q - 1) * BlockSize >= 0 /\ p * BlockSize = q * BlockSize + BlockSize + (p - q - 1) * BlockSize
    BY <1>1, <1>2
  <2>2. p * BlockSize \in Int /\ q * BlockSize \in Int /\ (p - q - 1) * BlockSize \in Int
    BY <1>1, <1>2
  <2> QED
    BY <1>1, <1>2, <2>1, <2>2
<1> QED
  BY <1>3 DEF p, q

\* A block lies whole behind every block before it.
LEMMA WholeBlocks ==
    ASSUME NEW a \in Nat, NEW b \in Nat
    PROVE  /\ a * BlockSize \in Nat /\ (a + 1) * BlockSize = a * BlockSize + BlockSize
           /\ a < b => a * BlockSize + BlockSize <= b * BlockSize
<1>1. BlockSize \in Nat
  BY Ext2Assumption
<1>2. a * BlockSize \in Nat /\ (a + 1) * BlockSize = a * BlockSize + BlockSize
  BY <1>1
<1>3. ASSUME a < b
      PROVE  a * BlockSize + BlockSize <= b * BlockSize
  <2>1. b - a - 1 \in Nat
    BY <1>3
  <2>2. (b - a - 1) * BlockSize \in Nat /\ b * BlockSize = (a * BlockSize + BlockSize) + (b - a - 1) * BlockSize
    BY <1>1, <2>1
  <2> QED
    BY <1>1, <1>2, <2>2
<1> QED
  BY <1>2, <1>3

\* A record of a told block is shown as it is on the disk.
LEMMA ToldShown ==
    ASSUME NEW disk, NEW dir, NEW recs, Readable(disk, dir), Holds(disk, dir, recs), ~Missing(disk, dir),
           NEW k \in Told(dir, recs)
    PROVE  RecordShown(recs, ext2_read(disk, dir, 0, dir.size, dir.size).buf, k) = recs[k]
<1> DEFINE buf == ext2_read(disk, dir, 0, dir.size, dir.size).buf
           a == EndOf(recs, k - 1)
           b == BlockOf(recs, k)
           o == a % BlockSize
           last == LastBlock(dir)
           size == dir.size
           nr == dir.blocks[b + 1]
<1>1. BlockSize \in Nat /\ BlockSize >= 1 /\ NDirBlocks \in Nat
  BY Ext2Assumption
<1>2. /\ size \in Nat /\ last \in Nat /\ size = last * BlockSize + BlockSize
      /\ \A i \in 1 .. size : buf[i] = IF i > BlockSize /\ i > size - BlockSize THEN Untouched ELSE CellAt(disk, dir, i - 1)
  BY DirectoryBlocks, DirectoryRead
<1>3. k \in 1 .. Len(recs) /\ b < NDirBlocks /\ (b < last \/ b = 0)
  BY DEF Told
<1>4. /\ recs \in Seq(Records) /\ size = EndOf(recs, Len(recs))
      /\ \A i \in 1 .. NDirBlocks : i <= size \div BlockSize => dir.blocks[i] # 0
  BY DEF Holds, SizeOf
<1>5. a \in Nat /\ a < size
  <2>1. k - 1 \in 0 .. Len(recs) /\ Len(recs) \in 0 .. Len(recs) /\ k - 1 < Len(recs) /\ k - 1 <= Len(recs)
    BY <1>3, <1>4
  <2> QED
    BY <1>4, <2>1, EndsGrow
<1>6. b \in Nat /\ o \in 0 .. BlockSize - 1 /\ a = b * BlockSize + o
  BY <1>5, CellsOfBlocks DEF BlockOf
<1>7. b < NDirBlocks /\ nr \in DOMAIN disk => disk[nr][o + 1] # 0
  <2>1. LET x == EndOf(recs, k - 1)
            y == x \div BlockSize
        IN y < NDirBlocks /\ dir.blocks[y + 1] \in DOMAIN disk => disk[dir.blocks[y + 1]][(x % BlockSize) + 1] # 0
    BY <1>3, SMTT(30) DEF Holds
  <2> QED
    BY <2>1, Zenon DEF BlockOf
<1>8. b + 1 \in 1 .. NDirBlocks /\ b \in 0 .. last
  <2>1. b \in Nat /\ last \in Nat /\ b < NDirBlocks /\ (b < last \/ b = 0)
    BY <1>2, <1>3, <1>6
  <2> HIDE DEF b, last
  <2> QED
    BY <1>1, <2>1
<1>9. nr \in DOMAIN disk /\ nr # 0
  <2>1. file_ext2_block(dir, b) = nr
    BY <1>3 DEF file_ext2_block
  <2>2. file_ext2_block(dir, b) \in DOMAIN disk \cup {0}
    BY <1>8 DEF Missing
  <2>3. b + 1 <= size \div BlockSize
    <3>1. last = size \div BlockSize - 1 /\ size \div BlockSize \in Nat
      BY <1>2, CellsOfBlocks DEF LastBlock
    <3> HIDE DEF b, last, size
    <3> QED
      BY <1>8, <3>1
  <2>4. dir.blocks[b + 1] # 0
    <3> HIDE DEF b
    <3> QED
      BY <1>4, <1>8, <2>3
  <2> QED
    BY <2>1, <2>2, <2>4
<1>10. CellAt(disk, dir, a) = disk[nr][o + 1]
  <2>1. a \div BlockSize = b
    BY DEF BlockOf
  <2> HIDE DEF a, b
  <2>2. CellAt(disk, dir, a) = disk[nr][o + 1]
    BY <1>3, <1>9, <2>1 DEF CellAt
  <2> QED
    BY <2>2
<1>11. disk[nr][o + 1] \in Nat /\ disk[nr][o + 1] # 0
  <2>1. disk[nr] \in [1 .. BlockSize -> Nat]
    BY <1>9, Zenon DEF Readable
  <2>2. o + 1 \in 1 .. BlockSize
    <3> HIDE DEF o, a, b
    <3> QED
      BY <1>1, <1>6
  <2>3. disk[nr][o + 1] # 0
    BY <1>3, <1>7, <1>9
  <2> HIDE DEF o, a, b, nr
  <2> QED
    BY <2>1, <2>2, <2>3
<1> HIDE DEF buf, a, b, o, last, size, nr
<1>12. ~(a + 1 > BlockSize /\ a + 1 > size - BlockSize)
  <2>1. CASE b = 0
    BY <1>1, <1>6, <2>1
  <2>2. CASE b < last
    <3> DEFINE P == b * BlockSize
               Q == last * BlockSize
    <3>1. P \in Nat /\ Q \in Nat /\ P + BlockSize <= Q
      BY <1>2, <1>6, <2>2, WholeBlocks
    <3>2. a = P + o /\ size = Q + BlockSize /\ o \in 0 .. BlockSize - 1
      BY <1>2, <1>6
    <3> HIDE DEF P, Q
    <3> QED
      BY <1>1, <3>1, <3>2
  <2> QED
    BY <1>3, <2>1, <2>2
<1>13. buf[a + 1] = CellAt(disk, dir, a)
  <2>1. a + 1 \in 1 .. size /\ (a + 1) - 1 = a
    BY <1>2, <1>5
  <2> QED
    BY <1>2, <1>12, <2>1
<1>14. buf[a + 1] # 0 /\ buf[a + 1] # Untouched
  BY <1>10, <1>11, <1>13 DEF Untouched
<1> QED
  BY <1>14 DEF RecordShown, buf, a

\* The first record that is not told is a hole, or in the block that is not copied.
LEMMA UntoldShown ==
    ASSUME NEW disk, NEW dir, NEW recs, Readable(disk, dir), Holds(disk, dir, recs), ~Missing(disk, dir),
           NEW k \in 1 .. Len(recs), k \notin Told(dir, recs), k - 1 \in Told(dir, recs)
    PROVE  RecordShown(recs, ext2_read(disk, dir, 0, dir.size, dir.size).buf, k)
             = IF NDirBlocks < LastBlock(dir) THEN Zeros ELSE Junk
<1> DEFINE buf == ext2_read(disk, dir, 0, dir.size, dir.size).buf
           a == EndOf(recs, k - 1)
           b == BlockOf(recs, k - 1)
           c == BlockOf(recs, k)
           last == LastBlock(dir)
           size == dir.size
<1>1. BlockSize \in Nat /\ BlockSize >= 1 /\ NDirBlocks \in Nat /\ HoleSize \in Nat /\ HoleSize >= 1
  BY Ext2Assumption
<1>2. /\ size \in Nat /\ last \in Nat /\ size = last * BlockSize + BlockSize
      /\ \A i \in 1 .. size : buf[i] = IF i > BlockSize /\ i > size - BlockSize THEN Untouched ELSE CellAt(disk, dir, i - 1)
  <2>1. size \in Nat /\ last \in Nat /\ size = last * BlockSize + BlockSize
    BY DirectoryBlocks
  <2>2. \A i \in 1 .. size : buf[i] = IF i > BlockSize /\ i > size - BlockSize THEN Untouched ELSE CellAt(disk, dir, i - 1)
    BY DirectoryRead, Zenon
  <2> QED
    BY <2>1, <2>2
<1>3. /\ k - 1 \in 1 .. Len(recs) /\ b < NDirBlocks /\ (b < last \/ b = 0)
      /\ ~(c < NDirBlocks /\ (c < last \/ c = 0))
  BY DEF Told
<1>4. recs \in Seq(Records) /\ size = EndOf(recs, Len(recs)) /\ Len(recs) \in Nat
  BY DEF Holds, SizeOf
<1>5. a \in Nat /\ a < size /\ a >= 1
  <2>1. k - 1 \in 0 .. Len(recs) /\ Len(recs) \in 0 .. Len(recs) /\ k - 1 < Len(recs) /\ k - 1 <= Len(recs)
          /\ 0 \in 0 .. Len(recs) /\ 0 < k - 1 /\ 0 <= k - 1
    BY <1>3, <1>4
  <2>2. EndOf(recs, 0) = 0
    BY <1>4, EndsAdd
  <2>3. a \in Nat /\ a < size
    BY <1>4, <2>1, EndsGrow
  <2>4. 0 < a
    BY <1>4, <2>1, <2>2, EndsGrow
  <2> QED
    BY <2>3, <2>4
<1>6. c \in Nat /\ c = a \div BlockSize /\ a = c * BlockSize + (a % BlockSize) /\ a % BlockSize \in 0 .. BlockSize - 1
  BY <1>5, CellsOfBlocks DEF BlockOf
<1>7. a - 1 \in Nat /\ (a - 1) \div BlockSize = b
  BY <1>3, <1>5 DEF Holds, BlockOf
<1> DEFINE t == (a - 1) % BlockSize
<1>8. b \in Nat /\ t \in 0 .. BlockSize - 1 /\ a - 1 = b * BlockSize + t
  BY <1>7, CellsOfBlocks
<1> HIDE DEF buf, a, b, c, last, size, t
<1>9. c = b + 1 /\ a = (b + 1) * BlockSize /\ a % BlockSize = 0
  <2>1. t = BlockSize - 1
    <3> SUFFICES ASSUME t # BlockSize - 1 PROVE FALSE
      OBVIOUS
    <3>1. t + 1 \in 0 .. BlockSize - 1 /\ a = b * BlockSize + (t + 1)
      <4>1. b * BlockSize \in Nat
        BY <1>1, <1>8
      <4> QED
        BY <1>1, <1>5, <1>8, <4>1
    <3>2. c = b
      BY <1>5, <1>6, <1>8, <3>1, CellsOfBlocks
    <3> QED
      BY <1>3, <3>2
  <2>2. a = (b + 1) * BlockSize + 0 /\ 0 \in 0 .. BlockSize - 1 /\ b + 1 \in Nat
    <3>1. (b + 1) * BlockSize = b * BlockSize + BlockSize /\ b * BlockSize \in Nat
      BY <1>1, <1>8
    <3> QED
      BY <1>1, <1>5, <1>8, <2>1, <3>1
  <2>3. a \div BlockSize = b + 1 /\ a % BlockSize = 0
    BY <1>5, <2>2, CellsOfBlocks
  <2>4. (b + 1) * BlockSize \in Nat
    BY <1>1, <1>8
  <2> QED
    BY <1>6, <2>2, <2>3, <2>4
<1>10. a + 1 \in 1 .. size /\ (a + 1) - 1 = a
  BY <1>2, <1>5
<1> DEFINE P == b * BlockSize
           C == c * BlockSize
           L == last * BlockSize
<1>a. c \in Nat /\ last \in Nat /\ b \in Nat
  BY <1>2, <1>6, <1>8
<1>b. /\ P \in Nat /\ C \in Nat /\ L \in Nat
      /\ c < last => C + BlockSize <= L
      /\ last < c => L + BlockSize <= C
      /\ C = P + BlockSize
  BY <1>a, <1>9, WholeBlocks
<1>c. a = C /\ size = L + BlockSize
  BY <1>2, <1>9
<1> HIDE DEF P, C, L
<1>11. c <= last
  <2>1. ~(last < c)
    BY <1>1, <1>5, <1>b, <1>c
  <2> QED
    BY <1>a, <2>1
<1>12. CASE NDirBlocks < last
  <2>1. c = NDirBlocks /\ c < last
    <3>1. c = b + 1 /\ b < NDirBlocks /\ ~(c < NDirBlocks /\ c < last)
      BY <1>3, <1>9
    <3> QED
      BY <1>1, <1>a, <1>12, <3>1
  <2>2. ~(a + 1 > size - BlockSize)
    BY <1>1, <1>b, <1>c, <2>1
  <2>3. buf[a + 1] = CellAt(disk, dir, a)
    <3>1. buf[a + 1] = IF a + 1 > BlockSize /\ a + 1 > size - BlockSize THEN Untouched ELSE CellAt(disk, dir, (a + 1) - 1)
      BY <1>2, <1>10, Zenon
    <3> QED
      BY <1>10, <2>2, <3>1, Zenon
  <2>4. CellAt(disk, dir, a) = 0
    <3>1. a \div BlockSize = NDirBlocks /\ a % BlockSize = 0
      BY <1>6, <1>9, <2>1, Zenon
    <3>2. ~(NDirBlocks < NDirBlocks) /\ 0 < HoleSize
      BY <1>1
    <3> QED
      BY <3>1, <3>2, Zenon DEF CellAt
  <2>5. RecordShown(recs, buf, k) = Zeros
    BY <2>3, <2>4 DEF RecordShown, Untouched, a
  <2> QED
    BY <1>12, <2>5 DEF last, buf
<1>13. CASE ~(NDirBlocks < last)
  <2>1. c = last
    <3>1. ~(c < NDirBlocks /\ c < last)
      BY <1>3
    <3> QED
      BY <1>1, <1>a, <1>11, <1>13, <3>1
  <2>2. a + 1 > size - BlockSize /\ a + 1 > BlockSize
    <3>1. C = L
      BY <2>1 DEF C, L
    <3> QED
      BY <1>1, <1>b, <1>c, <3>1
  <2>3. buf[a + 1] = Untouched
    <3>1. buf[a + 1] = IF a + 1 > BlockSize /\ a + 1 > size - BlockSize THEN Untouched ELSE CellAt(disk, dir, (a + 1) - 1)
      BY <1>2, <1>10, Zenon
    <3> QED
      BY <2>2, <3>1, Zenon
  <2>4. RecordShown(recs, buf, k) = Junk
    <3>1. Untouched # 0
      BY DEF Untouched
    <3> QED
      BY <2>3, <3>1, Zenon DEF RecordShown, a
  <2> QED
    BY <1>13, <2>4 DEF last, buf
<1> QED
  BY <1>12, <1>13

\* The buffer shows the told records, which come first, and behind them a hole or junk.
LEMMA DirectoryShown ==
    ASSUME NEW disk, NEW dir, NEW recs, Readable(disk, dir), Holds(disk, dir, recs), ~Missing(disk, dir)
    PROVE  \E m : /\ ShowsFirst(recs, ext2_read(disk, dir, 0, dir.size, dir.size).buf, m,
                                IF NDirBlocks < LastBlock(dir) THEN Zeros ELSE Junk)
                  /\ Told(dir, recs) = 1 .. m
<1> DEFINE n == Len(recs)
           told == Told(dir, recs)
           buf == ext2_read(disk, dir, 0, dir.size, dir.size).buf
           next == IF NDirBlocks < LastBlock(dir) THEN Zeros ELSE Junk
           Rest == {k \in 1 .. n : k \notin told}
<1>1. NDirBlocks \in Nat /\ NDirBlocks >= 1 /\ BlockSize \in Nat /\ BlockSize >= 1 /\ LastBlock(dir) \in Nat
  BY Ext2Assumption, DirectoryBlocks
<1>2. recs \in Seq(Records) /\ n \in Nat /\ n >= 1
  <2>1. recs \in Seq(Records) /\ recs # <<>>
    BY DEF Holds
  <2>2. Len(recs) \in Nat /\ Len(recs) # 0
    BY <2>1, EmptySeq
  <2> QED
    BY <2>1, <2>2
<1>3. 1 \in told
  <2>1. 1 \in 1 .. n /\ 1 - 1 = 0 /\ EndOf(recs, 0) = 0
    BY <1>2, EndsAdd
  <2>2. 0 \div BlockSize = 0
    <3>1. 0 = 0 * BlockSize + 0 /\ 0 \in 0 .. BlockSize - 1
      BY <1>1
    <3> QED
      BY <3>1, CellsOfBlocks
  <2>3. BlockOf(recs, 1) = 0
    BY <2>1, <2>2 DEF BlockOf
  <2> QED
    BY <1>1, <2>1, <2>3 DEF Told
<1>4. ASSUME NEW j \in 1 .. n, NEW k \in 1 .. n, j <= k, k \in told
      PROVE  j \in told
  <2>1. j - 1 \in 0 .. n /\ k - 1 \in 0 .. n /\ j - 1 <= k - 1
    BY <1>2, <1>4
  <2>2. EndOf(recs, j - 1) \in Nat /\ EndOf(recs, k - 1) \in Nat /\ EndOf(recs, j - 1) <= EndOf(recs, k - 1)
    BY <1>2, <2>1, EndsGrow
  <2>3. BlockOf(recs, j) <= BlockOf(recs, k) /\ BlockOf(recs, j) \in Nat /\ BlockOf(recs, k) \in Nat
    BY <2>2, BlocksInOrder, CellsOfBlocks DEF BlockOf
  <2>4. BlockOf(recs, k) < NDirBlocks /\ (BlockOf(recs, k) < LastBlock(dir) \/ BlockOf(recs, k) = 0)
    BY <1>4 DEF Told
  <2>5. BlockOf(recs, j) < NDirBlocks /\ (BlockOf(recs, j) < LastBlock(dir) \/ BlockOf(recs, j) = 0)
    BY <1>1, <2>3, <2>4
  <2> QED
    BY <2>5 DEF Told
<1>5. told \subseteq 1 .. n
  BY DEF Told
<1>6. \A k \in told : RecordShown(recs, buf, k) = recs[k]
  BY ToldShown
<1>7. next \in {Zeros, Junk}
  OBVIOUS
<1>8. \A k \in 1 .. n : k \notin told /\ k - 1 \in told => RecordShown(recs, buf, k) = next
  BY UntoldShown
<1> HIDE DEF n, told, buf, next
<1>9. CASE Rest = {}
  <2>1. told = 1 .. n /\ n \in 1 .. n /\ ~(n < n)
    <3>1. \A k \in 1 .. n : k \in told
      BY <1>9, Zenon
    <3>2. told = 1 .. n
      BY <1>5, <3>1, Zenon
    <3> QED
      BY <1>2, <3>2
  <2>2. ShowsFirst(recs, buf, n, next)
    BY <1>6, <1>7, <2>1 DEF ShowsFirst, n
  <2> QED
    BY <2>1, <2>2 DEF told, buf, next
<1>10. CASE Rest # {}
  <2>1. PICK f \in Rest : \A k \in Rest : f <= k
    <3>1. Rest \in SUBSET Nat
      BY <1>2
    <3> HIDE DEF Rest
    <3> QED
      BY <1>10, <3>1, LeastNat
  <2> DEFINE m == f - 1
  <2>2. f \in 1 .. n /\ f \notin told /\ f # 1
    BY <1>3
  <2>3. m \in 1 .. n /\ m < n /\ m + 1 = f /\ f - 1 = m /\ m < f
    BY <1>2, <2>2
  <2>4. \A k \in 1 .. n : k \in told <=> k \in 1 .. m
    <3> TAKE k \in 1 .. n
    <3>1. ASSUME k \in 1 .. m
          PROVE  k \in told
      <4>1. ~(f <= k)
        BY <2>2, <3>1
      <4> QED
        BY <2>1, <4>1
    <3>2. ASSUME k \notin 1 .. m
          PROVE  k \notin told
      <4>1. f <= k
        BY <2>2, <3>2
      <4> QED
        BY <1>4, <2>2, <4>1
    <3> QED
      BY <3>1, <3>2
  <2>5. told = 1 .. m
    <3>1. 1 .. m \subseteq 1 .. n
      BY <1>2, <2>3
    <3> QED
      BY <1>5, <2>4, <3>1
  <2>6. RecordShown(recs, buf, m + 1) = next
    <3>1. f - 1 \in told
      BY <2>3, <2>5
    <3> QED
      BY <1>8, <2>2, <2>3, <3>1
  <2> HIDE DEF m
  <2>7. ShowsFirst(recs, buf, m, next)
    BY <1>6, <1>7, <2>3, <2>5, <2>6 DEF ShowsFirst, n
  <2> QED
    BY <2>5, <2>7 DEF told, buf, next
<1> QED
  BY <1>9, <1>10

\* Directories of ext2 are read and searched as far as their blocks are direct and copied.
LEMMA EntriesHold == CallsInv => EntriesFound
<1> SUFFICES ASSUME CallsInv, call.fn = "ext2_dir"
             PROVE  EntriesFound
  BY DEF EntriesFound
<1> DEFINE recs == call.recs
           dir == call.dir
           disk == call.disk
           name == call.name
           beyond == call.beyond
           n == Len(recs)
           last == LastBlock(dir)
           told == Told(dir, recs)
           ended == told = 1 .. n \/ NDirBlocks < last
           named == {k \in told : recs[k].name = name}
           taken == {k \in told : TakenFor(recs[k], name)}
           entry(index) == ext2_readdir(disk, dir, recs, index)
           found == ext2_lookup(disk, dir, recs, name, beyond)
           r == ext2_read(disk, dir, 0, dir.size, dir.size)
<1>1. Readable(disk, dir) /\ Holds(disk, dir, recs) /\ name \in PlainNames /\ beyond \in Nat
  BY Ext2CallsAssumption DEF CallsInv, Idle, PlainNames
<1>2. EntriesFound <=>
        IF Missing(disk, dir) THEN found = 0 /\ \A index \in 0 .. n : entry(index) = ReadFailed(-1)
        ELSE /\ \A k \in told :
                  entry(k - 1) = IF recs[k].inode = 0 THEN NoEntry
                                 ELSE [ino |-> recs[k].inode, name |-> recs[k].name]
             /\ \A k \in 1 .. n + 1 : k \notin told => entry(k - 1) = IF ended THEN NoEntry ELSE WildEntry
             /\ \A k \in named : (\A j \in named \cup taken : k <= j) => found = recs[k].inode
             /\ named \cup taken = {} =>
                  found = IF ~ended \/ (told = 1 .. n /\ beyond < recs[1].rec_len) THEN Wild ELSE 0
  BY Zenon DEF EntriesFound, Missing, LastBlock, Told, BlockOf
<1>3. (Missing(disk, dir) => r.ret = -1) /\ (~Missing(disk, dir) => r.ret = dir.size)
  BY <1>1, DirectoryRead
<1> HIDE DEF recs, dir, disk, name, beyond
<1>4. ASSUME Missing(disk, dir)
      PROVE  found = 0 /\ \A index \in 0 .. n : entry(index) = ReadFailed(-1)
  <2>1. r.ret = -1 /\ r.ret <= 0 /\ ~(r.ret > 0)
    BY <1>3, <1>4
  <2>2. found = 0
    <3> HIDE DEF r
    <3> QED
      BY <2>1 DEF ext2_lookup, r
  <2>3. ASSUME NEW index \in 0 .. n
        PROVE  entry(index) = ReadFailed(-1)
    <3> HIDE DEF r
    <3> QED
      BY <2>1 DEF ext2_readdir, r
  <2> QED
    BY <2>2, <2>3
<1>5. ASSUME ~Missing(disk, dir)
      PROVE  /\ \A k \in told :
                  entry(k - 1) = IF recs[k].inode = 0 THEN NoEntry
                                 ELSE [ino |-> recs[k].inode, name |-> recs[k].name]
             /\ \A k \in 1 .. n + 1 : k \notin told => entry(k - 1) = IF ended THEN NoEntry ELSE WildEntry
             /\ \A k \in named : (\A j \in named \cup taken : k <= j) => found = recs[k].inode
             /\ named \cup taken = {} =>
                  found = IF ~ended \/ (told = 1 .. n /\ beyond < recs[1].rec_len) THEN Wild ELSE 0
  <2> DEFINE next == IF NDirBlocks < last THEN Zeros ELSE Junk
  <2>1. PICK m : ShowsFirst(recs, r.buf, m, next) /\ told = 1 .. m
    BY <1>1, <1>5, DirectoryShown
  <2>2. r.ret \in Nat \ {0} /\ recs \in Seq(Records) /\ dir.size = SizeOf(recs)
    <3>1. recs \in Seq(Records) /\ dir.size = SizeOf(recs)
      BY <1>1 DEF Holds
    <3> QED
      BY <1>1, <1>3, <1>5, <3>1, DirectoryBlocks
  <2>3. m \in 1 .. n /\ n \in Nat
    BY <2>1, <2>2 DEF ShowsFirst
  <2>4. ended <=> m = n \/ next = Zeros
    <3>1. told = 1 .. n <=> m = n
      BY <2>1, <2>3
    <3>2. next = Zeros <=> NDirBlocks < last
      BY DEF Zeros, Junk, Untouched
    <3> QED
      BY <3>1, <3>2
  <2>5. told = 1 .. n <=> m = n
    BY <2>1, <2>3
  <2>a. DirReads(disk, dir, recs, m, next)
    BY <2>1, <2>2, Zenon DEF DirReads
  <2> HIDE DEF next
  <2>6. ASSUME NEW index \in 0 .. n
        PROVE  entry(index) = IF index < m
                         THEN IF recs[index + 1].inode = 0 THEN NoEntry
                              ELSE [ino |-> recs[index + 1].inode, name |-> recs[index + 1].name]
                         ELSE IF m = n \/ next = Zeros THEN NoEntry ELSE WildEntry
    <3>1. ReaddirSays(disk, dir, recs, index, m, next)
      BY <2>a, ReaddirRight, Zenon
    <3> QED
      BY <3>1, Zenon DEF ReaddirSays
  <2>7. /\ \A k \in Matching(recs, name, m) :
             (\A j \in Matching(recs, name, m) : k <= j) => found = recs[k].inode
        /\ Matching(recs, name, m) = {} =>
             found = IF m = n THEN (IF beyond < recs[1].rec_len THEN Wild ELSE 0)
                     ELSE IF next = Zeros THEN 0 ELSE Wild
    <3>1. LookupSays(disk, dir, recs, name, beyond, m, next)
      BY <1>1, <2>a, LookupAnswer, Zenon
    <3> QED
      BY <3>1, Zenon DEF LookupSays
  <2>8. Matching(recs, name, m) = named \cup taken
    <3>1. ASSUME NEW k \in 1 .. m
          PROVE  k \in Matching(recs, name, m) <=> recs[k].name = name \/ TakenFor(recs[k], name)
      <4>0. k \in 1 .. n
        BY <2>3
      <4>1. recs[k].name \in PlainNames /\ recs[k].next \in Nat
        BY <2>2, <4>0, RecordOf
      <4>2. namei_nmatch(name, recs[k].name \o <<recs[k].next>>, Len(recs[k].name))
              <=> (recs[k].name = name \/ TakenFor(recs[k], name))
        BY <1>1, <4>1, NmatchMeans
      <4> QED
        BY <4>2, Zenon DEF Matching
    <3>2. Matching(recs, name, m) \subseteq 1 .. m
      BY Zenon DEF Matching
    <3> HIDE DEF told
    <3> QED
      BY <2>1, <3>1, <3>2
  <2> HIDE DEF n, last, told, entry, found, r, next, named, taken, ended
  <2>9. ASSUME NEW k \in told
        PROVE  entry(k - 1) = IF recs[k].inode = 0 THEN NoEntry
                              ELSE [ino |-> recs[k].inode, name |-> recs[k].name]
    <3>1. k - 1 \in 0 .. n /\ k - 1 < m /\ (k - 1) + 1 = k
      BY <2>1, <2>3
    <3> QED
      BY <2>6, <3>1
  <2>10. ASSUME NEW k \in 1 .. n + 1, k \notin told
         PROVE  entry(k - 1) = IF ended THEN NoEntry ELSE WildEntry
    <3>1. k - 1 \in 0 .. n /\ ~(k - 1 < m)
      BY <2>1, <2>3, <2>10
    <3> QED
      BY <2>4, <2>6, <3>1
  <2>11. \A k \in named : (\A j \in named \cup taken : k <= j) => found = recs[k].inode
    <3>1. \A k \in named : k \in named \cup taken
      OBVIOUS
    <3> QED
      BY <2>7, <2>8, <3>1
  <2>12. named \cup taken = {} =>
           found = IF ~ended \/ (told = 1 .. n /\ beyond < recs[1].rec_len) THEN Wild ELSE 0
    BY <2>4, <2>5, <2>7, <2>8
  <2> QED
    BY <2>9, <2>10, <2>11, <2>12
<1> HIDE DEF n, last, told, entry, found, r, named, taken, ended
<1> QED
  BY <1>2, <1>4, <1>5

\* The read-only ext2, for every disk, file, directory of whole blocks and name: read
\* delivers the bytes of their place but those of a last block that it ends at and of a
\* hole that is not cleared; readdir and lookup answer with the records of the blocks that
\* were read; inodes have places of their own.
THEOREM Ext2IsRight == CallsSpec => []Ext2Right
<1>1. CallsInv => Ext2Right
  BY BytesHold, EntriesHold, InodesHold DEF Ext2Right
<1> QED
  BY <1>1, CallsInvariant, PTL
=============================================================================
