--------------------------------- MODULE Files ---------------------------------
(***************************************************************************)
(* Open files and the vnodes they keep in memory: sys_open, sys_close,     *)
(* sys_dup and sys_dup2, sys_chdir and sys_chroot, the calls that block    *)
(* inside a device, sys_execve, and what sys_fork and sys_exit do to       *)
(* descriptors (fs/open.c, fs/fcntl.c, fs/read_write.c, fs/exec.c,         *)
(* fs/vfs/vnode.c, kernel/task.c, kernel/exit.c).                          *)
(*                                                                         *)
(* A system call is one action, as it runs with interrupts off, except     *)
(* that reading a tty, writing to /dev/nish and loading a program let      *)
(* other tasks run: those have a beginning and an end.                     *)
(*                                                                         *)
(* namei is taken by what it leaves behind: one reference for its caller,  *)
(* and one that nobody gives back on every directory that igetdir went     *)
(* through (twice through the same one is a lookup that finds nothing and  *)
(* another).  As every mount point is resolved, it never ends at one.      *)
(* Offsets, open modes other than writing, and close_on_exec, which no     *)
(* code ever sets, are left out, and so are mounts after the boot.         *)
(***************************************************************************)
EXTENDS Integers, FiniteSets

CONSTANTS
    NR_TASKS, NR_OPEN,
    Handles,        \* places for a FILE on the heap
    Vnodes,         \* files, devices and directories
    Dirs,           \* those that are directories
    Covered,        \* those that something is mounted on
    Tops,           \* the roots of what is mounted
    Root,           \* root_vnode, covered by the initrd
    Top,            \* the root of the initrd
    Ttys,           \* devices whose read waits with interrupts on
    NISH,           \* /dev/nish, whose write runs commands with interrupts on
    MaxCount,       \* bounds of the vnodes' counters, each an UCHAR
    NULL

ASSUME TableAssumption == NR_TASKS \in Nat \ {0, 1} /\ NR_OPEN \in Nat
ASSUME HandlesAssumption == IsFiniteSet(Handles) /\ NULL \notin Handles
ASSUME VnodesAssumption ==
    /\ Dirs \subseteq Vnodes /\ NULL \notin Vnodes
    /\ Covered \subseteq Dirs /\ Tops \subseteq Dirs /\ Covered \cap Tops = {}
    /\ Root \in Covered /\ Top \in Tops
    /\ Ttys \subseteq Vnodes \ Dirs /\ NISH \in Vnodes \ Dirs
ASSUME CountAssumption == MaxCount \in [Vnodes -> 0 .. 255]

VARIABLES
    state,          \* of the tasks: "FREE", "ALIVE" or "ZOMBIE"
    files,          \* task->files[]
    file,           \* the FILE at a place of the heap, or NULL
    count,          \* vnode->count; 0 is a vnode that is not in the cache
    pwd, root,      \* of the tasks
    busy,           \* the FILE *f of the read or write a task is inside, or NULL
    held            \* the vnode a task is loading from, or NULL

vars == <<state, files, file, count, pwd, root, busy, held>>

Slots == 0 .. NR_TASKS - 1
Fds == 0 .. NR_OPEN - 1
FILE == [node : Vnodes, count : Nat, write : BOOLEAN]

ASSUME NullAssumption == NULL \notin FILE

\* Tasks that execute in user mode, and those inside a command of nish.
InUser(p) == state[p] = "ALIVE" /\ busy[p] = NULL /\ held[p] = NULL
InNish(p) ==
    /\ state[p] = "ALIVE" /\ held[p] = NULL
    /\ busy[p] # NULL /\ file[busy[p]] # NULL /\ file[busy[p]].node = NISH

\* Task 0 has nothing to do after the boot but sys_pause.
MayCall(p) == p # 0 /\ InUser(p)
MayCommand(p) == p # 0 /\ (InUser(p) \/ InNish(p))

-----------------------------------------------------------------------------
(***************************************************************************)
(* Vnodes                                                                  *)
(***************************************************************************)

Fits(c) == \A v \in Vnodes : c[v] <= MaxCount[v]

\* node->count++, and the count of a new vnode in iget
Taken(c, v) == [c EXCEPT ![v] = @ + 1]

\* iput; the last one frees the vnode.
iput(c, v) == [c EXCEPT ![v] = IF @ = 0 THEN 0 ELSE @ - 1]

\* One reference left on every directory passed through.
Passed(c, via) == [v \in Vnodes |-> IF v \in via THEN c[v] + 1 ELSE c[v]]

\* namei for a path through the directories via that ends at v.
namei(c, via, v) == Taken(Passed(c, via), v)

-----------------------------------------------------------------------------
(***************************************************************************)
(* Closing                                                                 *)
(***************************************************************************)

\* How many of the descriptors S of task p refer to h.
NrRefs(p, S, h) == Cardinality({fd \in S : files[p][fd] = h})

\* The FILEs after sys_close for the descriptors S of task p, one by one.
FilesClosed(p, S) ==
    [h \in Handles |->
       IF file[h] = NULL \/ NrRefs(p, S, h) = 0 THEN file[h]
       ELSE IF file[h].count <= NrRefs(p, S, h) THEN NULL
       ELSE [file[h] EXCEPT !.count = @ - NrRefs(p, S, h)]]

\* The FILEs that are freed by it, and the vnodes, which lose a reference for each.
Freed(p, S) == {h \in Handles : file[h] # NULL /\ FilesClosed(p, S)[h] = NULL}
NrFreed(p, S, v) == Cardinality({h \in Freed(p, S) : file[h].node = v})
NodesClosed(p, S) ==
    [v \in Vnodes |-> IF count[v] <= NrFreed(p, S, v) THEN 0 ELSE count[v] - NrFreed(p, S, v)]

sys_close(p, fd) ==
    /\ MayCall(p)
    /\ files[p][fd] # NULL
    /\ files' = [files EXCEPT ![p][fd] = NULL]
    /\ file' = FilesClosed(p, {fd})
    /\ count' = NodesClosed(p, {fd})
    /\ UNCHANGED <<state, pwd, root, busy, held>>

-----------------------------------------------------------------------------
(***************************************************************************)
(* Opening                                                                 *)
(***************************************************************************)

\* The search for an unused descriptor.
IsLowestFree(p, fd) ==
    files[p][fd] = NULL /\ \A e \in Fds : e < fd => files[p][e] # NULL

\* open("...", flag), where w says whether flag asks for writing.
sys_open(p, fd, h, via, v, w) ==
    /\ MayCall(p)
    /\ IsLowestFree(p, fd)
    /\ file[h] = NULL
    /\ count' = namei(count, via, v)
    /\ Fits(count')
    /\ files' = [files EXCEPT ![p][fd] = h]
    /\ file' = [file EXCEPT ![h] = [node |-> v, count |-> 1, write |-> w]]
    /\ UNCHANGED <<state, pwd, root, busy, held>>

\* open, chdir, chroot, execve or a command of nish, of a path that does not exist.
NothingFound(p, via) ==
    /\ MayCommand(p)
    /\ count' = Passed(count, via)
    /\ Fits(count')
    /\ UNCHANGED <<state, files, file, pwd, root, busy, held>>

\* The FILE that fd refers to gets one more descriptor.
Shared(f, h) == [f EXCEPT ![h].count = @ + 1]

\* sys_dup2; sys_close(fd2) fails if fd2 is not open.  For fd = fd2 it closes the
\* descriptor and then copies the null pointer it has left; what the increment
\* writes to memory near address 0 is not modelled.
sys_dup2(p, fd, fd2) ==
    /\ MayCall(p)
    /\ files[p][fd] # NULL
    /\ count' = NodesClosed(p, {fd2})
    /\ IF fd = fd2
         THEN /\ files' = [files EXCEPT ![p][fd] = NULL]
              /\ file' = FilesClosed(p, {fd})
         ELSE /\ files' = [files EXCEPT ![p][fd2] = files[p][fd]]
              /\ file' = Shared(FilesClosed(p, {fd2}), files[p][fd])
    /\ UNCHANGED <<state, pwd, root, busy, held>>

sys_dup(p, fd, fd2) ==
    /\ IsLowestFree(p, fd2)
    /\ sys_dup2(p, fd, fd2)

-----------------------------------------------------------------------------
(***************************************************************************)
(* Directories of a task                                                   *)
(***************************************************************************)

\* Mutant of sys_chdir: the test of IS_DIR is missing.
sys_chdirAnywhere(p, via, v) ==
    /\ MayCommand(p)
    /\ count' = namei(count, via, v)
    /\ Fits(count')
    /\ pwd' = [pwd EXCEPT ![p] = v]
    /\ UNCHANGED <<state, files, file, root, busy, held>>

\* sys_chdir, also as the command cd of nish.  The reference of the old directory
\* is not given back, nor is that of a file that is no directory.
sys_chdir(p, via, v) ==
    /\ MayCommand(p)
    /\ count' = namei(count, via, v)
    /\ Fits(count')
    /\ pwd' = IF v \in Dirs THEN [pwd EXCEPT ![p] = v] ELSE pwd
    /\ UNCHANGED <<state, files, file, root, busy, held>>

sys_chroot(p, via, v) ==
    /\ MayCall(p)
    /\ count' = namei(count, via, v)
    /\ Fits(count')
    /\ root' = IF v \in Dirs THEN [root EXCEPT ![p] = v] ELSE root
    /\ UNCHANGED <<state, files, file, pwd, busy, held>>

-----------------------------------------------------------------------------
(***************************************************************************)
(* Calls that let other tasks run                                          *)
(***************************************************************************)

\* sys_read of a tty.  Its test of FMODE_READ lets every open file through.
sys_read(p, fd) ==
    /\ MayCall(p)
    /\ files[p][fd] # NULL
    /\ file[files[p][fd]].node \in Ttys
    /\ busy' = [busy EXCEPT ![p] = files[p][fd]]
    /\ UNCHANGED <<state, files, file, count, pwd, root, held>>

\* sys_write to /dev/nish.
sys_write(p, fd) ==
    /\ MayCall(p)
    /\ files[p][fd] # NULL
    /\ file[files[p][fd]].write
    /\ file[files[p][fd]].node = NISH
    /\ busy' = [busy EXCEPT ![p] = files[p][fd]]
    /\ UNCHANGED <<state, files, file, count, pwd, root, held>>

\* The driver returns, and f is used once more.
CallReturns(p) ==
    /\ busy[p] # NULL /\ held[p] = NULL
    /\ busy' = [busy EXCEPT ![p] = NULL]
    /\ UNCHANGED <<state, files, file, count, pwd, root, held>>

\* sys_execve, or cat and ls of nish: other tasks run while the file is read, as
\* device_lock switches interrupts on ...
sys_execve(p, via, v) ==
    /\ MayCommand(p)
    /\ count' = namei(count, via, v)
    /\ Fits(count')
    /\ held' = [held EXCEPT ![p] = v]
    /\ UNCHANGED <<state, files, file, pwd, root, busy>>

\* ... and then given back, whether or not it could be executed.
Loaded(p) ==
    /\ held[p] # NULL
    /\ count' = iput(count, held[p])
    /\ held' = [held EXCEPT ![p] = NULL]
    /\ UNCHANGED <<state, files, file, pwd, root, busy>>

-----------------------------------------------------------------------------
(***************************************************************************)
(* Tasks                                                                   *)
(***************************************************************************)

\* Mutant of Inherited: the child's descriptors are not counted.
InheritedUncounted(p) == file

\* The FILEs with the descriptors of the child.
Inherited(p) ==
    [h \in Handles |-> IF file[h] = NULL THEN NULL
                       ELSE [file[h] EXCEPT !.count = @ + NrRefs(p, Fds, h)]]

\* Mutant of Adopted: the child's root directory is not counted.
AdoptedPwd(p) == Taken(count, pwd[p])

\* The vnodes with the directories of the child.
Adopted(p) == Taken(Taken(count, pwd[p]), root[p])

\* sys_fork, also from the command exec of nish, whose child does nothing but
\* sys_execve and sys_exit.
sys_fork(p, c) ==
    /\ MayCommand(p)
    /\ state[c] = "FREE" /\ \A i \in Slots : i < c => state[i] # "FREE"
    /\ state' = [state EXCEPT ![c] = "ALIVE"]
    /\ files' = [files EXCEPT ![c] = files[p]]
    /\ file' = Inherited(p)
    /\ pwd' = [pwd EXCEPT ![c] = pwd[p]]
    /\ root' = [root EXCEPT ![c] = root[p]]
    /\ count' = Adopted(p)
    /\ Fits(count')
    /\ UNCHANGED <<busy, held>>

\* sys_exit; pwd and root are not given back.
sys_exit(p) ==
    /\ MayCall(p)
    /\ state' = [state EXCEPT ![p] = "ZOMBIE"]
    /\ files' = [files EXCEPT ![p] = [fd \in Fds |-> NULL]]
    /\ file' = FilesClosed(p, Fds)
    /\ count' = NodesClosed(p, Fds)
    /\ UNCHANGED <<pwd, root, busy, held>>

\* Mutant of Reaped: waitpid does not wait for the child to exit.
ReapedAtOnce(c) ==
    /\ c # 0 /\ state[c] # "FREE"
    /\ state' = [state EXCEPT ![c] = "FREE"]
    /\ UNCHANGED <<files, file, count, pwd, root, busy, held>>

\* Somebody's sys_waitpid frees the slot.
Reaped(c) ==
    /\ state[c] = "ZOMBIE"
    /\ state' = [state EXCEPT ![c] = "FREE"]
    /\ UNCHANGED <<files, file, count, pwd, root, busy, held>>

-----------------------------------------------------------------------------
(***************************************************************************)
(* The specification                                                       *)
(***************************************************************************)

\* The kernel task after it has mounted the initrd and devfs, and its child init.
\* root_vnode has the references of its super block, of the mount, of root of the
\* two, and one for the first pwd of the kernel task, which was never given back.
Init ==
    /\ state = [p \in Slots |-> IF p < 2 THEN "ALIVE" ELSE "FREE"]
    /\ files = [p \in Slots |-> [fd \in Fds |-> NULL]]
    /\ file = [h \in Handles |-> NULL]
    /\ count = [v \in Vnodes |-> IF v = Root THEN 5 ELSE IF v = Top THEN 3
                                 ELSE IF v \in Covered \cup Tops THEN 1 ELSE 0]
    /\ pwd = [p \in Slots |-> Top]
    /\ root = [p \in Slots |-> Root]
    /\ busy = [p \in Slots |-> NULL]
    /\ held = [p \in Slots |-> NULL]

Descriptors(p) ==
    \E fd \in Fds :
      \/ sys_close(p, fd)
      \/ \E fd2 \in Fds : sys_dup2(p, fd, fd2) \/ sys_dup(p, fd, fd2)
      \/ sys_read(p, fd) \/ sys_write(p, fd)

Paths(p) ==
    \E via \in SUBSET (Dirs \ Covered) :
      \/ NothingFound(p, via)
      \/ \E v \in Vnodes \ Covered :
           \/ \E fd \in Fds, h \in Handles, w \in BOOLEAN : sys_open(p, fd, h, via, v, w)
           \/ sys_chdir(p, via, v) \/ sys_chroot(p, via, v) \/ sys_execve(p, via, v)

Next ==
    \E p \in Slots :
      \/ Descriptors(p) \/ Paths(p)
      \/ CallReturns(p) \/ Loaded(p)
      \/ \E c \in Slots : sys_fork(p, c)
      \/ sys_exit(p) \/ Reaped(p)

Spec == Init /\ [][Next]_vars

-----------------------------------------------------------------------------
(***************************************************************************)
(* Properties                                                              *)
(***************************************************************************)

\* The types of the variables.
TypeOK ==
    /\ state \in [Slots -> {"FREE", "ALIVE", "ZOMBIE"}]
    /\ files \in [Slots -> [Fds -> Handles \cup {NULL}]]
    /\ file \in [Handles -> FILE \cup {NULL}]
    /\ count \in [Vnodes -> 0 .. 255]
    /\ pwd \in [Slots -> Dirs] /\ root \in [Slots -> Dirs]
    /\ busy \in [Slots -> Handles \cup {NULL}]
    /\ held \in [Slots -> Vnodes \cup {NULL}]

\* The descriptors of all tasks that refer to h.
Refs(h) == {d \in Slots \X Fds : files[d[1]][d[2]] = h}

\* However descriptors are duplicated, inherited and closed, a FILE counts the
\* descriptors that refer to it and is on the heap exactly as long as there are
\* any: it is neither used after it is freed nor leaked.
FileCounts ==
    \A h \in Handles :
      IF file[h] = NULL THEN Refs(h) = {}
      ELSE file[h].count = Cardinality(Refs(h)) /\ Refs(h) # {}

\* A task that waits inside a read or a write finds its FILE when it returns,
\* whatever the tasks it shares the FILE with have done meanwhile.
BusyFile ==
    \A p \in Slots : busy[p] # NULL =>
      /\ state[p] = "ALIVE"
      /\ \E fd \in Fds : files[p][fd] = busy[p]
      /\ file[busy[p]] # NULL

\* Everything that points to vnode v.
Users(v) ==
    {<<"file", h>> : h \in {g \in Handles : file[g] # NULL /\ file[g].node = v}}
    \cup {<<"pwd", p>> : p \in {q \in Slots : state[q] = "ALIVE" /\ pwd[q] = v}}
    \cup {<<"root", p>> : p \in {q \in Slots : state[q] = "ALIVE" /\ root[q] = v}}
    \cup {<<"held", p>> : p \in {q \in Slots : held[q] = v}}
    \cup {<<"mount", u>> : u \in Covered \cap {v}}
    \cup {<<"super", u>> : u \in (Tops \cup {Root}) \cap {v}}

\* A vnode that an open file, a working or root directory, a program being loaded
\* or a mount points to is not freed, as long as its count has not wrapped.
NodesHeld == \A v \in Vnodes : count[v] >= Cardinality(Users(v))

(***************************************************************************)
(* The inductive invariant of FilesProofs: a task that has exited has no   *)
(* descriptors and is inside no call, so that the slot a fork fills is     *)
(* empty and closing the descriptors of a task closes all its references.  *)
(***************************************************************************)
DeadHaveNothing ==
    \A p \in Slots : state[p] # "ALIVE" =>
      busy[p] = NULL /\ held[p] = NULL /\ \A fd \in Fds : files[p][fd] = NULL

IInv ==
    /\ TypeOK
    /\ DeadHaveNothing
    /\ FileCounts
    /\ BusyFile
    /\ NodesHeld

=============================================================================
