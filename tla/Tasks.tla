---------------------------------- MODULE Tasks ----------------------------------
(***************************************************************************)
(* Processes: fork, exit, pause, kill, waitpid, the timer tick, the idle   *)
(* loop of the kernel task and the exec command of /dev/nish.              *)
(*                                                                         *)
(* There is one CPU.  A system call enters through an interrupt gate and   *)
(* runs with interrupts off to the next switch_task, so each one is one    *)
(* action of the current task.  What does run with interrupts on inside    *)
(* the kernel is split into the steps between which the timer can strike:  *)
(* the idle loop, and nish_exec after the sti of sys_fork.                 *)
(***************************************************************************)
EXTENDS Sched

CONSTANTS
    NULL,           \* the null pointer
    KStacks,        \* kernel stacks the heap can hand out
    Dirs,           \* page directories the heap can hand out
    ExitCodes,      \* values given to exit
    MayExit,        \* slots whose task may exit or fault (task 0: kernel abort)
    MayNish,        \* slots whose task may write an exec command to /dev/nish
    MayWait         \* slots whose program calls waitpid (none of usr/ does)

ASSUME PoolAssumption == NULL \notin KStacks /\ NULL \notin Dirs
ASSUME CodeAssumption == 0 \in ExitCodes
ASSUME MayAssumption ==
    MayExit \subseteq Slots /\ MayNish \subseteq Slots /\ MayWait \subseteq Slots

VARIABLES
    tasks,          \* the task table
    current,        \* current_task, as a slot number
    irq,            \* the interrupt flag of the CPU
    esp0,           \* the kernel stack the TSS names
    stacks, dirs,   \* kernel stacks and directories now allocated
    pc,             \* where the task of a slot is executing
    newtask,        \* local of sys_fork called by nish_exec: the child's slot
    fork_pid,       \* local of nish_exec: the pid to wait for
    exit_code,      \* local of nish_exec: the status of its child
    halted          \* the kernel task has executed cli; hlt

vars == <<tasks, current, irq, esp0, stacks, dirs, pc, newtask, fork_pid,
          exit_code, halted>>

locals == <<newtask, fork_pid, exit_code>>

(***************************************************************************)
(* "user"    executing its program                                         *)
(* "boot"    task 0 before it forks init                                   *)
(* "idle"    task 0 at the head of for (;;) sys_pause()                    *)
(* "pausing" task 0 between the two statements of sys_pause                *)
(* "child"   forked by nish_exec: runs execve, then exits                  *)
(* "forked"  nish_exec between the sti and the return of sys_fork          *)
(* "spin"    in the busy loop of sys_waitpid, called by nish_exec          *)
(* "status"  sys_waitpid has seen the zombie, not yet read its exit code   *)
(* "free"    sys_waitpid is about to free the slot                         *)
(* "wedged"  in the busy loop of the waitpid system call, interrupts off   *)
(* "dead"    the slot was never used, or its task has exited               *)
(***************************************************************************)
Places == {"user", "boot", "idle", "pausing", "child", "forked", "spin",
           "status", "free", "wedged", "dead"}

Task == [pid          : Slots \cup {NO_TASK},
         parent       : Slots,
         state        : States,
         signals      : BOOLEAN,
         exit_code    : ExitCodes,
         kernel_stack : KStacks \cup {NULL},
         directory    : Dirs \cup {NULL}]

\* A slot of the zeroed bss: state 0 is TASK_RUNNING.
EmptySlot == [pid |-> NO_TASK, parent |-> 0, state |-> "RUNNING", signals |-> FALSE,
              exit_code |-> 0, kernel_stack |-> NULL, directory |-> NULL]

\* A slot in use, and one whose task can still execute.
Used(i) == tasks[i].pid # NO_TASK
Alive(i) == Used(i) /\ tasks[i].state # "ZOMBIE"

-----------------------------------------------------------------------------
(***************************************************************************)
(* switch_task and fork                                                    *)
(***************************************************************************)

\* Mutant of switch_task: set_kernel_stack is called before current_task changes.
switch_taskEarlyStack(T) ==
    /\ tasks' = Switched(T, current)
    /\ current' = SwitchedTo(T, current)
    /\ esp0' = T[current].kernel_stack
    /\ irq' = TRUE

\* switch_task on table T: the resumed task always does sti.
switch_task(T) ==
    /\ tasks' = Switched(T, current)
    /\ current' = SwitchedTo(T, current)
    /\ esp0' = Switched(T, current)[SwitchedTo(T, current)].kernel_stack
    /\ irq' = TRUE

\* Mutant of FreeSlots: a zombie's slot is taken for a free one.
FreeOrZombieSlots == {i \in Slots : ~Alive(i)}

FreeSlots == {i \in Slots : ~Used(i)}

\* Mutant of Child: the assignment of the cloned directory is missing.
ChildSharesDirectory(p, i, d) ==
    [tasks[p] EXCEPT !.pid = i, !.exit_code = 0, !.state = "WAITING",
                     !.parent = tasks[p].pid, !.signals = FALSE]

\* The record sys_fork writes for the child in slot i, with directory d.
Child(p, i, d) ==
    [tasks[p] EXCEPT !.pid = i, !.exit_code = 0, !.state = "WAITING",
                     !.parent = tasks[p].pid, !.directory = d, !.signals = FALSE]

\* Mutant of sys_fork: no sti before the return.
sys_forkNoSti(i) ==
    /\ FreeSlots # {}
    /\ i = First(FreeSlots)
    /\ \E d \in Dirs \ dirs, s \in KStacks \ stacks :
         /\ tasks' = [tasks EXCEPT ![i] = Child(current, i, d),
                                   ![current].kernel_stack = s]
         /\ dirs' = dirs \cup {d}
         /\ stacks' = stacks \cup {s}
    /\ irq' = FALSE
    /\ UNCHANGED <<current, esp0, halted>>

\* sys_fork by the current task: the child in slot i keeps the kernel stack of
\* its parent, the parent goes on with the new one, and the TSS is not touched.
\* Without a free slot sys_fork returns -1 and changes nothing.
sys_fork(i) ==
    /\ FreeSlots # {}
    /\ i = First(FreeSlots)
    /\ \E d \in Dirs \ dirs, s \in KStacks \ stacks :
         /\ tasks' = [tasks EXCEPT ![i] = Child(current, i, d),
                                   ![current].kernel_stack = s]
         /\ dirs' = dirs \cup {d}
         /\ stacks' = stacks \cup {s}
    /\ irq' = TRUE
    /\ UNCHANGED <<current, esp0, halted>>

-----------------------------------------------------------------------------
(***************************************************************************)
(* The kernel task and the timer                                           *)
(***************************************************************************)

\* Task p executes at place l.
At(p, l) == ~halted /\ current = p /\ pc[p] = l

\* timer_handler
Tick ==
    /\ ~halted /\ irq
    /\ switch_task(tasks)
    /\ UNCHANGED <<stacks, dirs, pc, halted, locals>>

\* init() of kernel/main.c
StartInit ==
    /\ At(0, "boot")
    /\ \E i \in Slots : sys_fork(i) /\ pc' = [pc EXCEPT ![0] = "idle", ![i] = "user"]
    /\ UNCHANGED locals

\* for (;;) sys_pause(), first statement of sys_pause
IdleBlock ==
    /\ At(0, "idle")
    /\ tasks' = [tasks EXCEPT ![0].state = "BLOCKED"]
    /\ pc' = [pc EXCEPT ![0] = "pausing"]
    /\ UNCHANGED <<current, irq, esp0, stacks, dirs, halted, locals>>

\* ... and its second
IdleSwitch ==
    /\ At(0, "pausing")
    /\ switch_task(tasks)
    /\ pc' = [pc EXCEPT ![0] = "idle"]
    /\ UNCHANGED <<stacks, dirs, halted, locals>>

-----------------------------------------------------------------------------
(***************************************************************************)
(* System calls of a program                                               *)
(***************************************************************************)

Fork(p) ==
    /\ At(p, "user")
    /\ \E i \in Slots : sys_fork(i) /\ pc' = [pc EXCEPT ![i] = "user"]
    /\ UNCHANGED locals

Pause(p) ==
    /\ At(p, "user")
    /\ switch_task([tasks EXCEPT ![p].state = "BLOCKED"])
    /\ UNCHANGED <<stacks, dirs, pc, halted, locals>>

Kill(p, pid) ==
    /\ At(p, "user")
    /\ tasks' = sys_kill(tasks, pid)
    /\ UNCHANGED <<current, irq, esp0, stacks, dirs, pc, halted, locals>>

\* Mutant of Orphaned: children lose their parent instead of going to init.
OrphanedToNobody(T, p) ==
    [i \in Slots |-> IF T[i].pid # NO_TASK /\ T[i].parent = T[p].pid
                       THEN [T[i] EXCEPT !.parent = NO_TASK] ELSE T[i]]

\* Mutant of Orphaned: only children that still run are handed on.
OrphanedIfAlive(T, p) ==
    [i \in Slots |-> IF T[i].pid # NO_TASK /\ T[i].parent = T[p].pid
                         /\ T[i].state # "ZOMBIE"
                       THEN [T[i] EXCEPT !.parent = 1] ELSE T[i]]

\* The loop of sys_exit that gives the children of p to task 1.
Orphaned(T, p) ==
    [i \in Slots |-> IF T[i].pid # NO_TASK /\ T[i].parent = T[p].pid
                       THEN [T[i] EXCEPT !.parent = 1] ELSE T[i]]

\* The table sys_exit leaves: a zombie whose parent has SIGCHLD pending.
Exited(T, p, status) ==
    LET O == Orphaned(T, p)
        Z == [O EXCEPT ![p].state = "ZOMBIE", ![p].exit_code = status]
    IN  sys_kill(Z, Z[p].parent)

\* sys_exit of any task but 0; also abort_current_process after a fault.
sys_exit(p, status) ==
    /\ switch_task(Exited(tasks, p, status))
    /\ stacks' = stacks \ {tasks[p].kernel_stack}
    /\ dirs' = dirs \ {tasks[p].directory}
    /\ pc' = [pc EXCEPT ![p] = "dead"]
    /\ UNCHANGED <<halted, locals>>

Exit(p, status) ==
    /\ p \in MayExit \ {0} /\ At(p, "user")
    /\ sys_exit(p, status)

\* sys_exit of task 0, reached from the page fault handler.
KernelAbort ==
    /\ 0 \in MayExit /\ ~halted /\ current = 0
    /\ tasks' = Orphaned(tasks, 0)
    /\ irq' = FALSE
    /\ halted' = TRUE
    /\ UNCHANGED <<current, esp0, stacks, dirs, pc, locals>>

\* The waitpid system call runs with interrupts off: nothing else can make its
\* target a zombie while it loops.  It does not ask whose child the target is.
Waitpid(p, pid) ==
    /\ p \in MayWait /\ pid # 0 /\ At(p, "user")
    /\ \/ /\ tasks[pid].state = "ZOMBIE"
          /\ tasks' = [tasks EXCEPT ![pid].pid = NO_TASK]
          /\ UNCHANGED <<irq, pc>>
       \/ /\ tasks[pid].state # "ZOMBIE"
          /\ pc' = [pc EXCEPT ![p] = "wedged"]
          /\ irq' = FALSE
          /\ UNCHANGED tasks
    /\ UNCHANGED <<current, esp0, stacks, dirs, halted, locals>>

-----------------------------------------------------------------------------
(***************************************************************************)
(* nish_exec: the command "exec" written to /dev/nish                      *)
(***************************************************************************)

NishExec(p) ==
    /\ p \in MayNish /\ At(p, "user")
    /\ \E i \in Slots : /\ sys_fork(i)
                        /\ pc' = [pc EXCEPT ![p] = "forked", ![i] = "child"]
                        /\ newtask' = [newtask EXCEPT ![p] = i]
    /\ UNCHANGED <<fork_pid, exit_code>>

\* return newtask->pid, read again after the sti; without "&" nish waits, but
\* sys_waitpid returns at once for a pid outside the table.  Locals that go out
\* of scope are reset to 0 here and in WaitFree.
NishForkReturn(p) ==
    /\ At(p, "forked")
    /\ \/ /\ tasks[newtask[p]].pid > 0
          /\ pc' = [pc EXCEPT ![p] = "spin"]
          /\ fork_pid' = [fork_pid EXCEPT ![p] = tasks[newtask[p]].pid]
       \/ /\ pc' = [pc EXCEPT ![p] = "user"]
          /\ UNCHANGED fork_pid
    /\ newtask' = [newtask EXCEPT ![p] = 0]
    /\ UNCHANGED <<tasks, current, irq, esp0, stacks, dirs, exit_code, halted>>

\* The child: whatever execve returns, the next call is sys_exit.
NishChildExit(p, status) ==
    /\ At(p, "child")
    /\ sys_exit(p, status)

\* while (tasks[pid].state != TASK_ZOMBIE);
WaitSpin(p) ==
    /\ At(p, "spin")
    /\ tasks[fork_pid[p]].state = "ZOMBIE"
    /\ pc' = [pc EXCEPT ![p] = "status"]
    /\ UNCHANGED <<tasks, current, irq, esp0, stacks, dirs, halted, locals>>

\* *statloc = tasks[pid].exit_code
WaitStatus(p) ==
    /\ At(p, "status")
    /\ exit_code' = [exit_code EXCEPT ![p] = tasks[fork_pid[p]].exit_code]
    /\ pc' = [pc EXCEPT ![p] = "free"]
    /\ UNCHANGED <<tasks, current, irq, esp0, stacks, dirs, newtask, fork_pid, halted>>

\* tasks[pid].pid = NO_TASK, and back to the program
WaitFree(p) ==
    /\ At(p, "free")
    /\ tasks' = [tasks EXCEPT ![fork_pid[p]].pid = NO_TASK]
    /\ pc' = [pc EXCEPT ![p] = "user"]
    /\ fork_pid' = [fork_pid EXCEPT ![p] = 0]
    /\ exit_code' = [exit_code EXCEPT ![p] = 0]
    /\ UNCHANGED <<current, irq, esp0, stacks, dirs, newtask, halted>>

-----------------------------------------------------------------------------
(***************************************************************************)
(* The specification                                                       *)
(***************************************************************************)

\* The state setup_tasking leaves.
Init ==
    /\ \E s \in KStacks, d \in Dirs :
         /\ tasks = [i \in Slots |->
                       IF i = 0 THEN [EmptySlot EXCEPT !.pid = 0, !.kernel_stack = s,
                                                       !.directory = d]
                                ELSE EmptySlot]
         /\ stacks = {s}
         /\ dirs = {d}
    /\ current = 0
    /\ irq = TRUE
    /\ esp0 = NULL
    /\ pc = [i \in Slots |-> IF i = 0 THEN "boot" ELSE "dead"]
    /\ newtask = [i \in Slots |-> 0]
    /\ fork_pid = [i \in Slots |-> 0]
    /\ exit_code = [i \in Slots |-> 0]
    /\ halted = FALSE

NishStep(p) ==
    NishForkReturn(p) \/ WaitSpin(p) \/ WaitStatus(p) \/ WaitFree(p)

Next ==
    \/ Tick \/ StartInit \/ IdleBlock \/ IdleSwitch \/ KernelAbort
    \/ \E p \in Slots :
         \/ Fork(p) \/ Pause(p) \/ NishExec(p) \/ NishStep(p)
         \/ \E pid \in Slots : Kill(p, pid) \/ Waitpid(p, pid)
         \/ \E status \in ExitCodes : Exit(p, status) \/ NishChildExit(p, status)

Spec == Init /\ [][Next]_vars

(***************************************************************************)
(* Fairness.  The timer keeps ticking while interrupts are on.  A task     *)
(* inside the kernel executes when it is on the CPU, but the tick may take *)
(* the CPU away before it does: the strong form.  Nothing is assumed of a  *)
(* program.                                                                *)
(***************************************************************************)
Fairness ==
    /\ WF_vars(Tick)
    /\ \A p \in Slots :
         /\ SF_vars(NishStep(p))
         /\ SF_vars(\E status \in ExitCodes : NishChildExit(p, status))

FairSpec == Spec /\ Fairness

-----------------------------------------------------------------------------
(***************************************************************************)
(* Properties                                                              *)
(***************************************************************************)

\* The types of the variables: every slot, local and pool holds what its C
\* declaration allows.
TypeOK ==
    /\ tasks \in [Slots -> Task]
    /\ current \in Slots
    /\ irq \in BOOLEAN
    /\ esp0 \in KStacks \cup {NULL}
    /\ stacks \subseteq KStacks
    /\ dirs \subseteq Dirs
    /\ pc \in [Slots -> Places]
    /\ newtask \in [Slots -> Slots]
    /\ fork_pid \in [Slots -> Slots]
    /\ exit_code \in [Slots -> ExitCodes]
    /\ halted \in BOOLEAN

\* switch_task never resumes a dead task and never leaves a second task marked
\* as running: the CPU is on a live task, and any other one is ready, blocked
\* or a zombie.
OneRunning ==
    /\ Alive(current)
    /\ \A i \in Slots : Used(i) /\ tasks[i].state = "RUNNING" => i = current

\* Though sys_fork gives the new stack to the parent and not to the child,
\* every live task has a kernel stack and a page directory of its own, still
\* allocated, and the heap holds no other: nothing is shared, used after its
\* free or leaked by fork, exit and waitpid in any order.
ResourcesOwned ==
    /\ \A i \in Slots : Alive(i) => tasks[i].kernel_stack \in stacks
                                  /\ tasks[i].directory \in dirs
    /\ \A i, j \in Slots :
         Alive(i) /\ Alive(j) /\ i # j => /\ tasks[i].kernel_stack # tasks[j].kernel_stack
                                        /\ tasks[i].directory # tasks[j].directory
    /\ \A s \in stacks : \E i \in Slots : Alive(i) /\ tasks[i].kernel_stack = s
    /\ \A d \in dirs : \E i \in Slots : Alive(i) /\ tasks[i].directory = d

\* The stack the TSS names, which sys_fork leaves pointing at the stack it has
\* passed on to the child, is never one that sys_exit has freed.
Esp0Allocated == esp0 # NULL => esp0 \in stacks

\* No task waits for a signal of a child it has lost: the parent of a task is
\* the kernel, init, or alive; sys_exit hands every child on, zombies included.
NoDeadParent ==
    \A i \in Slots : Used(i) => tasks[i].parent \in {0, 1} \/ Alive(tasks[i].parent)

\* nish_exec loops, reads the status and frees the slot with interrupts on, so
\* any task may run in between; still the slot holds the child it forked, and
\* once seen as a zombie that child stays one and its status is what is read.
WaiterOwnsChild ==
    \A p \in Slots :
      /\ pc[p] = "forked" => Used(newtask[p]) /\ tasks[newtask[p]].parent = p
      /\ pc[p] \in {"spin", "status", "free"} =>
           Used(fork_pid[p]) /\ tasks[fork_pid[p]].parent = p
      /\ pc[p] \in {"status", "free"} => tasks[fork_pid[p]].state = "ZOMBIE"
      /\ pc[p] = "free" => exit_code[p] = tasks[fork_pid[p]].exit_code

(***************************************************************************)
(* The inductive invariant of TasksProofs: a pid is its slot number, and   *)
(* where a task executes says what its slot holds.                         *)
(***************************************************************************)
KernelPlaces == {"boot", "idle", "pausing"}
NishPlaces == {"forked", "spin", "status", "free"}

PlacesAgree ==
    \A i \in Slots :
      /\ tasks[i].pid \in {i, NO_TASK}
      /\ pc[i] \in KernelPlaces <=> i = 0
      /\ pc[i] # "dead" <=> Alive(i)
      /\ pc[i] \in NishPlaces => i \in MayNish

IInv ==
    /\ TypeOK
    /\ PlacesAgree
    /\ OneRunning
    /\ ResourcesOwned
    /\ Esp0Allocated
    /\ NoDeadParent
    /\ WaiterOwnsChild

\* A slot that sys_fork fills is not the parent of anybody yet: a new process
\* does not inherit the children of the one that had its slot before.  Task 1
\* is the exception the code makes for orphans.
NoInheritedChildren ==
    [][\A k \in Slots \ {0, 1} :
         ~Used(k) /\ Used(k)' => \A i \in Slots : Used(i)' => tasks'[i].parent # k]_vars

\* Round robin starves nobody: a task that is ready, or blocked with a signal
\* pending, gets the CPU.
EveryReadyTaskRuns ==
    \A i \in Slots :
      (/\ Used(i)
       /\ \/ tasks[i].state = "WAITING"
          \/ tasks[i].state = "BLOCKED" /\ tasks[i].signals)
        ~> (current = i \/ halted)

\* The busy wait of nish_exec ends: the timer takes the CPU from the loop, the
\* child exits, and the command returns to the program that wrote it.
NishReturns == \A p \in Slots : pc[p] \in {"forked", "spin"} ~> pc[p] = "user"

=============================================================================
