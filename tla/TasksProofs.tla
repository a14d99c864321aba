------------------------------- MODULE TasksProofs -------------------------------
(***************************************************************************)
(* The invariants of Tasks for tables, pools and sets of exit codes of any *)
(* size: Tasks!IInv is inductive.  One lemma for each action, resting on   *)
(* what switch_task (SwitchFacts), fork and exit do to the table.          *)
(***************************************************************************)
EXTENDS Tasks, NaturalsInduction, WellFoundedInduction, TLAPS

\* A non-empty set of slots has a first one, and First finds it.
LEMMA FirstInSet ==
    ASSUME NEW S \in SUBSET Slots, S # {}
    PROVE  First(S) \in S
<1> DEFINE Less == {ss \in Nat \X Nat : ss[1] < ss[2]}
<1>1. S \subseteq Nat
  BY NrTasksAssumption DEF Slots
<1>2. IsWellFoundedOn(Less, Nat)
  BY NatLessThanWellFounded DEF OpToRel
<1>3. PICK x \in S : \A y \in S : ~ (<<y, x>> \in Less)
  <2> HIDE DEF Less
  <2> QED BY <1>1, <1>2, WFMin
<1>4. ASSUME NEW y \in S PROVE x <= y
  <2>1. x \in Nat /\ y \in Nat
    BY <1>1
  <2>2. <<y, x>> \in Nat \X Nat /\ <<y, x>>[1] = y /\ <<y, x>>[2] = x
    BY <2>1
  <2>3. ~(y < x)
    BY <1>3, <2>2
  <2> QED
    BY <2>1, <2>3
<1> QED
  BY <1>3, <1>4 DEF First

(***************************************************************************)
(* What switch_task may change.                                            *)
(***************************************************************************)

\* Two records of one task that differ at most in its pending signals and in
\* its state, and agree on whether it is a zombie.
SameTask(r, q) ==
    /\ r.pid = q.pid
    /\ r.parent = q.parent
    /\ r.exit_code = q.exit_code
    /\ r.kernel_stack = q.kernel_stack
    /\ r.directory = q.directory
    /\ (r.state = "ZOMBIE") <=> (q.state = "ZOMBIE")

\* Yielding changes nothing but the state of the task that gives up the CPU.
LEMMA YieldedFacts ==
    ASSUME NEW T \in [Slots -> Task], NEW c \in Slots
    PROVE  /\ Yielded(T, c) \in [Slots -> Task]
           /\ \A i \in Slots : SameTask(Yielded(T, c)[i], T[i])
           /\ \A i \in Slots \ {c} : Yielded(T, c)[i] = T[i]
           /\ Yielded(T, c)[c].state # "RUNNING"
BY DEF Yielded, Task, States, SameTask

\* Waking changes nothing but the states of blocked tasks.
LEMMA WakeFacts ==
    ASSUME NEW T \in [Slots -> Task]
    PROVE  /\ Wake(T) \in [Slots -> Task]
           /\ \A i \in Slots : /\ SameTask(Wake(T)[i], T[i])
                               /\ Wake(T)[i].state = "RUNNING" => T[i].state = "RUNNING"
<1>1. ASSUME NEW i \in Slots
      PROVE  /\ Wake(T)[i] \in Task
             /\ SameTask(Wake(T)[i], T[i])
             /\ Wake(T)[i].state = "RUNNING" => T[i].state = "RUNNING"
  <2>1. T[i] \in Task
    OBVIOUS
  <2>2. Wake(T)[i] = T[i] \/ (/\ Wake(T)[i] = [T[i] EXCEPT !.state = "WAITING"]
                              /\ T[i].state = "BLOCKED")
    BY DEF Wake
  <2> HIDE DEF Wake
  <2> QED
    BY <2>1, <2>2 DEF Task, States, SameTask
<1>2. Wake(T) = [i \in Slots |-> Wake(T)[i]]
  BY DEF Wake
<1> QED
  BY <1>1, <1>2

\* switch_task resumes a live task and changes nothing of a task but its state.
LEMMA SwitchFacts ==
    ASSUME NEW T \in [Slots -> Task], NEW c \in Slots, T[0].pid # NO_TASK, T[0].state # "ZOMBIE"
    PROVE  LET n == SwitchedTo(T, c) 
               S == Switched(T, c)
           IN  /\ n \in Slots
               /\ S \in [Slots -> Task]
               /\ \A i \in Slots : SameTask(S[i], T[i])
               /\ \A i \in Slots \ {n} : S[i].state = "RUNNING" => T[i].state = "RUNNING" /\ i # c
               /\ S[n].pid # NO_TASK
               /\ S[n].state = "RUNNING"
<1> DEFINE W == Wake(Yielded(T, c))
           n == SwitchedTo(T, c)
           S == Switched(T, c)
<1>1. /\ W \in [Slots -> Task]
      /\ \A i \in Slots : SameTask(W[i], T[i])
      /\ \A i \in Slots : W[i].state = "RUNNING" => T[i].state = "RUNNING" /\ i # c
  BY YieldedFacts, WakeFacts DEF SameTask
<1>2. n \in Slots /\ W[n].pid # NO_TASK /\ W[n].state # "ZOMBIE"
  <2>1. CASE ReadyBehind(W, c) = {}
    BY <1>1, <2>1, NrTasksAssumption DEF SwitchedTo, schedule, Slots, SameTask
  <2>2. CASE ReadyBehind(W, c) # {}
    <3>1. n = First(ReadyBehind(W, c))
      BY <2>2 DEF SwitchedTo, schedule
    <3>2. n \in ReadyBehind(W, c)
      <4>1. ReadyBehind(W, c) \in SUBSET Slots
        BY DEF ReadyBehind
      <4> QED BY <2>2, <3>1, <4>1, FirstInSet
    <3> QED BY <3>2 DEF ReadyBehind
  <2> QED BY <2>1, <2>2
<1>3. S = [W EXCEPT ![n].state = "RUNNING"]
  BY DEF Switched
<1> HIDE DEF W, n, S
<1>4. \A i \in Slots \ {n} : S[i] = W[i] /\ SameTask(S[i], W[i])
  BY <1>1, <1>2, <1>3 DEF SameTask
<1>5. S[n] \in Task /\ S[n].state = "RUNNING" /\ SameTask(S[n], W[n])
  <2>1. S[n] = [W[n] EXCEPT !.state = "RUNNING"] /\ W[n] \in Task
    BY <1>1, <1>2, <1>3
  <2> QED
    BY <1>2, <2>1 DEF Task, States, SameTask
<1>6. S \in [Slots -> Task]
  BY <1>1, <1>3, <1>4, <1>5
<1>7. \A i \in Slots : SameTask(S[i], T[i])
  BY <1>1, <1>4, <1>5 DEF SameTask
<1> QED
  BY <1>1, <1>2, <1>4, <1>5, <1>6, <1>7 DEF SameTask, W, n, S

-----------------------------------------------------------------------------
(***************************************************************************)
(* Steps that change no more of a task than its state and its signals.     *)
(***************************************************************************)

\* The parts of the invariant that such a step cannot disturb.
LEMMA SameTasks ==
    ASSUME IInv, tasks' \in [Slots -> Task],
           \A i \in Slots : SameTask(tasks'[i], tasks[i])
    PROVE  /\ \A i \in Slots : (Used(i)' <=> Used(i)) /\ (Alive(i)' <=> Alive(i))
           /\ NoDeadParent'
           /\ UNCHANGED <<stacks, dirs>> => ResourcesOwned'
           /\ UNCHANGED <<pc, locals>> => PlacesAgree' /\ WaiterOwnsChild'
<1>1. \A i \in Slots : (Used(i)' <=> Used(i)) /\ (Alive(i)' <=> Alive(i))
  BY DEF SameTask, Used, Alive
<1>2. tasks \in [Slots -> Task]
  BY DEF IInv, TypeOK
<1>3. NoDeadParent'
  BY <1>1, <1>2 DEF IInv, NoDeadParent, SameTask, Task
<1>4. ASSUME UNCHANGED <<stacks, dirs>> PROVE ResourcesOwned'
  BY <1>1, <1>4 DEF IInv, ResourcesOwned, SameTask
<1>5. ASSUME UNCHANGED <<pc, locals>> PROVE PlacesAgree' /\ WaiterOwnsChild'
  <2>1. PlacesAgree'
    BY <1>1, <1>5 DEF IInv, PlacesAgree, SameTask
  <2>2. WaiterOwnsChild'
    <3>1. /\ newtask \in [Slots -> Slots] /\ fork_pid \in [Slots -> Slots]
          /\ pc' = pc /\ newtask' = newtask /\ fork_pid' = fork_pid /\ exit_code' = exit_code
      BY <1>5 DEF IInv, TypeOK, locals
    <3>2. ASSUME NEW p \in Slots
          PROVE  /\ SameTask(tasks'[newtask[p]], tasks[newtask[p]])
                 /\ SameTask(tasks'[fork_pid[p]], tasks[fork_pid[p]])
      BY <3>1
    <3> QED
      BY <3>1, <3>2 DEF IInv, WaiterOwnsChild, SameTask, Used
  <2> QED BY <2>1, <2>2
<1> QED
  BY <1>1, <1>3, <1>4, <1>5

\* The kernel task never dies.
LEMMA KernelAlive == IInv => 0 \in Slots /\ Alive(0)
BY NrTasksAssumption DEF IInv, PlacesAgree, KernelPlaces, Slots

\* switch_task on a table in which only the current task may have changed its
\* state, and not to RUNNING.
LEMMA SwitchStep ==
    ASSUME IInv, NEW T \in [Slots -> Task],
           \A i \in Slots : SameTask(T[i], tasks[i]),
           \A i \in Slots \ {current} : T[i].state = "RUNNING" => tasks[i].state = "RUNNING",
           switch_task(T), UNCHANGED <<stacks, dirs>>
    PROVE  /\ tasks' \in [Slots -> Task] /\ current' \in Slots /\ irq' \in BOOLEAN
           /\ esp0' \in KStacks \cup {NULL}
           /\ \A i \in Slots : SameTask(tasks'[i], tasks[i])
           /\ OneRunning' /\ Esp0Allocated'
<1>1. current \in Slots /\ tasks \in [Slots -> Task]
  BY DEF IInv, TypeOK
<1>2. T[0].pid # NO_TASK /\ T[0].state # "ZOMBIE"
  BY KernelAlive DEF SameTask, Alive, Used
<1>3. /\ current' \in Slots
      /\ tasks' \in [Slots -> Task]
      /\ \A i \in Slots : SameTask(tasks'[i], T[i])
      /\ \A i \in Slots \ {current'} :
           tasks'[i].state = "RUNNING" => T[i].state = "RUNNING" /\ i # current
      /\ tasks'[current'].pid # NO_TASK
      /\ tasks'[current'].state = "RUNNING"
  BY <1>1, <1>2, SwitchFacts DEF switch_task
<1>4. \A i \in Slots : SameTask(tasks'[i], tasks[i])
  BY <1>3 DEF SameTask
<1>5. OneRunning'
  <2>1. Alive(current)'
    BY <1>3 DEF Alive, Used
  <2>2. ASSUME NEW i \in Slots, Used(i)', tasks'[i].state = "RUNNING", i # current'
        PROVE  FALSE
    BY <1>3, <1>4, <2>2 DEF IInv, OneRunning, SameTask, Used
  <2> QED
    BY <2>1, <2>2 DEF OneRunning
<1>6. esp0' = tasks'[current'].kernel_stack
  BY DEF switch_task
<1>7. Alive(current') /\ tasks'[current'].kernel_stack = tasks[current'].kernel_stack
  BY <1>3, <1>4 DEF SameTask, Alive, Used
<1>8. esp0' \in stacks' /\ esp0' \in KStacks
  BY <1>3, <1>6, <1>7 DEF IInv, TypeOK, ResourcesOwned
<1> QED
  BY <1>3, <1>4, <1>5, <1>8 DEF Esp0Allocated, switch_task

\* The timer tick keeps the invariant.
LEMMA TickStep == IInv /\ Tick => IInv'
<1> SUFFICES ASSUME IInv, Tick PROVE IInv'
  OBVIOUS
<1>1. tasks \in [Slots -> Task] /\ \A i \in Slots : SameTask(tasks[i], tasks[i])
  BY DEF IInv, TypeOK, SameTask
<1>2. switch_task(tasks) /\ UNCHANGED <<stacks, dirs, pc, halted, locals>>
  BY DEF Tick
<1>3. /\ tasks' \in [Slots -> Task] /\ current' \in Slots /\ irq' \in BOOLEAN
      /\ esp0' \in KStacks \cup {NULL}
      /\ \A i \in Slots : SameTask(tasks'[i], tasks[i])
      /\ OneRunning' /\ Esp0Allocated'
  BY <1>1, <1>2, SwitchStep
<1>4. TypeOK'
  BY <1>2, <1>3 DEF IInv, TypeOK, locals
<1> QED
  BY <1>2, <1>3, <1>4, SameTasks DEF IInv

\* The second statement of sys_pause in the idle loop keeps the invariant.
LEMMA IdleSwitchStep == IInv /\ IdleSwitch => IInv'
<1> SUFFICES ASSUME IInv, IdleSwitch PROVE IInv'
  OBVIOUS
<1>1. tasks \in [Slots -> Task] /\ \A i \in Slots : SameTask(tasks[i], tasks[i])
  BY DEF IInv, TypeOK, SameTask
<1>2. /\ switch_task(tasks) /\ UNCHANGED <<stacks, dirs, halted, locals>>
      /\ pc[0] = "pausing" /\ pc' = [pc EXCEPT ![0] = "idle"]
  BY DEF IdleSwitch, At
<1>3. /\ tasks' \in [Slots -> Task] /\ current' \in Slots /\ irq' \in BOOLEAN
      /\ esp0' \in KStacks \cup {NULL}
      /\ \A i \in Slots : SameTask(tasks'[i], tasks[i])
      /\ OneRunning' /\ Esp0Allocated'
  BY <1>1, <1>2, SwitchStep
<1>4. TypeOK'
  BY <1>2, <1>3 DEF IInv, TypeOK, locals, Places
<1>5. /\ \A i \in Slots : (Used(i)' <=> Used(i)) /\ (Alive(i)' <=> Alive(i))
      /\ NoDeadParent' /\ ResourcesOwned'
  BY <1>2, <1>3, SameTasks
<1>6. PlacesAgree'
  BY <1>2, <1>3, <1>5 DEF IInv, TypeOK, PlacesAgree, SameTask, KernelPlaces, NishPlaces
<1>7. WaiterOwnsChild'
  BY <1>2, <1>3 DEF IInv, TypeOK, WaiterOwnsChild, SameTask, locals, Used
<1> QED
  BY <1>3, <1>4, <1>5, <1>6, <1>7 DEF IInv

\* Blocking a task leaves it the same live task.
LEMMA BlockFacts ==
    ASSUME NEW T \in [Slots -> Task], NEW p \in Slots, T[p].state # "ZOMBIE"
    PROVE  LET B == [T EXCEPT ![p].state = "BLOCKED"]
           IN  /\ B \in [Slots -> Task]
               /\ \A i \in Slots : SameTask(B[i], T[i])
               /\ \A i \in Slots : B[i].state = "RUNNING" => T[i].state = "RUNNING"
<1> DEFINE B == [T EXCEPT ![p].state = "BLOCKED"]
<1>1. B[p] = [T[p] EXCEPT !.state = "BLOCKED"] /\ \A i \in Slots \ {p} : B[i] = T[i]
  OBVIOUS
<1>2. T[p] \in Task
  OBVIOUS
<1>3. B[p] \in Task /\ SameTask(B[p], T[p]) /\ B[p].state = "BLOCKED"
  BY <1>1, <1>2 DEF Task, States, SameTask
<1>4. B \in [Slots -> Task]
  BY <1>1, <1>3
<1> QED
  BY <1>1, <1>3, <1>4 DEF SameTask

\* The pause system call keeps the invariant.
LEMMA PauseStep == ASSUME NEW p \in Slots PROVE IInv /\ Pause(p) => IInv'
<1> SUFFICES ASSUME IInv, Pause(p) PROVE IInv'
  OBVIOUS
<1> DEFINE B == [tasks EXCEPT ![p].state = "BLOCKED"]
<1>1. /\ switch_task(B) /\ UNCHANGED <<stacks, dirs, pc, halted, locals>>
      /\ p = current
  BY DEF Pause, At
<1>2. tasks \in [Slots -> Task] /\ tasks[p].state # "ZOMBIE"
  BY <1>1 DEF IInv, TypeOK, OneRunning, Alive
<1>3. /\ B \in [Slots -> Task]
      /\ \A i \in Slots : SameTask(B[i], tasks[i])
      /\ \A i \in Slots : B[i].state = "RUNNING" => tasks[i].state = "RUNNING"
  BY <1>2, BlockFacts
<1> HIDE DEF B
<1>4. /\ tasks' \in [Slots -> Task] /\ current' \in Slots /\ irq' \in BOOLEAN
      /\ esp0' \in KStacks \cup {NULL}
      /\ \A i \in Slots : SameTask(tasks'[i], tasks[i])
      /\ OneRunning' /\ Esp0Allocated'
  BY <1>1, <1>3, SwitchStep
<1>5. TypeOK'
  BY <1>1, <1>4 DEF IInv, TypeOK, locals
<1> QED
  BY <1>1, <1>4, <1>5, SameTasks DEF IInv

\* The first statement of sys_pause in the idle loop keeps the invariant.
LEMMA IdleBlockStep == IInv /\ IdleBlock => IInv'
<1> SUFFICES ASSUME IInv, IdleBlock PROVE IInv'
  OBVIOUS
<1>1. /\ tasks' = [tasks EXCEPT ![0].state = "BLOCKED"]
      /\ pc[0] = "idle" /\ pc' = [pc EXCEPT ![0] = "pausing"]
      /\ current = 0
      /\ UNCHANGED <<current, irq, esp0, stacks, dirs, halted, locals>>
  BY DEF IdleBlock, At
<1>2. tasks \in [Slots -> Task] /\ 0 \in Slots /\ Alive(0)
  BY KernelAlive DEF IInv, TypeOK
<1>3. /\ tasks' \in [Slots -> Task]
      /\ \A i \in Slots : SameTask(tasks'[i], tasks[i])
      /\ \A i \in Slots : tasks'[i].state = "RUNNING" => tasks[i].state = "RUNNING"
  BY <1>1, <1>2, BlockFacts DEF Alive
<1>4. TypeOK'
  BY <1>1, <1>3 DEF IInv, TypeOK, locals, Places
<1>5. /\ \A i \in Slots : (Used(i)' <=> Used(i)) /\ (Alive(i)' <=> Alive(i))
      /\ NoDeadParent' /\ ResourcesOwned'
  BY <1>1, <1>3, SameTasks
<1>6. OneRunning' /\ Esp0Allocated'
  BY <1>1, <1>2, <1>3, <1>5 DEF IInv, OneRunning, Esp0Allocated, Used, Alive
<1>7. PlacesAgree'
  BY <1>1, <1>3, <1>5 DEF IInv, TypeOK, PlacesAgree, SameTask, KernelPlaces, NishPlaces
<1>8. WaiterOwnsChild'
  BY <1>1, <1>3 DEF IInv, TypeOK, WaiterOwnsChild, SameTask, locals, Used
<1> QED
  BY <1>4, <1>5, <1>6, <1>7, <1>8 DEF IInv

\* sys_kill changes pending signals only.
LEMMA KillFacts ==
    ASSUME NEW T \in [Slots -> Task], NEW pid
    PROVE  /\ sys_kill(T, pid) \in [Slots -> Task]
           /\ \A i \in Slots : /\ SameTask(sys_kill(T, pid)[i], T[i])
                               /\ sys_kill(T, pid)[i].state = T[i].state
<1> DEFINE K == sys_kill(T, pid)
<1>1. ASSUME NEW i \in Slots
      PROVE  K[i] \in Task /\ SameTask(K[i], T[i]) /\ K[i].state = T[i].state
  <2>1. T[i] \in Task /\ (K[i] = T[i] \/ K[i] = [T[i] EXCEPT !.signals = TRUE])
    BY DEF sys_kill, send_signal
  <2> HIDE DEF K
  <2> QED BY <2>1 DEF Task, SameTask
<1>2. K = [i \in Slots |-> K[i]]
  BY DEF sys_kill, send_signal
<1> HIDE DEF K
<1>3. K \in [Slots -> Task]
  BY <1>1, <1>2
<1> QED
  BY <1>1, <1>3 DEF K

\* The kill system call keeps the invariant.
LEMMA KillStep == ASSUME NEW p \in Slots, NEW pid PROVE IInv /\ Kill(p, pid) => IInv'
<1> SUFFICES ASSUME IInv, Kill(p, pid) PROVE IInv'
  OBVIOUS
<1>1. /\ tasks' = sys_kill(tasks, pid)
      /\ UNCHANGED <<current, irq, esp0, stacks, dirs, pc, halted, locals>>
  BY DEF Kill
<1>2. /\ tasks' \in [Slots -> Task]
      /\ \A i \in Slots : SameTask(tasks'[i], tasks[i]) /\ tasks'[i].state = tasks[i].state
  BY <1>1, KillFacts DEF IInv, TypeOK
<1>3. TypeOK'
  BY <1>1, <1>2 DEF IInv, TypeOK, locals
<1>4. OneRunning' /\ Esp0Allocated'
  BY <1>1, <1>2 DEF IInv, TypeOK, OneRunning, Esp0Allocated, Used, Alive, SameTask
<1> QED
  BY <1>1, <1>2, <1>3, <1>4, SameTasks DEF IInv

-----------------------------------------------------------------------------
(***************************************************************************)
(* fork                                                                    *)
(***************************************************************************)

\* What sys_fork writes: the child's record is complete, the parent has a fresh
\* kernel stack, and nobody else is touched.
LEMMA ForkFacts ==
    ASSUME IInv, NEW i \in Slots, sys_fork(i)
    PROVE  /\ ~Used(i) /\ i # current /\ i # 0
           /\ tasks' \in [Slots -> Task]
           /\ \A j \in Slots \ {i, current} : tasks'[j] = tasks[j]
           /\ \E d \in Dirs \ dirs, s \in KStacks \ stacks :
                /\ dirs' = dirs \cup {d} /\ stacks' = stacks \cup {s}
                /\ tasks'[i].directory = d
                /\ tasks'[current].kernel_stack = s
           /\ tasks'[i].pid = i
           /\ tasks'[i].parent = current
           /\ tasks'[i].state = "WAITING"
           /\ tasks'[i].kernel_stack = tasks[current].kernel_stack
           /\ tasks'[current].pid = tasks[current].pid
           /\ tasks'[current].parent = tasks[current].parent
           /\ tasks'[current].state = tasks[current].state
           /\ tasks'[current].exit_code = tasks[current].exit_code
           /\ tasks'[current].directory = tasks[current].directory
<1>1. current \in Slots /\ tasks \in [Slots -> Task] /\ Used(current)
      /\ tasks[current].pid = current
  BY DEF IInv, TypeOK, OneRunning, Alive, PlacesAgree, Used
<1>2. ~Used(i) /\ i # current /\ i # 0
  <2>1. FreeSlots \in SUBSET Slots /\ FreeSlots # {} /\ i = First(FreeSlots)
    BY DEF sys_fork, FreeSlots
  <2>2. i \in FreeSlots
    BY <2>1, FirstInSet
  <2> QED
    BY <1>1, <2>2, KernelAlive DEF FreeSlots, Alive
<1>3. PICK d \in Dirs \ dirs, s \in KStacks \ stacks :
        /\ tasks' = [tasks EXCEPT ![i] = Child(current, i, d), ![current].kernel_stack = s]
        /\ dirs' = dirs \cup {d} /\ stacks' = stacks \cup {s}
  BY DEF sys_fork
<1>4. /\ tasks'[i] = Child(current, i, d)
      /\ tasks'[current] = [tasks[current] EXCEPT !.kernel_stack = s]
      /\ \A j \in Slots \ {i, current} : tasks'[j] = tasks[j]
      /\ tasks' = [j \in Slots |-> tasks'[j]]
  BY <1>1, <1>2, <1>3
<1>5. tasks[current] \in Task
  BY <1>1
<1>6. /\ tasks'[i] \in Task
      /\ tasks'[i].pid = i
      /\ tasks'[i].parent = current
      /\ tasks'[i].state = "WAITING"
      /\ tasks'[i].kernel_stack = tasks[current].kernel_stack
      /\ tasks'[i].directory = d
  <2>1. PICK r \in Task : r = tasks[current]
    BY <1>5
  <2>2. tasks'[i] = [r EXCEPT !.pid = i, !.exit_code = 0, !.state = "WAITING",
                              !.parent = current, !.directory = d, !.signals = FALSE]
    BY <1>1, <1>4, <2>1 DEF Child
  <2> QED
    BY <1>1, <2>1, <2>2, CodeAssumption DEF Task, States
<1>7. /\ tasks'[current] \in Task
      /\ tasks'[current].kernel_stack = s
      /\ tasks'[current].pid = tasks[current].pid
      /\ tasks'[current].parent = tasks[current].parent
      /\ tasks'[current].state = tasks[current].state
      /\ tasks'[current].exit_code = tasks[current].exit_code
      /\ tasks'[current].directory = tasks[current].directory
  BY <1>4, <1>5 DEF Task
<1>8. tasks' \in [Slots -> Task]
  BY <1>1, <1>4, <1>6, <1>7
<1> QED
  BY <1>2, <1>3, <1>4, <1>6, <1>7, <1>8

\* The parts of the invariant that do not speak of places.
LEMMA ForkStep ==
    ASSUME IInv, NEW i \in Slots, sys_fork(i)
    PROVE  /\ tasks' \in [Slots -> Task] /\ stacks' \subseteq KStacks /\ dirs' \subseteq Dirs
           /\ \A j \in Slots \ {i} : (Used(j)' <=> Used(j)) /\ (Alive(j)' <=> Alive(j))
           /\ Alive(i)' /\ Used(i)' /\ ~Used(i)
           /\ UNCHANGED <<current, esp0, halted>> /\ irq' = TRUE
           /\ OneRunning' /\ ResourcesOwned' /\ Esp0Allocated' /\ NoDeadParent'
<1>1. UNCHANGED <<current, esp0, halted>> /\ irq' = TRUE
  BY DEF sys_fork
<1>2. PICK d \in Dirs \ dirs, s \in KStacks \ stacks :
                /\ dirs' = dirs \cup {d} /\ stacks' = stacks \cup {s}
                /\ tasks'[i].directory = d
                /\ tasks'[current].kernel_stack = s
  BY ForkFacts
<1>3. stacks' \subseteq KStacks /\ dirs' \subseteq Dirs
  BY <1>2 DEF IInv, TypeOK
<1>4. /\ \A j \in Slots \ {i} : (Used(j)' <=> Used(j)) /\ (Alive(j)' <=> Alive(j))
      /\ Alive(i)' /\ Used(i)' /\ ~Used(i)
  BY ForkFacts, NrTasksAssumption DEF Used, Alive, NO_TASK, Slots
<1>5. OneRunning'
  BY <1>1, <1>4, ForkFacts DEF IInv, TypeOK, OneRunning
<1>6. ResourcesOwned'
  <2>1. \A j \in Slots : Alive(j)' => tasks'[j].kernel_stack \in stacks'
                                     /\ tasks'[j].directory \in dirs'
    BY <1>2, <1>4, ForkFacts DEF IInv, TypeOK, ResourcesOwned, OneRunning
  <2>2. ASSUME NEW j \in Slots, NEW k \in Slots, Alive(j)', Alive(k)', j # k
        PROVE  /\ tasks'[j].kernel_stack # tasks'[k].kernel_stack
               /\ tasks'[j].directory # tasks'[k].directory
    BY <1>2, <1>4, <2>2, ForkFacts, SMTT(30) DEF IInv, TypeOK, ResourcesOwned, OneRunning
  <2>3. ASSUME NEW r \in stacks'
        PROVE  \E j \in Slots : Alive(j)' /\ tasks'[j].kernel_stack = r
    <3>1. CASE r = s
      BY <1>2, <1>4, <3>1, ForkFacts DEF IInv, TypeOK, OneRunning
    <3>2. CASE r \in stacks
      <4>1. PICK k \in Slots : Alive(k) /\ tasks[k].kernel_stack = r
        BY <3>2 DEF IInv, ResourcesOwned
      <4>2. CASE k = current
        BY <1>4, <4>1, <4>2, ForkFacts
      <4>3. CASE k # current
        BY <1>4, <4>1, <4>3, ForkFacts DEF Alive
      <4> QED BY <4>2, <4>3
    <3> QED BY <1>2, <3>1, <3>2
  <2>4. ASSUME NEW r \in dirs'
        PROVE  \E j \in Slots : Alive(j)' /\ tasks'[j].directory = r
    <3>1. CASE r = d
      BY <1>2, <1>4, <3>1
    <3>2. CASE r \in dirs
      <4>1. PICK k \in Slots : Alive(k) /\ tasks[k].directory = r
        BY <3>2 DEF IInv, ResourcesOwned
      <4>2. tasks'[k].directory = r
        BY <1>4, <4>1, ForkFacts DEF Alive
      <4> QED BY <1>4, <4>1, <4>2, ForkFacts DEF Alive
    <3> QED BY <1>2, <3>1, <3>2
  <2> QED
    BY <2>1, <2>2, <2>3, <2>4 DEF ResourcesOwned
<1>7. Esp0Allocated'
  BY <1>1, <1>2 DEF IInv, Esp0Allocated
<1>8. NoDeadParent'
  <2>1. ASSUME NEW j \in Slots, Used(j)', tasks'[j].parent \notin {0, 1}
        PROVE  Alive(tasks[j].parent)'
    <3>1. CASE j = i
      BY <1>1, <1>5, <3>1, ForkFacts DEF OneRunning
    <3>2. CASE j # i
      <4>1. tasks'[j].parent = tasks[j].parent /\ Used(j) /\ tasks[j].parent \in Slots
        BY <1>4, <2>1, <3>2, ForkFacts DEF IInv, TypeOK, Task
      <4>2. Alive(tasks[j].parent)
        BY <2>1, <4>1 DEF IInv, NoDeadParent
      <4> QED
        BY <1>4, <4>1, <4>2 DEF Alive, Used
    <3> QED BY <3>1, <3>2
  <2> QED BY <2>1 DEF NoDeadParent
<1> QED
  BY <1>1, <1>3, <1>4, <1>5, <1>6, <1>7, <1>8, ForkFacts

\* A waiter that was one before the fork still owns its child.
LEMMA ForkWaiter ==
    ASSUME IInv, NEW i \in Slots, sys_fork(i), NEW q \in Slots, NEW t \in Slots,
           Used(t), tasks[t].parent = q
    PROVE  /\ Used(t)' /\ tasks'[t].parent = q
           /\ tasks'[t].state = tasks[t].state /\ tasks'[t].exit_code = tasks[t].exit_code
<1>1. t # i
  BY ForkFacts
<1>2. tasks'[t].pid = tasks[t].pid /\ tasks'[t].parent = tasks[t].parent
      /\ tasks'[t].state = tasks[t].state /\ tasks'[t].exit_code = tasks[t].exit_code
  BY <1>1, ForkFacts
<1> QED
  BY <1>2 DEF Used

\* A fork that returns to its caller at once keeps the invariant.
LEMMA PlainForkStep ==
    ASSUME IInv, NEW i \in Slots, sys_fork(i), UNCHANGED locals,
           NEW l \in Places \ NishPlaces,
           pc' = [pc EXCEPT ![current] = l, ![i] = "user"],
           l # "dead", l \in KernelPlaces <=> current = 0
    PROVE  IInv'
<1>1. TypeOK'
  BY ForkStep DEF IInv, TypeOK, locals, Places
<1>2. PlacesAgree'
  <2>1. \A j \in Slots : tasks'[j].pid \in {j, NO_TASK}
    BY ForkFacts DEF IInv, PlacesAgree
  <2>2. i # current /\ i # 0 /\ current \in Slots
    BY ForkFacts DEF IInv, TypeOK
  <2>3. /\ \A j \in Slots \ {i, current} : pc'[j] = pc[j]
        /\ pc'[i] = "user" /\ pc'[current] = l
    BY <2>2 DEF IInv, TypeOK
  <2>4. \A j \in Slots : (pc'[j] # "dead") <=> Alive(j)'
    BY <2>2, <2>3, ForkStep DEF IInv, PlacesAgree, OneRunning
  <2>5. \A j \in Slots : (pc'[j] \in KernelPlaces) <=> (j = 0)
    BY <2>2, <2>3 DEF IInv, PlacesAgree, KernelPlaces
  <2>6. \A j \in Slots : (pc'[j] \in NishPlaces) => (j \in MayNish)
    BY <2>2, <2>3 DEF IInv, PlacesAgree, NishPlaces
  <2> QED
    BY <2>1, <2>4, <2>5, <2>6 DEF PlacesAgree
<1>3. WaiterOwnsChild'
  <2>1. newtask' = newtask /\ fork_pid' = fork_pid /\ exit_code' = exit_code
    BY DEF locals
  <2>2. ASSUME NEW q \in Slots, pc'[q] \in NishPlaces
        PROVE  /\ pc'[q] = pc[q] /\ newtask[q] \in Slots /\ fork_pid[q] \in Slots
    BY <2>2 DEF IInv, TypeOK, NishPlaces
  <2>3. ASSUME NEW q \in Slots, pc'[q] = "forked"
        PROVE  Used(newtask[q])' /\ tasks'[newtask'[q]].parent = q
    <3>1. pc[q] = "forked" /\ newtask[q] \in Slots /\ newtask'[q] = newtask[q]
      BY <2>1, <2>2, <2>3 DEF NishPlaces
    <3>2. Used(newtask[q]) /\ tasks[newtask[q]].parent = q
      BY <3>1 DEF IInv, WaiterOwnsChild
    <3> QED
      BY <3>1, <3>2, ForkWaiter DEF Used
  <2>4. ASSUME NEW q \in Slots, pc'[q] \in {"spin", "status", "free"}
        PROVE  /\ Used(fork_pid[q])' /\ tasks'[fork_pid'[q]].parent = q
               /\ pc'[q] \in {"status", "free"} => tasks'[fork_pid'[q]].state = "ZOMBIE"
               /\ pc'[q] = "free" => exit_code'[q] = tasks'[fork_pid'[q]].exit_code
    <3>1. pc[q] = pc'[q] /\ fork_pid[q] \in Slots /\ fork_pid' = fork_pid
          /\ exit_code' = exit_code
      BY <2>1, <2>2, <2>4 DEF NishPlaces
    <3>2. /\ Used(fork_pid[q]) /\ tasks[fork_pid[q]].parent = q
          /\ pc[q] \in {"status", "free"} => tasks[fork_pid[q]].state = "ZOMBIE"
          /\ pc[q] = "free" => exit_code[q] = tasks[fork_pid[q]].exit_code
      BY <2>4, <3>1 DEF IInv, WaiterOwnsChild
    <3>3. /\ Used(fork_pid[q])' /\ tasks'[fork_pid[q]].parent = q
          /\ tasks'[fork_pid[q]].state = tasks[fork_pid[q]].state
          /\ tasks'[fork_pid[q]].exit_code = tasks[fork_pid[q]].exit_code
      BY <3>1, <3>2, ForkWaiter DEF Used
    <3> QED
      BY <3>1, <3>2, <3>3
  <2> QED
    BY <2>3, <2>4 DEF WaiterOwnsChild
<1> QED
  BY <1>1, <1>2, <1>3, ForkStep DEF IInv

\* The fork of init by the kernel task keeps the invariant.
LEMMA StartInitStep == IInv /\ StartInit => IInv'
<1> SUFFICES ASSUME IInv, StartInit PROVE IInv'
  OBVIOUS
<1>1. PICK i \in Slots : sys_fork(i) /\ pc' = [pc EXCEPT ![0] = "idle", ![i] = "user"]
  BY DEF StartInit
<1>2. current = 0 /\ UNCHANGED locals
  BY DEF StartInit, At
<1> QED
  BY <1>1, <1>2, PlainForkStep DEF Places, NishPlaces, KernelPlaces

\* The fork system call keeps the invariant.
LEMMA ForkActionStep == ASSUME NEW p \in Slots PROVE IInv /\ Fork(p) => IInv'
<1> SUFFICES ASSUME IInv, Fork(p) PROVE IInv'
  OBVIOUS
<1>1. PICK i \in Slots : sys_fork(i) /\ pc' = [pc EXCEPT ![i] = "user"]
  BY DEF Fork
<1>2. current = p /\ pc[p] = "user" /\ UNCHANGED locals
  BY DEF Fork, At
<1>3. pc' = [pc EXCEPT ![current] = "user", ![i] = "user"]
  BY <1>1, <1>2 DEF IInv, TypeOK
<1>4. current # 0
  BY <1>2 DEF IInv, PlacesAgree, KernelPlaces
<1> QED
  BY <1>1, <1>2, <1>3, <1>4, PlainForkStep DEF Places, NishPlaces, KernelPlaces

\* The fork of nish_exec, which stops before its return, keeps the invariant.
LEMMA NishExecStep == ASSUME NEW p \in Slots PROVE IInv /\ NishExec(p) => IInv'
<1> SUFFICES ASSUME IInv, NishExec(p) PROVE IInv'
  OBVIOUS
<1>1. PICK i \in Slots : /\ sys_fork(i)
                         /\ pc' = [pc EXCEPT ![p] = "forked", ![i] = "child"]
                         /\ newtask' = [newtask EXCEPT ![p] = i]
  BY DEF NishExec
<1>2. /\ current = p /\ pc[p] = "user" /\ p \in MayNish
      /\ fork_pid' = fork_pid /\ exit_code' = exit_code
  BY DEF NishExec, At
<1>3. i # p /\ i # 0 /\ p # 0
  BY <1>1, <1>2, ForkFacts DEF IInv, PlacesAgree, KernelPlaces
<1>4. /\ \A j \in Slots \ {i, p} : pc'[j] = pc[j]
      /\ pc'[i] = "child" /\ pc'[p] = "forked"
  BY <1>1, <1>3 DEF IInv, TypeOK
<1>5. TypeOK'
  BY <1>1, <1>2, ForkStep DEF IInv, TypeOK, Places
<1>6. PlacesAgree'
  <2>1. \A j \in Slots : tasks'[j].pid \in {j, NO_TASK}
    BY <1>1, ForkFacts DEF IInv, PlacesAgree
  <2>2. \A j \in Slots : (pc'[j] # "dead") <=> Alive(j)'
    BY <1>1, <1>2, <1>3, <1>4, ForkStep DEF IInv, PlacesAgree, OneRunning
  <2>3. \A j \in Slots : (pc'[j] \in KernelPlaces) <=> (j = 0)
    BY <1>3, <1>4 DEF IInv, PlacesAgree, KernelPlaces
  <2>4. \A j \in Slots : (pc'[j] \in NishPlaces) => (j \in MayNish)
    BY <1>2, <1>4 DEF IInv, PlacesAgree, NishPlaces
  <2> QED
    BY <2>1, <2>2, <2>3, <2>4 DEF PlacesAgree
<1>7. WaiterOwnsChild'
  <2>1. ASSUME NEW q \in Slots \ {p}, pc'[q] \in NishPlaces
        PROVE  /\ pc'[q] = pc[q] /\ newtask[q] \in Slots /\ fork_pid[q] \in Slots
               /\ newtask'[q] = newtask[q]
    BY <1>1, <1>4, <2>1 DEF IInv, TypeOK, NishPlaces
  <2>2. newtask'[p] = i /\ Used(i)' /\ tasks'[i].parent = p
    BY <1>1, <1>2, ForkFacts, ForkStep DEF IInv, TypeOK
  <2>3. ASSUME NEW q \in Slots \ {p}, pc'[q] = "forked"
        PROVE  Used(newtask[q])' /\ tasks'[newtask'[q]].parent = q
    <3>1. pc[q] = "forked" /\ newtask[q] \in Slots /\ newtask'[q] = newtask[q]
      BY <2>1, <2>3 DEF NishPlaces
    <3>2. Used(newtask[q]) /\ tasks[newtask[q]].parent = q
      BY <3>1 DEF IInv, WaiterOwnsChild
    <3> QED
      BY <1>1, <3>1, <3>2, ForkWaiter DEF Used
  <2>4. ASSUME NEW q \in Slots \ {p}, pc'[q] \in {"spin", "status", "free"}
        PROVE  /\ Used(fork_pid[q])' /\ tasks'[fork_pid'[q]].parent = q
               /\ pc'[q] \in {"status", "free"} => tasks'[fork_pid'[q]].state = "ZOMBIE"
               /\ pc'[q] = "free" => exit_code'[q] = tasks'[fork_pid'[q]].exit_code
    <3>1. pc[q] = pc'[q] /\ fork_pid[q] \in Slots /\ fork_pid' = fork_pid
          /\ exit_code' = exit_code
      BY <1>2, <2>1, <2>4 DEF NishPlaces
    <3>2. /\ Used(fork_pid[q]) /\ tasks[fork_pid[q]].parent = q
          /\ pc[q] \in {"status", "free"} => tasks[fork_pid[q]].state = "ZOMBIE"
          /\ pc[q] = "free" => exit_code[q] = tasks[fork_pid[q]].exit_code
      BY <2>4, <3>1 DEF IInv, WaiterOwnsChild
    <3>3. /\ Used(fork_pid[q])' /\ tasks'[fork_pid[q]].parent = q
          /\ tasks'[fork_pid[q]].state = tasks[fork_pid[q]].state
          /\ tasks'[fork_pid[q]].exit_code = tasks[fork_pid[q]].exit_code
      BY <1>1, <3>1, <3>2, ForkWaiter DEF Used
    <3> QED
      BY <3>1, <3>2, <3>3
  <2>5. Used(newtask[p])' /\ tasks'[newtask'[p]].parent = p
    BY <2>2 DEF Used
  <2> QED
    BY <1>4, <2>3, <2>4, <2>5 DEF WaiterOwnsChild
<1> QED
  BY <1>1, <1>5, <1>6, <1>7, ForkStep DEF IInv

-----------------------------------------------------------------------------
(***************************************************************************)
(* exit                                                                    *)
(***************************************************************************)

\* The loop over the children: parents change, nothing else does.
LEMMA OrphanedFacts ==
    ASSUME NEW T \in [Slots -> Task], NEW p \in Slots
    PROVE  /\ Orphaned(T, p) \in [Slots -> Task]
           /\ \A i \in Slots :
                /\ Orphaned(T, p)[i].pid = T[i].pid
                /\ Orphaned(T, p)[i].state = T[i].state
                /\ Orphaned(T, p)[i].exit_code = T[i].exit_code
                /\ Orphaned(T, p)[i].kernel_stack = T[i].kernel_stack
                /\ Orphaned(T, p)[i].directory = T[i].directory
                /\ Orphaned(T, p)[i].parent =
                     IF T[i].pid # NO_TASK /\ T[i].parent = T[p].pid THEN 1 ELSE T[i].parent
<1> DEFINE O == Orphaned(T, p)
<1>1. ASSUME NEW i \in Slots
      PROVE  /\ O[i] \in Task
             /\ O[i].pid = T[i].pid
             /\ O[i].state = T[i].state
             /\ O[i].exit_code = T[i].exit_code
             /\ O[i].kernel_stack = T[i].kernel_stack
             /\ O[i].directory = T[i].directory
             /\ O[i].parent =
                  IF T[i].pid # NO_TASK /\ T[i].parent = T[p].pid THEN 1 ELSE T[i].parent
  <2>1. T[i] \in Task /\ 1 \in Slots
    BY NrTasksAssumption DEF Slots
  <2>2. CASE T[i].pid # NO_TASK /\ T[i].parent = T[p].pid
    <3>1. O[i] = [T[i] EXCEPT !.parent = 1]
      BY <2>2 DEF Orphaned
    <3> HIDE DEF O
    <3> QED BY <2>1, <2>2, <3>1 DEF Task
  <2>3. CASE ~(T[i].pid # NO_TASK /\ T[i].parent = T[p].pid)
    <3>1. O[i] = T[i]
      BY <2>3 DEF Orphaned
    <3> HIDE DEF O
    <3> QED BY <2>1, <2>3, <3>1
  <2> QED BY <2>2, <2>3
<1>2. O = [i \in Slots |-> O[i]]
  BY DEF Orphaned
<1> HIDE DEF O
<1>3. O \in [Slots -> Task]
  BY <1>1, <1>2
<1> QED
  BY <1>1, <1>3 DEF O

\* The table sys_exit gives to switch_task.
LEMMA ExitedFacts ==
    ASSUME NEW T \in [Slots -> Task], NEW p \in Slots, NEW status \in ExitCodes
    PROVE  LET E == Exited(T, p, status)
           IN  /\ E \in [Slots -> Task]
               /\ E[p].state = "ZOMBIE"
               /\ \A i \in Slots \ {p} : E[i].state = T[i].state /\ E[i].exit_code = T[i].exit_code
               /\ \A i \in Slots :
                    /\ E[i].pid = T[i].pid
                    /\ E[i].kernel_stack = T[i].kernel_stack
                    /\ E[i].directory = T[i].directory
                    /\ E[i].parent = IF T[i].pid # NO_TASK /\ T[i].parent = T[p].pid
                                       THEN 1 ELSE T[i].parent
<1> DEFINE O == Orphaned(T, p)
           Z == [O EXCEPT ![p].state = "ZOMBIE", ![p].exit_code = status]
           E == Exited(T, p, status)
<1>1. O \in [Slots -> Task] /\ O[p] \in Task
  BY OrphanedFacts
<1>2. /\ Z[p] = [[O[p] EXCEPT !.state = "ZOMBIE"] EXCEPT !.exit_code = status]
      /\ \A i \in Slots \ {p} : Z[i] = O[i]
      /\ Z = [i \in Slots |-> Z[i]]
  BY <1>1
<1>3. E = sys_kill(Z, Z[p].parent)
  BY DEF Exited
<1> HIDE DEF O, Z, E
<1>4. /\ Z[p] \in Task /\ Z[p].state = "ZOMBIE" /\ Z[p].pid = O[p].pid
      /\ Z[p].kernel_stack = O[p].kernel_stack /\ Z[p].directory = O[p].directory
      /\ Z[p].parent = O[p].parent
  BY <1>1, <1>2 DEF Task, States
<1>5. Z \in [Slots -> Task]
  BY <1>1, <1>2, <1>4
<1>6. E \in [Slots -> Task] /\ \A i \in Slots : SameTask(E[i], Z[i]) /\ E[i].state = Z[i].state
  BY <1>3, <1>5, KillFacts
<1>7. ASSUME NEW i \in Slots
      PROVE  /\ E[i].pid = O[i].pid
             /\ E[i].kernel_stack = O[i].kernel_stack
             /\ E[i].directory = O[i].directory
             /\ E[i].parent = O[i].parent
  <2>1. CASE i = p
    BY <1>4, <1>6, <2>1 DEF SameTask
  <2>2. CASE i # p
    BY <1>2, <1>6, <2>2 DEF SameTask
  <2> QED BY <2>1, <2>2
<1>8. \A i \in Slots \ {p} : E[i].state = O[i].state /\ E[i].exit_code = O[i].exit_code
  BY <1>2, <1>6 DEF SameTask
<1>9. E[p].state = "ZOMBIE"
  BY <1>4, <1>6
<1> QED
  BY <1>6, <1>7, <1>8, <1>9, OrphanedFacts DEF O, E

\* sys_exit of a program or of a nish child.
LEMMA ExitStep ==
    ASSUME IInv, NEW p \in Slots, NEW status \in ExitCodes, current = p, p # 0,
           pc[p] \notin NishPlaces, sys_exit(p, status)
    PROVE  IInv'
<1> DEFINE E == Exited(tasks, p, status)
<1>1. /\ switch_task(E)
      /\ stacks' = stacks \ {tasks[p].kernel_stack}
      /\ dirs' = dirs \ {tasks[p].directory}
      /\ pc' = [pc EXCEPT ![p] = "dead"]
      /\ UNCHANGED <<halted, locals>>
  BY DEF sys_exit
<1>2. tasks \in [Slots -> Task] /\ Alive(p) /\ tasks[p].pid = p
  BY DEF IInv, TypeOK, OneRunning, PlacesAgree, Alive, Used
<1>3. /\ E \in [Slots -> Task]
      /\ E[p].state = "ZOMBIE"
      /\ \A i \in Slots \ {p} : E[i].state = tasks[i].state /\ E[i].exit_code = tasks[i].exit_code
      /\ \A i \in Slots :
           /\ E[i].pid = tasks[i].pid
           /\ E[i].kernel_stack = tasks[i].kernel_stack
           /\ E[i].directory = tasks[i].directory
           /\ E[i].parent = IF Used(i) /\ tasks[i].parent = p THEN 1 ELSE tasks[i].parent
  BY <1>2, ExitedFacts DEF Used
<1> HIDE DEF E
<1>4. E[0].pid # NO_TASK /\ E[0].state # "ZOMBIE"
  BY <1>3, KernelAlive DEF Alive, Used
<1>5. /\ current' \in Slots
      /\ tasks' \in [Slots -> Task]
      /\ \A i \in Slots : SameTask(tasks'[i], E[i])
      /\ \A i \in Slots \ {current'} :
           tasks'[i].state = "RUNNING" => E[i].state = "RUNNING" /\ i # p
      /\ tasks'[current'].pid # NO_TASK
      /\ tasks'[current'].state = "RUNNING"
      /\ esp0' = tasks'[current'].kernel_stack
      /\ irq' = TRUE
  BY <1>1, <1>3, <1>4, SwitchFacts DEF switch_task
<1>6. \A i \in Slots : /\ Used(i)' <=> Used(i)
                       /\ Alive(i)' <=> Alive(i) /\ i # p
                       /\ tasks'[i].kernel_stack = tasks[i].kernel_stack
                       /\ tasks'[i].directory = tasks[i].directory
                       /\ tasks'[i].pid = tasks[i].pid
                       /\ tasks'[i].parent =
                            IF Used(i) /\ tasks[i].parent = p THEN 1 ELSE tasks[i].parent
  BY <1>3, <1>5 DEF SameTask, Used, Alive
<1>7. OneRunning'
  <2>1. Alive(current)'
    BY <1>5 DEF Alive, Used
  <2>2. ASSUME NEW i \in Slots, Used(i)', tasks'[i].state = "RUNNING", i # current'
        PROVE  FALSE
    BY <1>3, <1>5, <1>6, <2>2 DEF IInv, OneRunning
  <2> QED
    BY <2>1, <2>2 DEF OneRunning
<1>8. ResourcesOwned'
  BY <1>1, <1>2, <1>6 DEF IInv, ResourcesOwned
<1>9. esp0' \in stacks' /\ esp0' \in KStacks
  BY <1>1, <1>5, <1>7, <1>8 DEF IInv, TypeOK, ResourcesOwned, OneRunning
<1>10. TypeOK'
  BY <1>1, <1>5, <1>9 DEF IInv, TypeOK, locals, Places
<1>11. PlacesAgree'
  BY <1>1, <1>6 DEF IInv, TypeOK, PlacesAgree, KernelPlaces, NishPlaces
<1>12. NoDeadParent'
  <2>1. ASSUME NEW i \in Slots, Used(i)', tasks'[i].parent \notin {0, 1}
        PROVE  Alive(tasks[i].parent)'
    <3>1. Used(i) /\ tasks'[i].parent = tasks[i].parent /\ tasks[i].parent # p
      BY <1>6, <2>1
    <3>2. Alive(tasks[i].parent) /\ tasks[i].parent \in Slots
      BY <1>2, <2>1, <3>1 DEF IInv, NoDeadParent, Task
    <3> QED
      BY <1>6, <3>1, <3>2 DEF Alive, Used
  <2> QED BY <2>1 DEF NoDeadParent
<1>13. WaiterOwnsChild'
  <2>1. newtask' = newtask /\ fork_pid' = fork_pid /\ exit_code' = exit_code
        /\ newtask \in [Slots -> Slots] /\ fork_pid \in [Slots -> Slots]
    BY <1>1 DEF locals, IInv, TypeOK
  <2>2. ASSUME NEW q \in Slots, pc'[q] \in NishPlaces
        PROVE  q # p /\ pc'[q] = pc[q]
    BY <1>1, <2>2 DEF IInv, TypeOK, NishPlaces
  <2>3. ASSUME NEW q \in Slots \ {p}, NEW t \in Slots, Used(t), tasks[t].parent = q
        PROVE  /\ Used(t)' /\ tasks'[t].parent = q
               /\ tasks[t].state = "ZOMBIE" => /\ tasks'[t].state = "ZOMBIE"
                                               /\ tasks'[t].exit_code = tasks[t].exit_code
    BY <1>2, <1>3, <1>5, <1>6, <2>3 DEF SameTask, Alive
  <2>4. ASSUME NEW q \in Slots, pc'[q] = "forked"
        PROVE  Used(newtask[q])' /\ tasks'[newtask'[q]].parent = q
    <3>1. q # p /\ Used(newtask[q]) /\ tasks[newtask[q]].parent = q
      BY <2>2, <2>4 DEF IInv, WaiterOwnsChild, NishPlaces
    <3> QED
      BY <2>1, <2>3, <3>1 DEF Used
  <2>5. ASSUME NEW q \in Slots, pc'[q] \in {"spin", "status", "free"}
        PROVE  /\ Used(fork_pid[q])' /\ tasks'[fork_pid'[q]].parent = q
               /\ pc'[q] \in {"status", "free"} => tasks'[fork_pid'[q]].state = "ZOMBIE"
               /\ pc'[q] = "free" => exit_code'[q] = tasks'[fork_pid'[q]].exit_code
    <3>1. /\ q # p /\ pc'[q] = pc[q]
          /\ Used(fork_pid[q]) /\ tasks[fork_pid[q]].parent = q
          /\ pc[q] \in {"status", "free"} => tasks[fork_pid[q]].state = "ZOMBIE"
          /\ pc[q] = "free" => exit_code[q] = tasks[fork_pid[q]].exit_code
      BY <2>2, <2>5 DEF IInv, WaiterOwnsChild, NishPlaces
    <3> QED
      BY <2>1, <2>3, <3>1 DEF Used
  <2> QED
    BY <2>4, <2>5 DEF WaiterOwnsChild
<1> QED
  BY <1>7, <1>8, <1>9, <1>10, <1>11, <1>12, <1>13 DEF IInv, Esp0Allocated

\* The exit system call, and the exit of a child of nish_exec, keep the invariant.
LEMMA ExitActionStep ==
    ASSUME NEW p \in Slots, NEW status \in ExitCodes
    PROVE  IInv /\ (Exit(p, status) \/ NishChildExit(p, status)) => IInv'
<1> SUFFICES ASSUME IInv, Exit(p, status) \/ NishChildExit(p, status) PROVE IInv'
  OBVIOUS
<1>1. current = p /\ pc[p] \in {"user", "child"} /\ sys_exit(p, status)
  BY DEF Exit, NishChildExit, At
<1>2. p # 0 /\ pc[p] \notin NishPlaces
  BY <1>1 DEF IInv, PlacesAgree, KernelPlaces, NishPlaces
<1> QED
  BY <1>1, <1>2, ExitStep

\* The kernel task halting the system keeps the invariant.
LEMMA KernelAbortStep == IInv /\ KernelAbort => IInv'
<1> SUFFICES ASSUME IInv, KernelAbort PROVE IInv'
  OBVIOUS
<1>1. /\ tasks' = Orphaned(tasks, 0) /\ irq' = FALSE /\ halted' = TRUE
      /\ UNCHANGED <<current, esp0, stacks, dirs, pc, locals>>
  BY DEF KernelAbort
<1>2. tasks \in [Slots -> Task] /\ 0 \in Slots /\ tasks[0].pid = 0
  BY KernelAlive DEF IInv, TypeOK, PlacesAgree, Alive, Used
<1>3. /\ tasks' \in [Slots -> Task]
      /\ \A i \in Slots :
           /\ tasks'[i].pid = tasks[i].pid
           /\ tasks'[i].state = tasks[i].state
           /\ tasks'[i].exit_code = tasks[i].exit_code
           /\ tasks'[i].kernel_stack = tasks[i].kernel_stack
           /\ tasks'[i].directory = tasks[i].directory
           /\ tasks'[i].parent = IF Used(i) /\ tasks[i].parent = 0 THEN 1 ELSE tasks[i].parent
  BY <1>1, <1>2, OrphanedFacts DEF Used
<1>4. \A i \in Slots : (Used(i)' <=> Used(i)) /\ (Alive(i)' <=> Alive(i))
  BY <1>3 DEF Used, Alive
<1>5. TypeOK'
  BY <1>1, <1>3 DEF IInv, TypeOK, locals
<1>6. PlacesAgree'
  BY <1>1, <1>3, <1>4 DEF IInv, PlacesAgree
<1>7. OneRunning' /\ Esp0Allocated'
  BY <1>1, <1>3, <1>4 DEF IInv, TypeOK, OneRunning, Esp0Allocated
<1>8. ResourcesOwned'
  BY <1>1, <1>3, <1>4 DEF IInv, ResourcesOwned
<1>9. NoDeadParent'
  <2>1. ASSUME NEW i \in Slots, Used(i)', tasks'[i].parent \notin {0, 1}
        PROVE  Alive(tasks[i].parent)'
    BY <1>2, <1>3, <1>4, <2>1 DEF IInv, NoDeadParent, Task, Alive, Used
  <2> QED BY <2>1 DEF NoDeadParent
<1>10. WaiterOwnsChild'
  <2>1. /\ pc' = pc /\ newtask' = newtask /\ fork_pid' = fork_pid /\ exit_code' = exit_code
        /\ newtask \in [Slots -> Slots] /\ fork_pid \in [Slots -> Slots]
    BY <1>1 DEF locals, IInv, TypeOK
  <2>2. \A q \in Slots : pc[q] \in NishPlaces => q # 0
    BY DEF IInv, PlacesAgree, KernelPlaces, NishPlaces
  <2>3. ASSUME NEW q \in Slots \ {0}, NEW t \in Slots, Used(t), tasks[t].parent = q
        PROVE  Used(t)' /\ tasks'[t].parent = q
    BY <1>3, <1>4, <2>3
  <2> QED
    BY <1>3, <2>1, <2>2, <2>3 DEF IInv, WaiterOwnsChild, NishPlaces, Used
<1> QED
  BY <1>5, <1>6, <1>7, <1>8, <1>9, <1>10 DEF IInv

-----------------------------------------------------------------------------
(***************************************************************************)
(* waitpid                                                                 *)
(***************************************************************************)

\* Freeing the slot of a zombie changes nothing for the living.
LEMMA ReapStep ==
    ASSUME IInv, NEW w \in Slots, tasks[w].state = "ZOMBIE",
           tasks' = [tasks EXCEPT ![w].pid = NO_TASK],
           UNCHANGED <<current, esp0, stacks, dirs>>
    PROVE  /\ tasks' \in [Slots -> Task]
           /\ \A i \in Slots \ {w} : tasks'[i] = tasks[i]
           /\ \A i \in Slots : (Alive(i)' <=> Alive(i)) /\ tasks'[i].pid \in {i, NO_TASK}
           /\ OneRunning' /\ Esp0Allocated' /\ ResourcesOwned' /\ NoDeadParent'
<1>1. tasks \in [Slots -> Task] /\ tasks[w] \in Task
  BY DEF IInv, TypeOK
<1>2. /\ tasks'[w] = [tasks[w] EXCEPT !.pid = NO_TASK]
      /\ \A i \in Slots \ {w} : tasks'[i] = tasks[i]
      /\ tasks' = [i \in Slots |-> tasks'[i]]
  BY <1>1
<1>3. /\ tasks'[w] \in Task /\ tasks'[w].pid = NO_TASK /\ tasks'[w].state = "ZOMBIE"
      /\ tasks'[w].parent = tasks[w].parent
  BY <1>1, <1>2 DEF Task
<1>4. tasks' \in [Slots -> Task]
  BY <1>1, <1>2, <1>3
<1>5. \A i \in Slots : (Alive(i)' <=> Alive(i)) /\ tasks'[i].pid \in {i, NO_TASK}
  BY <1>2, <1>3 DEF IInv, PlacesAgree, Alive, Used
<1>6. \A i \in Slots : Used(i)' => Used(i) /\ i # w
  BY <1>2, <1>3 DEF Used
<1>7. OneRunning' /\ Esp0Allocated'
  BY <1>2, <1>5, <1>6 DEF IInv, TypeOK, OneRunning, Esp0Allocated
<1>8. ResourcesOwned'
  <2>1. \A i \in Slots : Alive(i) => tasks'[i] = tasks[i]
    BY <1>2 DEF Alive
  <2> QED
    BY <1>5, <2>1 DEF IInv, ResourcesOwned
<1>9. NoDeadParent'
  <2>1. ASSUME NEW i \in Slots, Used(i)', tasks'[i].parent \notin {0, 1}
        PROVE  Alive(tasks[i].parent)'
    <3>1. Used(i) /\ tasks'[i].parent = tasks[i].parent /\ tasks[i].parent \in Slots
      BY <1>1, <1>2, <1>6, <2>1 DEF Task
    <3>2. Alive(tasks[i].parent)
      BY <2>1, <3>1 DEF IInv, NoDeadParent
    <3> QED
      BY <1>5, <3>1, <3>2 DEF Alive, Used
  <2> QED BY <2>1 DEF NoDeadParent
<1> QED
  BY <1>2, <1>4, <1>5, <1>7, <1>8, <1>9

\* The last step of nish_exec's wait.  Another waiter's child has another
\* parent, so it is not in the slot that is freed.
LEMMA WaitFreeStep == ASSUME NEW p \in Slots PROVE IInv /\ WaitFree(p) => IInv'
<1> SUFFICES ASSUME IInv, WaitFree(p) PROVE IInv'
  OBVIOUS
<1> DEFINE w == fork_pid[p]
<1>1. /\ pc[p] = "free"
      /\ tasks' = [tasks EXCEPT ![w].pid = NO_TASK]
      /\ pc' = [pc EXCEPT ![p] = "user"]
      /\ fork_pid' = [fork_pid EXCEPT ![p] = 0]
      /\ exit_code' = [exit_code EXCEPT ![p] = 0]
      /\ UNCHANGED <<current, irq, esp0, stacks, dirs, newtask, halted>>
  BY DEF WaitFree, At
<1>2. w \in Slots /\ tasks[w].state = "ZOMBIE" /\ tasks[w].parent = p
  BY <1>1 DEF IInv, TypeOK, WaiterOwnsChild
<1> HIDE DEF w
<1>3. /\ tasks' \in [Slots -> Task]
      /\ \A i \in Slots \ {w} : tasks'[i] = tasks[i]
      /\ \A i \in Slots : (Alive(i)' <=> Alive(i)) /\ tasks'[i].pid \in {i, NO_TASK}
      /\ OneRunning' /\ Esp0Allocated' /\ ResourcesOwned' /\ NoDeadParent'
  BY <1>1, <1>2, ReapStep
<1>4. TypeOK'
  BY <1>1, <1>3, CodeAssumption, KernelAlive DEF IInv, TypeOK, Places
<1>5. PlacesAgree'
  BY <1>1, <1>3 DEF IInv, TypeOK, PlacesAgree, KernelPlaces, NishPlaces
<1>6. WaiterOwnsChild'
  <2>1. ASSUME NEW q \in Slots, pc'[q] \in NishPlaces
        PROVE  /\ q # p /\ pc'[q] = pc[q] /\ newtask'[q] = newtask[q]
               /\ fork_pid'[q] = fork_pid[q] /\ exit_code'[q] = exit_code[q]
               /\ newtask[q] \in Slots /\ fork_pid[q] \in Slots
    BY <1>1, <2>1 DEF IInv, TypeOK, NishPlaces
  <2>2. ASSUME NEW q \in Slots \ {p}, NEW t \in Slots, tasks[t].parent = q
        PROVE  tasks'[t] = tasks[t]
    BY <1>2, <1>3, <2>2
  <2> QED
    BY <2>1, <2>2 DEF IInv, WaiterOwnsChild, NishPlaces, Used
<1> QED
  BY <1>3, <1>4, <1>5, <1>6 DEF IInv

\* The waitpid system call, in a system where no task waits in nish.
LEMMA WaitpidStep ==
    ASSUME NEW p \in Slots, NEW pid \in Slots, MayWait = {} \/ MayNish = {}
    PROVE  IInv /\ Waitpid(p, pid) => IInv'
<1> SUFFICES ASSUME IInv, Waitpid(p, pid) PROVE IInv'
  OBVIOUS
<1>1. /\ UNCHANGED <<current, esp0, stacks, dirs, halted, locals>>
      /\ p = current /\ pc[p] = "user" /\ MayNish = {}
  BY DEF Waitpid, At
<1>2. \A q \in Slots : pc[q] \notin NishPlaces
  BY <1>1 DEF IInv, PlacesAgree
<1>3. CASE /\ tasks[pid].state = "ZOMBIE"
           /\ tasks' = [tasks EXCEPT ![pid].pid = NO_TASK]
           /\ UNCHANGED <<irq, pc>>
  <2>1. /\ tasks' \in [Slots -> Task]
        /\ \A i \in Slots : (Alive(i)' <=> Alive(i)) /\ tasks'[i].pid \in {i, NO_TASK}
        /\ OneRunning' /\ Esp0Allocated' /\ ResourcesOwned' /\ NoDeadParent'
    BY <1>1, <1>3, ReapStep
  <2>2. TypeOK'
    BY <1>1, <1>3, <2>1 DEF IInv, TypeOK, locals
  <2>3. PlacesAgree'
    BY <1>3, <2>1 DEF IInv, PlacesAgree
  <2>4. WaiterOwnsChild'
    BY <1>2, <1>3 DEF WaiterOwnsChild, NishPlaces
  <2> QED
    BY <2>1, <2>2, <2>3, <2>4 DEF IInv
<1>4. CASE pc' = [pc EXCEPT ![p] = "wedged"] /\ irq' = FALSE /\ UNCHANGED tasks
  <2>1. \A i \in Slots : (Alive(i)' <=> Alive(i)) /\ (Used(i)' <=> Used(i))
    BY <1>4 DEF Alive, Used
  <2>2. TypeOK'
    BY <1>1, <1>4 DEF IInv, TypeOK, locals, Places
  <2>3. PlacesAgree'
    BY <1>1, <1>4, <2>1 DEF IInv, TypeOK, PlacesAgree, KernelPlaces, NishPlaces
  <2>4. OneRunning' /\ Esp0Allocated' /\ ResourcesOwned'
    BY <1>1, <1>4, <2>1 DEF IInv, TypeOK, OneRunning, Esp0Allocated, ResourcesOwned
  <2>5. NoDeadParent'
    BY <1>4 DEF IInv, NoDeadParent, Alive, Used
  <2>6. WaiterOwnsChild'
    BY <1>1, <1>2, <1>4 DEF IInv, TypeOK, WaiterOwnsChild, NishPlaces
  <2> QED
    BY <2>2, <2>3, <2>4, <2>5, <2>6 DEF IInv
<1> QED
  BY <1>3, <1>4 DEF Waitpid

\* Steps of nish_exec that only move its program counter and its locals.
LEMMA NishLocalStep ==
    ASSUME NEW p \in Slots
    PROVE  IInv /\ (NishForkReturn(p) \/ WaitSpin(p) \/ WaitStatus(p)) => IInv'
<1> SUFFICES ASSUME IInv, NishForkReturn(p) \/ WaitSpin(p) \/ WaitStatus(p) PROVE IInv'
  OBVIOUS
<1>1. /\ UNCHANGED <<tasks, current, irq, esp0, stacks, dirs, halted>>
      /\ pc[p] \in NishPlaces
      /\ \E l \in NishPlaces \cup {"user"} : pc' = [pc EXCEPT ![p] = l]
  BY DEF NishForkReturn, WaitSpin, WaitStatus, At, NishPlaces, locals
<1>2. \A i \in Slots : (Alive(i)' <=> Alive(i)) /\ (Used(i)' <=> Used(i))
  BY <1>1 DEF Alive, Used
<1>3. OneRunning' /\ Esp0Allocated' /\ ResourcesOwned'
  BY <1>1, <1>2 DEF IInv, TypeOK, OneRunning, Esp0Allocated, ResourcesOwned
<1>4. NoDeadParent'
  BY <1>1 DEF IInv, NoDeadParent, Alive, Used
<1>5. PlacesAgree'
  BY <1>1, <1>2 DEF IInv, TypeOK, PlacesAgree, KernelPlaces, NishPlaces
<1>6. TypeOK' /\ WaiterOwnsChild'
  <2>1. CASE NishForkReturn(p)
    <3>1. newtask[p] \in Slots /\ Used(newtask[p]) /\ tasks[newtask[p]].parent = p
          /\ tasks[newtask[p]].pid = newtask[p]
      BY <2>1 DEF NishForkReturn, At, IInv, TypeOK, WaiterOwnsChild, PlacesAgree, Used
    <3>2. TypeOK'
      BY <1>1, <2>1, <3>1, KernelAlive DEF NishForkReturn, IInv, TypeOK, Places, NishPlaces
    <3>3. WaiterOwnsChild'
      BY <1>1, <2>1, <3>1 DEF NishForkReturn, At, IInv, TypeOK, WaiterOwnsChild, Used
    <3> QED BY <3>2, <3>3
  <2>2. CASE WaitSpin(p)
    BY <1>1, <2>2 DEF WaitSpin, At, IInv, TypeOK, WaiterOwnsChild, Used, locals, Places
  <2>3. CASE WaitStatus(p)
    <3>1. TypeOK'
      BY <1>1, <2>3 DEF WaitStatus, IInv, TypeOK, Places, Task
    <3>2. WaiterOwnsChild'
      BY <1>1, <2>3 DEF WaitStatus, At, IInv, TypeOK, WaiterOwnsChild, Used
    <3> QED BY <3>1, <3>2
  <2> QED BY <2>1, <2>2, <2>3
<1> QED
  BY <1>3, <1>4, <1>5, <1>6 DEF IInv

-----------------------------------------------------------------------------
(***************************************************************************)
(* The theorems.                                                           *)
(***************************************************************************)

\* setup_tasking leaves a state of the invariant.
LEMMA InitIInv == Init => IInv
<1> SUFFICES ASSUME Init PROVE IInv
  OBVIOUS
<1>1. PICK s \in KStacks, d \in Dirs :
        /\ tasks = [i \in Slots |->
                      IF i = 0 THEN [EmptySlot EXCEPT !.pid = 0, !.kernel_stack = s,
                                                      !.directory = d]
                               ELSE EmptySlot]
        /\ stacks = {s} /\ dirs = {d}
  BY DEF Init
<1>2. 0 \in Slots /\ NO_TASK # 0
  BY NrTasksAssumption DEF Slots, NO_TASK
<1>3. /\ tasks[0].pid = 0 /\ tasks[0].kernel_stack = s /\ tasks[0].directory = d
      /\ tasks[0].parent = 0 /\ tasks[0].state = "RUNNING" /\ tasks[0] \in Task
  BY <1>1, <1>2, CodeAssumption DEF EmptySlot, Task, States
<1>4. \A i \in Slots \ {0} : tasks[i] \in Task /\ tasks[i].pid = NO_TASK
  BY <1>1, <1>2, CodeAssumption DEF EmptySlot, Task, States
<1>5. /\ current = 0 /\ irq = TRUE /\ esp0 = NULL
      /\ pc = [i \in Slots |-> IF i = 0 THEN "boot" ELSE "dead"]
      /\ newtask = [i \in Slots |-> 0] /\ fork_pid = [i \in Slots |-> 0]
      /\ exit_code = [i \in Slots |-> 0] /\ halted = FALSE
  BY DEF Init
<1>6. tasks \in [Slots -> Task]
  BY <1>1, <1>3, <1>4
<1>7. \A i \in Slots : (Alive(i) <=> i = 0) /\ (Used(i) <=> i = 0)
  BY <1>2, <1>3, <1>4 DEF Alive, Used
<1>8. TypeOK
  BY <1>1, <1>2, <1>5, <1>6, CodeAssumption DEF TypeOK, Places
<1>9. PlacesAgree
  BY <1>2, <1>3, <1>4, <1>5, <1>7 DEF PlacesAgree, KernelPlaces, NishPlaces
<1>10. OneRunning /\ Esp0Allocated /\ NoDeadParent
  BY <1>2, <1>3, <1>5, <1>7 DEF OneRunning, Esp0Allocated, NoDeadParent
<1>11. ResourcesOwned
  BY <1>1, <1>2, <1>3, <1>7 DEF ResourcesOwned
<1>12. WaiterOwnsChild
  BY <1>5 DEF WaiterOwnsChild
<1> QED
  BY <1>8, <1>9, <1>10, <1>11, <1>12 DEF IInv

\* Every step keeps the invariant, if waitpid and nish are not used together.
LEMMA NextIInv ==
    ASSUME MayWait = {} \/ MayNish = {}
    PROVE  IInv /\ [Next]_vars => IInv'
<1> SUFFICES ASSUME IInv, [Next]_vars PROVE IInv'
  OBVIOUS
<1>1. CASE Tick
  BY <1>1, TickStep
<1>2. CASE StartInit
  BY <1>2, StartInitStep
<1>3. CASE IdleBlock
  BY <1>3, IdleBlockStep
<1>4. CASE IdleSwitch
  BY <1>4, IdleSwitchStep
<1>5. CASE KernelAbort
  BY <1>5, KernelAbortStep
<1>6. CASE \E p \in Slots : Fork(p) \/ Pause(p) \/ NishExec(p)
  BY <1>6, ForkActionStep, PauseStep, NishExecStep
<1>7. CASE \E p \in Slots : NishStep(p)
  BY <1>7, NishLocalStep, WaitFreeStep DEF NishStep
<1>8. CASE \E p \in Slots, pid \in Slots : Kill(p, pid) \/ Waitpid(p, pid)
  BY <1>8, KillStep, WaitpidStep
<1>9. CASE \E p \in Slots, status \in ExitCodes : Exit(p, status) \/ NishChildExit(p, status)
  BY <1>9, ExitActionStep
<1>10. CASE UNCHANGED vars
  <2>1. \A i \in Slots : (Alive(i)' <=> Alive(i)) /\ (Used(i)' <=> Used(i))
    BY <1>10 DEF vars, Alive, Used
  <2>2. TypeOK' /\ PlacesAgree' /\ OneRunning' /\ ResourcesOwned' /\ Esp0Allocated'
    BY <1>10, <2>1 DEF vars, IInv, TypeOK, PlacesAgree, OneRunning, ResourcesOwned,
                       Esp0Allocated
  <2>3. NoDeadParent' /\ WaiterOwnsChild'
    BY <1>10 DEF vars, IInv, NoDeadParent, WaiterOwnsChild, Alive, Used
  <2> QED BY <2>2, <2>3 DEF IInv
<1> QED
  BY <1>1, <1>2, <1>3, <1>4, <1>5, <1>6, <1>7, <1>8, <1>9, <1>10 DEF Next

\* The kernel keeps its task table consistent for every number of slots: types,
\* one running task, stacks and directories owned by exactly one live task, a
\* TSS that names an allocated stack, no dead parents, and waits that end with
\* the waiter's own child.  The one hypothesis is that programs calling waitpid
\* and foreground commands of nish do not occur together: they reap each
\* other's children.
THEOREM TasksSafe ==
    ASSUME MayWait = {} \/ MayNish = {}
    PROVE  Spec => [](/\ TypeOK /\ OneRunning /\ ResourcesOwned
                      /\ Esp0Allocated /\ NoDeadParent /\ WaiterOwnsChild)
<1>1. Init => IInv
  BY InitIInv
<1>2. IInv /\ [Next]_vars => IInv'
  BY NextIInv
<1>3. IInv => /\ TypeOK /\ OneRunning /\ ResourcesOwned
              /\ Esp0Allocated /\ NoDeadParent /\ WaiterOwnsChild
  BY DEF IInv
<1> QED
  BY <1>1, <1>2, <1>3, PTL DEF Spec

\* The parts of it, each by its name, under the same hypothesis: the task table holds
\* tasks.
THEOREM TasksTypes ==
    ASSUME MayWait = {} \/ MayNish = {}
    PROVE  Spec => []TypeOK
<1>1. Spec => [](/\ TypeOK /\ OneRunning /\ ResourcesOwned
                 /\ Esp0Allocated /\ NoDeadParent /\ WaiterOwnsChild)
  BY TasksSafe
<1> QED
  BY <1>1, PTL

\* fork, exit, nish_exec and the scheduler leave exactly one task running.
THEOREM TasksOneRunning ==
    ASSUME MayWait = {} \/ MayNish = {}
    PROVE  Spec => []OneRunning
<1>1. Spec => [](/\ TypeOK /\ OneRunning /\ ResourcesOwned
                 /\ Esp0Allocated /\ NoDeadParent /\ WaiterOwnsChild)
  BY TasksSafe
<1> QED
  BY <1>1, PTL

\* fork and exit neither leak a stack or a directory nor give one to two tasks.
THEOREM TasksResources ==
    ASSUME MayWait = {} \/ MayNish = {}
    PROVE  Spec => []ResourcesOwned
<1>1. Spec => [](/\ TypeOK /\ OneRunning /\ ResourcesOwned
                 /\ Esp0Allocated /\ NoDeadParent /\ WaiterOwnsChild)
  BY TasksSafe
<1> QED
  BY <1>1, PTL

\* An interrupt out of user mode finds an allocated stack in the TSS.
THEOREM TasksEsp0 ==
    ASSUME MayWait = {} \/ MayNish = {}
    PROVE  Spec => []Esp0Allocated
<1>1. Spec => [](/\ TypeOK /\ OneRunning /\ ResourcesOwned
                 /\ Esp0Allocated /\ NoDeadParent /\ WaiterOwnsChild)
  BY TasksSafe
<1> QED
  BY <1>1, PTL

\* exit hands the children of a task on, so that no task has a dead parent.
THEOREM TasksParents ==
    ASSUME MayWait = {} \/ MayNish = {}
    PROVE  Spec => []NoDeadParent
<1>1. Spec => [](/\ TypeOK /\ OneRunning /\ ResourcesOwned
                 /\ Esp0Allocated /\ NoDeadParent /\ WaiterOwnsChild)
  BY TasksSafe
<1> QED
  BY <1>1, PTL

\* nish_exec, interrupted anywhere, reads the status of the child it has forked.
THEOREM TasksWaiters ==
    ASSUME MayWait = {} \/ MayNish = {}
    PROVE  Spec => []WaiterOwnsChild
<1>1. Spec => [](/\ TypeOK /\ OneRunning /\ ResourcesOwned
                 /\ Esp0Allocated /\ NoDeadParent /\ WaiterOwnsChild)
  BY TasksSafe
<1> QED
  BY <1>1, PTL

-----------------------------------------------------------------------------
(***************************************************************************)
(* An action property                                                      *)
(***************************************************************************)

\* switch_task gives out no slot.
LEMMA SwitchUses ==
    ASSUME IInv, NEW T \in [Slots -> Task], \A i \in Slots : T[i].pid = tasks[i].pid,
           T[0].state # "ZOMBIE", switch_task(T), NEW k \in Slots
    PROVE  Used(k)' <=> Used(k)
<1>1. T[0].pid # NO_TASK /\ current \in Slots
  BY KernelAlive DEF IInv, TypeOK, Alive, Used
<1>2. SameTask(tasks'[k], T[k])
  BY <1>1, SwitchFacts DEF switch_task
<1> QED
  BY <1>2 DEF SameTask, Used

\* Only sys_fork does.
LEMMA OnlyForkUses ==
    ASSUME IInv, [Next]_vars, NEW k \in Slots, ~Used(k), Used(k)'
    PROVE  \E i \in Slots : sys_fork(i)
<1>1. tasks \in [Slots -> Task] /\ 0 \in Slots /\ Alive(0) /\ current \in Slots
  BY KernelAlive DEF IInv, TypeOK
<1>2. ASSUME Tick \/ IdleSwitch PROVE FALSE
  BY <1>1, <1>2, SwitchUses DEF Tick, IdleSwitch, Alive
<1>3. ASSUME IdleBlock PROVE FALSE
  BY <1>1, <1>3 DEF IdleBlock, Used, Task
<1>4. ASSUME KernelAbort PROVE FALSE
  BY <1>1, <1>4, OrphanedFacts DEF KernelAbort, Used
<1>5. ASSUME NEW p \in Slots, Pause(p) PROVE FALSE
  <2> DEFINE T == [tasks EXCEPT ![p].state = "BLOCKED"]
  <2>1. switch_task(T)
    BY <1>5 DEF Pause
  <2>2. T \in [Slots -> Task] /\ (\A i \in Slots : T[i].pid = tasks[i].pid) /\ T[0].state # "ZOMBIE"
    <3>1. tasks[p].state # "ZOMBIE"
      BY <1>5 DEF Pause, At, IInv, OneRunning, Alive
    <3> QED
      BY <1>1, <3>1, BlockFacts DEF SameTask, Alive
  <2> HIDE DEF T
  <2> QED
    BY <2>1, <2>2, SwitchUses
<1>6. ASSUME NEW p \in Slots, NEW pid \in Slots, Kill(p, pid) PROVE FALSE
  BY <1>1, <1>6, KillFacts DEF Kill, SameTask, Used
<1>7. ASSUME NEW p \in Slots, NEW pid \in Slots, Waitpid(p, pid) PROVE FALSE
  BY <1>1, <1>7 DEF Waitpid, Used, Task
<1>8. ASSUME NEW p \in Slots, NishStep(p) PROVE FALSE
  BY <1>1, <1>8 DEF NishStep, NishForkReturn, WaitSpin, WaitStatus, WaitFree, Used, Task
<1>9. ASSUME NEW p \in Slots, NEW status \in ExitCodes, Exit(p, status) \/ NishChildExit(p, status)
      PROVE  FALSE
  <2> DEFINE E == Exited(tasks, p, status)
  <2>1. switch_task(E) /\ p # 0
    BY <1>1, <1>9 DEF Exit, NishChildExit, sys_exit, At, IInv, PlacesAgree, KernelPlaces
  <2>2. E \in [Slots -> Task] /\ (\A i \in Slots : E[i].pid = tasks[i].pid) /\ E[0].state # "ZOMBIE"
    BY <1>1, <2>1, ExitedFacts DEF Alive
  <2> HIDE DEF E
  <2> QED
    BY <2>1, <2>2, SwitchUses
<1>10. ASSUME UNCHANGED vars PROVE FALSE
  BY <1>10 DEF vars, Used
<1>11. ASSUME StartInit \/ \E p \in Slots : Fork(p) \/ NishExec(p) PROVE \E i \in Slots : sys_fork(i)
  BY <1>11 DEF StartInit, Fork, NishExec
<1> QED
  BY <1>2, <1>3, <1>4, <1>5, <1>6, <1>7, <1>8, <1>9, <1>10, <1>11 DEF Next

\* A slot that sys_fork fills is nobody's parent: exit has handed the children of its
\* former task on before the slot could be freed.  For every number of slots, under the
\* hypothesis of TasksSafe.
THEOREM TasksNoInheritedChildren ==
    ASSUME MayWait = {} \/ MayNish = {}
    PROVE  Spec => NoInheritedChildren
<1> DEFINE Given == \A k \in Slots \ {0, 1} :
             ~Used(k) /\ Used(k)' => \A i \in Slots : Used(i)' => tasks'[i].parent # k
<1>1. Init => IInv
  BY InitIInv
<1>2. IInv /\ [Next]_vars => IInv'
  BY NextIInv
<1>3. IInv /\ [Next]_vars => [Given]_vars
  <2> SUFFICES ASSUME IInv, [Next]_vars, NEW k \in Slots \ {0, 1}, ~Used(k), Used(k)',
                      NEW i \in Slots, Used(i)'
               PROVE  tasks'[i].parent # k
    OBVIOUS
  <2>1. PICK n \in Slots : sys_fork(n)
    BY OnlyForkUses
  <2>2. n = k /\ (i # n => Used(i))
    BY <2>1, ForkStep
  <2>3. CASE i = n
    BY <2>1, <2>2, <2>3, ForkFacts
  <2>4. CASE i # n
    <3>1. tasks'[i].parent = tasks[i].parent
      BY <2>1, <2>4, ForkFacts
    <3>2. tasks[i].parent \in {0, 1} \/ Alive(tasks[i].parent)
      BY <2>2, <2>4 DEF IInv, NoDeadParent
    <3> QED
      BY <3>1, <3>2 DEF Alive
  <2> QED
    BY <2>3, <2>4
<1>4. NoInheritedChildren <=> [][Given]_vars
  BY DEF NoInheritedChildren
<1> QED
  BY <1>1, <1>2, <1>3, <1>4, PTL DEF Spec

=============================================================================
