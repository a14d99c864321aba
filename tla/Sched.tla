---------------------------------- MODULE Sched ----------------------------------
(***************************************************************************)
(* The task table of the nupkux kernel and the two things every part of    *)
(* the kernel does to it: switch_task (kernel/task.c) with the round-robin *)
(* schedule (kernel/sched.c), and sys_kill (kernel/exit.c).                *)
(*                                                                         *)
(* The operators take the table as a parameter, so the process module      *)
(* (Tasks) and the device-lock module (DevLock) share one scheduler.  A    *)
(* table maps a slot number to a record with at least the fields pid,      *)
(* state and signals.  The kernel never looks at which signal is pending,  *)
(* only at whether there is one: signals is a Boolean.  Every task runs as *)
(* root in process group 0 (fork copies the ids of task 0 and nothing      *)
(* changes them), so the permission test of send_signal always succeeds.   *)
(***************************************************************************)
EXTENDS Integers, FiniteSets

CONSTANT NR_TASKS           \* number of slots of the task table (64 in task.h)

\* Slot 0 is the kernel task and slot 1 is init: exit.c names both.
ASSUME NrTasksAssumption == NR_TASKS \in Nat /\ NR_TASKS >= 2

Slots == 0 .. NR_TASKS - 1

NO_TASK == -1               \* pid of an unused slot

States == {"RUNNING", "WAITING", "BLOCKED", "ZOMBIE"}

\* The least element of a set of slots.
First(S) == CHOOSE i \in S : \A j \in S : i <= j

-----------------------------------------------------------------------------
(***************************************************************************)
(* Signals                                                                 *)
(***************************************************************************)

\* send_signal to every used slot of S.
send_signal(T, S) ==
    [i \in Slots |-> IF i \in S /\ T[i].pid # NO_TASK
                       THEN [T[i] EXCEPT !.signals = TRUE] ELSE T[i]]

\* Whom sys_kill(pid) reaches: pid 0 is the caller's group, that is everybody,
\* and so is -1; no task is in the groups that smaller numbers name.
Targets(pid) ==
    CASE pid \in {0, -1} -> Slots
      [] pid < -1        -> {}
      [] OTHER           -> {pid} \cap Slots

sys_kill(T, pid) == send_signal(T, Targets(pid))

-----------------------------------------------------------------------------
(***************************************************************************)
(* Scheduling                                                              *)
(***************************************************************************)

\* Mutant of Wake: the state of the signalled task is not looked at.
WakeAnyState(T) ==
    [i \in Slots |-> IF T[i].pid # NO_TASK /\ T[i].signals
                       THEN [T[i] EXCEPT !.state = "WAITING"] ELSE T[i]]

\* First loop of schedule(): a blocked task with a pending signal is ready.
Wake(T) ==
    [i \in Slots |-> IF T[i].pid # NO_TASK /\ T[i].signals /\ T[i].state = "BLOCKED"
                       THEN [T[i] EXCEPT !.state = "WAITING"] ELSE T[i]]

\* The ready tasks behind the current one in the table.
ReadyBehind(T, c) ==
    {i \in Slots : i > T[c].pid /\ T[i].pid # NO_TASK /\ T[i].state = "WAITING"}

\* Mutant of schedule: every search starts at slot 1.
scheduleFromOne(T, c) ==
    LET ready == {i \in Slots \ {0} : T[i].pid # NO_TASK /\ T[i].state = "WAITING"}
    IN  IF ready = {} THEN 0 ELSE First(ready)

\* Second loop of schedule(): the next ready task, or else task 0, ready or not.
schedule(T, c) ==
    IF ReadyBehind(T, c) = {} THEN 0 ELSE First(ReadyBehind(T, c))

\* Mutant of Yielded: the state of the preempted task is left alone.
YieldedRunning(T, c) == T

\* What switch_task hands to schedule(): the caller gives up the CPU, unless it
\* has blocked or died before.
Yielded(T, c) ==
    IF T[c].state = "RUNNING" THEN [T EXCEPT ![c].state = "WAITING"] ELSE T

\* The task that runs after switch_task, and the table it finds.
SwitchedTo(T, c) == schedule(Wake(Yielded(T, c)), c)

Switched(T, c) ==
    [Wake(Yielded(T, c)) EXCEPT ![SwitchedTo(T, c)].state = "RUNNING"]

=============================================================================
