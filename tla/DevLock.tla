--------------------------------- MODULE DevLock ---------------------------------
(***************************************************************************)
(* The lock of a block device: device_lock and device_unlock of            *)
(* drivers/drivers.c, as the ramdisk and the floppy driver use it, running *)
(* on the scheduler of Sched.                                              *)
(*                                                                         *)
(* The queue of a device holds the pids that asked for it, the owner       *)
(* first.  device_lock turns interrupts off to append its request and on   *)
(* again to wait; from there to the end of the request the timer can take  *)
(* the CPU between any two statements.  The statements that touch shared   *)
(* state are one action each.                                              *)
(***************************************************************************)
EXTENDS Sched, Sequences

CONSTANTS
    BadSectors,     \* the tasks that ask for sectors behind the end of the disk, too
    MaxQueue        \* bound on the queue: a bad request leaves an entry behind

ASSUME BadSectorsAssumption == BadSectors \subseteq Slots
ASSUME MaxQueueAssumption == MaxQueue \in Nat

VARIABLES
    tasks,          \* the task table: pid, state and pending signals
    current,        \* current_task, as a slot number
    queue,          \* the pids in dev->queue
    pc              \* where the task of a slot is executing

vars == <<tasks, current, queue, pc>>

(***************************************************************************)
(* "user"   in its program; task 0: in its idle loop                       *)
(* "check"  device_lock: while (dev->queue->pid != current_task->pid)      *)
(* "block"  sys_pause: current_task->state = TASK_BLOCKED                  *)
(* "switch" sys_pause: switch_task()                                       *)
(* "copy"   the device is locked: transfer the sectors                     *)
(* "unlock" device_unlock up to its sti                                    *)
(* "test"   device_unlock: if (dev->queue)                                 *)
(* "signal" device_unlock: sys_kill(dev->queue->pid, SIGCONT)              *)
(***************************************************************************)
Places == {"user", "check", "block", "switch", "copy", "unlock", "test", "signal"}

Task == [pid : Slots, state : States, signals : BOOLEAN]

\* The types of the variables: the task states the kernel uses, and pids of the
\* task table in the queue.
TypeOK ==
    /\ tasks \in [Slots -> Task]
    /\ current \in Slots
    /\ queue \in Seq(Slots)
    /\ pc \in [Slots -> Places]

-----------------------------------------------------------------------------
At(p, l) == current = p /\ pc[p] = l
Goto(p, l) == pc' = [pc EXCEPT ![p] = l]

switch_task(T) ==
    /\ tasks' = Switched(T, current)
    /\ current' = SwitchedTo(T, current)

\* timer_handler; interrupts are on at every place.
Tick == switch_task(tasks) /\ UNCHANGED <<queue, pc>>

\* The kernel task, and a program that has nothing to do: sys_pause.
Pause(p) ==
    /\ At(p, "user")
    /\ switch_task([tasks EXCEPT ![p].state = "BLOCKED"])
    /\ UNCHANGED <<queue, pc>>

-----------------------------------------------------------------------------
(***************************************************************************)
(* device_lock                                                             *)
(***************************************************************************)

\* Mutant of enqueue: the new request becomes the head of the list.
enqueueFirst(p) == queue' = <<p>> \o queue

enqueue(p) == queue' = Append(queue, p)

\* Up to the sti: nothing can interrupt the walk to the end of the list.
Request(p) ==
    /\ p # 0 /\ At(p, "user")
    /\ Len(queue) < MaxQueue
    /\ enqueue(p)
    /\ Goto(p, "check")
    /\ UNCHANGED <<tasks, current>>

Check(p) ==
    /\ At(p, "check")
    /\ Goto(p, IF Head(queue) = p THEN "copy" ELSE "block")
    /\ UNCHANGED <<tasks, current, queue>>

\* Mutant of Block: the task sleeps in a state that no signal ends.
BlockUninterruptible(p) ==
    /\ At(p, "block")
    /\ tasks' = [tasks EXCEPT ![p].state = "UNINTERRUPTIBLE"]
    /\ Goto(p, "switch")
    /\ UNCHANGED <<current, queue>>

Block(p) ==
    /\ At(p, "block")
    /\ tasks' = [tasks EXCEPT ![p].state = "BLOCKED"]
    /\ Goto(p, "switch")
    /\ UNCHANGED <<current, queue>>

Switch(p) ==
    /\ At(p, "switch")
    /\ switch_task(tasks)
    /\ Goto(p, "check")
    /\ UNCHANGED queue

-----------------------------------------------------------------------------
(***************************************************************************)
(* The driver and device_unlock                                            *)
(***************************************************************************)

Copy(p) ==
    /\ At(p, "copy")
    /\ Goto(p, "unlock")
    /\ UNCHANGED <<tasks, current, queue>>

\* ramdisk_request returns for a sector behind the end, with the device locked;
\* floppy_request makes this test before it takes the lock.
BadSector(p) ==
    /\ p \in BadSectors /\ At(p, "copy")
    /\ Goto(p, "user")
    /\ UNCHANGED <<tasks, current, queue>>

\* Mutant of Unlock: the list is not tested for further requests.
UnlockAndReturn(p) ==
    /\ At(p, "unlock")
    /\ Head(queue) = p
    /\ queue' = Tail(queue)
    /\ Goto(p, "user")
    /\ UNCHANGED <<tasks, current>>

\* Mutant of Unlock: the whole list is given up, not its first entry.
UnlockDropsQueue(p) ==
    /\ At(p, "unlock")
    /\ queue' = <<>>
    /\ Goto(p, "test")
    /\ UNCHANGED <<tasks, current>>

\* device_unlock returns at once unless the head is the caller's; as Mutex and
\* its proof show, a driver never calls it in any other state.
Unlock(p) ==
    /\ At(p, "unlock")
    /\ Head(queue) = p
    /\ queue' = Tail(queue)
    /\ Goto(p, "test")
    /\ UNCHANGED <<tasks, current>>

Test(p) ==
    /\ At(p, "test")
    /\ Goto(p, IF queue = <<>> THEN "user" ELSE "signal")
    /\ UNCHANGED <<tasks, current, queue>>

\* The pid that dev->queue->pid yields when the queue has been emptied since the
\* test: the word at address 0 is a pid like any other.
HeadPid == IF queue = <<>> THEN Slots \cup {-1} ELSE {Head(queue)}

\* Mutant of Signal: only a task that is already blocked gets the signal.
SignalBlocked(p) ==
    /\ At(p, "signal")
    /\ \E pid \in HeadPid :
         tasks' = IF pid \in Slots /\ tasks[pid].state # "BLOCKED"
                    THEN tasks ELSE sys_kill(tasks, pid)
    /\ Goto(p, "user")
    /\ UNCHANGED <<current, queue>>

Signal(p) ==
    /\ At(p, "signal")
    /\ \E pid \in HeadPid : tasks' = sys_kill(tasks, pid)
    /\ Goto(p, "user")
    /\ UNCHANGED <<current, queue>>

-----------------------------------------------------------------------------
(***************************************************************************)
(* The specification                                                       *)
(***************************************************************************)

Init ==
    /\ tasks = [i \in Slots |-> [pid |-> i, signals |-> FALSE,
                                 state |-> IF i = 0 THEN "RUNNING" ELSE "WAITING"]]
    /\ current = 0
    /\ queue = <<>>
    /\ pc = [i \in Slots |-> "user"]

\* A step of a request that is under way.
Step(p) ==
    Check(p) \/ Block(p) \/ Switch(p) \/ Copy(p) \/ Unlock(p) \/ Test(p) \/ Signal(p)

Next ==
    \/ Tick
    \/ \E p \in Slots : Pause(p) \/ Request(p) \/ Step(p) \/ BadSector(p)

Spec == Init /\ [][Next]_vars

(***************************************************************************)
(* The timer ticks, and a task inside a driver executes when it has the    *)
(* CPU, though a tick may come first: the strong form.  Nothing is assumed *)
(* of the programs.                                                        *)
(***************************************************************************)
Fairness == WF_vars(Tick) /\ \A p \in Slots \ {0} : SF_vars(Step(p))

FairSpec == Spec /\ Fairness

-----------------------------------------------------------------------------
(***************************************************************************)
(* Properties                                                              *)
(***************************************************************************)

\* Where a task that owns the device is executing.
Inside == {"copy", "unlock"}

\* Two requests never transfer at the same time, also when a bad request has
\* left its entry in the queue and its task comes back.
Mutex ==
    \A p, q \in Slots : pc[p] \in Inside /\ pc[q] \in Inside => p = q

\* No wakeup is lost: if the first of the queue has found somebody before it
\* and is about to sleep or asleep without a signal, then a task that has given
\* the device back is still about to signal it.
NoLostWakeup ==
    \A p \in Slots :
      /\ queue # <<>> /\ Head(queue) = p
      /\ pc[p] \in {"block", "switch"} /\ ~tasks[p].signals
      => \E q \in Slots : pc[q] \in {"test", "signal"}

\* A task that waits has a request in the queue, so that dev->queue is not a
\* null pointer where device_lock and device_unlock read through it.
Waiting == {"check", "block", "switch", "copy", "unlock"}

QueueHoldsWaiters ==
    \A p \in Slots : pc[p] \in Waiting => \E k \in 1 .. Len(queue) : queue[k] = p

(***************************************************************************)
(* The inductive invariant of DevLockProofs: who is inside is the head.    *)
(***************************************************************************)
InsideIsHead ==
    \A p \in Slots : pc[p] \in Inside => queue # <<>> /\ Head(queue) = p

IInv ==
    /\ TypeOK
    /\ InsideIsHead
    /\ QueueHoldsWaiters
    /\ NoLostWakeup

\* An entry of the queue whose task is not waiting for it: what the early return of
\* ramdisk_request leaves behind.  Nobody removes it before its task comes back.
Abandoned ==
    \E k \in DOMAIN queue : \/ pc[queue[k]] \notin Waiting
                           \/ \E j \in 1 .. k - 1 : queue[j] = queue[k]

\* Everybody who asks for the device gets it, as long as every request gives it back:
\* only an abandoned entry of the queue keeps a task waiting.
EveryRequestServed ==
    \A p \in Slots \ {0} : pc[p] = "check" ~> pc[p] = "copy" \/ Abandoned

=============================================================================
