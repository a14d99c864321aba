------------------------------ MODULE DevLockProofs ------------------------------
(***************************************************************************)
(* Mutual exclusion and the absence of lost wakeups, for any number of     *)
(* tasks.                                                                  *)
(***************************************************************************)
EXTENDS DevLock, NaturalsInduction, WellFoundedInduction, TLAPS

\* A non-empty set of slots has a first one, and First finds it.
LEMMA FirstInSet ==
    ASSUME NEW S \in SUBSET Slots, S # {}
    PROVE  First(S) \in S
<1> DEFINE Less == {ss \in Nat \X Nat : ss[1] < ss[2]}
<1>1. S \subseteq Nat
  BY NrTasksAssumption DEF Slots
<1>2. IsWellFoundedOn(Less, Nat)
  BY NatLessThanWellFounded DEF OpToRel
<1>3. PICK x \in S : \A y \in S : ~ (<<y, x>> \in Less)
  <2> HIDE DEF Less
  <2> QED BY <1>1, <1>2, WFMin
<1>4. ASSUME NEW y \in S PROVE x <= y
  <2>1. x \in Nat /\ y \in Nat
    BY <1>1
  <2>2. <<y, x>> \in Nat \X Nat /\ <<y, x>>[1] = y /\ <<y, x>>[2] = x
    BY <2>1
  <2>3. ~(y < x)
    BY <1>3, <2>2
  <2> QED
    BY <2>1, <2>3
<1> QED
  BY <1>3, <1>4 DEF First

(***************************************************************************)
(* The scheduler and sys_kill keep a table well-typed; the scheduler does  *)
(* not touch the signals, and sys_kill takes none away.                    *)
(***************************************************************************)
LEMMA YieldedKeeps ==
    ASSUME NEW T \in [Slots -> Task], NEW c \in Slots
    PROVE  /\ Yielded(T, c) \in [Slots -> Task]
           /\ \A i \in Slots : Yielded(T, c)[i].signals = T[i].signals
BY DEF Yielded, Task, States

\* Waking keeps the table well-typed and leaves the signals alone.
LEMMA WakeKeeps ==
    ASSUME NEW T \in [Slots -> Task]
    PROVE  /\ Wake(T) \in [Slots -> Task]
           /\ \A i \in Slots : Wake(T)[i].signals = T[i].signals
<1>1. ASSUME NEW i \in Slots
      PROVE  Wake(T)[i] \in Task /\ Wake(T)[i].signals = T[i].signals
  <2>1. T[i] \in Task /\ (Wake(T)[i] = T[i] \/ Wake(T)[i] = [T[i] EXCEPT !.state = "WAITING"])
    BY DEF Wake
  <2> HIDE DEF Wake
  <2> QED
    BY <2>1 DEF Task, States
<1>2. Wake(T) = [i \in Slots |-> Wake(T)[i]]
  BY DEF Wake
<1> QED
  BY <1>1, <1>2

\* switch_task keeps the table well-typed and leaves the signals alone.
LEMMA SwitchKeeps ==
    ASSUME NEW T \in [Slots -> Task], NEW c \in Slots
    PROVE  /\ SwitchedTo(T, c) \in Slots
           /\ Switched(T, c) \in [Slots -> Task]
           /\ \A i \in Slots : Switched(T, c)[i].signals = T[i].signals
<1> DEFINE W == Wake(Yielded(T, c))
           n == SwitchedTo(T, c)
           S == Switched(T, c)
<1>1. W \in [Slots -> Task] /\ \A i \in Slots : W[i].signals = T[i].signals
  BY YieldedKeeps, WakeKeeps
<1>2. n \in Slots
  <2>1. ReadyBehind(W, c) \in SUBSET Slots
    BY DEF ReadyBehind
  <2>2. CASE ReadyBehind(W, c) = {}
    BY <2>2, NrTasksAssumption DEF SwitchedTo, schedule, Slots
  <2>3. CASE ReadyBehind(W, c) # {}
    BY <2>1, <2>3, FirstInSet DEF SwitchedTo, schedule
  <2> QED BY <2>2, <2>3
<1>3. S = [W EXCEPT ![n].state = "RUNNING"]
  BY DEF Switched
<1> HIDE DEF W, n, S
<1>4. /\ S[n] = [W[n] EXCEPT !.state = "RUNNING"] /\ W[n] \in Task
      /\ \A i \in Slots \ {n} : S[i] = W[i]
  BY <1>1, <1>2, <1>3
<1>5. S[n] \in Task /\ S[n].signals = W[n].signals
  BY <1>4 DEF Task, States
<1>6. S \in [Slots -> Task]
  BY <1>1, <1>3, <1>4, <1>5
<1> QED
  BY <1>1, <1>2, <1>4, <1>5, <1>6 DEF n, S

\* Blocking a task leaves the signals alone.
LEMMA BlockKeeps ==
    ASSUME NEW T \in [Slots -> Task], NEW p \in Slots
    PROVE  LET B == [T EXCEPT ![p].state = "BLOCKED"]
           IN  B \in [Slots -> Task] /\ \A i \in Slots : B[i].signals = T[i].signals
<1> DEFINE B == [T EXCEPT ![p].state = "BLOCKED"]
<1>1. /\ B[p] = [T[p] EXCEPT !.state = "BLOCKED"] /\ T[p] \in Task
      /\ \A i \in Slots \ {p} : B[i] = T[i]
      /\ B = [i \in Slots |-> B[i]]
  OBVIOUS
<1> HIDE DEF B
<1>2. B[p] \in Task /\ B[p].signals = T[p].signals
  BY <1>1 DEF Task, States
<1>3. B \in [Slots -> Task]
  BY <1>1, <1>2
<1> QED
  BY <1>1, <1>2, <1>3 DEF B

\* sys_kill takes no signal away, and its target has one.
LEMMA KillKeeps ==
    ASSUME NEW T \in [Slots -> Task], NEW pid
    PROVE  /\ sys_kill(T, pid) \in [Slots -> Task]
           /\ \A i \in Slots : T[i].signals => sys_kill(T, pid)[i].signals
           /\ pid \in Slots => sys_kill(T, pid)[pid].signals
<1> DEFINE K == sys_kill(T, pid)
<1>1. ASSUME NEW i \in Slots
      PROVE  K[i] \in Task /\ (T[i].signals => K[i].signals)
  <2>1. T[i] \in Task /\ (K[i] = T[i] \/ K[i] = [T[i] EXCEPT !.signals = TRUE])
    BY DEF sys_kill, send_signal
  <2> HIDE DEF K
  <2> QED BY <2>1 DEF Task
<1>2. K = [i \in Slots |-> K[i]]
  BY DEF sys_kill, send_signal
<1>3. ASSUME pid \in Slots PROVE K[pid].signals
  <2>1. pid \in Targets(pid)
    BY <1>3, NrTasksAssumption DEF Targets, Slots
  <2>2. T[pid] \in Task /\ T[pid].pid # NO_TASK
    BY <1>3, NrTasksAssumption DEF Task, Slots, NO_TASK
  <2>3. K[pid] = [T[pid] EXCEPT !.signals = TRUE]
    BY <1>3, <2>1, <2>2 DEF sys_kill, send_signal
  <2> HIDE DEF K
  <2> QED BY <2>2, <2>3 DEF Task
<1> HIDE DEF K
<1>4. K \in [Slots -> Task]
  BY <1>1, <1>2
<1> QED
  BY <1>1, <1>3, <1>4 DEF K

-----------------------------------------------------------------------------
(***************************************************************************)
(* The steps.                                                              *)
(***************************************************************************)

\* A step that leaves the queue alone, takes no signal away and moves no task
\* into a place the invariant speaks of.
LEMMA QuietStep ==
    ASSUME IInv, UNCHANGED queue,
           tasks' \in [Slots -> Task], current' \in Slots, pc' \in [Slots -> Places],
           \A i \in Slots : tasks[i].signals => tasks'[i].signals,
           \A i \in Slots : \/ pc'[i] = pc[i]
                            \/ /\ pc[i] \in Waiting /\ pc'[i] = "check"
                            \/ /\ pc[i] \in {"block", "switch"}
                               /\ pc'[i] \in {"block", "switch"}
                            \/ pc'[i] = "user" /\ pc[i] \notin {"test", "signal"}
    PROVE  IInv'
<1>1. TypeOK'
  BY DEF IInv, TypeOK
<1>2. InsideIsHead'
  BY DEF IInv, InsideIsHead, Inside
<1>3. QueueHoldsWaiters'
  BY DEF IInv, QueueHoldsWaiters, Waiting
<1>4. NoLostWakeup'
  <2> SUFFICES ASSUME NEW p \in Slots, queue # <<>>, Head(queue) = p,
                      pc'[p] \in {"block", "switch"}, ~tasks'[p].signals
               PROVE  \E q \in Slots : pc'[q] \in {"test", "signal"}
    BY DEF NoLostWakeup
  <2>1. pc[p] \in {"block", "switch"} /\ ~tasks[p].signals
    OBVIOUS
  <2>2. PICK q \in Slots : pc[q] \in {"test", "signal"}
    BY <2>1 DEF IInv, NoLostWakeup
  <2>3. pc'[q] = pc[q]
    BY <2>2 DEF Waiting
  <2> QED BY <2>2, <2>3
<1> QED
  BY <1>1, <1>2, <1>3, <1>4 DEF IInv

\* The steps that only switch tasks keep the invariant.
LEMMA SchedulingStep ==
    ASSUME NEW p \in Slots
    PROVE  IInv /\ (Tick \/ Pause(p) \/ Block(p) \/ Switch(p) \/ BadSector(p)) => IInv'
<1> SUFFICES ASSUME IInv, Tick \/ Pause(p) \/ Block(p) \/ Switch(p) \/ BadSector(p)
             PROVE  IInv'
  OBVIOUS
<1>1. tasks \in [Slots -> Task] /\ current \in Slots /\ pc \in [Slots -> Places]
  BY DEF IInv, TypeOK
<1>2. CASE Tick
  BY <1>1, <1>2, SwitchKeeps, QuietStep DEF Tick, switch_task
<1>3. CASE Pause(p)
  <2> DEFINE B == [tasks EXCEPT ![p].state = "BLOCKED"]
  <2>1. B \in [Slots -> Task] /\ \A i \in Slots : B[i].signals = tasks[i].signals
    BY <1>1, BlockKeeps
  <2>2. switch_task(B) /\ UNCHANGED <<queue, pc>>
    BY <1>3 DEF Pause
  <2> HIDE DEF B
  <2>3. /\ tasks' \in [Slots -> Task] /\ current' \in Slots
        /\ \A i \in Slots : tasks'[i].signals = tasks[i].signals
    BY <1>1, <2>1, <2>2, SwitchKeeps DEF switch_task
  <2> QED BY <1>1, <2>2, <2>3, QuietStep
<1>4. CASE Block(p)
  <2>1. /\ tasks' \in [Slots -> Task] /\ \A i \in Slots : tasks'[i].signals = tasks[i].signals
        /\ pc[p] = "block" /\ pc' = [pc EXCEPT ![p] = "switch"]
        /\ UNCHANGED <<queue, current>>
    BY <1>1, <1>4, BlockKeeps DEF Block, At, Goto
  <2>2. pc' \in [Slots -> Places] /\ pc'[p] = "switch" /\ \A i \in Slots \ {p} : pc'[i] = pc[i]
    BY <1>1, <2>1 DEF Places
  <2> QED BY <1>1, <2>1, <2>2, QuietStep
<1>5. CASE Switch(p)
  <2>1. /\ tasks' \in [Slots -> Task] /\ \A i \in Slots : tasks'[i].signals = tasks[i].signals
        /\ current' \in Slots
        /\ pc[p] = "switch" /\ pc' = [pc EXCEPT ![p] = "check"]
        /\ UNCHANGED queue
    BY <1>1, <1>5, SwitchKeeps DEF Switch, At, Goto, switch_task
  <2>2. pc' \in [Slots -> Places] /\ pc'[p] = "check" /\ \A i \in Slots \ {p} : pc'[i] = pc[i]
    BY <1>1, <2>1 DEF Places
  <2> QED BY <1>1, <2>1, <2>2, QuietStep DEF Waiting
<1>6. CASE BadSector(p)
  <2>1. /\ pc[p] = "copy" /\ pc' = [pc EXCEPT ![p] = "user"]
        /\ UNCHANGED <<tasks, queue, current>>
    BY <1>6 DEF BadSector, At, Goto
  <2>2. pc' \in [Slots -> Places] /\ pc'[p] = "user" /\ \A i \in Slots \ {p} : pc'[i] = pc[i]
    BY <1>1, <2>1 DEF Places
  <2> QED BY <1>1, <2>1, <2>2, QuietStep
<1> QED
  BY <1>2, <1>3, <1>4, <1>5, <1>6

\* Entering the queue keeps the invariant: the newcomer is last.
LEMMA RequestStep == ASSUME NEW p \in Slots PROVE IInv /\ Request(p) => IInv'
<1> SUFFICES ASSUME IInv, Request(p) PROVE IInv'
  OBVIOUS
<1>1. /\ pc[p] = "user" /\ queue' = Append(queue, p) /\ pc' = [pc EXCEPT ![p] = "check"]
      /\ UNCHANGED <<tasks, current>> /\ queue \in Seq(Slots) /\ pc \in [Slots -> Places]
  BY DEF Request, At, Goto, enqueue, IInv, TypeOK
<1>2. /\ queue' \in Seq(Slots) /\ Len(queue') = Len(queue) + 1 /\ Len(queue) \in Nat
      /\ queue'[Len(queue) + 1] = p
      /\ \A k \in 1 .. Len(queue) : queue'[k] = queue[k]
      /\ queue # <<>> => Head(queue') = Head(queue)
      /\ queue = <<>> => Head(queue') = p
  BY <1>1
<1>3. pc'[p] = "check" /\ \A i \in Slots \ {p} : pc'[i] = pc[i]
  BY <1>1
<1>4. TypeOK'
  BY <1>1, <1>2 DEF IInv, TypeOK, Places
<1>5. InsideIsHead'
  BY <1>2, <1>3 DEF IInv, InsideIsHead, Inside
<1>6. QueueHoldsWaiters'
  <2>1. ASSUME NEW q \in Slots, pc'[q] \in Waiting
        PROVE  \E k \in 1 .. Len(queue') : queue'[k] = q
    <3>1. CASE q = p
      BY <1>2, <3>1
    <3>2. CASE q # p
      BY <1>2, <1>3, <2>1, <3>2 DEF IInv, QueueHoldsWaiters
    <3> QED BY <3>1, <3>2
  <2> QED BY <2>1 DEF QueueHoldsWaiters
<1>7. NoLostWakeup'
  <2> SUFFICES ASSUME NEW q \in Slots, Head(queue') = q,
                      pc'[q] \in {"block", "switch"}, ~tasks'[q].signals
               PROVE  \E r \in Slots : pc'[r] \in {"test", "signal"}
    BY DEF NoLostWakeup
  <2>1. q # p /\ pc[q] \in {"block", "switch"} /\ ~tasks[q].signals
    BY <1>1, <1>3
  <2>2. queue # <<>> /\ Head(queue) = q
    BY <1>2, <2>1
  <2>3. PICK r \in Slots : pc[r] \in {"test", "signal"}
    BY <2>1, <2>2 DEF IInv, NoLostWakeup
  <2> QED BY <1>1, <1>3, <2>3
<1> QED
  BY <1>4, <1>5, <1>6, <1>7 DEF IInv

\* The owner goes in, everybody else goes to sleep: whoever is first in the queue
\* never takes the second way.
LEMMA CheckStep == ASSUME NEW p \in Slots PROVE IInv /\ Check(p) => IInv'
<1> SUFFICES ASSUME IInv, Check(p) PROVE IInv'
  OBVIOUS
<1>1. /\ pc[p] = "check" /\ UNCHANGED <<tasks, current, queue>>
      /\ pc' = [pc EXCEPT ![p] = IF Head(queue) = p THEN "copy" ELSE "block"]
      /\ queue \in Seq(Slots) /\ pc \in [Slots -> Places]
  BY DEF Check, At, Goto, IInv, TypeOK
<1>2. /\ \A i \in Slots \ {p} : pc'[i] = pc[i]
      /\ Head(queue) = p => pc'[p] = "copy"
      /\ Head(queue) # p => pc'[p] = "block"
  BY <1>1
<1>3. PICK k \in 1 .. Len(queue) : queue[k] = p
  BY <1>1 DEF IInv, QueueHoldsWaiters, Waiting
<1>4. queue # <<>>
  BY <1>1, <1>3
<1>5. TypeOK'
  BY <1>1 DEF IInv, TypeOK, Places
<1>6. InsideIsHead'
  BY <1>1, <1>2, <1>4 DEF IInv, InsideIsHead, Inside
<1>7. QueueHoldsWaiters'
  BY <1>1, <1>2, <1>3 DEF IInv, QueueHoldsWaiters
<1>8. NoLostWakeup'
  <2> SUFFICES ASSUME NEW q \in Slots, Head(queue) = q,
                      pc'[q] \in {"block", "switch"}, ~tasks[q].signals
               PROVE  \E r \in Slots : pc'[r] \in {"test", "signal"}
    BY <1>1 DEF NoLostWakeup
  <2>1. q # p /\ pc[q] \in {"block", "switch"}
    BY <1>2
  <2>2. PICK r \in Slots : pc[r] \in {"test", "signal"}
    BY <1>4, <2>1 DEF IInv, NoLostWakeup
  <2> QED BY <1>1, <1>2, <2>2
<1> QED
  BY <1>5, <1>6, <1>7, <1>8 DEF IInv

\* The transfer keeps the invariant.
LEMMA CopyStep == ASSUME NEW p \in Slots PROVE IInv /\ Copy(p) => IInv'
<1> SUFFICES ASSUME IInv, Copy(p) PROVE IInv'
  OBVIOUS
<1>1. /\ pc[p] = "copy" /\ pc' = [pc EXCEPT ![p] = "unlock"]
      /\ UNCHANGED <<tasks, current, queue>> /\ pc \in [Slots -> Places]
  BY DEF Copy, At, Goto, IInv, TypeOK
<1>2. pc'[p] = "unlock" /\ \A i \in Slots \ {p} : pc'[i] = pc[i]
  BY <1>1
<1>3. TypeOK'
  BY <1>1 DEF IInv, TypeOK, Places
<1>4. InsideIsHead'
  BY <1>1, <1>2 DEF IInv, InsideIsHead, Inside
<1>5. QueueHoldsWaiters'
  BY <1>1, <1>2 DEF IInv, QueueHoldsWaiters, Waiting
<1>6. NoLostWakeup'
  <2> SUFFICES ASSUME NEW q \in Slots, queue # <<>>, Head(queue) = q,
                      pc'[q] \in {"block", "switch"}, ~tasks[q].signals
               PROVE  \E r \in Slots : pc'[r] \in {"test", "signal"}
    BY <1>1 DEF NoLostWakeup
  <2>1. pc[q] \in {"block", "switch"}
    BY <1>2
  <2>2. PICK r \in Slots : pc[r] \in {"test", "signal"}
    BY <2>1 DEF IInv, NoLostWakeup
  <2> QED BY <1>1, <1>2, <2>2
<1> QED
  BY <1>3, <1>4, <1>5, <1>6 DEF IInv

\* The owner leaves the queue, and is the one that will wake the next.
LEMMA UnlockStep == ASSUME NEW p \in Slots PROVE IInv /\ Unlock(p) => IInv'
<1> SUFFICES ASSUME IInv, Unlock(p) PROVE IInv'
  OBVIOUS
<1>1. /\ pc[p] = "unlock" /\ pc' = [pc EXCEPT ![p] = "test"] /\ queue' = Tail(queue)
      /\ UNCHANGED <<tasks, current>> /\ queue \in Seq(Slots) /\ pc \in [Slots -> Places]
  BY DEF Unlock, At, Goto, IInv, TypeOK
<1>2. pc'[p] = "test" /\ \A i \in Slots \ {p} : pc'[i] = pc[i]
  BY <1>1
<1>3. queue # <<>> /\ Head(queue) = p
  BY <1>1 DEF IInv, InsideIsHead, Inside
<1>4. /\ queue' \in Seq(Slots) /\ Len(queue) \in Nat /\ Len(queue) > 0
      /\ Len(queue') = Len(queue) - 1 /\ queue[1] = p
      /\ \A k \in 1 .. Len(queue') : queue'[k] = queue[k + 1]
  BY <1>1, <1>3
<1>5. TypeOK'
  BY <1>1, <1>4 DEF IInv, TypeOK, Places
<1>6. InsideIsHead'
  BY <1>2, <1>3 DEF IInv, InsideIsHead, Inside
<1>7. QueueHoldsWaiters'
  <2>1. ASSUME NEW q \in Slots, pc'[q] \in Waiting
        PROVE  \E k \in 1 .. Len(queue') : queue'[k] = q
    <3>1. q # p /\ pc[q] \in Waiting
      BY <1>2, <2>1 DEF Waiting
    <3>2. PICK k \in 1 .. Len(queue) : queue[k] = q
      BY <3>1 DEF IInv, QueueHoldsWaiters
    <3>3. k # 1
      BY <1>4, <3>1, <3>2
    <3>4. k - 1 \in 1 .. Len(queue') /\ (k - 1) + 1 = k
      BY <1>4, <3>2, <3>3
    <3> QED BY <1>4, <3>2, <3>4
  <2> QED BY <2>1 DEF QueueHoldsWaiters
<1>8. NoLostWakeup'
  BY <1>2 DEF NoLostWakeup
<1> QED
  BY <1>5, <1>6, <1>7, <1>8 DEF IInv

\* The test of dev->queue behind the sti of device_unlock keeps the invariant.
LEMMA TestStep == ASSUME NEW p \in Slots PROVE IInv /\ Test(p) => IInv'
<1> SUFFICES ASSUME IInv, Test(p) PROVE IInv'
  OBVIOUS
<1>1. /\ pc[p] = "test" /\ UNCHANGED <<tasks, current, queue>>
      /\ pc' = [pc EXCEPT ![p] = IF queue = <<>> THEN "user" ELSE "signal"]
      /\ pc \in [Slots -> Places]
  BY DEF Test, At, Goto, IInv, TypeOK
<1>2. /\ \A i \in Slots \ {p} : pc'[i] = pc[i]
      /\ queue = <<>> => pc'[p] = "user"
      /\ queue # <<>> => pc'[p] = "signal"
  BY <1>1
<1>3. TypeOK'
  BY <1>1 DEF IInv, TypeOK, Places
<1>4. InsideIsHead'
  BY <1>1, <1>2 DEF IInv, InsideIsHead, Inside
<1>5. QueueHoldsWaiters'
  BY <1>1, <1>2 DEF IInv, QueueHoldsWaiters, Waiting
<1>6. NoLostWakeup'
  BY <1>1, <1>2 DEF NoLostWakeup
<1> QED
  BY <1>3, <1>4, <1>5, <1>6 DEF IInv

\* The signal reaches whoever is first at that moment, asleep or not.
LEMMA SignalStep == ASSUME NEW p \in Slots PROVE IInv /\ Signal(p) => IInv'
<1> SUFFICES ASSUME IInv, Signal(p) PROVE IInv'
  OBVIOUS
<1>1. /\ pc[p] = "signal" /\ pc' = [pc EXCEPT ![p] = "user"]
      /\ UNCHANGED <<current, queue>>
      /\ tasks \in [Slots -> Task] /\ queue \in Seq(Slots) /\ pc \in [Slots -> Places]
  BY DEF Signal, At, Goto, IInv, TypeOK
<1>2. PICK pid \in HeadPid : tasks' = sys_kill(tasks, pid)
  BY DEF Signal
<1>3. /\ tasks' \in [Slots -> Task]
      /\ pid \in Slots => tasks'[pid].signals
  BY <1>1, <1>2, KillKeeps
<1>4. pc'[p] = "user" /\ \A i \in Slots \ {p} : pc'[i] = pc[i]
  BY <1>1
<1>5. TypeOK'
  BY <1>1, <1>3 DEF IInv, TypeOK, Places
<1>6. InsideIsHead'
  BY <1>1, <1>4 DEF IInv, InsideIsHead, Inside
<1>7. QueueHoldsWaiters'
  BY <1>1, <1>4 DEF IInv, QueueHoldsWaiters, Waiting
<1>8. NoLostWakeup'
  <2> SUFFICES ASSUME NEW q \in Slots, queue # <<>>, Head(queue) = q,
                      ~tasks'[q].signals
               PROVE  FALSE
    BY <1>1 DEF NoLostWakeup
  <2>1. pid = q
    BY <1>2 DEF HeadPid
  <2> QED BY <1>3, <2>1
<1> QED
  BY <1>5, <1>6, <1>7, <1>8 DEF IInv

-----------------------------------------------------------------------------
\* The initial state, with an empty queue, has the invariant.
LEMMA InitIInv == Init => IInv
<1> SUFFICES ASSUME Init PROVE IInv
  OBVIOUS
<1>1. TypeOK
  BY NrTasksAssumption DEF Init, TypeOK, Task, States, Places, Slots
<1> QED
  BY <1>1 DEF Init, IInv, InsideIsHead, Inside, QueueHoldsWaiters, Waiting, NoLostWakeup

\* Every step keeps the invariant.
LEMMA NextIInv == IInv /\ [Next]_vars => IInv'
<1> SUFFICES ASSUME IInv, [Next]_vars PROVE IInv'
  OBVIOUS
<1>1. CASE Tick
  <2>1. 0 \in Slots
    BY NrTasksAssumption DEF Slots
  <2> QED BY <1>1, <2>1, SchedulingStep
<1>2. CASE \E p \in Slots : Pause(p) \/ Request(p) \/ Step(p) \/ BadSector(p)
  <2>1. PICK p \in Slots : Pause(p) \/ Request(p) \/ Step(p) \/ BadSector(p)
    BY <1>2
  <2> QED
    BY <2>1, SchedulingStep, RequestStep, CheckStep, CopyStep, UnlockStep, TestStep,
       SignalStep DEF Step
<1>3. CASE UNCHANGED vars
  BY <1>3 DEF vars, IInv, TypeOK, InsideIsHead, QueueHoldsWaiters, NoLostWakeup
<1> QED
  BY <1>1, <1>2, <1>3 DEF Next

\* For any number of tasks, and however the timer interrupts device_lock and
\* device_unlock: no two requests transfer at the same time, a task that waits
\* has its request in the queue, and no wakeup is lost.
THEOREM DevLockSafe ==
    Spec => [](TypeOK /\ Mutex /\ QueueHoldsWaiters /\ NoLostWakeup)
<1>1. IInv => TypeOK /\ Mutex /\ QueueHoldsWaiters /\ NoLostWakeup
  BY DEF IInv, InsideIsHead, Mutex
<1> QED
  BY <1>1, InitIInv, NextIInv, PTL DEF Spec

\* The parts of it, each by its name: tasks, queue and places have their types.
THEOREM DevLockTypes == Spec => []TypeOK
BY DevLockSafe, PTL

\* device_lock lets one request at a time through to the transfer.
THEOREM DevLockMutex == Spec => []Mutex
BY DevLockSafe, PTL

\* Whoever sleeps in device_lock, or was interrupted on its way there, has its request
\* in the queue, where device_unlock finds it.
THEOREM DevLockQueue == Spec => []QueueHoldsWaiters
BY DevLockSafe, PTL

\* Where the first of the queue is about to sleep, device_unlock has its signal still
\* to send.
THEOREM DevLockWakes == Spec => []NoLostWakeup
BY DevLockSafe, PTL

=============================================================================
