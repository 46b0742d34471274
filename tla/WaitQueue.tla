----------------------------- MODULE WaitQueue ------------------------------
(***************************************************************************)
(* A WaitQueue (framework/aster-frame/src/sync/wait.rs) and the tasks that *)
(* sleep on it, for a lock built on it to extend.  The module has the      *)
(* steps of do_wait that do not look at the caller's condition, and those  *)
(* of wake_one and wake_all; the lock supplies the calls of cond() and     *)
(* says which label follows.  No waiter is exclusive in this kernel.       *)
(***************************************************************************)
EXTENDS Tasks, Sequences

VARIABLES
  queue,    \* waiters, front first; a waiter is named by its task
  qlock,    \* the task inside waiters.lock_irq_disabled(), or Idle
  woken,    \* is_woken_up of the waiter of each task
  pc,       \* the next step of each task
  todo      \* waiters that wake_one or wake_all of the task has yet to wake

\* Labels inside do_wait, after the first cond() failed.
WaitPC == {"enqueue",    \* enqueue(&waiter) comes next
           "recheck",    \* cond() of the second loop comes next
           "sleep",      \* task.sleep() of Waiter::wait comes next
           "woken",      \* the test of is_woken_up
           "yield",      \* yield_now in the loop of Waiter::wait
           "dequeue"}    \* cond() held, dequeue(&waiter) comes next

\* Labels of wake_one and wake_all, and a kernel panic.
WakePC == {"cas", "wakeup", "panic"}

WqTypeOK ==
  /\ queue \in Seq(Tasks)
  /\ qlock \in Tasks \cup {Idle}
  /\ woken \in [Tasks -> BOOLEAN]
  /\ todo \in [Tasks -> Seq(Tasks)]

WqInit ==
  /\ queue = <<>> /\ qlock = Idle
  /\ woken = [t \in Tasks |-> FALSE]
  /\ todo = [t \in Tasks |-> <<>>]

\* A panic stops the kernel.
NoPanic == \A t \in Tasks : pc[t] # "panic"

\* Task t is on a CPU and about to execute the code at a label.
At(t, label) == NoPanic /\ OnCpu(t) /\ pc[t] = label

Goto(t, to) == pc' = [pc EXCEPT ![t] = to]

\* A fresh waiter goes to the front of the queue.
Enqueue(t) ==
  /\ At(t, "enqueue") /\ qlock = Idle
  /\ Goto(t, "recheck")
  /\ queue' = <<t>> \o queue
  /\ woken' = [woken EXCEPT ![t] = FALSE]
  /\ UNCHANGED <<status, current, qlock, todo>>

\* Mutant: sleep() makes the task Sleeping before it has left its CPU.
SleepAtOnce(t) ==
  /\ At(t, "sleep") /\ Goto(t, "woken")
  /\ status' = [status EXCEPT ![t] = Sleeping]
  /\ UNCHANGED <<current, queue, qlock, woken, todo>>

\* Waiter::wait: task.sleep(), which panics unless the task is Running.
Sleep(t) ==
  /\ At(t, "sleep")
  /\ \/ \E c \in Cpus :
          /\ status[t] = Running(c)
          /\ status' = [status EXCEPT ![t] = ReadyToSleep(c)]
          /\ Goto(t, "woken")
     \/ /\ \A c \in Cpus : status[t] # Running(c)
        /\ Goto(t, "panic")
        /\ UNCHANGED status
  /\ UNCHANGED <<current, queue, qlock, woken, todo>>

\* Mutant: the store that clears is_woken_up after the loop is missing.
TestWokenKept(t) ==
  /\ At(t, "woken")
  /\ Goto(t, IF woken[t] THEN "recheck" ELSE "yield")
  /\ UNCHANGED <<status, current, queue, qlock, woken, todo>>

\* The loop of Waiter::wait loads is_woken_up; once set, it is cleared.
TestWoken(t) ==
  /\ At(t, "woken")
  /\ Goto(t, IF woken[t] THEN "recheck" ELSE "yield")
  /\ woken' = [woken EXCEPT ![t] = FALSE]
  /\ UNCHANGED <<status, current, queue, qlock, todo>>

\* yield_now in the loop of Waiter::wait.  A task that a waker has made Running
\* again in the meantime need not be preempted.
Yield(t) ==
  /\ At(t, "yield")
  /\ \E c \in Cpus :
       /\ current[c] = t
       /\ \/ \E n \in Tasks \cup {Idle} : SwitchTo(c, n)
          \/ status[t] = Running(c) /\ UNCHANGED <<status, current>>
  /\ Goto(t, "woken")
  /\ UNCHANGED <<queue, qlock, woken, todo>>

Dequeue(t, to) ==
  /\ At(t, "dequeue") /\ qlock = Idle
  /\ Goto(t, to)
  /\ queue' = SelectSeq(queue, LAMBDA w : w # t)
  /\ UNCHANGED <<status, current, qlock, woken, todo>>

\* The caller takes the queue's lock and keeps it until the waiters it
\* selected (the front for wake_one, all for wake_all) have been woken.
BeginWake(t, waiters) ==
  /\ qlock = Idle
  /\ qlock' = t
  /\ todo' = [todo EXCEPT ![t] = waiters]
  /\ Goto(t, "cas")
  /\ UNCHANGED <<status, current, queue, woken>>

Front == IF queue = <<>> THEN <<>> ELSE <<Head(queue)>>

\* Mutant: wake_one takes the waiter off the queue.
WakeOnePops(t) ==
  /\ qlock = Idle /\ qlock' = t
  /\ todo' = [todo EXCEPT ![t] = Front]
  /\ queue' = IF queue = <<>> THEN <<>> ELSE Tail(queue)
  /\ Goto(t, "cas")
  /\ UNCHANGED <<status, current, woken>>

WakeOne(t) == BeginWake(t, Front)

WakeAll(t) == BeginWake(t, queue)

\* Waiter::wake_up: the compare_exchange on is_woken_up of the next waiter.
\* At the end of the list the lock is released and the caller goes on.
Cas(t, to) ==
  /\ At(t, "cas")
  /\ IF todo[t] = <<>>
     THEN qlock' = Idle /\ Goto(t, to) /\ UNCHANGED <<woken, todo>>
     ELSE LET w == Head(todo[t]) IN
          /\ woken' = [woken EXCEPT ![w] = TRUE]
          /\ todo' = IF woken[w] THEN [todo EXCEPT ![t] = Tail(@)] ELSE todo
          /\ Goto(t, IF woken[w] THEN "cas" ELSE "wakeup")
          /\ UNCHANGED qlock
  /\ UNCHANGED <<status, current, queue>>

\* Waiter::wake_up: task.wakeup(), and add_task when it returns true.
WakeTask(t) ==
  /\ At(t, "wakeup")
  /\ \E c \in Cpus : current[c] = t /\ Wakeup(Head(todo[t]), c)
  /\ todo' = [todo EXCEPT ![t] = Tail(@)]
  /\ Goto(t, "cas")
  /\ UNCHANGED <<current, queue, qlock, woken>>
=============================================================================
