------------------------------- MODULE Mutex --------------------------------
(***************************************************************************)
(* The sleeping Mutex of framework/aster-frame/src/sync/mutex/wq_mutex.rs  *)
(* and the tasks that use it.  Outside the mutex and inside the critical   *)
(* section a task may call schedule(); everywhere else kernel code runs on.*)
(***************************************************************************)
EXTENDS WaitQueue

VARIABLE locked   \* the AtomicBool of the mutex

vars == <<status, current, queue, qlock, woken, pc, todo, locked>>

PC == {"out",       \* does not want the mutex
       "try",       \* called lock(): the first cond() comes next
       "critical",  \* owns the MutexGuard
       "wake"}      \* released the lock, wake_one comes next
      \cup WaitPC \cup WakePC

Init ==
  /\ WqInit
  /\ pc = [t \in Tasks |-> "out"]
  /\ locked = FALSE
  /\ current = [c \in Cpus |-> Idle]
  /\ status \in [Tasks -> {Ready(c) : c \in Cpus}]

\* lock() is called.
Lock(t) ==
  /\ At(t, "out") /\ Goto(t, "try")
  /\ UNCHANGED <<status, current, queue, qlock, woken, todo, locked>>

\* Mutant: a woken waiter takes it that the mutex was handed to it.
TryLockHandedOver(t) ==
  /\ \/ At(t, "try") /\ Goto(t, IF locked THEN "enqueue" ELSE "critical")
     \/ At(t, "recheck") /\ Goto(t, "dequeue")
  /\ locked' = TRUE
  /\ UNCHANGED <<status, current, queue, qlock, woken, todo>>

\* cond() of do_wait: try_lock, a compare_exchange of false by true.
TryLock(t) ==
  /\ \/ At(t, "try") /\ Goto(t, IF locked THEN "enqueue" ELSE "critical")
     \/ At(t, "recheck") /\ Goto(t, IF locked THEN "sleep" ELSE "dequeue")
  /\ locked' = TRUE
  /\ UNCHANGED <<status, current, queue, qlock, woken, todo>>

\* try_lock on its own; a failed one changes nothing.
TryLockOnce(t) ==
  /\ At(t, "out") /\ ~ locked
  /\ Goto(t, "critical")
  /\ locked' = TRUE
  /\ UNCHANGED <<status, current, queue, qlock, woken, todo>>

\* Mutant: unlock does not wake anybody.
UnlockWithoutWake(t) ==
  /\ At(t, "critical") /\ Goto(t, "out")
  /\ locked' = FALSE
  /\ UNCHANGED <<status, current, queue, qlock, woken, todo>>

\* MutexGuard is dropped: release_lock, to be followed by wake_one.
Unlock(t) ==
  /\ At(t, "critical") /\ Goto(t, "wake")
  /\ locked' = FALSE
  /\ UNCHANGED <<status, current, queue, qlock, woken, todo>>

\* The wait_until of lock, and the wake_one of unlock.
Wait(t) ==
  /\ Enqueue(t) \/ Sleep(t) \/ TestWoken(t) \/ Yield(t) \/ Dequeue(t, "critical")
  /\ UNCHANGED locked

Wake(t) ==
  /\ \/ At(t, "wake") /\ WakeOne(t)
     \/ Cas(t, "out")
     \/ WakeTask(t)
  /\ UNCHANGED locked

\* The task on CPU c calls schedule(), or the idle thread gives way.
Schedule(c) ==
  /\ NoPanic
  /\ current[c] \in {Idle} \cup {t \in Tasks : pc[t] \in {"out", "critical"}}
  /\ \E n \in Tasks \cup {Idle} : SwitchTo(c, n)
  /\ UNCHANGED <<queue, qlock, woken, pc, todo, locked>>

Balance(c) ==
  /\ NoPanic /\ LoadBalance(c)
  /\ UNCHANGED <<queue, qlock, woken, pc, todo, locked>>

Next ==
  \/ \E t \in Tasks : \/ Lock(t) \/ TryLockOnce(t) \/ TryLock(t) \/ Unlock(t)
                    \/ Wait(t) \/ Wake(t)
  \/ \E c \in Cpus : Schedule(c) \/ Balance(c)

Spec == Init /\ [][Next]_vars

\* CFS picks the smallest vruntime, so a ready task is picked again and again;
\* a task that gets CPU time finishes its critical section.
PickedFairly(t) ==
  SF_vars(\E c \in Cpus :
            /\ SwitchTo(c, t)
            /\ Schedule(c) \/ \E u \in Tasks : Wait(u))

StepsFairly(t) ==
  SF_vars(TryLock(t) \/ Unlock(t) \/ Wait(t) \/ Wake(t))

FairSpec == Spec /\ \A t \in Tasks : PickedFairly(t) /\ StepsFairly(t)
-----------------------------------------------------------------------------
TypeOK ==
  /\ TasksTypeOK /\ WqTypeOK
  /\ pc \in [Tasks -> PC]
  /\ locked \in BOOLEAN

Owns(t) == pc[t] \in {"dequeue", "critical"}

Range(s) == {s[i] : i \in DOMAIN s}

\* wq_mutex.rs: at most one task owns the guard, on any number of CPUs, and the
\* AtomicBool says whether one does.
MutualExclusion ==
  /\ \A t, u \in Tasks : Owns(t) /\ Owns(u) => t = u
  /\ locked <=> \E t \in Tasks : Owns(t)

\* unlock stores false before it calls wake_one and do_wait enqueues before it
\* tests again, so a free mutex with waiters always has somebody on the way: a
\* task that will call wake_one, or a waiter that was woken or tests again.
\* wake_one leaves the woken waiter in the queue, so this is not obvious.
FreeMutexHasWaker ==
  ~ locked /\ queue # <<>> =>
    \/ \E t \in Tasks : pc[t] = "wake" \/ todo[t] # <<>>
    \/ \E t \in Range(queue) : woken[t] \/ pc[t] = "recheck"

\* A task is on a CPU exactly when its status says so, whatever wakers on other
\* CPUs do to the status in the meantime (the assertions of switch_to).
StatusMatchesCpu ==
  \A t \in Tasks, c \in Cpus :
    status[t] \in {Running(c), ReadyToSleep(c)} <=> current[c] = t

\* wait.rs: a task sleeps only inside Waiter::wait with its waiter queued, where
\* the next wake_one can find it; a sleeper that is anywhere else has lost its
\* wakeup, and sleeps for ever.
SleeperCanBeWoken ==
  \A t \in Tasks : status[t] = Sleeping => pc[t] = "woken" /\ t \in Range(queue)

\* A task that wants the mutex waits only as long as others get it: the system
\* never comes to rest with tasks asleep in lock().
SomebodyEnters ==
  (\E t \in Tasks : pc[t] \in WaitPC \cup {"try"}) ~> (\E t \in Tasks : pc[t] = "critical")

\* A wakeup reaches its waiter: the task runs again and tests its condition.
WakeupTaken == \A t \in Tasks : woken[t] ~> ~ woken[t]
=============================================================================
