------------------------------ MODULE RwMutex -------------------------------
(***************************************************************************)
(* The sleeping reader-writer lock of framework/aster-frame/src/sync/      *)
(* rwmutex.rs: the lock word of RwWord and a WaitQueue on which read,      *)
(* write and upread sleep.  A task asks for one guard at a time.           *)
(***************************************************************************)
EXTENDS WaitQueue, RwWord, FiniteSets

CONSTANT Kinds    \* the guards the tasks ask for, of "read", "write", "upread"

ASSUME KindsAssumption == Kinds \subseteq {"read", "write", "upread"}

ASSUME TasksAssumption ==
  IsFiniteSet(Tasks) /\ Cardinality(Tasks) < 2 * MAX_READER

VARIABLES
  lock,    \* the lock word
  want     \* the guard each task asked for last

vars == <<status, current, queue, qlock, woken, pc, todo, lock, want>>

PC == {"out",
       "try", "tryUndo",   \* the first cond() of wait_until; its fetch_sub
       "recheckUndo",      \* the fetch_sub of a later cond() that failed
       "once", "onceUndo", \* try_read, try_write or try_upread on its own
       "read", "write", "upread",  \* the guard the task owns
       "upgrading",        \* in the loop of upgrade
       "upgraded",         \* drop(self) of a successful try_upgrade is next
       "wakeOne", "wakeAll"}
      \cup WaitPC \cup WakePC

Init ==
  /\ WqInit
  /\ pc = [t \in Tasks |-> "out"]
  /\ lock = Zero
  /\ want \in [Tasks -> {"read"}]
  /\ current = [c \in Cpus |-> Idle]
  /\ status \in [Tasks -> {Ready(c) : c \in Cpus}]

\* read, write or upread is called, or its try_ version on its own.
Call(t) ==
  /\ At(t, "out")
  /\ Goto(t, "try") \/ Goto(t, "once")
  /\ \E k \in Kinds : want' = [want EXCEPT ![t] = k]
  /\ UNCHANGED <<status, current, queue, qlock, woken, todo, lock>>

\* How try_read, try_write and try_upread fare: "undo" is a failure that has
\* to take back what the fetch_add or fetch_or put into the word.
Outcome(kind) ==
  CASE kind = "read"   -> IF ReadAllowed(lock) THEN "ok" ELSE "undo"
    [] kind = "write"  -> IF lock = Zero THEN "ok" ELSE "fail"
    [] kind = "upread" -> CASE lock.upread -> "fail"
                            [] ~ lock.upread /\ lock.writer -> "undo"
                            [] OTHER -> "ok"

\* The word after the fetch_add, compare_exchange or fetch_or.
Attempted(kind) ==
  CASE kind = "read"   -> AddReader(lock)
    [] kind = "write"  -> IF lock = Zero THEN [Zero EXCEPT !.writer = TRUE] ELSE lock
    [] kind = "upread" -> [lock EXCEPT !.upread = TRUE]

\* The atomic operation of a cond() or of a try_ call, and its outcome.
Attempt(t) ==
  /\ \/ /\ At(t, "try")
        /\ Goto(t, [ok |-> want[t], undo |-> "tryUndo", fail |-> "enqueue"][Outcome(want[t])])
     \/ /\ At(t, "recheck")
        /\ Goto(t, [ok |-> "dequeue", undo |-> "recheckUndo", fail |-> "sleep"][Outcome(want[t])])
     \/ /\ At(t, "once")
        /\ Goto(t, [ok |-> want[t], undo |-> "onceUndo", fail |-> "out"][Outcome(want[t])])
  /\ lock' = Attempted(want[t])
  /\ UNCHANGED <<status, current, queue, qlock, woken, todo, want>>

\* The fetch_sub of a failed try_read or try_upread.
Undo(t) ==
  /\ \/ At(t, "tryUndo") /\ Goto(t, "enqueue")
     \/ At(t, "recheckUndo") /\ Goto(t, "sleep")
     \/ At(t, "onceUndo") /\ Goto(t, "out")
  /\ lock' = IF want[t] = "read" THEN SubReader(lock) ELSE SubUpread(lock)
  /\ UNCHANGED <<status, current, queue, qlock, woken, todo, want>>

\* Mutant: the read guard never wakes a waiting writer.
DropReadSilent(t) ==
  /\ At(t, "read") /\ Goto(t, "out")
  /\ lock' = SubReader(lock)
  /\ UNCHANGED <<status, current, queue, qlock, woken, todo, want>>

\* Drop for RwMutexReadGuard: wake_one when the word was exactly READER.
DropRead(t) ==
  /\ At(t, "read")
  /\ Goto(t, IF lock = [Zero EXCEPT !.readers = 1] THEN "wakeOne" ELSE "out")
  /\ lock' = SubReader(lock)
  /\ UNCHANGED <<status, current, queue, qlock, woken, todo, want>>

\* Drop for RwMutexWriteGuard.
DropWrite(t) ==
  /\ At(t, "write") /\ Goto(t, "wakeAll")
  /\ lock' = [lock EXCEPT !.writer = FALSE]
  /\ UNCHANGED <<status, current, queue, qlock, woken, todo, want>>

\* Drop for RwMutexUpgradeableGuard: wake_all when fetch_sub returned 0.
DropUpread(t) ==
  /\ At(t, "upread")
  /\ Goto(t, IF lock = Zero THEN "wakeAll" ELSE "out")
  /\ lock' = SubUpread(lock)
  /\ UNCHANGED <<status, current, queue, qlock, woken, todo, want>>

\* upgrade: fetch_or(BEING_UPGRADED).  The task then spins on its CPU.
Upgrade(t) ==
  /\ At(t, "upread") /\ Goto(t, "upgrading")
  /\ lock' = [lock EXCEPT !.upgraded = TRUE]
  /\ UNCHANGED <<status, current, queue, qlock, woken, todo, want>>

\* Mutant: the compare_exchange of try_upgrade overlooks the readers.
TryUpgradeAmongReaders(t) ==
  /\ \E label \in {"upread", "upgrading"} : At(t, label)
  /\ lock.upgraded
  /\ Goto(t, "upgraded")
  /\ lock' = [lock EXCEPT !.upgraded = FALSE, !.writer = TRUE]
  /\ UNCHANGED <<status, current, queue, qlock, woken, todo, want>>

\* try_upgrade, in the loop of upgrade or on its own; a failed one changes nothing.
TryUpgrade(t) ==
  /\ \E label \in {"upread", "upgrading"} : At(t, label)
  /\ lock = UpgradeFrom
  /\ Goto(t, "upgraded")
  /\ lock' = UpgradeTo
  /\ UNCHANGED <<status, current, queue, qlock, woken, todo, want>>

\* drop(self) in try_upgrade, with the wake_all test of the guard's drop.
FinishUpgrade(t) ==
  /\ At(t, "upgraded") /\ Goto(t, "write")
  /\ lock' = SubUpread(lock)
  /\ UNCHANGED <<status, current, queue, qlock, woken, todo, want>>

Wait(t) ==
  /\ Enqueue(t) \/ Sleep(t) \/ TestWoken(t) \/ Yield(t) \/ Dequeue(t, want[t])
  /\ UNCHANGED <<lock, want>>

Wake(t) ==
  /\ \/ At(t, "wakeOne") /\ WakeOne(t)
     \/ At(t, "wakeAll") /\ WakeAll(t)
     \/ Cas(t, "out")
     \/ WakeTask(t)
  /\ UNCHANGED <<lock, want>>

\* The task on CPU c calls schedule(), or the idle thread gives way.
Schedule(c) ==
  /\ NoPanic
  /\ current[c] \in {Idle} \cup {t \in Tasks : pc[t] \in {"out", "read", "write", "upread"}}
  /\ \E n \in Tasks \cup {Idle} : SwitchTo(c, n)
  /\ UNCHANGED <<queue, qlock, woken, pc, todo, lock, want>>

Balance(c) ==
  /\ NoPanic /\ LoadBalance(c)
  /\ UNCHANGED <<queue, qlock, woken, pc, todo, lock, want>>

Step(t) ==
  \/ Attempt(t) \/ Undo(t) \/ DropRead(t) \/ DropWrite(t) \/ DropUpread(t)
  \/ TryUpgrade(t) \/ FinishUpgrade(t) \/ Wait(t) \/ Wake(t)

Next ==
  \/ \E t \in Tasks : Call(t) \/ Upgrade(t) \/ Step(t)
  \/ \E c \in Cpus : Schedule(c) \/ Balance(c)

Spec == Init /\ [][Next]_vars

\* As for Mutex: a ready task is picked again and again, and a task that gets
\* CPU time finishes its critical section.
PickedFairly(t) ==
  SF_vars(\E c \in Cpus :
            /\ SwitchTo(c, t)
            /\ Schedule(c) \/ \E u \in Tasks : Wait(u))

FairSpec == Spec /\ \A t \in Tasks : PickedFairly(t) /\ SF_vars(Step(t))
-----------------------------------------------------------------------------
TypeOK ==
  /\ TasksTypeOK /\ WqTypeOK
  /\ pc \in [Tasks -> PC]
  /\ lock \in Word
  /\ want \in [Tasks -> {"read", "write", "upread"}]

Range(s) == {s[i] : i \in DOMAIN s}

\* The spinning lock's view of a task: which guard or half-done attempt it has.
Guard(t) ==
  CASE pc[t] = "dequeue" -> want[t]
    [] pc[t] \in {"tryUndo", "recheckUndo", "onceUndo"} ->
         IF want[t] = "read" THEN "readFail" ELSE "upreadFail"
    [] pc[t] \in {"read", "write", "upread", "upgrading", "upgraded"} -> pc[t]
    [] OTHER -> "idle"

\* The word of an RwMutex goes through the steps of the word of an RwLock, with
\* the sleeping and waking as stutters: what is proved of the spinning lock
\* (exclusion, the counting of the word, the abstract lock) holds of this one.
Spinning == INSTANCE RwLock WITH
  Threads <- Tasks, pc <- [t \in Tasks |-> Guard(t)]

ImplementsSpinning == Spinning!Spec

\* A free lock with waiters has somebody on the way, as in FreeMutexHasWaker:
\* "The calling thread will sleep until there are no writers, upreaders, or
\* readers present" (rwmutex.rs).
FreeLockHasWaker ==
  lock = Zero /\ queue # <<>> =>
    \/ \E t \in Tasks : pc[t] \in {"wakeOne", "wakeAll", "enqueue"} \/ todo[t] # <<>>
    \/ \E t \in Range(queue) : woken[t] \/ pc[t] \in {"recheck", "recheckUndo"}

\* A task that asks for the lock waits only as long as others get it.
SomebodyEnters ==
  (\E t \in Tasks : pc[t] \in WaitPC \cup {"try"})
    ~> (\E t \in Tasks : pc[t] \in {"read", "write", "upread"})
=============================================================================
