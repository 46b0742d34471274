------------------------------- MODULE RwLock -------------------------------
(***************************************************************************)
(* The spinning reader-writer lock of framework/aster-frame/src/sync/      *)
(* rwlock.rs.  Every atomic operation on the lock word is a step.  A       *)
(* thread that fails an attempt goes back to "idle", which is the spin     *)
(* loop of read, write and upread as well as the None of their try_        *)
(* versions.  The irq-disabled versions do the same to the word.           *)
(***************************************************************************)
EXTENDS RwWord, FiniteSets

CONSTANT Threads

\* Bits 60-0 never run over: fewer than 2^61 threads are inside the lock.
ASSUME ThreadsAssumption ==
  IsFiniteSet(Threads) /\ Cardinality(Threads) < 2 * MAX_READER

VARIABLES
  lock,   \* the lock word
  pc      \* where each thread is, and which guard it owns

vars == <<lock, pc>>

PC == {"idle",
       "read",        \* owns a RwLockReadGuard
       "readFail",    \* try_read counted itself and must take that back
       "write",       \* owns a RwLockWriteGuard
       "upread",      \* owns a RwLockUpgradeableGuard
       "upreadFail",  \* try_upread set bit 62 under a writer, must clear it
       "upgrading",   \* in the loop of upgrade, bit 61 set
       "upgraded"}    \* try_upgrade succeeded, drop(self) still to come

Init == lock = Zero /\ pc = [t \in Threads |-> "idle"]

Goto(t, from, to) == pc[t] = from /\ pc' = [pc EXCEPT ![t] = to]

\* A try_read that forgets BEING_UPGRADED in its mask.
TryReadDuringUpgrade(t) ==
  /\ Goto(t, "idle", IF ~ lock.writer /\ lock.readers < MAX_READER
                     THEN "read" ELSE "readFail")
  /\ lock' = AddReader(lock)

\* try_read: fetch_add(READER), then the test of the word it returned.
TryRead(t) ==
  /\ Goto(t, "idle", IF ReadAllowed(lock) THEN "read" ELSE "readFail")
  /\ lock' = AddReader(lock)

\* The fetch_sub of a failed try_read.
UndoRead(t) == Goto(t, "readFail", "idle") /\ lock' = SubReader(lock)

\* Drop for RwLockReadGuard.
DropRead(t) == Goto(t, "read", "idle") /\ lock' = SubReader(lock)

\* try_write: compare_exchange(0, WRITER).  A failed one changes nothing.
TryWrite(t) ==
  /\ Goto(t, "idle", "write")
  /\ lock = Zero
  /\ lock' = [Zero EXCEPT !.writer = TRUE]

\* A write guard that clears the whole word.
DropWriteStore(t) == Goto(t, "write", "idle") /\ lock' = Zero

\* Drop for RwLockWriteGuard: fetch_and(!WRITER).
DropWrite(t) ==
  Goto(t, "write", "idle") /\ lock' = [lock EXCEPT !.writer = FALSE]

\* A try_upread that undoes its fetch_or whenever it fails.
TryUpreadAlwaysUndo(t) ==
  /\ Goto(t, "idle", IF lock.upread \/ lock.writer THEN "upreadFail" ELSE "upread")
  /\ lock' = [lock EXCEPT !.upread = TRUE]

\* try_upread: fetch_or(UPGRADEABLE_READER), then the test of bits 63 and 62.
TryUpread(t) ==
  /\ Goto(t, "idle", CASE lock.upread -> "idle"
                       [] ~ lock.upread /\ lock.writer -> "upreadFail"
                       [] OTHER -> "upread")
  /\ lock' = [lock EXCEPT !.upread = TRUE]

\* The fetch_sub of a try_upread that met a writer.
UndoUpread(t) == Goto(t, "upreadFail", "idle") /\ lock' = SubUpread(lock)

\* Drop for RwLockUpgradeableGuard.
DropUpread(t) == Goto(t, "upread", "idle") /\ lock' = SubUpread(lock)

\* The first step of upgrade: fetch_or(BEING_UPGRADED).
Upgrade(t) ==
  Goto(t, "upread", "upgrading") /\ lock' = [lock EXCEPT !.upgraded = TRUE]

\* try_upgrade, from upgrade's loop or called on its own.
TryUpgrade(t) ==
  /\ pc[t] \in {"upread", "upgrading"}
  /\ lock = UpgradeFrom
  /\ lock' = UpgradeTo
  /\ pc' = [pc EXCEPT ![t] = "upgraded"]

\* drop(self) in try_upgrade: the upgradeable guard's own drop.
FinishUpgrade(t) == Goto(t, "upgraded", "write") /\ lock' = SubUpread(lock)

Step(t) ==
  \/ TryRead(t) \/ UndoRead(t) \/ DropRead(t)
  \/ TryWrite(t) \/ DropWrite(t)
  \/ TryUpread(t) \/ UndoUpread(t) \/ DropUpread(t)
  \/ Upgrade(t) \/ TryUpgrade(t) \/ FinishUpgrade(t)

Next == \E t \in Threads : Step(t)

Spec == Init /\ [][Next]_vars
-----------------------------------------------------------------------------
At(states) == {t \in Threads : pc[t] \in states}

TypeOK == lock \in Word /\ pc \in [Threads -> PC]

\* The lock word is exactly what the guards and the attempts under way have
\* put into it, whatever the interleaving of the fetch_or, fetch_sub and
\* compare_exchange calls of rwlock.rs: no failed attempt leaves a bit behind
\* and none takes away a bit that a guard still needs.
WordCounts ==
  /\ lock.readers = Cardinality(At({"read", "readFail"}))
  /\ lock.writer <=> At({"write", "upgraded"}) # {}
  /\ lock.upread <=> At({"upread", "upreadFail", "upgrading", "upgraded"}) # {}
  /\ lock.upgraded <=> At({"upgrading"}) # {}

\* A write guard is alone: "The writing and reading portions cannot be active
\* simultaneously" (rwlock.rs), and there is at most one upgradeable reader.
Exclusion ==
  \A t, u \in Threads : t # u =>
    /\ pc[t] \in {"write", "upgraded"} =>
         pc[u] \notin {"read", "write", "upread", "upgrading", "upgraded"}
    /\ pc[t] \in {"upread", "upgrading"} => pc[u] \notin {"upread", "upgrading"}

\* The inductive invariant behind both: the word counts, and the bits that
\* are not counters have one owner each.
LockInv ==
  /\ TypeOK
  /\ WordCounts
  /\ \A t, u \in Threads : t # u =>
       /\ pc[t] \in {"write", "upgraded"} =>
            pc[u] \notin {"read", "write", "upread", "upgrading", "upgraded"}
       /\ pc[t] \in {"upread", "upreadFail", "upgrading", "upgraded"} =>
            pc[u] \notin {"upread", "upreadFail", "upgrading", "upgraded"}

\* The guards handed out behave as those of the abstract lock: readers are
\* blocked from the moment upgrade sets bit 61, and no writer comes between an
\* upgradeable read and its upgrade.
Abs == INSTANCE AbsRwLock WITH
  readers <- At({"read"}), writers <- At({"write", "upgraded"}),
  upreaders <- At({"upread"}), upgraders <- At({"upgrading"})

ImplementsRwLock == Abs!Spec
=============================================================================
