---------------------------- MODULE RwLockProofs ----------------------------
(***************************************************************************)
(* The lock word of RwLock is right for every number of threads and every  *)
(* position of the reader limit, and the lock implements AbsRwLock.        *)
(***************************************************************************)
EXTENDS RwLock, FiniteSetTheorems, TLAPS

\* The threads counted in bits 60-0.
Counted == At({"read", "readFail"})

\* The counted threads are finitely many, and fewer than bits 60-0 can hold.
LEMMA CountedBound ==
  ASSUME TypeOK
  PROVE  /\ IsFiniteSet(Counted)
         /\ Cardinality(Counted) \in Nat
         /\ Cardinality(Counted) < 2 * MAX_READER
         /\ \A t \in Threads : t \notin Counted =>
              Cardinality(Counted) + 1 < 2 * MAX_READER
<1>1. Counted \subseteq Threads
  BY DEF Counted, At
<1>2. IsFiniteSet(Counted) /\ Cardinality(Counted) <= Cardinality(Threads)
  BY <1>1, ThreadsAssumption, FS_Subset
<1>3. Cardinality(Counted) \in Nat /\ Cardinality(Threads) \in Nat
  BY <1>2, ThreadsAssumption, FS_CardinalityType
<1>4. ASSUME NEW t \in Threads, t \notin Counted
      PROVE  Cardinality(Counted) + 1 < 2 * MAX_READER
  <2>1. Counted \cup {t} \subseteq Threads
    BY <1>1
  <2>2. Cardinality(Counted \cup {t}) <= Cardinality(Threads)
    BY <2>1, ThreadsAssumption, FS_Subset
  <2>3. Cardinality(Counted \cup {t}) = Cardinality(Counted) + 1
    BY <1>2, <1>4, FS_AddElement
  <2> QED
    BY <2>2, <2>3, <1>3, ThreadsAssumption, MaxReaderAssumption
<1> QED
  BY <1>2, <1>3, <1>4, ThreadsAssumption, MaxReaderAssumption

\* Initially the word is zero and nobody is inside.
LEMMA LockInit == Init => LockInv
<1> SUFFICES ASSUME Init PROVE LockInv
  OBVIOUS
<1>1. TypeOK
  BY MaxReaderAssumption DEF Init, TypeOK, Word, Zero, PC
<1>2. \A S : "idle" \notin S => At(S) = {}
  BY DEF Init, At
<1>3. Cardinality({}) = 0
  BY FS_EmptySet
<1>4. WordCounts
  BY <1>2, <1>3 DEF Init, WordCounts, Zero
<1> QED
  BY <1>1, <1>4 DEF Init, LockInv

\* One thread enters bits 60-0, leaves them, or neither.
LEMMA CountedAdd ==
  ASSUME TypeOK, NEW t \in Threads, t \notin Counted, Counted' = Counted \cup {t}
  PROVE  Cardinality(Counted)' = Cardinality(Counted) + 1
BY CountedBound, FS_AddElement

LEMMA CountedRemove ==
  ASSUME TypeOK, NEW t \in Threads, t \in Counted, Counted' = Counted \ {t}
  PROVE  /\ Cardinality(Counted)' = Cardinality(Counted) - 1
         /\ Cardinality(Counted) > 0
<1>1. Cardinality(Counted \ {t}) = Cardinality(Counted) - 1
  BY CountedBound, FS_RemoveElement
<1>2. Cardinality(Counted) # 0
  BY CountedBound, FS_EmptySet
<1> QED
  BY <1>1, <1>2, CountedBound

\* A word with no reader counted has nobody with a read guard.
LEMMA NoReaders ==
  ASSUME LockInv, lock.readers = 0
  PROVE  Counted = {}
<1>1. Cardinality(Counted) = 0
  BY DEF LockInv, WordCounts, Counted
<1> QED
  BY <1>1, CountedBound, FS_EmptySet DEF LockInv

\* Every step of a thread keeps the word and the owners of its bits in
\* agreement.
LEMMA LockStep ==
  ASSUME LockInv, NEW t \in Threads, Step(t)
  PROVE  LockInv'
<1> DEFINE Owners(p) == \A x, y \in Threads : x # y =>
             /\ p[x] \in {"write", "upgraded"} =>
                  p[y] \notin {"read", "write", "upread", "upgrading", "upgraded"}
             /\ p[x] \in {"upread", "upreadFail", "upgrading", "upgraded"} =>
                  p[y] \notin {"upread", "upreadFail", "upgrading", "upgraded"}
           Bits(w, p) ==
             /\ w.writer <=> \E x \in Threads : p[x] \in {"write", "upgraded"}
             /\ w.upread <=> \E x \in Threads :
                              p[x] \in {"upread", "upreadFail", "upgrading", "upgraded"}
             /\ w.upgraded <=> \E x \in Threads : p[x] = "upgrading"
<1>1. TypeOK /\ lock.readers = Cardinality(Counted) /\ Bits(lock, pc) /\ Owners(pc)
  BY DEF LockInv, WordCounts, Counted, At
<1>2. ASSUME TypeOK', (lock.readers = Cardinality(Counted))', Bits(lock', pc'), Owners(pc')
      PROVE  LockInv'
  BY <1>2 DEF LockInv, WordCounts, Counted, At
<1> HIDE DEF Owners, Bits
<1>3. CASE TryRead(t)
  <2>1. /\ lock' = [lock EXCEPT !.readers = lock.readers + 1]
        /\ lock.readers + 1 < 2 * MAX_READER
    BY <1>1, <1>3, CountedBound, MaxReaderAssumption
       DEF TryRead, Goto, AddReader, TypeOK, Word, Counted, At
  <2>2. TypeOK'
    BY <1>1, <1>3, <2>1, MaxReaderAssumption DEF TryRead, Goto, TypeOK, Word, PC
  <2>3. t \notin Counted /\ Counted' = Counted \cup {t}
    BY <1>1, <1>3 DEF TryRead, Goto, Counted, At, TypeOK
  <2>4. (lock.readers = Cardinality(Counted))'
    BY <1>1, <2>1, <2>3, CountedAdd DEF TypeOK, Word
  <2>5. Bits(lock', pc')
    BY <1>1, <1>3, <2>1 DEF TryRead, Goto, TypeOK, Word, Bits
  <2>6. Owners(pc')
    BY <1>1, <1>3 DEF TryRead, Goto, TypeOK, Owners, Bits, ReadAllowed
  <2> QED
    BY <1>2, <2>2, <2>4, <2>5, <2>6
<1>4. CASE UndoRead(t)
  <2>1. t \in Counted /\ Counted' = Counted \ {t}
    BY <1>1, <1>4 DEF UndoRead, Goto, Counted, At, TypeOK
  <2>2. lock.readers > 0 /\ lock' = [lock EXCEPT !.readers = lock.readers - 1]
    BY <1>1, <1>4, <2>1, CountedRemove DEF UndoRead, SubReader
  <2>3. TypeOK'
    BY <1>1, <1>4, <2>2, MaxReaderAssumption DEF UndoRead, Goto, TypeOK, Word, PC
  <2>4. (lock.readers = Cardinality(Counted))'
    BY <1>1, <2>1, <2>2, CountedRemove DEF TypeOK, Word
  <2>5. Bits(lock', pc') /\ Owners(pc')
    BY <1>1, <1>4, <2>2 DEF UndoRead, Goto, TypeOK, Word, Bits, Owners
  <2> QED
    BY <1>2, <2>3, <2>4, <2>5
<1>5. CASE DropRead(t)
  <2>1. t \in Counted /\ Counted' = Counted \ {t}
    BY <1>1, <1>5 DEF DropRead, Goto, Counted, At, TypeOK
  <2>2. lock.readers > 0 /\ lock' = [lock EXCEPT !.readers = lock.readers - 1]
    BY <1>1, <1>5, <2>1, CountedRemove DEF DropRead, SubReader
  <2>3. TypeOK'
    BY <1>1, <1>5, <2>2, MaxReaderAssumption DEF DropRead, Goto, TypeOK, Word, PC
  <2>4. (lock.readers = Cardinality(Counted))'
    BY <1>1, <2>1, <2>2, CountedRemove DEF TypeOK, Word
  <2>5. Bits(lock', pc') /\ Owners(pc')
    BY <1>1, <1>5, <2>2 DEF DropRead, Goto, TypeOK, Word, Bits, Owners
  <2> QED
    BY <1>2, <2>3, <2>4, <2>5
<1>6. CASE TryWrite(t)
  <2>1. TypeOK'
    BY <1>1, <1>6, MaxReaderAssumption DEF TryWrite, Goto, TypeOK, Word, PC, Zero
  <2>2. Counted' = Counted /\ lock'.readers = lock.readers
    BY <1>1, <1>6 DEF TryWrite, Goto, Counted, At, TypeOK, Word, Zero
  <2>3. Bits(lock', pc')
    BY <1>1, <1>6 DEF TryWrite, Goto, TypeOK, Word, Bits, Owners, Zero
  <2>4. Counted = {}
    BY <1>1, <1>6, NoReaders DEF TryWrite, Zero
  <2>5. Owners(pc')
    BY <1>1, <1>6, <2>4 DEF TryWrite, Goto, TypeOK, Word, Bits, Owners, Counted, At, Zero
  <2> QED
    BY <1>1, <1>2, <2>1, <2>2, <2>3, <2>5
<1>7. CASE DropWrite(t)
  <2>1. TypeOK'
    BY <1>1, <1>7, MaxReaderAssumption DEF DropWrite, Goto, TypeOK, Word, PC
  <2>2. Counted' = Counted /\ lock'.readers = lock.readers
    BY <1>1, <1>7 DEF DropWrite, Goto, Counted, At, TypeOK, Word
  <2>3. Bits(lock', pc')
    BY <1>1, <1>7 DEF DropWrite, Goto, TypeOK, Word, Bits, Owners
  <2>5. Owners(pc')
    BY <1>1, <1>7 DEF DropWrite, Goto, TypeOK, Word, Bits, Owners
  <2> QED
    BY <1>1, <1>2, <2>1, <2>2, <2>3, <2>5
<1>8. CASE TryUpread(t)
  <2>1. TypeOK'
    BY <1>1, <1>8, MaxReaderAssumption DEF TryUpread, Goto, TypeOK, Word, PC
  <2>2. Counted' = Counted /\ lock'.readers = lock.readers
    BY <1>1, <1>8 DEF TryUpread, Goto, Counted, At, TypeOK, Word
  <2>3. Bits(lock', pc')
    BY <1>1, <1>8 DEF TryUpread, Goto, TypeOK, Word, Bits, Owners
  <2>5. Owners(pc')
    BY <1>1, <1>8 DEF TryUpread, Goto, TypeOK, Word, Bits, Owners
  <2> QED
    BY <1>1, <1>2, <2>1, <2>2, <2>3, <2>5
<1>9. CASE UndoUpread(t)
  <2>1. TypeOK'
    BY <1>1, <1>9, MaxReaderAssumption DEF UndoUpread, Goto, TypeOK, Word, PC, SubUpread
  <2>2. Counted' = Counted /\ lock'.readers = lock.readers
    BY <1>1, <1>9 DEF UndoUpread, Goto, Counted, At, TypeOK, Word, SubUpread
  <2>3. Bits(lock', pc')
    BY <1>1, <1>9 DEF UndoUpread, Goto, TypeOK, Word, Bits, Owners, SubUpread
  <2>5. Owners(pc')
    BY <1>1, <1>9 DEF UndoUpread, Goto, TypeOK, Word, Bits, Owners, SubUpread
  <2> QED
    BY <1>1, <1>2, <2>1, <2>2, <2>3, <2>5
<1>10. CASE DropUpread(t)
  <2>1. TypeOK'
    BY <1>1, <1>10, MaxReaderAssumption DEF DropUpread, Goto, TypeOK, Word, PC, SubUpread
  <2>2. Counted' = Counted /\ lock'.readers = lock.readers
    BY <1>1, <1>10 DEF DropUpread, Goto, Counted, At, TypeOK, Word, SubUpread
  <2>3. Bits(lock', pc')
    BY <1>1, <1>10 DEF DropUpread, Goto, TypeOK, Word, Bits, Owners, SubUpread
  <2>5. Owners(pc')
    BY <1>1, <1>10 DEF DropUpread, Goto, TypeOK, Word, Bits, Owners, SubUpread
  <2> QED
    BY <1>1, <1>2, <2>1, <2>2, <2>3, <2>5
<1>11. CASE Upgrade(t)
  <2>1. TypeOK'
    BY <1>1, <1>11, MaxReaderAssumption DEF Upgrade, Goto, TypeOK, Word, PC
  <2>2. Counted' = Counted /\ lock'.readers = lock.readers
    BY <1>1, <1>11 DEF Upgrade, Goto, Counted, At, TypeOK, Word
  <2>3. Bits(lock', pc')
    BY <1>1, <1>11 DEF Upgrade, Goto, TypeOK, Word, Bits, Owners
  <2>5. Owners(pc')
    BY <1>1, <1>11 DEF Upgrade, Goto, TypeOK, Word, Bits, Owners
  <2> QED
    BY <1>1, <1>2, <2>1, <2>2, <2>3, <2>5
<1>12. CASE TryUpgrade(t)
  <2>1. TypeOK'
    BY <1>1, <1>12, MaxReaderAssumption DEF TryUpgrade, TypeOK, Word, PC, Zero, UpgradeFrom, UpgradeTo
  <2>2. Counted' = Counted /\ lock'.readers = lock.readers
    BY <1>1, <1>12 DEF TryUpgrade, Counted, At, TypeOK, Word, Zero, UpgradeFrom, UpgradeTo
  <2>3. Bits(lock', pc')
    BY <1>1, <1>12 DEF TryUpgrade, TypeOK, Word, Bits, Owners, Zero, UpgradeFrom, UpgradeTo
  <2>4. Counted = {}
    BY <1>1, <1>12, NoReaders DEF TryUpgrade, Zero, UpgradeFrom, UpgradeTo
  <2>5. Owners(pc')
    BY <1>1, <1>12, <2>4 DEF TryUpgrade, TypeOK, Word, Bits, Owners, Counted, At, Zero, UpgradeFrom, UpgradeTo
  <2> QED
    BY <1>1, <1>2, <2>1, <2>2, <2>3, <2>5
<1>13. CASE FinishUpgrade(t)
  <2>1. TypeOK'
    BY <1>1, <1>13, MaxReaderAssumption DEF FinishUpgrade, Goto, TypeOK, Word, PC, SubUpread
  <2>2. Counted' = Counted /\ lock'.readers = lock.readers
    BY <1>1, <1>13 DEF FinishUpgrade, Goto, Counted, At, TypeOK, Word, SubUpread
  <2>3. Bits(lock', pc')
    BY <1>1, <1>13 DEF FinishUpgrade, Goto, TypeOK, Word, Bits, Owners, SubUpread
  <2>5. Owners(pc')
    BY <1>1, <1>13 DEF FinishUpgrade, Goto, TypeOK, Word, Bits, Owners, SubUpread
  <2> QED
    BY <1>1, <1>2, <2>1, <2>2, <2>3, <2>5
<1> QED
  BY <1>3, <1>4, <1>5, <1>6, <1>7, <1>8, <1>9, <1>10, <1>11, <1>12, <1>13 DEF Step

\* For every set of threads, the lock word agrees with the guards and the
\* bits that are not counters have one owner: the inductive invariant of
\* rwlock.rs.
THEOREM LockInvariant == Spec => []LockInv
<1>1. LockInv /\ [Next]_vars => LockInv'
  <2> SUFFICES ASSUME LockInv, [Next]_vars PROVE LockInv'
    OBVIOUS
  <2>1. CASE Next
    BY <2>1, LockStep DEF Next
  <2>2. CASE UNCHANGED vars
    BY <2>2 DEF vars, LockInv, TypeOK, WordCounts, At
  <2> QED
    BY <2>1, <2>2
<1> QED
  BY LockInit, <1>1, PTL DEF Spec

\* A write guard of RwLock is alone and there is one upgradeable reader, for
\* every number of threads.
THEOREM RwLockExclusion == Spec => []Exclusion
<1>1. LockInv => Exclusion
  BY DEF LockInv, Exclusion
<1> QED
  BY <1>1, LockInvariant, PTL

\* The word never keeps a bit of a failed attempt nor loses one of a guard.
THEOREM RwLockWordCounts == Spec => []WordCounts
<1>1. LockInv => WordCounts
  BY DEF LockInv
<1> QED
  BY <1>1, LockInvariant, PTL

\* Each step of the code is a step of the abstract lock on the guards the
\* threads own, or leaves those guards alone.
LEMMA AbsStep ==
  ASSUME LockInv, NEW t \in Threads, Step(t)
  PROVE  [Abs!Next]_(Abs!absVars)
<1> DEFINE R == At({"read"})
           W == At({"write", "upgraded"})
           U == At({"upread"})
           G == At({"upgrading"})
<1>0. /\ pc \in [Threads -> PC]
      /\ lock.writer <=> W # {}
      /\ lock.upgraded <=> G # {}
      /\ lock.upread <=> At({"upread", "upreadFail", "upgrading", "upgraded"}) # {}
  BY DEF LockInv, TypeOK, WordCounts
<1>1. CASE TryRead(t)
  <2>1. CASE ReadAllowed(lock)
    <3>1. W = {} /\ G = {}
      BY <1>0, <2>1 DEF ReadAllowed
    <3>2. R' = R \cup {t} /\ W' = W /\ U' = U /\ G' = G
      BY <1>0, <1>1, <2>1 DEF TryRead, Goto, At
    <3>3. Abs!AcquireRead(t)
      BY <3>1, <3>2 DEF Abs!AcquireRead
    <3> QED
      BY <3>3 DEF Abs!Next
  <2>2. CASE ~ ReadAllowed(lock)
    BY <1>0, <1>1, <2>2 DEF TryRead, Goto, At, Abs!absVars
  <2> QED
    BY <2>1, <2>2
<1>2. CASE UndoRead(t)
  BY <1>0, <1>2 DEF UndoRead, Goto, At, Abs!absVars
<1>3. CASE DropRead(t)
  <2>1. t \in R
    BY <1>0, <1>3 DEF DropRead, Goto, At
  <2>2. R' = R \ {t} /\ W' = W /\ U' = U /\ G' = G
    BY <1>0, <1>3 DEF DropRead, Goto, At
  <2>3. Abs!ReleaseRead(t)
    BY <2>1, <2>2 DEF Abs!ReleaseRead
  <2> QED
    BY <2>3 DEF Abs!Next
<1>4. CASE TryWrite(t)
  <2>1. R = {} /\ W = {} /\ U = {} /\ G = {}
    BY <1>0, <1>4, NoReaders DEF TryWrite, Goto, At, Zero, Counted
  <2>2. R' = R /\ W' = W \cup {t} /\ U' = U /\ G' = G
    BY <1>0, <1>4 DEF TryWrite, Goto, At
  <2>3. Abs!AcquireWrite(t)
    BY <2>1, <2>2 DEF Abs!AcquireWrite
  <2> QED
    BY <2>3 DEF Abs!Next
<1>5. CASE DropWrite(t)
  <2>1. t \in W
    BY <1>0, <1>5 DEF DropWrite, Goto, At
  <2>2. R' = R /\ W' = W \ {t} /\ U' = U /\ G' = G
    BY <1>0, <1>5 DEF DropWrite, Goto, At
  <2>3. Abs!ReleaseWrite(t)
    BY <2>1, <2>2 DEF Abs!ReleaseWrite
  <2> QED
    BY <2>3 DEF Abs!Next
<1>6. CASE TryUpread(t)
  <2>1. CASE lock.upread \/ lock.writer
    BY <1>0, <1>6, <2>1 DEF TryUpread, Goto, At, Abs!absVars
  <2>2. CASE ~ (lock.upread \/ lock.writer)
    <3>1. W = {} /\ U = {} /\ G = {}
      BY <1>0, <2>2 DEF At
    <3>2. R' = R /\ W' = W /\ U' = U \cup {t} /\ G' = G
      BY <1>0, <1>6, <2>2 DEF TryUpread, Goto, At
    <3>3. Abs!AcquireUpread(t)
      BY <3>1, <3>2 DEF Abs!AcquireUpread
    <3> QED
      BY <3>3 DEF Abs!Next
  <2> QED
    BY <2>1, <2>2
<1>7. CASE UndoUpread(t)
  BY <1>0, <1>7 DEF UndoUpread, Goto, At, Abs!absVars
<1>8. CASE DropUpread(t)
  <2>1. t \in U
    BY <1>0, <1>8 DEF DropUpread, Goto, At
  <2>2. R' = R /\ W' = W /\ U' = U \ {t} /\ G' = G
    BY <1>0, <1>8 DEF DropUpread, Goto, At
  <2>3. Abs!ReleaseUpread(t)
    BY <2>1, <2>2 DEF Abs!ReleaseUpread
  <2> QED
    BY <2>3 DEF Abs!Next
<1>9. CASE Upgrade(t)
  <2>1. t \in U /\ G = {}
    BY <1>0, <1>9 DEF Upgrade, Goto, At, LockInv
  <2>2. R' = R /\ W' = W /\ U' = U \ {t} /\ G' = G \cup {t}
    BY <1>0, <1>9 DEF Upgrade, Goto, At
  <2>3. Abs!BeginUpgrade(t)
    BY <2>1, <2>2 DEF Abs!BeginUpgrade
  <2> QED
    BY <2>3 DEF Abs!Next
<1>10. CASE TryUpgrade(t)
  <2>1. lock.upgraded /\ ~ lock.writer /\ lock.readers = 0
    BY <1>10 DEF TryUpgrade, UpgradeFrom, Zero
  <2>2. R = {} /\ W = {}
    BY <1>0, <2>1, NoReaders DEF Counted, At
  <2>3. t \in G
    BY <1>0, <1>10, <2>1 DEF TryUpgrade, At, LockInv
  <2>4. R' = R /\ W' = W \cup {t} /\ U' = U /\ G' = G \ {t}
    BY <1>0, <1>10, <2>3 DEF TryUpgrade, At
  <2>5. Abs!EndUpgrade(t)
    BY <2>2, <2>3, <2>4 DEF Abs!EndUpgrade
  <2> QED
    BY <2>5 DEF Abs!Next
<1>11. CASE FinishUpgrade(t)
  BY <1>0, <1>11 DEF FinishUpgrade, Goto, At, Abs!absVars
<1> QED
  BY <1>1, <1>2, <1>3, <1>4, <1>5, <1>6, <1>7, <1>8, <1>9, <1>10, <1>11 DEF Step

\* The spinning lock implements the abstract reader-writer lock, for every
\* number of threads: readers are blocked once upgrade has started and no
\* writer comes between an upgradeable read and its upgrade.
THEOREM RwLockRefinement == Spec => ImplementsRwLock
<1>1. Init => Abs!Init
  BY DEF Init, Abs!Init, At
<1>2. LockInv /\ [Next]_vars => [Abs!Next]_(Abs!absVars)
  <2> SUFFICES ASSUME LockInv, [Next]_vars PROVE [Abs!Next]_(Abs!absVars)
    OBVIOUS
  <2>1. CASE Next
    BY <2>1, AbsStep DEF Next
  <2>2. CASE UNCHANGED vars
    BY <2>2 DEF vars, Abs!absVars, At
  <2> QED
    BY <2>1, <2>2
<1> QED
  BY <1>1, <1>2, LockInvariant, PTL DEF Spec, ImplementsRwLock, Abs!Spec
=============================================================================
