------------------------------- MODULE RwWord -------------------------------
(***************************************************************************)
(* The 64-bit lock word shared by RwLock (sync/rwlock.rs) and RwMutex      *)
(* (sync/rwmutex.rs), and the atomic operations the two locks apply to it. *)
(*                                                                         *)
(* The word is kept as its bit fields: bit 63 is `writer', bit 62 is       *)
(* `upread', bit 61 is `upgraded' and bits 60-0 are `readers'.  Bit 60 is  *)
(* MAX_READER, so `readers' ranges over 0 .. 2 * MAX_READER - 1.  The      *)
(* additions and subtractions keep the carry and the borrow of the 64-bit  *)
(* operation, so that an unbalanced one damages the neighbouring fields    *)
(* as it does in the code.                                                 *)
(***************************************************************************)
EXTENDS Naturals

CONSTANT MAX_READER     \* the value of bit 60

ASSUME MaxReaderAssumption == MAX_READER \in Nat \ {0}

Word == [writer : BOOLEAN, upread : BOOLEAN, upgraded : BOOLEAN,
         readers : 0 .. 2 * MAX_READER - 1]

\* The word of a lock that nobody holds.
Zero == [writer |-> FALSE, upread |-> FALSE, upgraded |-> FALSE, readers |-> 0]

\* fetch_sub(UPGRADEABLE_READER): the borrow of a cleared bit 62 is bit 63.
SubUpread(w) ==
  [w EXCEPT !.upread = ~ w.upread,
            !.writer = IF w.upread THEN w.writer ELSE ~ w.writer]

\* The borrow of a subtraction that runs through bits 60-0 and bit 61.
BorrowUpgraded(w) ==
  IF w.upgraded THEN [w EXCEPT !.upgraded = FALSE]
                ELSE SubUpread([w EXCEPT !.upgraded = TRUE])

\* fetch_sub(READER).
SubReader(w) ==
  IF w.readers > 0 THEN [w EXCEPT !.readers = @ - 1]
                   ELSE BorrowUpgraded([w EXCEPT !.readers = 2 * MAX_READER - 1])

\* The carry of an addition that runs over bit 60.
CarryUpgraded(w) ==
  IF ~ w.upgraded THEN [w EXCEPT !.upgraded = TRUE]
  ELSE [w EXCEPT !.upgraded = FALSE, !.upread = ~ w.upread,
                 !.writer = IF w.upread THEN ~ w.writer ELSE w.writer]

\* fetch_add(READER).
AddReader(w) ==
  IF w.readers < 2 * MAX_READER - 1
  THEN [w EXCEPT !.readers = @ + 1]
  ELSE CarryUpgraded([w EXCEPT !.readers = 0])

\* lock & (WRITER | BEING_UPGRADED | MAX_READER) == 0
ReadAllowed(w) == ~ w.writer /\ ~ w.upgraded /\ w.readers < MAX_READER

\* The word the compare_exchange of try_upgrade expects, and the one it stores.
UpgradeFrom == [Zero EXCEPT !.upread = TRUE, !.upgraded = TRUE]
UpgradeTo   == [Zero EXCEPT !.upread = TRUE, !.writer = TRUE]
=============================================================================
