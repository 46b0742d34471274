----------------------------- MODULE AbsRwLock ------------------------------
(***************************************************************************)
(* What a reader-writer lock with upgradeable reads promises, by the       *)
(* guards its threads own and with no lock word: readers share, a writer   *)
(* is alone, there is one upgradeable reader, an upgrade waits for the     *)
(* readers that were there and lets in no new one, and nobody writes       *)
(* between an upgradeable read and its upgrade.                            *)
(***************************************************************************)
CONSTANT Threads

VARIABLES
  readers,    \* threads that own a read guard
  writers,    \* threads that own the write guard
  upreaders,  \* threads that own the upgradeable guard
  upgraders   \* threads that wait in upgrade

absVars == <<readers, writers, upreaders, upgraders>>

Init == readers = {} /\ writers = {} /\ upreaders = {} /\ upgraders = {}

AcquireRead(t) ==
  /\ writers = {} /\ upgraders = {}
  /\ readers' = readers \cup {t}
  /\ UNCHANGED <<writers, upreaders, upgraders>>

ReleaseRead(t) ==
  /\ t \in readers
  /\ readers' = readers \ {t}
  /\ UNCHANGED <<writers, upreaders, upgraders>>

AcquireWrite(t) ==
  /\ readers = {} /\ writers = {} /\ upreaders = {} /\ upgraders = {}
  /\ writers' = {t}
  /\ UNCHANGED <<readers, upreaders, upgraders>>

ReleaseWrite(t) ==
  /\ t \in writers
  /\ writers' = writers \ {t}
  /\ UNCHANGED <<readers, upreaders, upgraders>>

AcquireUpread(t) ==
  /\ writers = {} /\ upreaders = {} /\ upgraders = {}
  /\ upreaders' = {t}
  /\ UNCHANGED <<readers, writers, upgraders>>

ReleaseUpread(t) ==
  /\ t \in upreaders
  /\ upreaders' = upreaders \ {t}
  /\ UNCHANGED <<readers, writers, upgraders>>

BeginUpgrade(t) ==
  /\ t \in upreaders
  /\ upreaders' = upreaders \ {t}
  /\ upgraders' = {t}
  /\ UNCHANGED <<readers, writers>>

EndUpgrade(t) ==
  /\ t \in upgraders
  /\ readers = {} /\ writers = {}
  /\ upgraders' = upgraders \ {t}
  /\ writers' = {t}
  /\ UNCHANGED <<readers, upreaders>>

Next == \E t \in Threads :
  \/ AcquireRead(t) \/ ReleaseRead(t) \/ AcquireWrite(t) \/ ReleaseWrite(t)
  \/ AcquireUpread(t) \/ ReleaseUpread(t) \/ BeginUpgrade(t) \/ EndUpgrade(t)

Spec == Init /\ [][Next]_absVars
=============================================================================
