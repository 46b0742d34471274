-------------------------- MODULE ProcessorProofs ---------------------------
(***************************************************************************)
(* Proof that SchedInv is an invariant of Processor for any number of      *)
(* tasks and CPUs and any affinities.                                      *)
(***************************************************************************)
EXTENDS Processor, TLAPS

\* The values of a TaskStatus are different from each other.
LEMMA StatusDistinct ==
  /\ \A c, d :
       /\ Ready(c) = Ready(d) => c = d
       /\ Running(c) = Running(d) => c = d
       /\ ReadyToSleep(c) = ReadyToSleep(d) => c = d
       /\ Ready(c) # Running(d) /\ Ready(c) # ReadyToSleep(d)
       /\ Running(c) # ReadyToSleep(d)
  /\ \A c : \A s \in {Runnable, Sleeping, Exited, New} :
       s # Ready(c) /\ s # Running(c) /\ s # ReadyToSleep(c)
  /\ Runnable # Sleeping /\ Runnable # Exited /\ Runnable # New
  /\ Sleeping # Exited /\ Sleeping # New /\ Exited # New
  BY DEF Ready, Running, ReadyToSleep, Runnable, Sleeping, Exited, New

\* push of the scheduler chooses a run queue the task may run on.
LEMMA RunqForAllowed ==
  ASSUME NEW t \in Tasks, NEW c \in Cpus
  PROVE  RunqFor(t, c) \in Cpus /\ RunqFor(t, c) \in Affinity[t]
<1>1. \E d \in Cpus : d \in Affinity[t]
  BY ProcessorAssumption
<1>. QED  BY <1>1 DEF RunqFor

\* Every CPU starts in its own idle thread.
LEMMA SchedInit == Init => SchedInv
<1>. SUFFICES ASSUME Init PROVE SchedInv
  OBVIOUS
<1>1. \A c, d \in Cpus : IdleTask[c] = IdleTask[d] => c = d
  BY ProcessorAssumption
<1>2. \A c \in Cpus : status[IdleTask[c]] = Running(c)
  BY <1>1, ProcessorAssumption DEF Init, Idles
<1>3. \A t \in Tasks : status[t] = New \/ \E c \in Cpus : t = IdleTask[c] /\ status[t] = Running(c)
  BY <1>1, <1>2, ProcessorAssumption DEF Init, Idles
<1>4. TypeOK
  <2>1. status \in [Tasks -> Status]
    BY <1>3 DEF Init, Status
  <2>2. saved \in [Tasks -> BOOLEAN] /\ fresh \in [Cpus -> BOOLEAN]
    BY Zenon DEF Init
  <2>3. /\ current \in [Cpus -> Tasks]
        /\ tree \in [Cpus -> SUBSET Tasks]
        /\ num \in [Cpus -> Int]
        /\ at \in [Cpus -> Phase]
        /\ hand \in [Cpus -> Tasks \cup {None}]
        /\ old \in [Cpus -> Tasks \cup {None}]
    BY ProcessorAssumption DEF Init, Phase
  <2>. QED  BY <2>1, <2>2, <2>3 DEF TypeOK
<1>5. AssertionsHold
  BY <1>2 DEF Init, AssertionsHold
<1>6. OnePlace
  BY <1>1, ProcessorAssumption DEF Init, OnePlace
<1>7. NoneLost
  BY <1>3, StatusDistinct DEF Init, NoneLost
<1>8. Phases /\ Owners
  BY <1>3, StatusDistinct, ProcessorAssumption DEF Init, Phases, Owners
<1>. QED  BY <1>4, <1>5, <1>6, <1>7, <1>8 DEF SchedInv

\* The type of a step's successor state.
LEMMA TypeStep == SchedInv /\ [Next]_vars => TypeOK'
<1>. SUFFICES ASSUME SchedInv, [Next]_vars PROVE TypeOK'
  OBVIOUS
<1>. USE DEF SchedInv, TypeOK
<1>1. CASE UNCHANGED vars
  BY <1>1 DEF vars
<1>2. ASSUME NEW c \in Cpus, NEW t \in Tasks, NEW d \in Cpus, Pop(c, d, t)
      PROVE  /\ status' \in [Tasks -> Status] /\ tree' \in [Cpus -> SUBSET Tasks]
             /\ num' \in [Cpus -> Int] /\ hand' \in [Cpus -> Tasks \cup {None}]
  BY <1>2 DEF Pop, Status
<1>3. ASSUME NEW c \in Cpus, Schedule(c) PROVE TypeOK'
  BY <1>2, <1>3 DEF Schedule, Phase
<1>4. ASSUME NEW c \in Cpus, Spawn(c) PROVE TypeOK'
  BY <1>4 DEF Spawn, Phase, Status
<1>5. ASSUME NEW c \in Cpus, BeginSwitch(c) PROVE TypeOK'
  <2>1. hand[c] \in Tasks /\ current[c] \in Tasks
    BY <1>5 DEF BeginSwitch, Phases
  <2>2. status' \in [Tasks -> Status]
    BY <1>5, <2>1 DEF BeginSwitch, Status
  <2>3. saved[hand[c]] \in BOOLEAN
    BY <2>1
  <2>4. fresh' \in [Cpus -> BOOLEAN] /\ saved' \in [Tasks -> BOOLEAN]
    BY <1>5, <2>1, <2>3 DEF BeginSwitch
  <2>. QED  BY <1>5, <2>1, <2>2, <2>4 DEF BeginSwitch, Phase
<1>6. ASSUME NEW c \in Cpus, Push(c) PROVE TypeOK'
  <2>1. hand[c] \in Tasks /\ RunqFor(hand[c], c) \in Cpus
    BY <1>6, RunqForAllowed DEF Push, Phases
  <2>. QED  BY <1>6, <2>1 DEF Push, Phase, Status
<1>7. ASSUME NEW c \in Cpus, Insert(c) PROVE TypeOK'
  <2>1. hand[c] \in Tasks /\ RunqFor(hand[c], c) \in Cpus
    BY <1>7, RunqForAllowed DEF Insert, Phases
  <2>. QED  BY <1>7, <2>1 DEF Insert, Phase
<1>8. ASSUME NEW c \in Cpus, ContextSwitch(c) PROVE TypeOK'
  BY <1>8 DEF ContextSwitch, Phase
<1>9. ASSUME NEW c \in Cpus, Sleep(c) PROVE TypeOK'
  BY <1>9 DEF Sleep, Status
<1>10. ASSUME NEW c \in Cpus, Exit(c) PROVE TypeOK'
  BY <1>10 DEF Exit, Status
<1>11. ASSUME NEW c \in Cpus, WakeUp(c) PROVE TypeOK'
  BY <1>11 DEF WakeUp, Status, Phase
<1>12. ASSUME NEW c \in Cpus, Balance(c) PROVE TypeOK'
  BY <1>2, <1>12 DEF Balance, Phase
<1>. QED
  BY <1>1, <1>3, <1>4, <1>5, <1>6, <1>7, <1>8, <1>9, <1>10, <1>11, <1>12 DEF Next

\* What a CPU has in hand is Runnable, or Ready and about to be inserted, and in
\* no run queue.
LEMMA InHand ==
  ASSUME SchedInv, NEW e \in Cpus, hand[e] # None
  PROVE  /\ hand[e] \in Tasks
         /\ status[hand[e]] = Runnable \/ \E d \in Cpus : status[hand[e]] = Ready(d)
         /\ \A d \in Cpus : hand[e] \notin tree[d]
<1>1. hand[e] \in Tasks /\ at[e] \in {"picked", "push", "insert"}
  BY DEF SchedInv, TypeOK, Phases, Phase
<1>2. RunqFor(hand[e], e) \in Cpus
  BY <1>1, RunqForAllowed
<1>. QED  BY <1>1, <1>2 DEF SchedInv, AssertionsHold

\* A task that is New or Sleeping is in no place at all.
LEMMA Nowhere ==
  ASSUME SchedInv, NEW t \in Tasks, status[t] \in {New, Sleeping}, NEW e \in Cpus
  PROVE  current[e] # t /\ hand[e] # t /\ t \notin tree[e]
<1>1. hand[e] # t
  BY InHand, StatusDistinct, ProcessorAssumption
<1>. QED  BY <1>1, StatusDistinct DEF SchedInv, AssertionsHold

\* RunQueue::pop hands a CPU a task that was queued once and is nowhere else.
LEMMA PopStep ==
  ASSUME SchedInv, NEW c \in Cpus, NEW d \in Cpus, NEW t \in Tasks, Pop(c, d, t),
         at[c] = "run", NEW phase \in {"picked", "push"},
         at' = [at EXCEPT ![c] = phase], UNCHANGED <<current, old>>
  PROVE  AssertionsHold' /\ OnePlace' /\ NoneLost' /\ Phases' /\ Owners'
<1>. USE StatusDistinct DEF SchedInv, Pop
<1>1. /\ hand[c] = None /\ status[t] = Ready(d)
      /\ \A e \in Cpus : current[e] # t /\ hand[e] # t
  <2>1. \A e \in Cpus : hand[e] # t
    BY InHand, ProcessorAssumption
  <2>. QED  BY <2>1 DEF TypeOK, AssertionsHold, OnePlace, Phases
<1>2. t \notin tree'[d] /\ \A e \in Cpus \ {d} : t \notin tree[e] /\ tree'[e] = tree[e]
  BY DEF TypeOK, OnePlace
<1>3. status'[t] = Runnable /\ \A u \in Tasks \ {t} : status'[u] = status[u]
  BY DEF TypeOK
<1>4. hand'[c] = t /\ \A e \in Cpus \ {c} : hand'[e] = hand[e] /\ at'[e] = at[e]
  BY DEF TypeOK
<1>5. AssertionsHold'
  BY <1>1, <1>2, <1>3, <1>4 DEF TypeOK, AssertionsHold
<1>6. OnePlace'
  BY <1>1, <1>2, <1>4 DEF TypeOK, OnePlace
<1>7. NoneLost'
  <2>1. ASSUME NEW u \in Tasks, status'[u] = Runnable PROVE \E e \in Cpus : hand'[e] = u
    <3>1. CASE u = t
      BY <1>4, <3>1
    <3>2. CASE u # t
      <4>1. PICK e \in Cpus : hand[e] = u
        BY <1>3, <2>1, <3>2 DEF NoneLost
      <4>2. e # c
        BY <1>1, <4>1, ProcessorAssumption
      <4>. QED  BY <1>4, <4>1, <4>2
    <3>. QED  BY <3>1, <3>2
  <2>2. ASSUME NEW u \in Tasks, NEW e \in Cpus, status'[u] = Ready(e)
        PROVE  u \in tree'[e] \/ \E f \in Cpus : at'[f] = "insert" /\ hand'[f] = u
    <3>1. u # t /\ status[u] = Ready(e)
      BY <1>3, <2>2
    <3>2. CASE u \in tree[e]
      BY <1>2, <3>1, <3>2 DEF TypeOK
    <3>3. ASSUME NEW f \in Cpus, at[f] = "insert", hand[f] = u
          PROVE  at'[f] = "insert" /\ hand'[f] = u
      BY <1>4, <3>3
    <3>. QED  BY <3>1, <3>2, <3>3 DEF NoneLost
  <2>. QED  BY <2>1, <2>2 DEF NoneLost
<1>8. Phases' /\ Owners'
  BY <1>1, <1>3, <1>4, ProcessorAssumption DEF TypeOK, Phases, Owners
<1>. QED  BY <1>5, <1>6, <1>7, <1>8

\* A task that was nowhere is taken in hand by a CPU that had nothing in hand:
\* the common part of run_task on a new task and of a wakeup.
LEMMA TakeInHand ==
  ASSUME SchedInv, NEW c \in Cpus, NEW t \in Tasks, NEW phase \in {"picked", "push"},
         at[c] = "run", status[t] \in {New, Sleeping},
         status' = [status EXCEPT ![t] = Runnable],
         hand' = [hand EXCEPT ![c] = t], at' = [at EXCEPT ![c] = phase],
         UNCHANGED <<current, tree, old>>
  PROVE  AssertionsHold' /\ OnePlace' /\ NoneLost' /\ Phases' /\ Owners'
<1>. USE DEF SchedInv, TypeOK
<1>0. hand[c] = None
  BY DEF Phases
<1>1. \A e \in Cpus : current[e] # t /\ hand[e] # t /\ t \notin tree[e]
  BY Nowhere
<1>2. AssertionsHold'
  <2>1. status'[t] = Runnable /\ \A u \in Tasks : u # t => status'[u] = status[u]
    OBVIOUS
  <2>2. ASSUME NEW e \in Cpus
        PROVE  status'[current[e]] \in {Running(e), ReadyToSleep(e), Exited}
    <3>1. status'[current[e]] = status[current[e]]
      BY <1>1, <2>1
    <3>. QED  BY <3>1 DEF AssertionsHold
  <2>3. ASSUME NEW e \in Cpus \ {c}, hand[e] # None
        PROVE  status'[hand[e]] = status[hand[e]]
    BY <1>1, <2>1, <2>3, InHand
  <2>4. ASSUME NEW e \in Cpus, NEW u \in tree[e]
        PROVE  status'[u] = status[u]
    BY <1>1, <2>1
  <2>5. ASSUME NEW e \in Cpus \ {c}, at[e] \in {"picked", "push", "insert"}
        PROVE  status'[hand[e]] = status[hand[e]]
    BY <2>3, <2>5 DEF Phases
  <2>6. hand'[c] = t /\ at'[c] = phase /\ \A e \in Cpus \ {c} : hand'[e] = hand[e] /\ at'[e] = at[e]
    OBVIOUS
  <2>7. ASSUME NEW e \in Cpus
        PROVE  /\ at'[e] \in {"picked", "push"} => status'[hand'[e]] = Runnable
               /\ at'[e] = "insert" => status'[hand'[e]] = Ready(RunqFor(hand'[e], e))
    <3>1. CASE e = c
      BY <2>1, <2>6, <3>1
    <3>2. CASE e # c
      <4>1. hand'[e] = hand[e] /\ at'[e] = at[e]
        BY <2>6, <3>2
      <4>2. /\ at[e] \in {"picked", "push"} => status[hand[e]] = Runnable
            /\ at[e] = "insert" => status[hand[e]] = Ready(RunqFor(hand[e], e))
        BY DEF AssertionsHold
      <4>3. at[e] \in {"picked", "push", "insert"} => status'[hand[e]] = status[hand[e]]
        BY <2>5, <3>2
      <4>. QED  BY ONLY <4>1, <4>2, <4>3
    <3>. QED  BY <3>1, <3>2
  <2>8. ASSUME NEW e \in Cpus
        PROVE  /\ at'[e] \in {"picked", "push", "insert"} =>
                    \A f \in Cpus : hand'[e] \notin tree[f]
               /\ at'[e] = "picked" => hand'[e] # current[e]
    <3>1. CASE e = c
      BY <1>1, <2>6, <3>1
    <3>2. CASE e # c
      BY <2>6, <3>2 DEF AssertionsHold
    <3>. QED  BY <3>1, <3>2
  <2>9. ASSUME NEW e \in Cpus, NEW u \in tree[e]
        PROVE  status'[u] = Ready(e) /\ e \in Affinity[u]
    BY <2>4 DEF AssertionsHold
  <2>10. tree' = tree /\ current' = current
    OBVIOUS
  <2>. HIDE DEF SchedInv, TypeOK
  <2>. QED  BY ONLY <2>2, <2>7, <2>8, <2>9, <2>10 DEF AssertionsHold
<1>3. OnePlace'
  BY <1>1 DEF OnePlace
<1>4. NoneLost'
  <2>1. ASSUME NEW u \in Tasks, status'[u] = Runnable
        PROVE  \E e \in Cpus : hand'[e] = u
    <3>1. CASE u = t
      BY <3>1
    <3>2. CASE u # t
      <4>1. PICK e \in Cpus : hand[e] = u
        BY <2>1, <3>2 DEF NoneLost
      <4>2. e # c
        BY <1>0, <4>1, ProcessorAssumption
      <4>. QED  BY <4>1, <4>2
    <3>. QED  BY <3>1, <3>2
  <2>2. ASSUME NEW u \in Tasks, NEW d \in Cpus, status'[u] = Ready(d)
        PROVE  u \in tree[d] \/ \E e \in Cpus : at'[e] = "insert" /\ hand'[e] = u
    <3>1. status[u] = Ready(d)
      BY <2>2, StatusDistinct
    <3>2. u \in tree[d] \/ \E e \in Cpus \ {c} : at[e] = "insert" /\ hand[e] = u
      BY <3>1 DEF NoneLost
    <3>. QED  BY <3>2
  <2>. QED  BY <2>1, <2>2 DEF NoneLost
<1>5. Phases' /\ Owners'
  BY StatusDistinct, ProcessorAssumption DEF Phases, Owners
<1>. QED  BY <1>2, <1>3, <1>4, <1>5

\* No step of any CPU breaks the invariant.
LEMMA SchedStep == SchedInv /\ [Next]_vars => SchedInv'
<1>. SUFFICES ASSUME SchedInv, [Next]_vars PROVE SchedInv'
  OBVIOUS
<1>. DEFINE Rest == AssertionsHold /\ OnePlace /\ NoneLost /\ Phases /\ Owners
<1>1. TypeOK'
  BY TypeStep
<1>2. CASE UNCHANGED vars
  <2>1. AssertionsHold' /\ Phases'
    BY <1>2 DEF SchedInv, AssertionsHold, Phases, vars
  <2>2. OnePlace'
    BY <1>2 DEF SchedInv, OnePlace, vars
  <2>3. NoneLost'
    BY <1>2 DEF SchedInv, NoneLost, vars
  <2>4. Owners'
    BY <1>2 DEF SchedInv, Owners, vars
  <2>. QED  BY <1>1, <2>1, <2>2, <2>3, <2>4 DEF SchedInv
<1>3. ASSUME NEW c \in Cpus, Schedule(c) PROVE Rest'
  BY <1>3, PopStep DEF Schedule
<1>4. ASSUME NEW c \in Cpus, Balance(c) PROVE Rest'
  BY <1>4, PopStep DEF Balance
<1>5. ASSUME NEW c \in Cpus, Spawn(c) PROVE Rest'
  BY <1>5, TakeInHand DEF Spawn
<1>6. ASSUME NEW c \in Cpus, BeginSwitch(c) PROVE Rest'
  <2>. DEFINE prev == current[c]
              next == hand[c]
  <2>1. /\ prev \in Tasks /\ next \in Tasks /\ prev # next /\ at[c] = "picked"
        /\ status[next] = Runnable
    BY <1>6 DEF SchedInv, TypeOK, Phases, AssertionsHold, BeginSwitch
  <2>2. /\ status'[next] = Running(c)
        /\ \A u \in Tasks \ {prev, next} : status'[u] = status[u]
    BY <1>6, <2>1 DEF SchedInv, TypeOK, BeginSwitch
  <2>3. /\ current'[c] = next
        /\ \A e \in Cpus \ {c} : /\ current'[e] = current[e] /\ hand'[e] = hand[e]
                                 /\ at'[e] = at[e]
        /\ tree' = tree
    BY <1>6 DEF SchedInv, TypeOK, BeginSwitch
  <2>4. \A e \in Cpus : /\ prev # hand[e] /\ prev \notin tree[e] /\ next \notin tree[e]
                        /\ e # c => prev # current[e] /\ next # current[e] /\ next # hand[e]
    BY <2>1, InHand, ProcessorAssumption DEF SchedInv, OnePlace
  <2>5. \/ status'[prev] = Runnable /\ hand'[c] = prev /\ at'[c] = "push"
        \/ status'[prev] \in {Sleeping, Exited} /\ hand'[c] = None /\ at'[c] = "switch"
    <3>1. status[prev] \in {Running(c), ReadyToSleep(c), Exited}
      BY DEF SchedInv, AssertionsHold
    <3>2. status'[prev] = IF status[prev] = Running(c) THEN Runnable
                          ELSE IF status[prev] = ReadyToSleep(c) THEN Sleeping
                          ELSE status[prev]
      BY <1>6, <2>1, StatusDistinct DEF SchedInv, TypeOK, BeginSwitch
    <3>3. /\ hand'[c] = IF status[prev] = Running(c) THEN prev ELSE None
          /\ at'[c] = IF status[prev] = Running(c) THEN "push" ELSE "switch"
      BY <1>6 DEF SchedInv, TypeOK, BeginSwitch
    <3>. QED  BY <3>1, <3>2, <3>3, StatusDistinct
  <2>6. AssertionsHold'
    <3>1. ASSUME NEW e \in Cpus
          PROVE  /\ at'[e] \in {"picked", "push"} => status'[hand'[e]] = Runnable
                 /\ at'[e] = "insert" => status'[hand'[e]] = Ready(RunqFor(hand'[e], e))
                 /\ at'[e] \in {"picked", "push", "insert"} =>
                      \A d \in Cpus : hand'[e] \notin tree'[d]
                 /\ at'[e] = "picked" => hand'[e] # current'[e]
                 /\ status'[current'[e]] \in {Running(e), ReadyToSleep(e), Exited}
      <4>1. CASE e = c
        BY <2>2, <2>3, <2>4, <2>5, <4>1
      <4>2. CASE e # c
        <5>1. at[e] \in {"picked", "push", "insert"} => hand[e] \in Tasks \ {prev, next}
          BY <2>1, <2>4, <4>2, InHand DEF SchedInv, Phases
        <5>2. current[e] \in Tasks \ {prev, next}
          BY <2>1, <2>4, <4>2 DEF SchedInv, TypeOK
        <5>. QED  BY <2>2, <2>3, <4>2, <5>1, <5>2 DEF SchedInv, AssertionsHold
      <4>. QED  BY <4>1, <4>2
    <3>2. ASSUME NEW d \in Cpus, NEW u \in tree'[d]
          PROVE  status'[u] = Ready(d) /\ d \in Affinity[u]
      <4>1. u \in tree[d] /\ u \in Tasks /\ u # prev /\ u # next
        BY <2>3, <2>4 DEF SchedInv, TypeOK
      <4>2. status[u] = Ready(d) /\ d \in Affinity[u]
        BY <4>1 DEF SchedInv, AssertionsHold
      <4>. QED  BY <2>2, <4>1, <4>2
    <3>. QED  BY <3>1, <3>2 DEF AssertionsHold
  <2>7. OnePlace'
    <3>1. \A e \in Cpus \ {c} :
             /\ current'[c] # current'[e] /\ current'[c] # hand'[e] /\ current'[e] # hand'[c]
             /\ hand'[c] # None => hand'[c] # hand'[e]
      <4>. TAKE e \in Cpus \ {c}
      <4>1. current'[e] = current[e] /\ hand'[e] = hand[e] /\ current'[c] = next
        BY <2>3
      <4>2. hand'[c] \in {prev, None}
        BY <2>5
      <4>3. current[e] # None
        BY ProcessorAssumption DEF SchedInv, TypeOK
      <4>4. prev # hand[e] /\ prev # current[e] /\ next # current[e] /\ next # hand[e]
        BY <2>4
      <4>. QED  BY ONLY <4>1, <4>2, <4>3, <4>4
    <3>2. current'[c] # hand'[c] /\ \A e \in Cpus : current'[c] \notin tree'[e]
      BY <2>1, <2>3, <2>4, <2>5, ProcessorAssumption
    <3>3. \A e, d \in Cpus \ {c} : current'[e] # hand'[d]
      BY <2>3 DEF SchedInv, OnePlace
    <3>4. \A e, d \in Cpus : /\ e # d => tree'[e] \cap tree'[d] = {}
                             /\ e # c => current'[e] \notin tree'[d]
      BY <2>3 DEF SchedInv, OnePlace
    <3>5. ASSUME NEW e \in Cpus, NEW d \in Cpus, e # d
          PROVE  /\ current'[e] # current'[d]
                 /\ hand'[e] # None => hand'[e] # hand'[d]
      <4>1. CASE e = c
        BY <3>1, <3>5, <4>1
      <4>2. CASE d = c
        <5>1. current'[c] # current'[e] /\ (hand'[c] # None => hand'[c] # hand'[e])
          BY <3>1, <3>5, <4>2
        <5>. QED  BY <4>2, <5>1
      <4>3. CASE e # c /\ d # c
        BY <2>3, <3>5, <4>3 DEF SchedInv, OnePlace
      <4>. QED  BY <4>1, <4>2, <4>3
    <3>6. ASSUME NEW e \in Cpus, NEW d \in Cpus
          PROVE  current'[e] # hand'[d] /\ current'[e] \notin tree'[d]
      BY <3>1, <3>2, <3>3, <3>4
    <3>. QED  BY <3>4, <3>5, <3>6 DEF OnePlace
  <2>8. NoneLost'
    <3>1. ASSUME NEW u \in Tasks, status'[u] = Runnable PROVE \E e \in Cpus : hand'[e] = u
      <4>1. CASE u = prev
        BY <2>5, <3>1, <4>1, StatusDistinct
      <4>2. CASE u # prev
        BY <2>2, <2>3, <3>1, <4>2, StatusDistinct DEF SchedInv, NoneLost
      <4>. QED  BY <4>1, <4>2
    <3>2. ASSUME NEW u \in Tasks, NEW d \in Cpus, status'[u] = Ready(d)
          PROVE  u \in tree'[d] \/ \E e \in Cpus : at'[e] = "insert" /\ hand'[e] = u
      <4>1. u # prev /\ u # next /\ status[u] = Ready(d)
        BY <2>2, <2>5, <3>2, StatusDistinct
      <4>. QED  BY <2>1, <2>3, <4>1 DEF SchedInv, NoneLost
    <3>. QED  BY <3>1, <3>2 DEF NoneLost
  <2>9. Phases'
    BY <1>6, <2>1, StatusDistinct, ProcessorAssumption DEF SchedInv, TypeOK, Phases, BeginSwitch
  <2>10. Owners'
    BY <1>6, <2>1, StatusDistinct DEF SchedInv, TypeOK, AssertionsHold, OnePlace, Owners, BeginSwitch
  <2>. QED  BY <2>6, <2>7, <2>8, <2>9, <2>10
<1>7. ASSUME NEW c \in Cpus, Push(c) PROVE Rest'
  <2>. DEFINE t == hand[c]
              q == RunqFor(t, c)
  <2>1. /\ t \in Tasks /\ at[c] = "push" /\ status[t] = Runnable
        /\ status' = [status EXCEPT ![t] = Ready(q)]
        /\ at' = [at EXCEPT ![c] = "insert"]
        /\ UNCHANGED <<current, tree, hand, old>>
    BY <1>7 DEF SchedInv, TypeOK, AssertionsHold, Phases, Push
  <2>2. \A e \in Cpus : current[e] # t /\ t \notin tree[e] /\ (e # c => hand[e] # t)
    <3>. TAKE e \in Cpus
    <3>1. t # None
      BY <2>1, ProcessorAssumption
    <3>2. t \notin tree[e]
      BY <2>1 DEF SchedInv, AssertionsHold
    <3>3. current[e] # t /\ (e # c => hand[e] # t)
      BY <3>1 DEF SchedInv, OnePlace
    <3>. QED  BY <3>2, <3>3
  <2>3. status'[t] = Ready(q) /\ \A u \in Tasks : u # t => status'[u] = status[u]
    BY <2>1 DEF SchedInv, TypeOK
  <2>4. at'[c] = "insert" /\ \A e \in Cpus \ {c} : at'[e] = at[e]
    BY <2>1 DEF SchedInv, TypeOK
  <2>5. AssertionsHold'
    <3>1. ASSUME NEW e \in Cpus
          PROVE  status'[current[e]] \in {Running(e), ReadyToSleep(e), Exited}
      <4>1. status'[current[e]] = status[current[e]]
        BY <2>2, <2>3 DEF SchedInv, TypeOK
      <4>. QED  BY <4>1 DEF SchedInv, AssertionsHold
    <3>2. ASSUME NEW e \in Cpus, NEW u \in tree[e]
          PROVE  status'[u] = Ready(e) /\ e \in Affinity[u]
      <4>1. u \in Tasks /\ u # t
        BY <2>2 DEF SchedInv, TypeOK
      <4>. QED  BY <2>3, <4>1 DEF SchedInv, AssertionsHold
    <3>3. ASSUME NEW e \in Cpus
          PROVE  /\ at'[e] \in {"picked", "push"} => status'[hand[e]] = Runnable
                 /\ at'[e] = "insert" => status'[hand[e]] = Ready(RunqFor(hand[e], e))
                 /\ at'[e] \in {"picked", "push", "insert"} =>
                      \A d \in Cpus : hand[e] \notin tree[d]
                 /\ at'[e] = "picked" => hand[e] # current[e]
      <4>1. CASE e = c
        BY <2>2, <2>3, <2>4, <4>1
      <4>2. CASE e # c
        <5>1. at'[e] = at[e]
          BY <2>4, <4>2
        <5>2. at[e] \in {"picked", "push", "insert"} => hand[e] \in Tasks /\ hand[e] # t
          BY <2>2, <4>2 DEF SchedInv, TypeOK, Phases
        <5>3. at[e] \in {"picked", "push", "insert"} => status'[hand[e]] = status[hand[e]]
          BY <2>3, <5>2
        <5>. QED  BY <5>1, <5>3 DEF SchedInv, AssertionsHold
      <4>. QED  BY <4>1, <4>2
    <3>4. tree' = tree /\ hand' = hand /\ current' = current
      BY <2>1
    <3>. QED  BY ONLY <3>1, <3>2, <3>3, <3>4 DEF AssertionsHold
  <2>6. OnePlace'
    BY <2>1 DEF SchedInv, OnePlace
  <2>7. NoneLost'
    <3>1. ASSUME NEW u \in Tasks, status'[u] = Runnable
          PROVE  \E e \in Cpus : hand'[e] = u
      BY <2>1, <2>3, <3>1, StatusDistinct DEF SchedInv, NoneLost
    <3>2. ASSUME NEW u \in Tasks, NEW d \in Cpus, status'[u] = Ready(d)
          PROVE  u \in tree'[d] \/ \E e \in Cpus : at'[e] = "insert" /\ hand'[e] = u
      <4>1. CASE u = t
        BY <2>1, <2>4, <4>1
      <4>2. CASE u # t
        <5>1. u \in tree[d] \/ \E e \in Cpus : at[e] = "insert" /\ hand[e] = u
          BY <2>3, <3>2, <4>2 DEF SchedInv, NoneLost
        <5>. QED  BY <2>1, <2>4, <5>1
      <4>. QED  BY <4>1, <4>2
    <3>. QED  BY <3>1, <3>2 DEF NoneLost
  <2>8. Phases'
    BY <2>1, <2>4 DEF SchedInv, TypeOK, Phases
  <2>9. Owners'
    BY <2>1, <2>3, StatusDistinct DEF SchedInv, Owners
  <2>. QED  BY <2>5, <2>6, <2>7, <2>8, <2>9
<1>8. ASSUME NEW c \in Cpus, Insert(c) PROVE Rest'
  <2>. DEFINE t == hand[c]
              q == RunqFor(t, c)
  <2>1. /\ t \in Tasks /\ t # None /\ at[c] = "insert"
        /\ tree' = [tree EXCEPT ![q] = @ \cup {t}]
        /\ hand' = [hand EXCEPT ![c] = None]
        /\ at' = [at EXCEPT ![c] = IF old[c] = None THEN "run" ELSE "switch"]
        /\ UNCHANGED <<status, current, old>>
    BY <1>8, ProcessorAssumption DEF SchedInv, TypeOK, Phases, Insert
  <2>2. q \in Cpus /\ q \in Affinity[t] /\ status[t] = Ready(q)
    BY <2>1, RunqForAllowed DEF SchedInv, AssertionsHold
  <2>3. \A e \in Cpus : current[e] # t /\ t \notin tree[e] /\ (e # c => hand[e] # t)
    BY <2>1, InHand DEF SchedInv, OnePlace
  <2>4. tree'[q] = tree[q] \cup {t} /\ \A e \in Cpus \ {q} : tree'[e] = tree[e]
    BY <2>1, <2>2 DEF SchedInv, TypeOK
  <2>5. /\ hand'[c] = None /\ \A e \in Cpus \ {c} : hand'[e] = hand[e]
        /\ at'[c] \in {"run", "switch"} /\ \A e \in Cpus \ {c} : at'[e] = at[e]
    BY <2>1 DEF SchedInv, TypeOK
  <2>6. Phases'
    BY <2>1, <2>5 DEF SchedInv, TypeOK, Phases
  <2>. HIDE DEF t, q
  <2>7. AssertionsHold'
    <3>1. ASSUME NEW e \in Cpus, at'[e] \in {"picked", "push", "insert"}
          PROVE  e # c /\ \A d \in Cpus : hand[e] \notin tree'[d]
      <4>1. e # c
        BY <2>5, <3>1
      <4>2. at[e] \in {"picked", "push", "insert"} /\ hand[e] # t
        BY <2>3, <2>5, <3>1, <4>1
      <4>3. \A d \in Cpus : hand[e] \notin tree[d]
        BY <4>2 DEF SchedInv, AssertionsHold
      <4>4. ASSUME NEW d \in Cpus PROVE tree'[d] \subseteq tree[d] \cup {t}
        BY <2>4
      <4>. QED  BY <4>1, <4>2, <4>3, <4>4
    <3>2. ASSUME NEW d \in Cpus, NEW u \in tree'[d]
          PROVE  status[u] = Ready(d) /\ d \in Affinity[u]
      <4>1. u \in tree[d] \/ (u = t /\ d = q)
        BY <2>2, <2>4
      <4>2. u \in tree[d] => status[u] = Ready(d) /\ d \in Affinity[u]
        BY DEF SchedInv, AssertionsHold
      <4>. QED  BY ONLY <2>2, <4>1, <4>2
    <3>3. ASSUME NEW e \in Cpus
          PROVE  /\ at'[e] \in {"picked", "push"} => status'[hand'[e]] = Runnable
                 /\ at'[e] = "insert" => status'[hand'[e]] = Ready(RunqFor(hand'[e], e))
                 /\ at'[e] \in {"picked", "push", "insert"} =>
                      \A d \in Cpus : hand'[e] \notin tree'[d]
                 /\ at'[e] = "picked" => hand'[e] # current'[e]
                 /\ status'[current'[e]] \in {Running(e), ReadyToSleep(e), Exited}
      <4>1. at'[e] \in {"picked", "push", "insert"} =>
              /\ hand'[e] = hand[e] /\ at'[e] = at[e]
              /\ \A d \in Cpus : hand'[e] \notin tree'[d]
        BY <2>5, <3>1
      <4>2. status' = status /\ current' = current
        BY <2>1
      <4>3. /\ at[e] \in {"picked", "push"} => status[hand[e]] = Runnable
            /\ at[e] = "insert" => status[hand[e]] = Ready(RunqFor(hand[e], e))
            /\ at[e] = "picked" => hand[e] # current[e]
            /\ status[current[e]] \in {Running(e), ReadyToSleep(e), Exited}
        BY DEF SchedInv, AssertionsHold
      <4>. QED  BY ONLY <4>1, <4>2, <4>3
    <3>4. status' = status
      BY <2>1
    <3>. QED  BY ONLY <3>2, <3>3, <3>4 DEF AssertionsHold
  <2>8. OnePlace'
    <3>1. \A e, d \in Cpus : e # d => tree'[e] \cap tree'[d] = {}
      BY <2>2, <2>3, <2>4 DEF SchedInv, OnePlace
    <3>2. \A e, d \in Cpus : e # d /\ hand'[e] # None => hand'[e] # hand'[d]
      BY <2>5 DEF SchedInv, OnePlace
    <3>3. \A e, d \in Cpus : current[e] # hand'[d] /\ current[e] \notin tree'[d]
      <4>. TAKE e, d \in Cpus
      <4>1. current[e] # hand[d] /\ current[e] \notin tree[d] /\ current[e] # t
        BY <2>3 DEF SchedInv, OnePlace
      <4>2. current[e] # None
        BY ProcessorAssumption DEF SchedInv, TypeOK
      <4>3. hand'[d] \in {hand[d], None}
        BY <2>5
      <4>4. tree'[d] \subseteq tree[d] \cup {t}
        BY <2>4
      <4>. QED  BY ONLY <4>1, <4>2, <4>3, <4>4
    <3>. QED  BY <2>1, <3>1, <3>2, <3>3 DEF SchedInv, OnePlace
  <2>9. NoneLost'
    <3>1. ASSUME NEW u \in Tasks, status[u] = Runnable
          PROVE  \E e \in Cpus : hand'[e] = u
      <4>1. PICK e \in Cpus : hand[e] = u
        BY <3>1 DEF SchedInv, NoneLost
      <4>2. u # t
        BY <2>2, <3>1, StatusDistinct
      <4>3. e # c
        BY <4>1, <4>2 DEF t
      <4>. QED  BY <2>5, <4>1, <4>3
    <3>2. ASSUME NEW u \in Tasks, NEW d \in Cpus, status[u] = Ready(d)
          PROVE  u \in tree'[d] \/ \E e \in Cpus : at'[e] = "insert" /\ hand'[e] = u
      <4>1. u \in tree[d] \/ \E e \in Cpus : at[e] = "insert" /\ hand[e] = u
        BY <3>2 DEF SchedInv, NoneLost
      <4>2. CASE u = t
        <5>1. d = q
          BY <2>2, <3>2, <4>2, StatusDistinct
        <5>. QED  BY <2>4, <4>2, <5>1
      <4>3. CASE u # t
        BY <2>2, <2>4, <2>5, <4>1, <4>3 DEF t
      <4>. QED  BY <4>2, <4>3
    <3>. QED  BY <2>1, <3>1, <3>2 DEF NoneLost
  <2>10. Owners'
    BY <2>1 DEF SchedInv, Owners
  <2>. QED  BY <2>6, <2>7, <2>8, <2>9, <2>10
<1>9. ASSUME NEW c \in Cpus, ContextSwitch(c) PROVE Rest'
  <2>1. /\ UNCHANGED <<status, current, tree, hand>>
        /\ at[c] = "switch" /\ at' = [at EXCEPT ![c] = "run"]
        /\ old' = [old EXCEPT ![c] = None]
    BY <1>9 DEF ContextSwitch
  <2>2. at'[c] = "run" /\ \A e \in Cpus \ {c} : at'[e] = at[e]
    BY <2>1 DEF SchedInv, TypeOK
  <2>3. AssertionsHold'
    <3>1. ASSUME NEW e \in Cpus
          PROVE  /\ at'[e] \in {"picked", "push"} => status[hand[e]] = Runnable
                 /\ at'[e] = "insert" => status[hand[e]] = Ready(RunqFor(hand[e], e))
                 /\ at'[e] \in {"picked", "push", "insert"} =>
                      \A d \in Cpus : hand[e] \notin tree[d]
                 /\ at'[e] = "picked" => hand[e] # current[e]
      <4>1. at'[e] \in {"run", at[e]}
        BY <2>2
      <4>. QED  BY <4>1 DEF SchedInv, AssertionsHold
    <3>2. /\ \A e \in Cpus : status[current[e]] \in {Running(e), ReadyToSleep(e), Exited}
          /\ \A d \in Cpus : \A u \in tree[d] : status[u] = Ready(d) /\ d \in Affinity[u]
      BY DEF SchedInv, AssertionsHold
    <3>. QED  BY ONLY <2>1, <3>1, <3>2 DEF AssertionsHold
  <2>4. OnePlace' /\ Owners'
    BY <2>1 DEF SchedInv, OnePlace, Owners
  <2>5. NoneLost'
    <3>1. \A e \in Cpus : at[e] = "insert" => at'[e] = "insert"
      BY <2>1, <2>2
    <3>2. NoneLost
      BY DEF SchedInv
    <3>. QED  BY ONLY <2>1, <3>1, <3>2 DEF NoneLost
  <2>6. Phases'
    BY <2>1, <2>2 DEF SchedInv, TypeOK, Phases
  <2>. QED  BY <2>3, <2>4, <2>5, <2>6
<1>10. ASSUME NEW c \in Cpus, Sleep(c) PROVE Rest'
  <2>. DEFINE t == current[c]
  <2>1. /\ t \in Tasks /\ status[t] = Running(c)
        /\ status' = [status EXCEPT ![t] = ReadyToSleep(c)]
        /\ UNCHANGED <<current, tree, at, hand, old>>
    BY <1>10 DEF SchedInv, TypeOK, Sleep
  <2>2. status'[t] = ReadyToSleep(c) /\ \A u \in Tasks : u # t => status'[u] = status[u]
    BY <2>1 DEF SchedInv, TypeOK
  <2>3. \A e \in Cpus : hand[e] # t /\ t \notin tree[e] /\ (e # c => current[e] # t)
    BY DEF SchedInv, OnePlace
  <2>. HIDE DEF t
  <2>4. AssertionsHold'
    <3>1. ASSUME NEW e \in Cpus
          PROVE  status'[current[e]] \in {Running(e), ReadyToSleep(e), Exited}
      BY <2>2, <2>3 DEF SchedInv, TypeOK, AssertionsHold, t
    <3>2. ASSUME NEW e \in Cpus, hand[e] # None
          PROVE  status'[hand[e]] = status[hand[e]]
      BY <2>2, <2>3, <3>2, InHand
    <3>3. ASSUME NEW e \in Cpus, NEW u \in tree[e]
          PROVE  status'[u] = status[u]
      BY <2>2, <2>3 DEF SchedInv, TypeOK
    <3>4. ASSUME NEW e \in Cpus
          PROVE  /\ at[e] \in {"picked", "push"} => status'[hand[e]] = Runnable
                 /\ at[e] = "insert" => status'[hand[e]] = Ready(RunqFor(hand[e], e))
      <4>1. at[e] \in {"picked", "push", "insert"} => status'[hand[e]] = status[hand[e]]
        BY <3>2 DEF SchedInv, Phases
      <4>. QED  BY <4>1 DEF SchedInv, AssertionsHold
    <3>5. ASSUME NEW e \in Cpus, NEW u \in tree[e]
          PROVE  status'[u] = Ready(e) /\ e \in Affinity[u]
      BY <3>3 DEF SchedInv, AssertionsHold
    <3>6. ASSUME NEW e \in Cpus
          PROVE  /\ at[e] \in {"picked", "push", "insert"} =>
                      \A d \in Cpus : hand[e] \notin tree[d]
                 /\ at[e] = "picked" => hand[e] # current[e]
      BY DEF SchedInv, AssertionsHold
    <3>7. tree' = tree /\ hand' = hand /\ current' = current /\ at' = at
      BY <2>1
    <3>. QED  BY ONLY <3>1, <3>4, <3>5, <3>6, <3>7 DEF AssertionsHold
  <2>5. OnePlace' /\ Phases'
    BY <2>1 DEF SchedInv, OnePlace, Phases
  <2>6. NoneLost'
    <3>1. ASSUME NEW u \in Tasks, NEW s, status'[u] = s, s = Runnable \/ \E d \in Cpus : s = Ready(d)
          PROVE  status[u] = s
      BY <2>2, <3>1, StatusDistinct
    <3>2. ASSUME NEW u \in Tasks, status'[u] = Runnable
          PROVE  \E e \in Cpus : hand[e] = u
      BY <3>1, <3>2 DEF SchedInv, NoneLost
    <3>3. ASSUME NEW u \in Tasks, NEW d \in Cpus, status'[u] = Ready(d)
          PROVE  u \in tree[d] \/ \E e \in Cpus : at[e] = "insert" /\ hand[e] = u
      BY <3>1, <3>3 DEF SchedInv, NoneLost
    <3>4. tree' = tree /\ hand' = hand /\ at' = at
      BY <2>1
    <3>. QED  BY ONLY <3>2, <3>3, <3>4 DEF NoneLost
  <2>7. Owners'
    BY <2>1, <2>2, StatusDistinct DEF SchedInv, Owners, t
  <2>. QED  BY <2>4, <2>5, <2>6, <2>7
<1>11. ASSUME NEW c \in Cpus, Exit(c) PROVE Rest'
  <2>. DEFINE t == current[c]
  <2>1. /\ t \in Tasks /\ status[t] = Running(c)
        /\ status' = [status EXCEPT ![t] = Exited]
        /\ UNCHANGED <<current, tree, at, hand, old>>
    BY <1>11 DEF SchedInv, TypeOK, Exit
  <2>2. status'[t] = Exited /\ \A u \in Tasks : u # t => status'[u] = status[u]
    BY <2>1 DEF SchedInv, TypeOK
  <2>3. \A e \in Cpus : hand[e] # t /\ t \notin tree[e] /\ (e # c => current[e] # t)
    BY DEF SchedInv, OnePlace
  <2>. HIDE DEF t
  <2>4. AssertionsHold'
    <3>1. ASSUME NEW e \in Cpus
          PROVE  status'[current[e]] \in {Running(e), ReadyToSleep(e), Exited}
      BY <2>2, <2>3 DEF SchedInv, TypeOK, AssertionsHold, t
    <3>2. ASSUME NEW e \in Cpus, hand[e] # None
          PROVE  status'[hand[e]] = status[hand[e]]
      BY <2>2, <2>3, <3>2, InHand
    <3>3. ASSUME NEW e \in Cpus, NEW u \in tree[e]
          PROVE  status'[u] = status[u]
      BY <2>2, <2>3 DEF SchedInv, TypeOK
    <3>4. ASSUME NEW e \in Cpus
          PROVE  /\ at[e] \in {"picked", "push"} => status'[hand[e]] = Runnable
                 /\ at[e] = "insert" => status'[hand[e]] = Ready(RunqFor(hand[e], e))
      <4>1. at[e] \in {"picked", "push", "insert"} => status'[hand[e]] = status[hand[e]]
        BY <3>2 DEF SchedInv, Phases
      <4>. QED  BY <4>1 DEF SchedInv, AssertionsHold
    <3>5. ASSUME NEW e \in Cpus, NEW u \in tree[e]
          PROVE  status'[u] = Ready(e) /\ e \in Affinity[u]
      BY <3>3 DEF SchedInv, AssertionsHold
    <3>6. ASSUME NEW e \in Cpus
          PROVE  /\ at[e] \in {"picked", "push", "insert"} =>
                      \A d \in Cpus : hand[e] \notin tree[d]
                 /\ at[e] = "picked" => hand[e] # current[e]
      BY DEF SchedInv, AssertionsHold
    <3>7. tree' = tree /\ hand' = hand /\ current' = current /\ at' = at
      BY <2>1
    <3>. QED  BY ONLY <3>1, <3>4, <3>5, <3>6, <3>7 DEF AssertionsHold
  <2>5. OnePlace' /\ Phases'
    BY <2>1 DEF SchedInv, OnePlace, Phases
  <2>6. NoneLost'
    <3>1. ASSUME NEW u \in Tasks, NEW s, status'[u] = s, s = Runnable \/ \E d \in Cpus : s = Ready(d)
          PROVE  status[u] = s
      BY <2>2, <3>1, StatusDistinct
    <3>2. ASSUME NEW u \in Tasks, status'[u] = Runnable
          PROVE  \E e \in Cpus : hand[e] = u
      BY <3>1, <3>2 DEF SchedInv, NoneLost
    <3>3. ASSUME NEW u \in Tasks, NEW d \in Cpus, status'[u] = Ready(d)
          PROVE  u \in tree[d] \/ \E e \in Cpus : at[e] = "insert" /\ hand[e] = u
      BY <3>1, <3>3 DEF SchedInv, NoneLost
    <3>4. tree' = tree /\ hand' = hand /\ at' = at
      BY <2>1
    <3>. QED  BY ONLY <3>2, <3>3, <3>4 DEF NoneLost
  <2>7. Owners'
    BY <2>1, <2>2, StatusDistinct DEF SchedInv, Owners, t
  <2>. QED  BY <2>4, <2>5, <2>6, <2>7
<1>12. ASSUME NEW c \in Cpus, WakeUp(c) PROVE Rest'
  <2>. USE DEF SchedInv, TypeOK
  <2>1. at[c] = "run" /\ hand[c] = None /\ UNCHANGED <<current, tree, old>>
    BY <1>12 DEF WakeUp, Phases
  <2>2. ASSUME NEW t \in Tasks, status[t] = Sleeping,
               status' = [status EXCEPT ![t] = Runnable],
               hand' = [hand EXCEPT ![c] = t], at' = [at EXCEPT ![c] = "push"]
        PROVE  Rest'
    BY <2>1, <2>2, TakeInHand
  <2>3. ASSUME NEW t \in Tasks, NEW d \in Cpus, status[t] = ReadyToSleep(d),
               status' = [status EXCEPT ![t] = Running(d)], UNCHANGED <<hand, at>>
        PROVE  Rest'
    <3>1. current[d] = t /\ \A e \in Cpus : hand[e] # t /\ t \notin tree[e]
      <4>1. current[d] = t
        BY <2>3 DEF Owners
      <4>. QED  BY <4>1 DEF OnePlace
    <3>2. \A e \in Cpus \ {d} : current[e] # t
      BY <3>1 DEF OnePlace
    <3>3. AssertionsHold'
      <4>1. status'[t] = Running(d) /\ \A u \in Tasks : u # t => status'[u] = status[u]
        BY <2>3
      <4>2. ASSUME NEW e \in Cpus
            PROVE  status'[current[e]] \in {Running(e), ReadyToSleep(e), Exited}
        <5>1. CASE e = d
          BY <3>1, <4>1, <5>1
        <5>2. CASE e # d
          <6>1. status'[current[e]] = status[current[e]]
            BY <3>2, <4>1, <5>2
          <6>. QED  BY <6>1 DEF AssertionsHold
        <5>. QED  BY <5>1, <5>2
      <4>3. ASSUME NEW e \in Cpus, hand[e] # None
            PROVE  status'[hand[e]] = status[hand[e]]
        BY <3>1, <4>1, <4>3, InHand
      <4>4. ASSUME NEW e \in Cpus, NEW u \in tree[e]
            PROVE  status'[u] = status[u]
        BY <3>1, <4>1
      <4>5. ASSUME NEW e \in Cpus, at[e] \in {"picked", "push", "insert"}
            PROVE  status'[hand[e]] = status[hand[e]]
        BY <4>3, <4>5 DEF Phases
      <4>6. ASSUME NEW e \in Cpus
            PROVE  /\ at[e] \in {"picked", "push"} => status'[hand[e]] = Runnable
                   /\ at[e] = "insert" => status'[hand[e]] = Ready(RunqFor(hand[e], e))
        BY <4>5 DEF AssertionsHold
      <4>7. ASSUME NEW e \in Cpus, NEW u \in tree[e]
            PROVE  status'[u] = Ready(e) /\ e \in Affinity[u]
        BY <4>4 DEF AssertionsHold
      <4>8. ASSUME NEW e \in Cpus
            PROVE  /\ at[e] \in {"picked", "push", "insert"} =>
                        \A f \in Cpus : hand[e] \notin tree[f]
                   /\ at[e] = "picked" => hand[e] # current[e]
        BY DEF AssertionsHold
      <4>9. at' = at /\ hand' = hand /\ tree' = tree /\ current' = current
        BY <2>1, <2>3
      <4>. HIDE DEF SchedInv, TypeOK
      <4>. QED  BY ONLY <4>2, <4>6, <4>7, <4>8, <4>9 DEF AssertionsHold
    <3>4. OnePlace' /\ Phases'
      BY <2>1, <2>3 DEF OnePlace, Phases
    <3>5. NoneLost'
      BY <2>1, <2>3, StatusDistinct DEF NoneLost
    <3>6. Owners'
      BY <2>1, <2>3, <3>1, StatusDistinct DEF Owners
    <3>. QED  BY <3>3, <3>4, <3>5, <3>6
  <2>. QED  BY <1>12, <2>2, <2>3 DEF WakeUp
<1>. QED
  BY <1>1, <1>2, <1>3, <1>4, <1>5, <1>6, <1>7, <1>8, <1>9, <1>10, <1>11, <1>12 DEF Next, SchedInv

\* The scheduler's invariant holds for any number of CPUs and tasks: no
\* assertion of switch_to, push or pop fails and no task is lost or run twice,
\* although every CPU may be stopped between any two of its steps.
THEOREM SchedInvariant == Spec => []SchedInv
<1>1. Init => SchedInv
  BY SchedInit
<1>2. SchedInv /\ [Next]_vars => SchedInv'
  BY SchedStep
<1>. QED  BY <1>1, <1>2, PTL DEF Spec

\* The assertions of switch_to, push and pop never fail.
THEOREM SchedAssertions == Spec => []AssertionsHold
<1>1. SchedInv => AssertionsHold
  BY DEF SchedInv
<1>. QED  BY <1>1, SchedInvariant, PTL

\* A task is never current, picked or queued twice.
THEOREM SchedOnePlace == Spec => []OnePlace
<1>1. SchedInv => OnePlace
  BY DEF SchedInv
<1>. QED  BY <1>1, SchedInvariant, PTL

\* A task that is to run is never forgotten between two run queues.
THEOREM SchedNoneLost == Spec => []NoneLost
<1>1. SchedInv => NoneLost
  BY DEF SchedInv
<1>. QED  BY <1>1, SchedInvariant, PTL
=============================================================================
