----------------------------- MODULE Processor ------------------------------
(***************************************************************************)
(* Scheduling on several CPUs with schedule() taken apart: pick_next_task, *)
(* switch_to and context_switch of framework/aster-frame/src/task/         *)
(* processor.rs, the run queues of kernel/aster-nix/src/sched/scheduler/   *)
(* completely_fair_scheduler.rs, and the calls that change a TaskStatus.   *)
(* The idle threads are tasks bound to their CPU that never sleep.  Which  *)
(* ready task has the least vruntime is left open, and so is which run     *)
(* queue has the most load.                                                *)
(***************************************************************************)
EXTENDS Integers, FiniteSets

CONSTANTS Tasks, Cpus, None,
  Affinity,    \* cpu_affinity of every task
  IdleTask     \* the idle thread of every CPU

ASSUME ProcessorAssumption ==
  /\ None \notin Tasks
  /\ Affinity \in [Tasks -> (SUBSET Cpus) \ {{}}]
  /\ IdleTask \in [Cpus -> Tasks]
  /\ \A c \in Cpus : Affinity[IdleTask[c]] = {c}

VARIABLES
  status,    \* task_status
  current,   \* PROCESSOR.current of every CPU
  tree,      \* normal_tasks of every run queue
  num,       \* num of every run queue
  at,        \* where every CPU is
  hand,      \* the task that a CPU has picked, or is pushing
  old,       \* the task that switch_to is leaving
  saved,     \* is TaskInner.ctx where the task left its CPU?
  fresh      \* was it so when the CPU copied it?

vars == <<status, current, tree, num, at, hand, old, saved, fresh>>

Phase == {"run",       \* executes the current task
          "picked",    \* has the next task in hand: switch_to comes next
          "push",      \* has a task in hand for RunQueue::push
          "insert",    \* push has made it Ready and counted it
          "switch"}    \* context_switch comes next

Ready(c)        == <<"Ready", c>>
Running(c)      == <<"Running", c>>
ReadyToSleep(c) == <<"ReadyToSleep", c>>
Runnable        == <<"Runnable">>
Sleeping        == <<"Sleeping">>
Exited          == <<"Exited">>
New             == <<"New">>       \* not built yet

Status == {Runnable, Sleeping, Exited, New} \cup
          UNION {{Ready(c), Running(c), ReadyToSleep(c)} : c \in Cpus}

Idles == {IdleTask[c] : c \in Cpus}

Init ==
  /\ current = IdleTask
  /\ status = [t \in Tasks |->
       IF t \in Idles THEN Running(CHOOSE c \in Cpus : IdleTask[c] = t) ELSE New]
  /\ tree = [c \in Cpus |-> {}] /\ num = [c \in Cpus |-> 0]
  /\ at = [c \in Cpus |-> "run"]
  /\ hand = [c \in Cpus |-> None] /\ old = [c \in Cpus |-> None]
  /\ saved = [t \in Tasks |-> t \notin Idles]
  /\ fresh = [c \in Cpus |-> TRUE]

\* The run queue that CompletelyFairScheduler::push chooses on CPU c.
RunqFor(t, c) == IF c \in Affinity[t] THEN c ELSE CHOOSE d \in Cpus : d \in Affinity[t]

\* Mutant: pop of another CPU's run queue counts on its own.
PopMiscounted(c, d, t) ==
  /\ t \in tree[d] /\ c \in Affinity[t]
  /\ tree' = [tree EXCEPT ![d] = @ \ {t}]
  /\ num' = [num EXCEPT ![c] = @ - 1]
  /\ status' = [status EXCEPT ![t] = Runnable]
  /\ hand' = [hand EXCEPT ![c] = t]

\* RunQueue::pop of run queue d for CPU c: takes the task off the queue.  Its
\* branch for a queued task that is not Ready is dead, by AssertionsHold.
Pop(c, d, t) ==
  /\ t \in tree[d] /\ c \in Affinity[t]
  /\ tree' = [tree EXCEPT ![d] = @ \ {t}]
  /\ num' = [num EXCEPT ![d] = @ - 1]
  /\ status' = [status EXCEPT ![t] = Runnable]
  /\ hand' = [hand EXCEPT ![c] = t]

\* schedule(): pick_next_task.
Schedule(c) ==
  /\ at[c] = "run"
  /\ \E t \in Tasks : Pop(c, c, t)
  /\ at' = [at EXCEPT ![c] = "picked"]
  /\ UNCHANGED <<current, old, saved, fresh>>

\* TaskOptions::spawn: build, then run, which is yield_to of the new task; the
\* first time it runs here, whatever its affinity.
Spawn(c) ==
  /\ at[c] = "run" /\ status[current[c]] = Running(c)
  /\ \E t \in Tasks :
       /\ status[t] = New
       /\ status' = [status EXCEPT ![t] = Runnable]
       /\ hand' = [hand EXCEPT ![c] = t]
  /\ at' = [at EXCEPT ![c] = "picked"]
  /\ UNCHANGED <<current, tree, num, old, saved, fresh>>

\* Mutant: switch_to enqueues a task that is about to sleep.
BeginSwitchRequeues(c) ==
  LET prev == current[c] next == hand[c] IN
  /\ at[c] = "picked"
  /\ fresh' = [fresh EXCEPT ![c] = saved[next]]
  /\ saved' = [saved EXCEPT ![next] = FALSE, ![prev] = FALSE]
  /\ current' = [current EXCEPT ![c] = next]
  /\ status' = [status EXCEPT ![next] = Running(c),
                  ![prev] = CASE @ = Running(c)      -> Runnable
                              [] @ = ReadyToSleep(c) -> Sleeping
                              [] OTHER               -> @]
  /\ old' = [old EXCEPT ![c] = prev]
  /\ hand' = [hand EXCEPT ![c] = prev]
  /\ at' = [at EXCEPT ![c] = IF status[prev] = Exited THEN "switch" ELSE "push"]
  /\ UNCHANGED <<tree, num>>

\* switch_to up to the end of PROCESSOR.with_borrow_mut: the context of the
\* next task is copied, it becomes Running and current, and the status of the
\* previous one says whether it goes back to the scheduler.
BeginSwitch(c) ==
  LET prev == current[c] next == hand[c] requeue == status[prev] = Running(c) IN
  /\ at[c] = "picked"
  /\ fresh' = [fresh EXCEPT ![c] = saved[next]]
  /\ saved' = [saved EXCEPT ![next] = FALSE, ![prev] = FALSE]
  /\ current' = [current EXCEPT ![c] = next]
  /\ status' = [status EXCEPT ![next] = Running(c),
                  ![prev] = CASE @ = Running(c)      -> Runnable
                              [] @ = ReadyToSleep(c) -> Sleeping
                              [] OTHER               -> @]
  /\ old' = [old EXCEPT ![c] = prev]
  /\ hand' = [hand EXCEPT ![c] = IF requeue THEN prev ELSE None]
  /\ at' = [at EXCEPT ![c] = IF requeue THEN "push" ELSE "switch"]
  /\ UNCHANGED <<tree, num>>

\* RunQueue::push: the task becomes Ready and is counted ...
Push(c) ==
  /\ at[c] = "push"
  /\ status' = [status EXCEPT ![hand[c]] = Ready(RunqFor(hand[c], c))]
  /\ num' = [num EXCEPT ![RunqFor(hand[c], c)] = @ + 1]
  /\ at' = [at EXCEPT ![c] = "insert"]
  /\ UNCHANGED <<current, tree, hand, old, saved, fresh>>

\* ... and is inserted into the tree.  The caller goes on: to context_switch
\* from switch_to, back to the current task from add_task and load_balance.
Insert(c) ==
  /\ at[c] = "insert"
  /\ tree' = [tree EXCEPT ![RunqFor(hand[c], c)] = @ \cup {hand[c]}]
  /\ hand' = [hand EXCEPT ![c] = None]
  /\ at' = [at EXCEPT ![c] = IF old[c] = None THEN "run" ELSE "switch"]
  /\ UNCHANGED <<status, current, num, old, saved, fresh>>

\* context_switch: the registers of the previous task are saved.
ContextSwitch(c) ==
  /\ at[c] = "switch"
  /\ saved' = [saved EXCEPT ![old[c]] = TRUE]
  /\ old' = [old EXCEPT ![c] = None]
  /\ at' = [at EXCEPT ![c] = "run"]
  /\ UNCHANGED <<status, current, tree, num, hand, fresh>>

\* task.sleep() of the current task.
Sleep(c) ==
  /\ at[c] = "run" /\ current[c] \notin Idles /\ status[current[c]] = Running(c)
  /\ status' = [status EXCEPT ![current[c]] = ReadyToSleep(c)]
  /\ UNCHANGED <<current, tree, num, at, hand, old, saved, fresh>>

\* Task::exit of the current task; the schedule() in it is a step of its own.
Exit(c) ==
  /\ at[c] = "run" /\ current[c] \notin Idles /\ status[current[c]] = Running(c)
  /\ status' = [status EXCEPT ![current[c]] = Exited]
  /\ UNCHANGED <<current, tree, num, at, hand, old, saved, fresh>>

\* Mutant: wakeup() reports true for every task that is not running.
WakeUpAgain(c) ==
  /\ at[c] = "run"
  /\ \E t \in Tasks :
       /\ status[t] \in {Sleeping, Runnable}
       /\ status' = [status EXCEPT ![t] = Runnable]
       /\ hand' = [hand EXCEPT ![c] = t]
       /\ at' = [at EXCEPT ![c] = "push"]
  /\ UNCHANGED <<current, tree, num, old, saved, fresh>>

\* Mutant: the result of wakeup() is ignored.
WakeUpUnqueued(c) ==
  /\ at[c] = "run"
  /\ \E t \in Tasks :
       /\ status[t] = Sleeping
       /\ status' = [status EXCEPT ![t] = Runnable]
  /\ UNCHANGED <<current, tree, num, at, hand, old, saved, fresh>>

\* wake_up of somebody's waiter, by the current task or by an interrupt:
\* a sleeping task goes to add_task, one that has not left yet stays.
WakeUp(c) ==
  /\ at[c] = "run"
  /\ \E t \in Tasks :
       \/ /\ status[t] = Sleeping
          /\ status' = [status EXCEPT ![t] = Runnable]
          /\ hand' = [hand EXCEPT ![c] = t]
          /\ at' = [at EXCEPT ![c] = "push"]
       \/ /\ \E d \in Cpus : /\ status[t] = ReadyToSleep(d)
                             /\ status' = [status EXCEPT ![t] = Running(d)]
          /\ UNCHANGED <<hand, at>>
  /\ UNCHANGED <<current, tree, num, old, saved, fresh>>

\* load_balance by the idle thread: one turn of its loop, a pop from another
\* run queue with more than one task, to be pushed on this CPU's.
Balance(c) ==
  /\ at[c] = "run" /\ current[c] = IdleTask[c]
  /\ \E d \in Cpus \ {c} : num[d] > 1 /\ \E t \in Tasks : Pop(c, d, t)
  /\ at' = [at EXCEPT ![c] = "push"]
  /\ UNCHANGED <<current, old, saved, fresh>>

Next == \E c \in Cpus :
  \/ Schedule(c) \/ Spawn(c) \/ BeginSwitch(c) \/ Push(c) \/ Insert(c)
  \/ ContextSwitch(c) \/ Sleep(c) \/ Exit(c) \/ WakeUp(c) \/ Balance(c)

Spec == Init /\ [][Next]_vars
-----------------------------------------------------------------------------
TypeOK ==
  /\ status \in [Tasks -> Status]
  /\ current \in [Cpus -> Tasks]
  /\ tree \in [Cpus -> SUBSET Tasks]
  /\ num \in [Cpus -> Int]
  /\ at \in [Cpus -> Phase]
  /\ hand \in [Cpus -> Tasks \cup {None}]
  /\ old \in [Cpus -> Tasks \cup {None}]
  /\ saved \in [Tasks -> BOOLEAN]
  /\ fresh \in [Cpus -> BOOLEAN]

\* The assertions of switch_to, push and pop: what a CPU has in hand is
\* Runnable and linked into no run queue, what is queued is Ready there, and
\* the current task is Running, about to sleep, or gone; whatever the other
\* CPUs do between a change of status and the step that relies on it.
AssertionsHold ==
  /\ \A c \in Cpus :
       /\ at[c] \in {"picked", "push"} => status[hand[c]] = Runnable
       /\ at[c] = "insert" => status[hand[c]] = Ready(RunqFor(hand[c], c))
       /\ at[c] \in {"picked", "push", "insert"} =>
            \A d \in Cpus : hand[c] \notin tree[d]
       /\ at[c] = "picked" => hand[c] # current[c]
       /\ status[current[c]] \in {Running(c), ReadyToSleep(c), Exited}
  /\ \A d \in Cpus : \A t \in tree[d] : status[t] = Ready(d) /\ d \in Affinity[t]

\* No task is in two places: two CPUs never have the same task current or in
\* hand, and a queued one is in one run queue and current nowhere.
OnePlace ==
  /\ \A c, d \in Cpus : c # d =>
       /\ current[c] # current[d]
       /\ tree[c] \cap tree[d] = {}
       /\ hand[c] # None => hand[c] # hand[d]
  /\ \A c, d \in Cpus : current[c] # hand[d] /\ current[c] \notin tree[d]

\* No task is lost: one that is to run is queued on the run queue it is Ready
\* for, or some CPU has it in hand on the way there or to the processor.
NoneLost ==
  \A t \in Tasks :
    /\ status[t] = Runnable => \E c \in Cpus : hand[c] = t
    /\ \A d \in Cpus : status[t] = Ready(d) =>
         t \in tree[d] \/ \E c \in Cpus : at[c] = "insert" /\ hand[c] = t

\* Where a CPU is and what it has in hand go together, and a task whose status
\* names a CPU it runs on is that CPU's current task.
Phases ==
  \A c \in Cpus :
    /\ hand[c] = None <=> at[c] \in {"run", "switch"}
    /\ at[c] \in {"run", "picked"} => old[c] = None
    /\ at[c] = "switch" => old[c] # None

Owners ==
  \A t \in Tasks, c \in Cpus :
    status[t] \in {Running(c), ReadyToSleep(c)} => current[c] = t

\* The inductive invariant behind the three: no step of a CPU, between any two
\* steps of the others, breaks what the assertions of the scheduler rely on.
SchedInv == TypeOK /\ AssertionsHold /\ OnePlace /\ NoneLost /\ Phases /\ Owners

\* The counter load_balance trusts is the length of the run queue and of the
\* insertions under way.
QueueCounts ==
  \A d \in Cpus :
    num[d] = Cardinality(tree[d]) +
             Cardinality({c \in Cpus : at[c] = "insert" /\ RunqFor(hand[c], c) = d})

\* "After context switch, the current task of the processor will be switched to
\* the given next task" (processor.rs): the CPU goes on where that task left
\* its last CPU, and that CPU has let go of its stack.
SwitchesToNext ==
  \A c \in Cpus :
    /\ at[c] = "switch" => fresh[c]
    /\ old[c] # None => \A d \in Cpus : current[d] # old[c]
=============================================================================
