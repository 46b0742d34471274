# TLA+ verification of the Asterinas kernel

This directory models the concurrent core of the Asterinas kernel of this
repository: the framework crate (`src/framework/aster-frame`), on which a safe
kernel (`src/kernel/aster-nix`) is built, and the first kernel facilities above
it. The modules are translated from the Rust and assembly sources, small
instances are model-checked with TLC, and the most important invariants are
proved with TLAPS for every number of CPUs, threads and tasks.

`PROJECT.json` says which source lines every definition stands for, which runs
check which properties, and which hazards of the code are covered.

## 1. The system and its parts

| part | state | operations | what is hard about it |
|---|---|---|---|
| `RwLock` (`sync/rwlock.rs`) | one 64-bit word | read, write, upread, upgrade, their `try_` and irq-disabled versions, four guard drops | attempts change the word before they know whether they succeed |
| scheduling (`task/processor.rs`, `task/task.rs`, the CFS run queues) | `TaskStatus`, current task of every CPU, a tree and a counter per run queue, saved registers | schedule, switch_to, context_switch, spawn, exit, sleep, wakeup, load_balance | each CPU's steps interleave with wakers and balancers on the others |
| `WaitQueue` (`sync/wait.rs`) | a queue of waiters, a flag per waiter, the task's status | wait_until, wake_one, wake_all | test, sleep and wake are separate steps on different CPUs |
| `Mutex` (`sync/mutex/wq_mutex.rs`) | an `AtomicBool` and a wait queue | lock, try_lock, unlock | lost wakeups; no hand-over to the woken task |
| `RwMutex` (`sync/rwmutex.rs`) | the word of `RwLock` and a wait queue | as `RwLock`, sleeping | who wakes whom, with transient bits in the word |
| `Pollee`/`Poller` (`process/signal/poll.rs`, `events/subject.rs`) | event set, registered observers, event counter | poll, add_events, del_events, wait, drop | an event between the look and the registration |
| channel (`fs/utils/channel.rs`) | ring buffer, two pollees, shutdown flags | read, write, update_pollee, shutdown, drop | both ends update both pollees |
| timer, futex, signals and `Pauser`, process life cycle, groups, sessions and job control, epoll, work queues, file table, page cache and VMO, unix sockets, terminals, virtqueue, block requests, RCU | see the hazards in `PROJECT.json` | | planned, section 8 |
| address spaces, file systems, network glue, framework memory management, architecture code, drivers, system call decoding, program loading, build tool | | | not planned for now, section 7 |

How they interact. `Mutex` and `RwMutex` sleep on a `WaitQueue`. A `Waiter`
changes the status of its task (`sleep`, `wakeup`) and hands woken tasks to the
run queues. `switch_to` reads that status to decide whether the task that leaves
a CPU is queued again. The ring buffer of a channel sits behind a `Mutex`; its
readers and writers wait with a `Poller`, whose event counter is a `Pauser`
around the same wait queue.

What must be right: guards exclude each other and the lock word returns to zero;
no task is lost, in two places, or run from registers it has not saved; a
wakeup is never lost; a free lock with waiters always has somebody on the way;
a thread never sleeps on an event that is there.

## 2. Modules

| module | models | notes |
|---|---|---|
| `RwWord` | the word of both reader-writer locks | kept as bit fields; additions and subtractions keep carry and borrow, so an unbalanced one damages the neighbouring bits |
| `RwLock` | `rwlock.rs` | one action per atomic operation; `pc` says which guard a thread owns |
| `AbsRwLock` | what a reader-writer lock with upgrades promises | sets of readers, writers, upreaders and upgraders |
| `Processor` | `schedule()` taken apart | `at` is the position of each CPU between pick_next_task, switch_to, push, insert and context_switch |
| `Tasks` | the same with `schedule()` as one step | what the sleeping locks are built on |
| `WaitQueue` | `wait.rs` | the steps of do_wait, wake_one and wake_all that do not look at the caller's condition |
| `Mutex`, `RwMutex` | the sleeping locks | supply cond() and the wakeups of their guards |
| `Pollee` | `poll.rs`, `subject.rs` | operators for events, observers and counters |
| `Channel` | `channel.rs` | both ends run the same steps |
| `RwLockProofs`, `ProcessorProofs` | | theorems |
| `MC...` | | instances for TLC |

Correspondence of state. `RwLock.lock` is the `AtomicUsize`; `Processor.status`
is `task_status`, `current` is `PROCESSOR.current`, `tree` and `num` are
`normal_tasks` and `num` of a `RunQueue`, `hand` is the `Arc<Task>` a CPU has in
a local variable, `saved` says whether `TaskInner.ctx` holds the point where the
task left its CPU, `fresh` whether it did when `switch_to` copied it.
`WaitQueue.queue` is the deque of waiters, `qlock` its spin lock, which wake_one
and wake_all keep while they wake, `woken` is `is_woken_up`, `todo` the waiters
the caller has still to wake. `Channel.rb` is the mutex of each end's half of
the ring buffer, which `update_pollee` keeps to its end; `len` is the number of
bytes.

Abstractions.

- Kernel code is not preempted in this kernel outside `schedule` and
  `yield_now`, so a task keeps its CPU between two labels; on one CPU this makes
  a system call atomic up to its next sleep.
- Which ready task has the least vruntime, and which run queue has the most
  load, is a free choice: the model has more behaviours than the code.
- The real-time list of a run queue is left out: only the workers of the
  high-priority work queue have a real-time priority, and `init_thread` does not
  start the work queues (the call is commented out in `lib.rs`).
- In `pop`, the branch that drops a queued task that is not `Ready` is left out;
  `AssertionsHold` shows that no state reaches it.
- `Tasks` writes the idle thread of a CPU as the constant `Idle`; in `Processor`
  it is a task bound to its CPU.
- Atomic operations are sequentially consistent steps; the weaker orderings the
  code names are not modelled.
- In `Channel` a wait is a step guarded by the event counter: the wait queue
  below it is the subject of `Mutex` and `WaitQueue`.

## 3. Properties and runs

| run | instance | properties | result |
|---|---|---|---|
| `rwlock` | 5 threads, `MAX_READER` = 3 | `LockInv`, `WordCounts`, `Exclusion`, `ImplementsRwLock` | hold |
| `processor_smp` | 2 CPUs, idle threads, 3 tasks, one of them bound | `SchedInv`, `AssertionsHold`, `OnePlace`, `NoneLost`, `QueueCounts` | hold |
| `processor_stale` | 2 CPUs, 1 task | `SwitchesToNext` | violated |
| `mutex_up` | 1 CPU, 4 tasks, fair | `MutualExclusion`, `FreeMutexHasWaker`, `StatusMatchesCpu`, `SleeperCanBeWoken`, `NoPanic`, `SomebodyEnters`, `WakeupTaken` | hold |
| `mutex_smp` | 2 CPUs, 3 tasks | `TypeOK`, `MutualExclusion`, `FreeMutexHasWaker`, `StatusMatchesCpu` | hold |
| `mutex_panic` | 2 CPUs, 2 tasks | `NoPanic` | violated |
| `rwmutex_up` | 1 CPU, 3 tasks, readers and writers, fair | `FreeLockHasWaker`, `SomebodyEnters` | hold |
| `rwmutex_smp` | 2 CPUs, 3 tasks, all guards | `TypeOK`, `ImplementsSpinning` | hold |
| `rwmutex_upread` | 1 CPU, a writer and an upreader | `FreeLockHasWaker` | violated |
| `channel_up` | 1 CPU, a reader, a writer, capacity 2, fair | `PolleeReflectsRing`, `WaiterServed`, `DropReleasesWaiters` | hold |
| `channel_smp` | 2 CPUs, 2 readers, 1 writer | `TypeOK`, `SleeperHasNoEvent` | hold |
| `channel_race` | 2 CPUs | `PolleeReflectsRing` | violated |

What the violated ones show.

- `mutex_panic`: `Waiter::wait` calls `task.sleep()` after the
  condition was tested. A waker on another CPU that comes in between finds the
  task `Running` and changes nothing; the waiter then becomes `ReadyToSleep`,
  sees its flag, and leaves. It falls asleep at its next `schedule()` outside any
  wait, or panics at its next `sleep()`. On one CPU no waker can come in between,
  which is why `mutex_up` holds.
- `processor_stale`: the status of the leaving task allows others to run it
  before `context_switch` has saved its registers.
- `rwmutex_upread`: the drop of the upgradeable guard tests the value *before*
  the subtraction, which is never zero, so a waiting writer is not woken.
- `channel_race`: `lock_event()` returns a guard that is dropped at once.

Two more behaviours of `RwMutex` are recorded as hazards. On two CPUs
`FreeLockHasWaker` also fails without upgradeable guards: the reader bit of a
failed `try_read` makes a woken writer go back to sleep, and taking the bit back
wakes nobody. On one CPU `upgrade` spins for a reader that cannot run.

Why the bounds are enough for the cases to happen. Five threads exceed the
reader limit of three, so an attempt is refused by bit 60 while an upread, an
upgrade and a writer are around. Two CPUs give every order of two interleaved
handlers; three tasks let one task be current on each CPU while a third is
asleep, queued or in hand, and the bound task makes `push` choose another CPU's
run queue. Three or four contenders on a mutex give a holder, a woken waiter, a
second waiter and a newcomer. A ring buffer of two bytes is neither full nor
empty in between; with one byte two readers compete for what a writer wrote.
The drop of an end is not tied to a CPU in `Channel`, so that on one CPU, too,
it falls between any two steps of the threads of the other end.
There are no counters to bound: every state space is finite by itself.

Deadlock checking is off where the system may stop: after a panic, when all
tasks have exited, when both ends of a channel are dropped. It is on for
`rwlock`, `mutex_up` and `rwmutex_up`.

## 4. Fairness

`FairSpec` of `Mutex` and `RwMutex` has two assumptions. A task that is ready
again and again is picked: the CFS picks the smallest vruntime, which grows only
while a task runs. A task that is on a CPU again and again takes its next step,
which includes leaving its critical section; nobody has to call `lock`. In
`Channel`, threads get a CPU, run on while they are in the kernel, and a drop
that has begun ends; nobody has to read, write, shut down or close. Strong
fairness is needed because other tasks take the CPU away in between.

## 5. What is proved

`RwLockProofs`, for every finite set of threads smaller than `2 * MAX_READER`
and every `MAX_READER > 0` (bits 60-0 of the word do not run over: the code
would need 2^61 threads):

- `LockInvariant`: `Spec => []LockInv`. `LockInv` is the inductive invariant.
  `WordCounts` and `Exclusion` are not inductive: that the `fetch_sub` of a
  failed `try_upread` clears its own bit needs that bit 62 has *one* owner among
  upreaders, failed attempts and upgrades, and that a reader's `fetch_sub` does
  not borrow needs that the count is exact. The counting steps are lemmas about
  the cardinality of the threads in bits 60-0.
- `RwLockExclusion`, `RwLockWordCounts`: consequences.
- `RwLockRefinement`: the lock implements `AbsRwLock`, with the guards as sets;
  failed attempts and the second step of `try_upgrade` are stutters.

`ProcessorProofs`, for every set of CPUs and tasks, with any affinities that are
not empty and idle threads bound to their CPUs (`ProcessorAssumption`):

- `SchedInvariant`: `Spec => []SchedInv`. `SchedInv` adds to the three safety
  properties that the position of a CPU and what it has in hand go together
  (`Phases`) and that a `Running` status names the CPU whose current task it is
  (`Owners`). Both are needed for a wakeup: a `Sleeping` task must be in no CPU's
  hand, in no run queue and current nowhere (lemma `Nowhere`), and what is in
  hand must be in no other place (lemma `InHand`).
- `SchedAssertions`, `SchedOnePlace`, `SchedNoneLost`: no assertion of
  `switch_to`, `push` or `pop` fails; no task is in two places; none is lost.

## 6. What is only model-checked

Liveness and fairness (`SomebodyEnters`, `WakeupTaken`, `WaiterServed`,
`DropReleasesWaiters`) are out of the prover's reach. So far
without a proof: `QueueCounts`, the properties of
`Mutex`, `RwMutex` and `Channel`.

## 7. What is not modelled

Address spaces, file systems and framework memory management are large
sequential data structures or hardware formats; the network protocols are in an
external crate; architecture code and drivers are register access; system calls
decode arguments for the parts above; the build tool does not run in the kernel.
Within the modelled parts: relaxed memory orderings, `wait_until_or_timeout`,
exclusive waiters (no caller has any), vruntime arithmetic, preemption counters.

## 8. Plan

In order of importance.

1. Compositions of what is here: `Processor` implements `Tasks`; proofs that
   `RwMutex` implements `RwLock` and that `Mutex` excludes.
2. `Timer` and `wait_until_or_timeout`: a timeout that races a wakeup.
3. `Futex`: wait, wake and requeue against an abstract bag of waiters per key.
4. `Signals` and `Pauser`; then the process life cycle (clone, exit, zombies,
   wait, reparenting), and process groups, sessions and job control.
5. `Epoll` on `Pollee`; unix stream sockets and terminals on `Channel`.
6. Work queues, file table, page cache and VMO.
7. Virtqueue and block requests, RCU.
8. Pure algorithms against reference definitions: vruntimes and weights of the
   scheduler, the atomic bit set, the range merge of requests.

Abstract specifications planned: a futex as a bag of waiters, a process tree, an
epoll instance as the set of ready interests, a virtqueue as a set of free
descriptors. Theorems planned: the type invariant and the main safety invariant
of each, and the refinements.
