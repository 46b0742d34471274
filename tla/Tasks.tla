------------------------------- MODULE Tasks --------------------------------
(***************************************************************************)
(* Kernel tasks and the scheduling of them: the TaskStatus of              *)
(* framework/aster-frame/src/task/task.rs and the processors of            *)
(* task/processor.rs, with schedule() as one step (Processor takes it      *)
(* apart).  Every CPU has an idle thread that is bound to it and is always *)
(* willing to run; it is written Idle and has no status of its own.        *)
(* Kernel code is not preempted: a task leaves its CPU where it calls      *)
(* schedule or yield_now and nowhere else.                                 *)
(***************************************************************************)
CONSTANTS Tasks, Cpus, Idle

ASSUME IdleAssumption == Idle \notin Tasks

VARIABLES
  status,    \* task_status of every task
  current    \* PROCESSOR.current of every CPU

Ready(c)        == <<"Ready", c>>
Running(c)      == <<"Running", c>>
ReadyToSleep(c) == <<"ReadyToSleep", c>>
Sleeping        == <<"Sleeping">>

Status == {Sleeping} \cup
          UNION {{Ready(c), Running(c), ReadyToSleep(c)} : c \in Cpus}

TasksTypeOK ==
  /\ status \in [Tasks -> Status]
  /\ current \in [Cpus -> Tasks \cup {Idle}]

RunQueue(c) == {t \in Tasks : status[t] = Ready(c)}

OnCpu(t) == \E c \in Cpus : current[c] = t

\* Mutant: switch_to forgets to enqueue the task it made Runnable.
LeftNotQueued(c, s) ==
  CASE s = Running(c)      -> <<"Runnable">>
    [] s = ReadyToSleep(c) -> Sleeping
    [] OTHER               -> s

\* What switch_to makes of the status of the task that leaves CPU c.
Left(c, s) ==
  CASE s = Running(c)      -> Ready(c)
    [] s = ReadyToSleep(c) -> Sleeping
    [] OTHER               -> s

\* schedule() on CPU c picks `next' from the CPU's run queue and switches.
SwitchTo(c, next) ==
  /\ next = Idle \/ next \in RunQueue(c)
  /\ next # current[c]
  /\ current' = [current EXCEPT ![c] = next]
  /\ status' = [t \in Tasks |->
                  CASE t = next       -> Running(c)
                    [] t = current[c] -> Left(c, status[t])
                    [] OTHER          -> status[t]]

\* load_balance on CPU c, called by its idle thread, takes a task of a CPU
\* with more than one task queued (the idle thread of a busy CPU is queued).
LoadBalance(c) ==
  /\ current[c] = Idle
  /\ \E d \in Cpus \ {c} : \E t \in RunQueue(d) :
       /\ current[d] # Idle \/ RunQueue(d) # {t}
       /\ status' = [status EXCEPT ![t] = Ready(c)]
  /\ UNCHANGED current

\* Mutant: wake_up drops the result of wakeup() and adds no task.
WakeupNotQueued(t, c) ==
  status' = [status EXCEPT ![t] = IF @ = Sleeping THEN <<"Runnable">> ELSE @]

\* WakeUp::wakeup by somebody on CPU c, with the add_task that follows it
\* when it returns true.
Wakeup(t, c) ==
  status' = [status EXCEPT ![t] =
               CASE @ = Sleeping -> Ready(c)
                 [] \E d \in Cpus : @ = ReadyToSleep(d) -> Running(@[2])
                 [] OTHER -> @]
=============================================================================
