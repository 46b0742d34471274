------------------------------ MODULE Channel -------------------------------
(***************************************************************************)
(* The channel under pipes, unix stream sockets and ptys: kernel/          *)
(* aster-nix/src/fs/utils/channel.rs, on a ring buffer of which only the   *)
(* number of bytes is kept.  Both ends run the same steps; an end that     *)
(* moved no byte waits for its own event, IN or OUT, and an end that moved *)
(* some raises the other's.  NumCpus threads execute at a time, and one    *)
(* that executes is interrupted only in user mode or where it waits.       *)
(***************************************************************************)
EXTENDS Pollee, Naturals, FiniteSets

CONSTANTS Readers, Writers, Capacity, NumCpus

ASSUME ChannelAssumption ==
  /\ Threads = Readers \cup Writers /\ Readers \cap Writers = {}
  /\ Pollees = {"prod", "cons"}
  /\ Capacity \in Nat \ {0} /\ NumCpus \in Nat \ {0}

VARIABLES
  len,        \* bytes in the ring buffer
  shut,       \* is_shutdown of the ends
  dropped,    \* how far the drop of each end is
  rb,         \* who holds the mutex of each end's half of the ring buffer
  pc, moved,  \* the next step of each thread; the bytes the attempt moved
  call,       \* how read or write was called: nonblocking, and past the fast path
  cpu         \* the threads that execute

vars == <<events, observers, counter, len, shut, dropped, rb, pc, moved, call, cpu>>

Free == "free"

End(t)  == IF t \in Readers THEN "cons" ELSE "prod"
Peer(e) == IF e = "cons" THEN "prod" ELSE "cons"
Wants(e) == IF e = "cons" THEN {"IN"} ELSE {"OUT"}

\* The ring buffer has nothing for this end: empty for the consumer, full for
\* the producer.
Blocked(e) == IF e = "cons" THEN len = 0 ELSE len = Capacity

PC == {"user", "try", "update", "del", "test", "add", "notify", "done",
       "poll", "register", "repoll", "wait"}

Init ==
  /\ PolleeInit([p \in Pollees |-> IF p = "prod" THEN {"OUT"} ELSE {}])
  /\ len = 0
  /\ shut = [e \in Pollees |-> FALSE]
  /\ dropped = [e \in Pollees |-> "no"]
  /\ rb = [e \in Pollees |-> Free]
  /\ pc = [t \in Threads |-> "user"]
  /\ moved = [t \in Threads |-> 0]
  /\ call = [t \in Threads |-> [nonblocking |-> FALSE, slow |-> FALSE]]
  /\ cpu = {}

At(t, label) == t \in cpu /\ pc[t] = label

Goto(t, to) == pc' = [pc EXCEPT ![t] = to]

\* read or write is called.
Call(t) ==
  /\ At(t, "user") /\ dropped[End(t)] = "no"
  /\ Goto(t, "try")
  /\ \E nb \in BOOLEAN : call' = [call EXCEPT ![t] = [nonblocking |-> nb, slow |-> FALSE]]
  /\ UNCHANGED <<events, observers, counter, len, shut, dropped, rb, moved, cpu>>

\* Mutant: push_slice and pop_slice move the whole buffer of the caller.
TryWholeBuffer(t) ==
  /\ At(t, "try") /\ Goto(t, "update")
  /\ \E n \in 1 .. Capacity :
       /\ moved' = [moved EXCEPT ![t] = n]
       /\ len' = IF End(t) = "cons" THEN len - n ELSE len + n
  /\ UNCHANGED <<events, observers, counter, shut, dropped, rb, call, cpu>>

\* try_read and try_write: the tests of the shutdown flags and, the first time,
\* of an empty buffer, then pop_slice or push_slice of as many bytes as there
\* are, up to the caller's buffer.
Try(t) ==
  LET e == End(t) IN
  /\ At(t, "try")
  /\ \/ /\ shut[e] \/ (e = "prod" /\ shut["cons"]) \/ ~ call[t].slow
        /\ Goto(t, "user") /\ DropPoller(t)
        /\ UNCHANGED <<len, moved>>
     \/ /\ ~ shut[e] /\ (e = "prod" => ~ shut["cons"])
        /\ rb[e] = Free
        /\ \E size \in 1 .. Capacity :
             LET avail == IF e = "cons" THEN len ELSE Capacity - len
                 n == IF size < avail THEN size ELSE avail IN
             /\ moved' = [moved EXCEPT ![t] = n]
             /\ len' = IF e = "cons" THEN len - n ELSE len + n
        /\ Goto(t, "update")
        /\ UNCHANGED <<observers, counter>>
  /\ UNCHANGED <<events, shut, dropped, rb, call, cpu>>

\* Mutant: update_pollee never takes an event away.
UpdateKeepsEvent(t) ==
  /\ At(t, "update") /\ rb[End(t)] = Free
  /\ rb' = [rb EXCEPT ![End(t)] = t]
  /\ Goto(t, "test")
  /\ UNCHANGED <<events, observers, counter, len, shut, dropped, moved, call, cpu>>

\* update_pollee: the guard of lock_event is dropped at once, the mutex of this
\* end's half is kept; is this end blocked?
Update(t) ==
  LET e == End(t) IN
  /\ At(t, "update") /\ rb[e] = Free
  /\ rb' = [rb EXCEPT ![e] = t]
  /\ Goto(t, IF Blocked(e) THEN "del" ELSE "test")
  /\ UNCHANGED <<events, observers, counter, len, shut, dropped, moved, call, cpu>>

Del(t) ==
  /\ At(t, "del") /\ Goto(t, "test")
  /\ DelEvents(End(t), Wants(End(t)))
  /\ UNCHANGED <<observers, counter, len, shut, dropped, rb, moved, call, cpu>>

\* update_pollee: is the other end not blocked?
Test(t) ==
  LET e == End(t) IN
  /\ At(t, "test")
  /\ Goto(t, IF Blocked(Peer(e)) THEN "done" ELSE "add")
  /\ rb' = IF Blocked(Peer(e)) THEN [rb EXCEPT ![e] = Free] ELSE rb
  /\ UNCHANGED <<events, observers, counter, len, shut, dropped, moved, call, cpu>>

Add(t) ==
  /\ At(t, "add") /\ Goto(t, "notify")
  /\ AddEvents(Peer(End(t)), Wants(Peer(End(t))))
  /\ UNCHANGED <<observers, counter, len, shut, dropped, rb, moved, call, cpu>>

\* Mutant: the events are added without notifying the pollers.
NotifyNobody(t) ==
  /\ At(t, "notify") /\ Goto(t, "done")
  /\ rb' = [rb EXCEPT ![End(t)] = Free]
  /\ UNCHANGED <<events, observers, counter, len, shut, dropped, moved, call, cpu>>

NotifyPeer(t) ==
  /\ At(t, "notify") /\ Goto(t, "done")
  /\ Notify(Peer(End(t)), Wants(Peer(End(t))))
  /\ rb' = [rb EXCEPT ![End(t)] = Free]
  /\ UNCHANGED <<events, observers, len, shut, dropped, moved, call, cpu>>

\* The result of try_read or try_write, and should_io_return.
Done(t) ==
  LET returns == \/ moved[t] > 0 \/ call[t].nonblocking
                 \/ t \in Readers /\ shut["prod"] IN
  /\ At(t, "done")
  /\ \/ returns /\ Goto(t, "user") /\ DropPoller(t) /\ UNCHANGED call
     \/ /\ ~ returns
        /\ Goto(t, IF call[t].slow THEN "poll" ELSE "try")
        /\ call' = [call EXCEPT ![t].slow = TRUE]
        /\ UNCHANGED <<observers, counter>>
  /\ moved' = [moved EXCEPT ![t] = 0]
  /\ UNCHANGED <<events, len, shut, dropped, rb, cpu>>

\* Pollee::poll: the fast path, the registration of the poller ...
Poll(t) ==
  /\ At(t, "poll")
  /\ Goto(t, IF Revents(End(t), Wants(End(t))) = {} THEN "register" ELSE "try")
  /\ UNCHANGED <<events, observers, counter, len, shut, dropped, rb, moved, call, cpu>>

RegisterPoller(t) ==
  /\ At(t, "register") /\ Goto(t, "repoll")
  /\ Register(End(t), t, Wants(End(t)))
  /\ UNCHANGED <<events, counter, len, shut, dropped, rb, moved, call, cpu>>

\* Mutant: poll trusts its first look at the events.
RepollSkipped(t) ==
  /\ At(t, "repoll")
  /\ Goto(t, "wait")
  /\ UNCHANGED <<events, observers, counter, len, shut, dropped, rb, moved, call, cpu>>

\* ... and a second look at the events.
Repoll(t) ==
  /\ At(t, "repoll")
  /\ Goto(t, IF Revents(End(t), Wants(End(t))) = {} THEN "wait" ELSE "try")
  /\ UNCHANGED <<events, observers, counter, len, shut, dropped, rb, moved, call, cpu>>

\* poller.wait() returns: the event counter is taken, or a signal came in.
WaitReturns(t) ==
  /\ At(t, "wait") /\ counter[t]
  /\ Goto(t, "try")
  /\ counter' = [counter EXCEPT ![t] = FALSE]
  /\ UNCHANGED <<events, observers, len, shut, dropped, rb, moved, call, cpu>>

Interrupted(t) ==
  /\ At(t, "wait") /\ Goto(t, "user") /\ DropPoller(t)
  /\ UNCHANGED <<events, len, shut, dropped, rb, moved, call, cpu>>

\* shutdown() of a channel end, by a socket: it only sets the flag.
Shutdown(e) ==
  /\ ~ shut[e] /\ dropped[e] = "no"
  /\ shut' = [shut EXCEPT ![e] = TRUE]
  /\ UNCHANGED <<events, observers, counter, len, dropped, rb, pc, moved, call, cpu>>

\* Mutant: a dropped end only sets its flag, as shutdown() does.
DropEndSilent(e) ==
  /\ dropped[e] = "no" /\ \A t \in Threads : End(t) = e => pc[t] = "user"
  /\ dropped' = [dropped EXCEPT ![e] = "yes"]
  /\ shut' = [shut EXCEPT ![e] = TRUE]
  /\ UNCHANGED <<events, observers, counter, len, rb, pc, moved, call, cpu>>

\* Drop for Producer and Consumer, once no thread uses the end: shutdown, then
\* add_events of HUP or ERR on the other end.
DropEnd(e) ==
  /\ dropped' = [dropped EXCEPT ![e] =
       CASE @ = "no" -> "shut" [] @ = "shut" -> "added" [] OTHER -> "yes"]
  /\ \/ /\ dropped[e] = "no" /\ \A t \in Threads : End(t) = e => pc[t] = "user"
        /\ shut' = [shut EXCEPT ![e] = TRUE]
        /\ UNCHANGED <<events, counter>>
     \/ /\ dropped[e] = "shut"
        /\ AddEvents(Peer(e), IF e = "prod" THEN {"HUP"} ELSE {"ERR"})
        /\ UNCHANGED <<counter, shut>>
     \/ /\ dropped[e] = "added"
        /\ Notify(Peer(e), IF e = "prod" THEN {"HUP"} ELSE {"ERR"})
        /\ UNCHANGED <<events, shut>>
  /\ UNCHANGED <<observers, len, rb, pc, moved, call, cpu>>

\* A thread gets a CPU; it gives it back in user mode or asleep.
Run(t) ==
  /\ t \notin cpu /\ Cardinality(cpu) < NumCpus
  /\ cpu' = cpu \cup {t}
  /\ UNCHANGED <<events, observers, counter, len, shut, dropped, rb, pc, moved, call>>

Leave(t) ==
  /\ At(t, "user") \/ (At(t, "wait") /\ ~ counter[t])
  /\ cpu' = cpu \ {t}
  /\ UNCHANGED <<events, observers, counter, len, shut, dropped, rb, pc, moved, call>>

Step(t) ==
  \/ Try(t) \/ Update(t) \/ Del(t) \/ Test(t) \/ Add(t) \/ NotifyPeer(t)
  \/ Done(t) \/ Poll(t) \/ RegisterPoller(t) \/ Repoll(t) \/ WaitReturns(t)

Next ==
  \/ \E t \in Threads : Call(t) \/ Step(t) \/ Interrupted(t) \/ Run(t) \/ Leave(t)
  \/ \E e \in Pollees : Shutdown(e) \/ DropEnd(e)

Spec == Init /\ [][Next]_vars

\* Threads are scheduled fairly and kernel code runs on; a drop that has begun
\* ends.  Nobody has to read, write, shut down or close.
FairSpec ==
  /\ Spec
  /\ \A t \in Threads : SF_vars(Step(t)) /\ SF_vars(Run(t)) /\ SF_vars(Leave(t))
  /\ \A e \in Pollees : WF_vars(dropped[e] # "no" /\ DropEnd(e))
-----------------------------------------------------------------------------
TypeOK ==
  /\ PolleeTypeOK
  /\ len \in 0 .. Capacity
  /\ shut \in [Pollees -> BOOLEAN]
  /\ dropped \in [Pollees -> {"no", "shut", "added", "yes"}]
  /\ rb \in [Pollees -> Threads \cup {Free}]
  /\ pc \in [Threads -> PC]
  /\ moved \in [Threads -> 0 .. Capacity]
  /\ call \in [Threads -> [nonblocking : BOOLEAN, slow : BOOLEAN]]
  /\ cpu \in SUBSET Threads

Updating(t) == pc[t] \in {"update", "del", "test", "add"}

\* update_pollee: "pollee always reflects the _true_ state of the underlying
\* ring buffer regardless of any race conditions" (channel.rs), when nobody is
\* between a change of the ring buffer and the end of its update_pollee.
PolleeReflectsRing ==
  (\A t \in Threads : ~ Updating(t)) =>
    \A e \in Pollees : Wants(e) \subseteq events[e] <=> ~ Blocked(e)

\* Pollee::poll is "atomic in the sense that either some interesting events are
\* returned or the poller is registered" (poll.rs): a thread that sleeps in
\* wait with nothing in its counter is registered, and the events it waits for
\* are not there, or whoever added them has still to notify it.
SleeperHasNoEvent ==
  \A t \in Threads : pc[t] = "wait" /\ ~ counter[t] =>
    /\ IsObserver(End(t), t)
    /\ \A ev \in Revents(End(t), Wants(End(t))) :
         \/ ev \in AlwaysPoll /\ dropped[Peer(End(t))] = "added"
         \/ \E u \in Threads : pc[u] = "notify" /\ End(u) = Peer(End(t))

\* A thread that waits for the other end gets out once that end is dropped:
\* a reader sees the end of file and a writer EPIPE.
DropReleasesWaiters ==
  \A t \in Threads : dropped[Peer(End(t))] # "no" ~> pc[t] # "wait"

\* A thread that waits while there is something to read, or room to write,
\* gets out.
WaiterServed ==
  \A t \in Threads : pc[t] = "wait" /\ ~ Blocked(End(t)) ~> pc[t] # "wait" \/ Blocked(End(t))
=============================================================================
