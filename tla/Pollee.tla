------------------------------- MODULE Pollee -------------------------------
(***************************************************************************)
(* Pollees and pollers: kernel/aster-nix/src/process/signal/poll.rs and    *)
(* the Subject of events/subject.rs.  A thread waits for events of one     *)
(* pollee at a time, with a Poller of its own; ERR and HUP are always      *)
(* polled.  fetch_or and notify_observers are two steps of add_events.     *)
(***************************************************************************)
CONSTANTS Threads, Pollees

Events == {"IN", "OUT", "ERR", "HUP"}
AlwaysPoll == {"ERR", "HUP"}

VARIABLES
  events,      \* the events of every pollee
  observers,   \* the threads whose poller is registered, with their masks
  counter      \* is the EventCounter of a thread's poller above zero?

PolleeTypeOK ==
  /\ events \in [Pollees -> SUBSET Events]
  /\ observers \in [Pollees -> SUBSET (Threads \X SUBSET Events)]
  /\ counter \in [Threads -> BOOLEAN]

PolleeInit(init) ==
  /\ events = init
  /\ observers = [p \in Pollees |-> {}]
  /\ counter = [t \in Threads |-> FALSE]

Revents(p, mask) == events[p] \cap (mask \cup AlwaysPoll)

IsObserver(p, t) == \E m \in SUBSET Events : <<t, m>> \in observers[p]

\* register_poller: replaces an earlier registration of the same poller.
Register(p, t, mask) ==
  observers' = [observers EXCEPT ![p] =
    {o \in @ : o[1] # t} \cup {<<t, mask \cup AlwaysPoll>>}]

\* Drop for Poller.  The next one starts with a fresh event counter.
DropPoller(t) ==
  /\ observers' = [p \in Pollees |-> {o \in observers[p] : o[1] # t}]
  /\ counter' = [counter EXCEPT ![t] = FALSE]

\* The fetch_or of add_events, and del_events.
AddEvents(p, added) == events' = [events EXCEPT ![p] = @ \cup added]
DelEvents(p, gone) == events' = [events EXCEPT ![p] = @ \ gone]

\* notify_observers: EventCounter::write of every poller the events concern.
Notify(p, added) ==
  counter' = [t \in Threads |->
    counter[t] \/ \E o \in observers[p] : o[1] = t /\ o[2] \cap added # {}]
=============================================================================
