------------------------------- MODULE Broadcast -------------------------------
(***************************************************************************)
(* src/src/driver/broadcast.rs: the fan-out of a parser's messages to the  *)
(* clones of a BroadcastSlotHandle.  The driver's thread pushes; every     *)
(* subscriber is a task on a thread of its own, which polls its private    *)
(* queue and sleeps until its waker is called.                             *)
(*                                                                         *)
(* A step is what one lock or one queue operation makes atomic: a push     *)
(* appends to a queue, takes the waker and calls it in three steps per     *)
(* subscriber, poll_recv pops, registers and pops again.  The registry's   *)
(* lock is held for a whole push, so subscribing waits for it.  The list   *)
(* of subscribers is a set here: a push visits them in any order.  The     *)
(* n-th message pushed is the number n.                                    *)
(***************************************************************************)
EXTENDS Integers, Sequences, FiniteSets

CONSTANTS
  Subscribers,  \* every handle ever created, each used once
  MaxSent,      \* bound on pushed messages
  None

ASSUME SentAssumption == MaxSent \in Nat
ASSUME NobodyAssumption == None \notin Subscribers

VARIABLES
  subs,      \* BroadcastInner.subscribers: the registered weak references
  queue,     \* Subscriber.queue
  waker,     \* Subscriber.waker: is one registered?
  at,        \* the subscriber the push is serving, or None
  stage,     \* what the push does next for it
  todo,      \* the subscribers the push has yet to visit
  task,      \* what each subscriber's task is doing
  notified,  \* the executor was asked to poll the task again
  sent,      \* messages pushed so far
  last       \* the last message each subscriber received or subscribed after

vars == <<subs, queue, waker, at, stage, todo, task, notified, sent, last>>
pusher == <<at, stage, todo, sent>>
mailbox == <<queue, last>>

Stages == {"idle", "push", "take", "wake"}
Tasks == {"unborn", "running", "checked", "registered", "asleep", "dropped"}

Live(s) == task[s] \notin {"unborn", "dropped"}

Init ==
  \E first \in Subscribers :
    /\ subs = {first}
    /\ task = [s \in Subscribers |-> IF s = first THEN "running" ELSE "unborn"]
    /\ queue = [s \in Subscribers |-> <<>>]
    /\ waker = [s \in Subscribers |-> FALSE]
    /\ notified = [s \in Subscribers |-> FALSE]
    /\ last = [s \in Subscribers |-> 0]
    /\ at = None /\ stage = "idle" /\ todo = {} /\ sent = 0

------------------------------------------------------------------------------
(* The driver's thread: BroadcastInner::push                               *)

BeginPush ==
  /\ stage = "idle" /\ sent < MaxSent
  /\ stage' = "push" /\ todo' = subs /\ sent' = sent + 1
  /\ UNCHANGED <<subs, queue, waker, at, task, notified, last>>

PushTo_StopsAtDead(s) ==
  /\ stage = "push" /\ s \in todo
  /\ IF Live(s)
     THEN /\ queue' = [queue EXCEPT ![s] = Append(@, sent)]
          /\ at' = s /\ stage' = "take" /\ todo' = todo \ {s}
          /\ UNCHANGED subs
     ELSE /\ subs' = subs \ {s} /\ todo' = {}
          /\ UNCHANGED <<queue, at, stage>>
  /\ UNCHANGED <<waker, task, notified, sent, last>>

\* A live subscriber gets the message, a dead one is pruned.
PushTo(s) ==
  /\ stage = "push" /\ s \in todo
  /\ todo' = todo \ {s}
  /\ IF Live(s)
     THEN /\ queue' = [queue EXCEPT ![s] = Append(@, sent)]
          /\ at' = s /\ stage' = "take"
          /\ UNCHANGED subs
     ELSE /\ subs' = subs \ {s}
          /\ UNCHANGED <<queue, at, stage>>
  /\ UNCHANGED <<waker, task, notified, sent, last>>

TakeWaker ==
  /\ stage = "take"
  /\ waker' = [waker EXCEPT ![at] = FALSE]
  /\ IF waker[at] THEN stage' = "wake" /\ UNCHANGED at
                  ELSE stage' = "push" /\ at' = None
  /\ UNCHANGED <<subs, queue, todo, task, notified, sent, last>>

Wake_Waits ==
  /\ stage = "wake" /\ task[at] # "asleep"
  /\ notified' = [notified EXCEPT ![at] = TRUE]
  /\ stage' = "push" /\ at' = None
  /\ UNCHANGED <<subs, queue, waker, todo, task, sent, last>>

\* Waker::wake: a running task is polled once more, a sleeping one resumed.
Wake ==
  /\ stage = "wake"
  /\ notified' = [notified EXCEPT ![at] = TRUE]
  /\ stage' = "push" /\ at' = None
  /\ UNCHANGED <<subs, queue, waker, todo, task, sent, last>>

EndPush ==
  /\ stage = "push" /\ todo = {}
  /\ stage' = "idle"
  /\ UNCHANGED <<subs, queue, waker, at, todo, task, notified, sent, last>>

RunPush == (\E s \in Subscribers : PushTo(s)) \/ TakeWaker \/ Wake \/ EndPush

------------------------------------------------------------------------------
(* A subscriber's task                                                     *)

\* clone: a new handle, registered between two pushes.
Subscribe(s) ==
  /\ stage = "idle" /\ task[s] = "unborn"
  /\ \E other \in Subscribers : Live(other)
  /\ task' = [task EXCEPT ![s] = "running"]
  /\ subs' = subs \cup {s}
  /\ last' = [last EXCEPT ![s] = sent]
  /\ UNCHANGED <<queue, waker, notified, pusher>>

\* The registry keeps its weak reference until a push prunes it.
Drop(s) ==
  /\ task[s] \in {"running", "asleep"}
  /\ task' = [task EXCEPT ![s] = "dropped"]
  /\ UNCHANGED <<subs, waker, notified, pusher, mailbox>>

\* One pop: of try_recv, drain, drain_n, or either of poll_recv.
Pop(s) ==
  /\ task[s] \in {"running", "registered"} /\ queue[s] # <<>>
  /\ queue' = [queue EXCEPT ![s] = Tail(@)]
  /\ last' = [last EXCEPT ![s] = Head(queue[s])]
  /\ task' = [task EXCEPT ![s] = "running"]
  /\ UNCHANGED <<subs, waker, notified, pusher>>

\* poll_recv's first pop found nothing.
FindNothing(s) ==
  /\ task[s] = "running" /\ queue[s] = <<>>
  /\ task' = [task EXCEPT ![s] = "checked"]
  /\ UNCHANGED <<subs, waker, notified, pusher, mailbox>>

Register_Sleeps(s) ==
  /\ task[s] = "checked"
  /\ waker' = [waker EXCEPT ![s] = TRUE]
  /\ task' = [task EXCEPT ![s] = "asleep"]
  /\ UNCHANGED <<subs, notified, pusher, mailbox>>

Register(s) ==
  /\ task[s] = "checked"
  /\ waker' = [waker EXCEPT ![s] = TRUE]
  /\ task' = [task EXCEPT ![s] = "registered"]
  /\ UNCHANGED <<subs, notified, pusher, mailbox>>

\* Pending: the second pop found nothing either.
Sleep(s) ==
  /\ task[s] = "registered" /\ queue[s] = <<>>
  /\ task' = [task EXCEPT ![s] = "asleep"]
  /\ UNCHANGED <<subs, waker, notified, pusher, mailbox>>

\* The executor polls a task that was woken.
Resume(s) ==
  /\ task[s] = "asleep" /\ notified[s]
  /\ task' = [task EXCEPT ![s] = "running"]
  /\ notified' = [notified EXCEPT ![s] = FALSE]
  /\ UNCHANGED <<subs, waker, pusher, mailbox>>

Receive(s) == Pop(s) \/ FindNothing(s) \/ Register(s) \/ Sleep(s) \/ Resume(s)

Next ==
  \/ BeginPush \/ RunPush
  \/ \E s \in Subscribers : Receive(s) \/ Subscribe(s) \/ Drop(s)

Spec == Init /\ [][Next]_vars

\* A push runs to its end, and a task that can run is run.
FairSpec ==
  /\ Spec
  /\ WF_vars(RunPush)
  /\ \A s \in Subscribers : WF_vars(Receive(s))

------------------------------------------------------------------------------
(* Properties                                                              *)

\* The state of broadcast.rs and its registry; a push serves one live or
\* dropped subscriber at a time and visits registered ones only.
TypeOK ==
  /\ subs \subseteq Subscribers
  /\ queue \in [Subscribers -> Seq(Nat)]
  /\ waker \in [Subscribers -> BOOLEAN]
  /\ stage \in Stages
  /\ at \in IF stage \in {"take", "wake"} THEN Subscribers ELSE {None}
  /\ todo \in SUBSET IF stage = "idle" THEN {} ELSE subs
  /\ task \in [Subscribers -> Tasks]
  /\ notified \in [Subscribers -> BOOLEAN]
  /\ sent \in Nat
  /\ last \in [Subscribers -> Nat]

\* "A push between the pop and the registration would otherwise be missed"
\* (broadcast.rs poll_recv): a task never sleeps on a queue that holds a
\* message unless the push is about to wake it or has.
NoLostWakeup ==
  \A s \in Subscribers :
    task[s] = "asleep" /\ queue[s] # <<>> =>
      \/ notified[s]
      \/ at = s /\ (stage = "wake" \/ (stage = "take" /\ waker[s]))

\* The messages subscriber s should have by now, counted.
Due(s) == IF s \in todo THEN sent - 1 ELSE sent

\* Every subscriber receives every message pushed after it subscribed, once
\* and in order, whoever else subscribes, drops or is pruned meanwhile.
EveryMessageInOrder ==
  \A s \in Subscribers : Live(s) =>
    /\ \A i \in 1..Len(queue[s]) : queue[s][i] = last[s] + i
    /\ last[s] + Len(queue[s]) = Due(s)

\* A pushed message is eventually received by every subscriber that stays: no
\* task sleeps for ever on a message.
EventuallyReceived ==
  \A s \in Subscribers, n \in 1..MaxSent :
    Live(s) /\ last[s] < n /\ n <= sent ~> ~Live(s) \/ last[s] >= n

==============================================================================
