---------------------------- MODULE BroadcastProofs ----------------------------
(* What holds of Broadcast for any number of subscribers and messages.     *)
EXTENDS Broadcast, TLAPS

\* A task that has registered its waker keeps it, or has been or is being
\* woken: the push takes the waker in one step and calls it in a later one.
WakerKept ==
  \A s \in Subscribers :
    task[s] \in {"registered", "asleep"} =>
      waker[s] \/ notified[s] \/ (at = s /\ stage = "wake")

WakeInv == TypeOK /\ WakerKept /\ NoLostWakeup

\* The registry never misses a live subscriber.
Registered == \A s \in Subscribers : Live(s) => s \in subs

\* An unborn subscriber has an empty queue.
FreshQueue == \A s \in Subscribers : task[s] = "unborn" => queue[s] = <<>>

OrderInv == TypeOK /\ Registered /\ FreshQueue /\ EveryMessageInOrder

------------------------------------------------------------------------------

LEMMA InitType == Init => TypeOK
<1> SUFFICES ASSUME Init PROVE TypeOK
  OBVIOUS
<1>1. PICK first \in Subscribers :
        /\ subs = {first}
        /\ task = [s \in Subscribers |-> IF s = first THEN "running" ELSE "unborn"]
        /\ queue = [s \in Subscribers |-> <<>>]
        /\ waker = [s \in Subscribers |-> FALSE]
        /\ notified = [s \in Subscribers |-> FALSE]
        /\ last = [s \in Subscribers |-> 0]
        /\ at = None /\ stage = "idle" /\ todo = {} /\ sent = 0
  BY DEF Init
<1>2. queue \in [Subscribers -> Seq(Nat)]
  BY <1>1
<1>3. task \in [Subscribers -> Tasks]
  BY <1>1 DEF Tasks
<1> QED
  BY <1>1, <1>2, <1>3 DEF TypeOK, Stages

LEMMA NextType == TypeOK /\ [Next]_vars => TypeOK'
<1> SUFFICES ASSUME TypeOK, [Next]_vars PROVE TypeOK'
  OBVIOUS
<1> USE DEF TypeOK, Stages, Tasks, pusher, mailbox
<1>1. CASE BeginPush
  BY <1>1, NobodyAssumption DEF BeginPush
<1>2. ASSUME NEW s \in Subscribers, PushTo(s) PROVE TypeOK'
  <2>1. CASE Live(s)
    <3>1. Append(queue[s], sent) \in Seq(Nat)
      OBVIOUS
    <3>2. queue' \in [Subscribers -> Seq(Nat)]
      BY <1>2, <2>1, <3>1 DEF PushTo
    <3> QED
      BY <1>2, <2>1, <3>2 DEF PushTo
  <2>2. CASE ~Live(s)
    BY <1>2, <2>2, NobodyAssumption DEF PushTo
  <2> QED
    BY <2>1, <2>2
<1>3. CASE TakeWaker
  BY <1>3, NobodyAssumption DEF TakeWaker
<1>4. CASE Wake
  BY <1>4, NobodyAssumption DEF Wake
<1>5. CASE EndPush
  BY <1>5, NobodyAssumption DEF EndPush
<1>6. ASSUME NEW s \in Subscribers, Subscribe(s) PROVE TypeOK'
  BY <1>6 DEF Subscribe
<1>7. ASSUME NEW s \in Subscribers, Drop(s) PROVE TypeOK'
  BY <1>7 DEF Drop
<1>8. ASSUME NEW s \in Subscribers, Pop(s) PROVE TypeOK'
  <2>1. queue[s] \in Seq(Nat) /\ queue[s] # <<>>
    BY <1>8 DEF Pop
  <2>2. Tail(queue[s]) \in Seq(Nat) /\ Head(queue[s]) \in Nat
    BY <2>1
  <2> QED
    BY <1>8, <2>2 DEF Pop
<1>9. ASSUME NEW s \in Subscribers,
             FindNothing(s) \/ Register(s) \/ Sleep(s) \/ Resume(s)
      PROVE TypeOK'
  BY <1>9 DEF FindNothing, Register, Sleep, Resume
<1>10. CASE UNCHANGED vars
  BY <1>10 DEF vars
<1> QED
  BY <1>1, <1>2, <1>3, <1>4, <1>5, <1>6, <1>7, <1>8, <1>9, <1>10
  DEF Next, RunPush, Receive

\* The state of broadcast.rs keeps its types: a push visits registered
\* subscribers only and serves one of them at a time, whatever the other
\* threads do meanwhile.
THEOREM TypeCorrect == Spec => []TypeOK
<1>1. Init => TypeOK
  BY InitType
<1>2. TypeOK /\ [Next]_vars => TypeOK'
  BY NextType
<1> QED
  BY <1>1, <1>2, PTL DEF Spec

------------------------------------------------------------------------------

LEMMA NextWake == WakeInv /\ [Next]_vars => WakerKept' /\ NoLostWakeup'
<1> SUFFICES ASSUME WakeInv, [Next]_vars PROVE WakerKept' /\ NoLostWakeup'
  OBVIOUS
<1> USE DEF WakeInv, TypeOK, WakerKept, NoLostWakeup, pusher, mailbox, Live
<1>1. CASE BeginPush
  BY <1>1 DEF BeginPush
<1>2. ASSUME NEW s \in Subscribers, PushTo(s) PROVE WakerKept' /\ NoLostWakeup'
  BY <1>2, NobodyAssumption DEF PushTo
<1>3. CASE TakeWaker
  BY <1>3, NobodyAssumption DEF TakeWaker
<1>4. CASE Wake
  BY <1>4, NobodyAssumption DEF Wake
<1>5. CASE EndPush
  BY <1>5 DEF EndPush
<1>6. ASSUME NEW s \in Subscribers, Subscribe(s) PROVE WakerKept' /\ NoLostWakeup'
  BY <1>6 DEF Subscribe
<1>7. ASSUME NEW s \in Subscribers, Drop(s) PROVE WakerKept' /\ NoLostWakeup'
  BY <1>7 DEF Drop
<1>8. ASSUME NEW s \in Subscribers, Pop(s) PROVE WakerKept' /\ NoLostWakeup'
  BY <1>8 DEF Pop
<1>9. ASSUME NEW s \in Subscribers, FindNothing(s) PROVE WakerKept' /\ NoLostWakeup'
  BY <1>9 DEF FindNothing
<1>10. ASSUME NEW s \in Subscribers, Register(s) PROVE WakerKept' /\ NoLostWakeup'
  BY <1>10 DEF Register
<1>11. ASSUME NEW s \in Subscribers, Sleep(s) PROVE WakerKept' /\ NoLostWakeup'
  BY <1>11 DEF Sleep
<1>12. ASSUME NEW s \in Subscribers, Resume(s) PROVE WakerKept' /\ NoLostWakeup'
  BY <1>12 DEF Resume
<1>13. CASE UNCHANGED vars
  BY <1>13 DEF vars
<1> QED
  BY <1>1, <1>2, <1>3, <1>4, <1>5, <1>6, <1>7, <1>8, <1>9, <1>10, <1>11, <1>12, <1>13
  DEF Next, RunPush, Receive

\* poll_recv and Subscriber::push lose no wake-up, for any number of
\* subscribers: a task asleep on a queued message is being woken or was.
THEOREM WakeupsKept == Spec => []NoLostWakeup
<1>1. Init => WakeInv
  <2> SUFFICES ASSUME Init PROVE WakerKept /\ NoLostWakeup
    BY InitType DEF WakeInv
  <2>1. \A s \in Subscribers : task[s] \in {"running", "unborn"}
    BY DEF Init
  <2> QED
    BY <2>1 DEF WakerKept, NoLostWakeup
<1>2. WakeInv /\ [Next]_vars => WakeInv'
  BY NextType, NextWake DEF WakeInv
<1>3. WakeInv => NoLostWakeup
  BY DEF WakeInv
<1> QED
  BY <1>1, <1>2, <1>3, PTL DEF Spec

------------------------------------------------------------------------------

\* A queue holds the messages after the a-th up to the n-th.
Holds(q, a, n) == (\A i \in 1..Len(q) : q[i] = a + i) /\ a + Len(q) = n

LEMMA AppendHolds ==
  ASSUME NEW q \in Seq(Nat), NEW a \in Nat, NEW n \in Nat, Holds(q, a, n - 1)
  PROVE Holds(Append(q, n), a, n)
<1>1. /\ Len(Append(q, n)) = Len(q) + 1 /\ Len(q) \in Nat
      /\ \A i \in 1..Len(q) + 1 : Append(q, n)[i] = IF i <= Len(q) THEN q[i] ELSE n
  OBVIOUS
<1>2. ASSUME NEW i \in 1..Len(q) + 1 PROVE Append(q, n)[i] = a + i
  <2>1. CASE i <= Len(q)
    BY <1>1, <2>1 DEF Holds
  <2>2. CASE i = Len(q) + 1
    BY <1>1, <2>2 DEF Holds
  <2> QED
    BY <1>1, <2>1, <2>2
<1>3. a + (Len(q) + 1) = n
  BY <1>1 DEF Holds
<1> QED
  BY <1>1, <1>2, <1>3 DEF Holds

LEMMA TailHolds ==
  ASSUME NEW q \in Seq(Nat), NEW a \in Nat, NEW n \in Nat, Holds(q, a, n), q # <<>>
  PROVE Head(q) = a + 1 /\ Holds(Tail(q), Head(q), n)
<1>1. /\ Len(q) \in Nat /\ Len(q) >= 1 /\ Len(Tail(q)) = Len(q) - 1
      /\ \A i \in 1..Len(q) - 1 : Tail(q)[i] = q[i + 1]
      /\ Head(q) = q[1]
  OBVIOUS
<1>2. Head(q) = a + 1
  BY <1>1 DEF Holds
<1>3. ASSUME NEW i \in 1..Len(q) - 1 PROVE Tail(q)[i] = (a + 1) + i
  <2>1. i + 1 \in 1..Len(q)
    BY <1>1
  <2>2. q[i + 1] = a + (i + 1)
    BY <2>1 DEF Holds
  <2> QED
    BY <1>1, <2>2
<1>4. (a + 1) + (Len(q) - 1) = n
  BY <1>1 DEF Holds
<1>5. Holds(Tail(q), a + 1, n)
  BY <1>1, <1>3, <1>4 DEF Holds
<1> QED
  BY <1>2, <1>5

LEMMA NextOrder == OrderInv /\ [Next]_vars => Registered' /\ FreshQueue' /\ EveryMessageInOrder'
<1> SUFFICES ASSUME OrderInv, [Next]_vars
             PROVE Registered' /\ FreshQueue' /\ EveryMessageInOrder'
  OBVIOUS
<1> DEFINE Ordered == Registered' /\ FreshQueue' /\ EveryMessageInOrder'
<1> USE DEF OrderInv, TypeOK, Registered, FreshQueue, EveryMessageInOrder, Due, Live, pusher, mailbox
<1>1. CASE BeginPush
  BY <1>1 DEF BeginPush
<1>2. ASSUME NEW s \in Subscribers, PushTo(s) PROVE Ordered
  <2>1. CASE Live(s)
    <3>3. Registered' /\ FreshQueue'
      BY <1>2, <2>1 DEF PushTo
    <3>4. ASSUME NEW z \in Subscribers, Live(z)', z # s
          PROVE /\ \A i \in 1..Len(queue'[z]) : queue'[z][i] = last'[z] + i
                /\ last'[z] + Len(queue'[z]) = Due(z)'
      BY <1>2, <2>1, <3>4 DEF PushTo
    <3>5. /\ queue'[s] = Append(queue[s], sent) /\ last'[s] = last[s] /\ Due(s)' = sent
          /\ queue[s] \in Seq(Nat) /\ last[s] \in Nat /\ sent \in Nat
          /\ Holds(queue[s], last[s], sent - 1)
      BY <1>2, <2>1 DEF PushTo, Holds
    <3>6. Holds(queue'[s], last'[s], Due(s)')
      BY <3>5, AppendHolds
    <3> QED
      BY <3>3, <3>4, <3>6 DEF Holds
  <2>2. CASE ~Live(s)
    BY <1>2, <2>2 DEF PushTo
  <2> QED
    BY <2>1, <2>2
<1>3. CASE TakeWaker \/ Wake \/ EndPush
  BY <1>3 DEF TakeWaker, Wake, EndPush
<1>6. ASSUME NEW s \in Subscribers, Subscribe(s) PROVE Ordered
  BY <1>6 DEF Subscribe
<1>7. ASSUME NEW s \in Subscribers, Drop(s) PROVE Ordered
  BY <1>7 DEF Drop
<1>8. ASSUME NEW s \in Subscribers, Pop(s) PROVE Ordered
  <2>3. Live(s)
    BY <1>8 DEF Pop
  <2>4. Registered' /\ FreshQueue'
    BY <1>8, <2>3 DEF Pop
  <2>5. ASSUME NEW z \in Subscribers, Live(z)', z # s
        PROVE /\ \A i \in 1..Len(queue'[z]) : queue'[z][i] = last'[z] + i
              /\ last'[z] + Len(queue'[z]) = Due(z)'
    BY <1>8, <2>5 DEF Pop
  <2>6. /\ queue'[s] = Tail(queue[s]) /\ last'[s] = Head(queue[s]) /\ Due(s)' = Due(s)
        /\ queue[s] \in Seq(Nat) /\ queue[s] # <<>> /\ last[s] \in Nat
        /\ Holds(queue[s], last[s], Due(s))
    BY <1>8, <2>3 DEF Pop, Holds
  <2>7. Due(s) \in Nat
    BY <2>6 DEF Holds
  <2>8. Holds(queue'[s], last'[s], Due(s)')
    BY <2>6, <2>7, TailHolds
  <2> QED
    BY <2>4, <2>5, <2>8 DEF Holds
<1>9. ASSUME NEW s \in Subscribers,
             FindNothing(s) \/ Register(s) \/ Sleep(s) \/ Resume(s)
      PROVE Ordered
  <2>1. /\ UNCHANGED <<subs, queue, last, todo, sent>>
        /\ \A z \in Subscribers : Live(z)' = Live(z) /\ (task'[z] = "unborn" => task[z] = "unborn")
    BY <1>9 DEF FindNothing, Register, Sleep, Resume
  <2> QED
    BY <2>1
<1>10. CASE UNCHANGED vars
  BY <1>10 DEF vars
<1> QED
  BY <1>1, <1>2, <1>3, <1>6, <1>7, <1>8, <1>9, <1>10 DEF Next, RunPush, Receive

\* BroadcastInner::push fans out completely: every live subscriber gets every
\* message pushed after it subscribed, once and in order, for any number of
\* subscribers that join, drop and are pruned during pushes.
THEOREM FanOutComplete == Spec => []EveryMessageInOrder
<1>1. Init => OrderInv
  <2> SUFFICES ASSUME Init PROVE Registered /\ FreshQueue /\ EveryMessageInOrder
    BY InitType DEF OrderInv
  <2>1. /\ \A s \in Subscribers : queue[s] = <<>> /\ last[s] = 0
        /\ \A s \in Subscribers : Live(s) => s \in subs
        /\ sent = 0 /\ todo = {}
    BY DEF Init, Live
  <2> QED
    BY <2>1 DEF Registered, FreshQueue, EveryMessageInOrder, Due
<1>2. OrderInv /\ [Next]_vars => OrderInv'
  BY NextType, NextOrder DEF OrderInv
<1>3. OrderInv => EveryMessageInOrder
  BY DEF OrderInv
<1> QED
  BY <1>1, <1>2, <1>3, PTL DEF Spec

==============================================================================
