-------------------------- MODULE PageScriptsProofs --------------------------
(***************************************************************************)
(* Proofs about the pages: what is proved of their NetworkWebSocket also   *)
(* holds with the scripts on top, and what the console shows is right      *)
(* whenever nothing is pending.  None of it needs timers to be punctual.   *)
(***************************************************************************)
EXTENDS PageScripts, ShimProofs

(***************************************************************************)
(* The invariant of the console.                                           *)
(***************************************************************************)

PeerHandle(timer) == timer.event.on # Root /\ timer.job = "handle"

\* The chain from __doClose of a peer's object to its 'disconnect'.
PeerClosing(timer) == PeerHandle(timer) /\ timer.event.type = "closing"
PeerClose(timer) == PeerHandle(timer) /\ timer.event.type = "close"
Disconnects(timer) == AtRoot(timer, "dispatch") /\ timer.event.type = "disconnect"

Connects(timer) == AtRoot(timer, "dispatch") /\ timer.event.type = "connect"

\* In the end of its chain the list is made anew.
Refreshes(timer) ==
  \/ PeerClosing(timer) \/ PeerClose(timer) \/ Disconnects(timer)
  \/ Connects(timer)
  \/ EndsRoot(timer)

\* The opening of the root, which shows the count.
Opens(timer) == timer.event.on = Root /\ timer.event.type = "open"

\* What a timer leaves for the next ones to do.
Remains(timer, next) ==
  /\ Refreshes(timer) => \E n \in DOMAIN next : Refreshes(next[n])
  /\ EndsRoot(timer) => \E n \in DOMAIN next : EndsRoot(next[n])
  /\ Opens(timer) => \E n \in DOMAIN next : Opens(next[n])

\* At the console no object of a peer begins to close after the root does, so
\* each link of the root's chain comes behind the same link of theirs.
EndsOrder(queue, done) ==
  /\ \A n \in DOMAIN queue :
       EndsRoot(queue[n]) =>
         /\ queue[n].event.detail = Root
         /\ \A m \in DOMAIN queue :
              /\ PeerClosing(queue[m]) =>
                   queue[n].job = "handle" /\ queue[n].event.type = "closing" /\ m < n
              /\ PeerClose(queue[m]) =>
                   /\ queue[n].job = "handle"
                   /\ queue[n].event.type = "closing" \/ m < n
              /\ Disconnects(queue[m]) => queue[n].job = "handle" \/ m < n
  /\ RootClose \in done =>
       \A n \in DOMAIN queue :
         ~PeerClosing(queue[n]) /\ ~PeerClose(queue[n]) /\ ~Disconnects(queue[n])

\* The list is right, or will be made anew.
ListFollows ==
  \/ list = Listed
  \/ ws = "closing"
  \/ \E n \in DOMAIN timers : Refreshes(timers[n])

\* The count is right, or will be shown anew: the last to show it is the root's
\* opening or a change of the peers, and in the end its close.
CountFollows ==
  /\ ws = "connecting" => count = None /\ timers = <<>>
  /\ ws = "open" =>
       \/ count = <<Len(peers)>>
       \/ \E n \in DOMAIN timers : Refreshes(timers[n]) \/ Opens(timers[n])
  /\ ws = "closed" =>
       \/ \E n \in DOMAIN timers : EndsRoot(timers[n])
       \/ RootClose \in fired /\ count = None

ConsoleInv ==
  Console => EndsOrder(timers, fired) /\ ListFollows /\ CountFollows

PagesInv == SInv /\ ConsoleInv

(***************************************************************************)
(* What timers do to it.                                                   *)
(***************************************************************************)

\* What is told of the queue besides the events that are announced.
Ordered(queue) == queue \in Seq(Timers) /\ InOrder(queue) /\ Fit(queue)

LEMMA UnclosedEndsOrder ==
  ASSUME NEW queue, NEW done, Unclosed(queue, done)
  PROVE  EndsOrder(queue, done)
  BY DEF Unclosed, EndsOrder

\* Timers before the root's end: what may be put in while it is pending.
Patient(queue, done, job, event) ==
  /\ event.on = Root =>
       /\ job = "handle" => event.type \notin {"closing", "close"}
       /\ job = "dispatch" => event.type # "close"
  /\ job = "handle" /\ event.on # Root /\ event.type = "closing" =>
       Unclosed(queue, done)
  /\ job = "handle" /\ event.on # Root /\ event.type = "close" =>
       /\ RootClose \notin done
       /\ \A n \in DOMAIN queue : EndsRoot(queue[n]) =>
            queue[n].job = "handle" /\ queue[n].event.type = "closing"
  /\ job = "dispatch" /\ event.on = Root /\ event.type = "disconnect" =>
       /\ RootClose \notin done
       /\ \A n \in DOMAIN queue : EndsRoot(queue[n]) => queue[n].job = "handle"

\* longer is queue with one timer more.
Grown(queue, longer, job, event) ==
  /\ \A n \in DOMAIN longer :
       \/ \E m \in DOMAIN queue : longer[n] = queue[m]
       \/ longer[n].job = job /\ longer[n].event = event
  /\ \A m \in DOMAIN queue : \E n \in DOMAIN longer : longer[n] = queue[m]
  /\ \E n \in DOMAIN longer : longer[n].job = job /\ longer[n].event = event

LEMMA OneInserts ==
  ASSUME NEW queue, Ordered(queue), NEW event \in Events,
         NEW job \in {"dispatch", "handle", "openPeer"},
         job = "openPeer" => event.on \in PeerObjects /\ event.type = "open",
         job = "handle" => event.type # "disconnect",
         NEW longer, longer = ScheduledAll(queue, DelayOf(job), job, <<event>>)
  PROVE  /\ Ordered(longer)
         /\ Grown(queue, longer, job, event)
         /\ \E up, at : Inserts(queue, longer, DelayOf(job), job, <<event>>, up, at)
<1> DEFINE delay == DelayOf(job)
           events == <<event>>
<1>1. /\ delay \in 0..(2 + OpenDelay)
      /\ job = "dispatch" => delay <= 2
      /\ job = "handle" => delay <= 1
  BY ShimAssumption DEF ShimAssumption, DelayOf
<1>2. events \in Seq(Events) /\ DOMAIN events = {1} /\ events[1] = event
  OBVIOUS
<1> HIDE DEF delay, events
<1>3. longer = ScheduledAll(queue, delay, job, events)
  BY DEF delay, events
<1>4. PICK up, at : Inserts(queue, longer, delay, job, events, up, at)
  BY <1>1, <1>2, <1>3, ScheduledAllInserts DEF Ordered
<1>5. Fit(longer)
  <2>1. job = "openPeer" => \A i \in DOMAIN events :
                              events[i].on \in PeerObjects /\ events[i].type = "open"
    BY <1>2
  <2> QED
    BY <1>1, <1>2, <1>4, <2>1, FitInserted DEF Ordered
<1>6. Ordered(longer)
  BY <1>4, <1>5 DEF Inserts, Ordered
<1>7. Grown(queue, longer, job, event)
  <2>1. \A m \in DOMAIN queue : up[m] \in DOMAIN longer /\ longer[up[m]] = queue[m]
    BY <1>4 DEF Inserts
  <2>2. at[1] \in DOMAIN longer /\ longer[at[1]].job = job /\ longer[at[1]].event = event
    BY <1>2, <1>4 DEF Inserts, IsTimer
  <2>3. \A n \in DOMAIN longer : n = at[1] \/ \E m \in DOMAIN queue : n = up[m]
    BY <1>2, <1>4 DEF Inserts
  <2> QED
    BY <2>1, <2>2, <2>3 DEF Grown
<1> QED
  BY <1>4, <1>6, <1>7 DEF delay, events

LEMMA EndsOrderInserted ==
  ASSUME NEW queue, NEW longer, NEW delay, NEW job, NEW event, NEW up, NEW at,
         Inserts(queue, longer, delay, job, <<event>>, up, at),
         NEW done, EndsOrder(queue, done), Patient(queue, done, job, event)
  PROVE  EndsOrder(longer, done)
<1> DEFINE c == at[1]
<1>1. \A m \in DOMAIN queue : up[m] \in DOMAIN longer /\ longer[up[m]] = queue[m]
  BY DEF Inserts
<1>2. DOMAIN <<event>> = {1} /\ <<event>>[1] = event
  OBVIOUS
<1>3. /\ longer[c].job = job /\ longer[c].event = event
      /\ \A n \in DOMAIN longer : n = c \/ \E m \in DOMAIN queue : n = up[m]
  BY <1>2 DEF Inserts, IsTimer
<1> HIDE DEF c
<1>4. ~EndsRoot(longer[c])
  BY <1>3 DEF Patient, EndsRoot, AtRoot
<1>5. /\ PeerClosing(longer[c]) => Unclosed(queue, done)
      /\ PeerClose(longer[c]) =>
           /\ RootClose \notin done
           /\ \A n \in DOMAIN queue : EndsRoot(queue[n]) =>
                queue[n].job = "handle" /\ queue[n].event.type = "closing"
      /\ Disconnects(longer[c]) =>
           /\ RootClose \notin done
           /\ \A n \in DOMAIN queue : EndsRoot(queue[n]) => queue[n].job = "handle"
  BY <1>3 DEF Patient, PeerClosing, PeerClose, PeerHandle, Disconnects, AtRoot
<1>6. ASSUME NEW n \in DOMAIN longer, EndsRoot(longer[n]), NEW m \in DOMAIN longer
      PROVE  /\ PeerClosing(longer[m]) =>
                  longer[n].job = "handle" /\ longer[n].event.type = "closing" /\ m < n
             /\ PeerClose(longer[m]) =>
                  /\ longer[n].job = "handle"
                  /\ longer[n].event.type = "closing" \/ m < n
             /\ Disconnects(longer[m]) => longer[n].job = "handle" \/ m < n
  <2>1. PICK x \in DOMAIN queue : n = up[x] /\ longer[n] = queue[x]
    BY <1>1, <1>3, <1>4, <1>6
  <2>2. CASE m = c
    BY <1>5, <1>6, <2>1, <2>2 DEF Unclosed
  <2>3. ASSUME NEW y \in DOMAIN queue, m = up[y]
        PROVE  /\ PeerClosing(longer[m]) =>
                    /\ longer[n].job = "handle"
                    /\ longer[n].event.type = "closing" /\ m < n
               /\ PeerClose(longer[m]) =>
                    /\ longer[n].job = "handle"
                    /\ longer[n].event.type = "closing" \/ m < n
               /\ Disconnects(longer[m]) => longer[n].job = "handle" \/ m < n
    <3>1. longer[m] = queue[y] /\ (y < x => m < n)
      BY <1>1, <2>1, <2>3 DEF Inserts
    <3>2. /\ PeerClosing(queue[y]) =>
               queue[x].job = "handle" /\ queue[x].event.type = "closing" /\ y < x
          /\ PeerClose(queue[y]) =>
               /\ queue[x].job = "handle"
               /\ queue[x].event.type = "closing" \/ y < x
          /\ Disconnects(queue[y]) => queue[x].job = "handle" \/ y < x
      BY <1>6, <2>1 DEF EndsOrder
    <3> QED
      BY <2>1, <3>1, <3>2
  <2> QED
    BY <1>3, <2>2, <2>3
<1>7. \A n \in DOMAIN longer : EndsRoot(longer[n]) => longer[n].event.detail = Root
  BY <1>1, <1>3, <1>4 DEF EndsOrder
<1>8. ASSUME RootClose \in done, NEW n \in DOMAIN longer
      PROVE  ~PeerClosing(longer[n]) /\ ~PeerClose(longer[n]) /\ ~Disconnects(longer[n])
  <2>1. CASE n = c
    BY <1>5, <1>8, <2>1 DEF Unclosed
  <2>2. ASSUME NEW y \in DOMAIN queue, n = up[y]
        PROVE  ~PeerClosing(longer[n]) /\ ~PeerClose(longer[n]) /\ ~Disconnects(longer[n])
    BY <1>1, <1>8, <2>2 DEF EndsOrder
  <2> QED
    BY <1>3, <2>1, <2>2
<1> QED
  BY <1>6, <1>8, <1>7 DEF EndsOrder

\* The links of the root's chain come behind those of its peers.
LEMMA EndInserted ==
  ASSUME NEW queue, NEW longer, NEW job, NEW event, NEW up, NEW at,
         Inserts(queue, longer, DelayOf(job), job, <<event>>, up, at), Fit(queue),
         NEW done, Unclosed(queue, done), event.on = Root, event.detail = Root,
         \/ job = "handle" /\ event.type = "closing"
         \/ /\ job = "handle" /\ event.type = "close"
            /\ \A n \in DOMAIN queue : ~PeerClosing(queue[n])
         \/ /\ job = "dispatch" /\ event.type = "close"
            /\ \A n \in DOMAIN queue : ~PeerClosing(queue[n]) /\ ~PeerClose(queue[n])
  PROVE  EndsOrder(longer, done)
<1> DEFINE c == at[1]
<1>1. \A m \in DOMAIN queue : up[m] \in DOMAIN longer /\ longer[up[m]] = queue[m]
  BY DEF Inserts
<1>2. DOMAIN <<event>> = {1} /\ <<event>>[1] = event
  OBVIOUS
<1>3. /\ longer[c].job = job /\ longer[c].event = event
      /\ \A m \in DOMAIN queue : queue[m].wait <= DelayOf(job) => up[m] < c
      /\ \A n \in DOMAIN longer : n = c \/ \E m \in DOMAIN queue : n = up[m]
  BY <1>2 DEF Inserts, IsTimer
<1>4. (job = "handle" => DelayOf(job) = 1) /\ (job = "dispatch" => DelayOf(job) = 2)
  BY DEF DelayOf
<1> HIDE DEF c
<1>5. ASSUME NEW m \in DOMAIN longer
      PROVE  /\ PeerClosing(longer[m]) =>
                  longer[c].job = "handle" /\ longer[c].event.type = "closing" /\ m < c
             /\ PeerClose(longer[m]) =>
                  /\ longer[c].job = "handle"
                  /\ longer[c].event.type = "closing" \/ m < c
             /\ Disconnects(longer[m]) => longer[c].job = "handle" \/ m < c
  <2>1. CASE m = c
    BY <1>3, <2>1 DEF PeerClosing, PeerClose, PeerHandle, Disconnects, AtRoot
  <2>2. CASE m # c
    <3>1. PICK x \in DOMAIN queue : m = up[x] /\ longer[m] = queue[x]
      BY <1>1, <1>3, <2>2
    <3>2. queue[x].job = job => m < c
      BY <1>3, <1>4, <3>1 DEF Fit
    <3> QED
      BY <1>3, <3>1, <3>2 DEF PeerClosing, PeerClose, PeerHandle, Disconnects, AtRoot
  <2> QED
    BY <2>1, <2>2
<1>6. \A n \in DOMAIN longer : EndsRoot(longer[n]) => n = c
  BY <1>1, <1>3 DEF Unclosed
<1>7. RootClose \notin done
  BY DEF Unclosed
<1> QED
  BY <1>3, <1>5, <1>6, <1>7 DEF EndsOrder

\* What remains when a timer fires.
LEMMA EndsOrderFiring ==
  ASSUME NEW queue, Ordered(queue), queue # <<>>, NEW done, EndsOrder(queue, done)
  PROVE  /\ Ordered(Tail(queue))
         /\ EndsOrder(Tail(queue), FiredBy(Head(queue), done))
         /\ \A m \in DOMAIN queue :
              \/ queue[m] = Head(queue)
              \/ \E n \in DOMAIN Tail(queue) : Tail(queue)[n] = queue[m]
         /\ \A n \in DOMAIN Tail(queue) : \E m \in DOMAIN queue : Tail(queue)[n] = queue[m]
         /\ PeerClosing(Head(queue)) =>
              /\ RootClose \notin done
              /\ \A n \in DOMAIN Tail(queue) : EndsRoot(Tail(queue)[n]) =>
                   /\ Tail(queue)[n].job = "handle"
                   /\ Tail(queue)[n].event.type = "closing"
         /\ PeerClose(Head(queue)) =>
              /\ RootClose \notin done
              /\ \A n \in DOMAIN Tail(queue) : EndsRoot(Tail(queue)[n]) =>
                   Tail(queue)[n].job = "handle"
         /\ EndsRoot(Head(queue)) =>
              /\ Head(queue).event.detail = Root
              /\ \A n \in DOMAIN Tail(queue) :
                   /\ ~PeerClosing(Tail(queue)[n])
                   /\ Head(queue).event.type # "closing" => ~PeerClose(Tail(queue)[n])
         /\ RootClose \in done => ~Disconnects(Head(queue))
<1> DEFINE rest == Tail(queue)
           head == Head(queue)
           now == FiredBy(head, done)
<1>1. /\ rest \in Seq(Timers) /\ head = queue[1]
      /\ head \in Timers /\ 1 \in DOMAIN queue
      /\ \A n \in DOMAIN rest : n + 1 \in DOMAIN queue /\ rest[n] = queue[n + 1] /\ n \in Nat
      /\ \A m \in DOMAIN queue :
           m \in Nat /\ m >= 1 /\ (m # 1 => m - 1 \in DOMAIN rest)
  BY TailFacts DEF Ordered
<1>2. \A m \in DOMAIN queue : m # 1 => m - 1 \in DOMAIN rest /\ rest[m - 1] = queue[m]
  BY <1>1
<1>3. \A m, n \in DOMAIN rest : m < n <=> m + 1 < n + 1
  BY <1>1
<1> HIDE DEF rest, head
<1>4. Ordered(rest)
  <2>1. InOrder(rest)
    BY <1>1, <1>3 DEF Ordered, InOrder
  <2>2. Fit(rest)
    BY <1>1 DEF Ordered, Fit
  <2> QED
    BY <1>1, <2>1, <2>2 DEF Ordered
<1>5. RootClose \in now /\ RootClose \notin done =>
        head.job = "dispatch" /\ EndsRoot(head)
  BY EventFields DEF FiredBy, EndsRoot, AtRoot, RootClose
<1> HIDE DEF now
<1>6. ASSUME NEW n \in DOMAIN rest, EndsRoot(rest[n]), NEW m \in DOMAIN rest
      PROVE  /\ PeerClosing(rest[m]) =>
                  rest[n].job = "handle" /\ rest[n].event.type = "closing" /\ m < n
             /\ PeerClose(rest[m]) =>
                  /\ rest[n].job = "handle"
                  /\ rest[n].event.type = "closing" \/ m < n
             /\ Disconnects(rest[m]) => rest[n].job = "handle" \/ m < n
  <2>1. /\ m + 1 \in DOMAIN queue /\ n + 1 \in DOMAIN queue
        /\ rest[m] = queue[m + 1] /\ rest[n] = queue[n + 1]
        /\ m < n <=> m + 1 < n + 1
    BY <1>1
  <2> QED
    BY <1>6, <2>1 DEF EndsOrder
<1>7. /\ EndsRoot(head) => head.event.detail = Root
      /\ \A n \in DOMAIN rest : EndsRoot(rest[n]) => rest[n].event.detail = Root
  BY <1>1 DEF EndsOrder
<1>8. ASSUME NEW n \in DOMAIN rest, EndsRoot(head)
      PROVE  /\ ~PeerClosing(rest[n])
             /\ head.event.type # "closing" => ~PeerClose(rest[n])
             /\ head.job = "dispatch" => ~PeerClose(rest[n]) /\ ~Disconnects(rest[n])
  <2>1. n + 1 \in DOMAIN queue /\ rest[n] = queue[n + 1] /\ ~(n + 1 < 1)
    BY <1>1
  <2>2. head.job = "dispatch" => head.job # "handle"
    OBVIOUS
  <2> QED
    BY <1>1, <1>8, <2>1, <2>2 DEF EndsOrder
<1>9. EndsOrder(rest, now)
  <2>1. ASSUME RootClose \in now, NEW n \in DOMAIN rest
        PROVE  ~PeerClosing(rest[n]) /\ ~PeerClose(rest[n]) /\ ~Disconnects(rest[n])
    <3>1. CASE RootClose \in done
      BY <1>1, <3>1 DEF EndsOrder
    <3>2. CASE RootClose \notin done
      BY <1>5, <1>8, <2>1, <3>2
    <3> QED
      BY <3>1, <3>2
  <2>2. ASSUME NEW n \in DOMAIN rest, EndsRoot(rest[n])
        PROVE  /\ rest[n].event.detail = Root
               /\ \A m \in DOMAIN rest :
                    /\ PeerClosing(rest[m]) =>
                         rest[n].job = "handle" /\ rest[n].event.type = "closing" /\ m < n
                    /\ PeerClose(rest[m]) =>
                         /\ rest[n].job = "handle"
                         /\ rest[n].event.type = "closing" \/ m < n
                    /\ Disconnects(rest[m]) => rest[n].job = "handle" \/ m < n
    BY <1>6, <1>7, <2>2
  <2> QED
    BY <2>1, <2>2 DEF EndsOrder
<1>10. PeerClosing(head) =>
        /\ RootClose \notin done
        /\ \A n \in DOMAIN rest : EndsRoot(rest[n]) =>
             rest[n].job = "handle" /\ rest[n].event.type = "closing"
  BY <1>1 DEF EndsOrder
<1>11. PeerClose(head) =>
         /\ RootClose \notin done
         /\ \A n \in DOMAIN rest : EndsRoot(rest[n]) => rest[n].job = "handle"
  BY <1>1 DEF EndsOrder
<1>12. RootClose \in done => ~Disconnects(head)
  BY <1>1 DEF EndsOrder
<1>13. \A m \in DOMAIN queue : queue[m] = head \/ \E n \in DOMAIN rest : rest[n] = queue[m]
  BY <1>1, <1>2
<1>14. \A n \in DOMAIN rest : \E m \in DOMAIN queue : rest[n] = queue[m]
  BY <1>1
<1> QED
  BY <1>4, <1>8, <1>9, <1>10, <1>11, <1>12, <1>13, <1>14, <1>7 DEF rest, head, now

\* One timer put in, for an event that the order allows.
LEMMA PatientKeeps ==
  ASSUME NEW queue, Ordered(queue), NEW event \in Events,
         NEW job \in {"dispatch", "handle", "openPeer"},
         job = "openPeer" => event.on \in PeerObjects /\ event.type = "open",
         job = "handle" => event.type # "disconnect",
         NEW longer, longer = ScheduledAll(queue, DelayOf(job), job, <<event>>),
         NEW done, EndsOrder(queue, done), Patient(queue, done, job, event)
  PROVE  EndsOrder(longer, done)
<1>1. PICK up, at : Inserts(queue, longer, DelayOf(job), job, <<event>>, up, at)
  BY OneInserts
<1> QED
  BY <1>1, EndsOrderInserted

\* One timer put in that belongs to the end of the root.
LEMMA EndKeeps ==
  ASSUME NEW queue, Ordered(queue), NEW event \in Events,
         NEW job \in {"dispatch", "handle"},
         NEW longer, longer = ScheduledAll(queue, DelayOf(job), job, <<event>>),
         NEW done, Unclosed(queue, done), event.on = Root, event.detail = Root,
         \/ job = "handle" /\ event.type = "closing"
         \/ /\ job = "handle" /\ event.type = "close"
            /\ \A n \in DOMAIN queue : ~PeerClosing(queue[n])
         \/ /\ job = "dispatch" /\ event.type = "close"
            /\ \A n \in DOMAIN queue : ~PeerClosing(queue[n]) /\ ~PeerClose(queue[n])
  PROVE  EndsOrder(longer, done)
<1>1. job \in {"dispatch", "handle", "openPeer"} /\ job # "openPeer"
  OBVIOUS
<1>2. PICK up, at : Inserts(queue, longer, DelayOf(job), job, <<event>>, up, at)
  BY <1>1, OneInserts
<1> QED
  BY <1>2, EndInserted DEF Ordered

\* Each link of a chain puts in the next one.
LEMMA HandledAtConsole ==
  ASSUME NEW queue, NEW done, NEW made, Pending(queue, done, made), queue # <<>>,
         Head(queue).job = "handle", EndsOrder(queue, done), NEW next,
         next = Handled(Tail(queue), Head(queue).event)
  PROVE  /\ EndsOrder(next, done)
         /\ \A m \in DOMAIN queue : Remains(queue[m], next)
<1> DEFINE rest == Tail(queue)
           head == Head(queue)
           event == head.event
           d == DispatchEvent(rest, event)
<1>1. /\ Ordered(queue)
      /\ head \in Timers
      /\ head.event.type # "disconnect"
  <2>1. Ordered(queue) /\ head \in Timers /\ head = queue[1] /\ 1 \in DOMAIN queue
    BY TailFacts DEF Pending, Ordered
  <2> QED
    BY <2>1 DEF Ordered, Fit
<1>2. /\ event \in Events /\ event.on \in Objects /\ event.type \in EventTypes
      /\ event.on # Root => event.on \in PeerObjects
  <2>1. event \in Events
    BY <1>1 DEF Timers
  <2> HIDE DEF event
  <2> QED
    BY <2>1, EventsTyped
<1>3. FiredBy(head, done) = done
  BY DEF FiredBy
<1>4. /\ Ordered(rest) /\ EndsOrder(rest, done)
      /\ \A m \in DOMAIN queue :
           queue[m] = head \/ \E n \in DOMAIN rest : rest[n] = queue[m]
  BY <1>1, <1>3, EndsOrderFiring
<1>5. /\ PeerClosing(head) =>
           /\ RootClose \notin done
           /\ \A n \in DOMAIN rest : EndsRoot(rest[n]) =>
                rest[n].job = "handle" /\ rest[n].event.type = "closing"
      /\ PeerClose(head) =>
           /\ RootClose \notin done
           /\ \A n \in DOMAIN rest : EndsRoot(rest[n]) => rest[n].job = "handle"
      /\ EndsRoot(head) =>
           /\ event.detail = Root
           /\ \A n \in DOMAIN rest :
                /\ ~PeerClosing(rest[n])
                /\ head.event.type # "closing" => ~PeerClose(rest[n])
  BY <1>1, EndsOrderFiring
<1>6. EndsRoot(head) => Unclosed(rest, done)
  <2>1. EndsRoot(head) => AtRoot(head, "handle")
    BY DEF EndsRoot, AtRoot
  <2> QED
    BY <2>1, FiringKeeps
<1>7. /\ EndsRoot(head) <=> event.on = Root /\ event.type \in {"closing", "close"}
      /\ PeerClosing(head) <=> event.on # Root /\ event.type = "closing"
      /\ PeerClose(head) <=> event.on # Root /\ event.type = "close"
      /\ Opens(head) <=> event.on = Root /\ event.type = "open"
      /\ ~Disconnects(head) /\ ~Connects(head)
  BY DEF EndsRoot, AtRoot, PeerClosing, PeerClose, PeerHandle, Opens, Disconnects, Connects
<1>8. d = ScheduledAll(rest, DelayOf("dispatch"), "dispatch", <<event>>)
  BY Delays
<1>9. next = Handled(rest, event)
  OBVIOUS
<1>10. event.type = head.event.type
  OBVIOUS
<1> HIDE DEF rest, head, event, d
<1>11. Ordered(d) /\ Grown(rest, d, "dispatch", event)
  BY <1>2, <1>4, <1>8, OneInserts
<1>12. ASSUME ~EndsRoot(head) PROVE EndsOrder(d, done)
  <2>1. Patient(rest, done, "dispatch", event)
    BY <1>1, <1>7, <1>12, <1>10 DEF Patient
  <2> QED
    BY <1>2, <1>4, <1>8, <2>1, PatientKeeps
<1>13. /\ \A n \in DOMAIN d :
            \/ \E m \in DOMAIN rest : d[n] = rest[m]
            \/ d[n].job = "dispatch" /\ d[n].event = event
       /\ \A m \in DOMAIN rest : \E n \in DOMAIN d : d[n] = rest[m]
       /\ \E n \in DOMAIN d : d[n].job = "dispatch" /\ d[n].event = event
  BY <1>11 DEF Grown
<1>14. ASSUME \/ next = d
              \/ \E job, last : Grown(d, next, job, last)
       PROVE  /\ \A m \in DOMAIN queue : queue[m] # head => Remains(queue[m], next)
              /\ Opens(head) => \E n \in DOMAIN next : Opens(next[n])
  <2>1. \A n \in DOMAIN d : \E m \in DOMAIN next : next[m] = d[n]
    BY <1>14 DEF Grown
  <2>2. \A n \in DOMAIN rest : \E m \in DOMAIN next : next[m] = rest[n]
    BY <1>13, <2>1
  <2>3. \A m \in DOMAIN queue : queue[m] # head => \E n \in DOMAIN next : next[n] = queue[m]
    BY <1>4, <2>2
  <2>4. Opens(head) => \E n \in DOMAIN d : Opens(d[n])
    BY <1>7, <1>13 DEF Opens
  <2>5. Opens(head) => \E n \in DOMAIN next : Opens(next[n])
    BY <2>1, <2>4
  <2> QED
    BY <2>3, <2>5 DEF Remains
<1>15. CASE EndsRoot(head) /\ event.type = "closing"
  <2> DEFINE close == Simple(Root, "close")
  <2>1. next = ScheduledAll(d, DelayOf("handle"), "handle", <<close>>)
    BY <1>7, <1>9, <1>15, Delays DEF Handled, d
  <2>2. /\ close.on = Root /\ close.type = "close" /\ close.detail = Root
        /\ close \in Events
    BY EventFields DEF Simple, Objects, EventTypes
  <2> HIDE DEF close
  <2>3. Unclosed(d, done) /\ \A n \in DOMAIN d : ~PeerClosing(d[n])
    BY <1>5, <1>6, <1>13, <1>15 DEF Unclosed, EndsRoot, AtRoot, PeerClosing, PeerHandle
  <2>4. EndsOrder(next, done)
    BY <1>11, <2>1, <2>2, <2>3, EndKeeps
  <2>5. Grown(d, next, "handle", close)
    BY <1>11, <2>1, <2>2, OneInserts
  <2>6. \E n \in DOMAIN next : EndsRoot(next[n])
    BY <2>2, <2>5 DEF Grown, EndsRoot, AtRoot
  <2>7. Remains(head, next)
    BY <1>14, <2>5, <2>6 DEF Remains, Refreshes
  <2> QED
    BY <1>14, <2>4, <2>5, <2>7
<1>16. CASE EndsRoot(head) /\ event.type = "close"
  <2>1. next = d
    BY <1>7, <1>9, <1>16 DEF Handled, d
  <2>2. \A n \in DOMAIN rest : ~PeerClosing(rest[n]) /\ ~PeerClose(rest[n])
    BY <1>5, <1>16, <1>10
  <2>3. EndsOrder(d, done)
    BY <1>2, <1>4, <1>5, <1>6, <1>7, <1>8, <1>16, <2>2, EndKeeps
  <2>4. \E n \in DOMAIN next : EndsRoot(next[n])
    BY <1>7, <1>13, <1>16, <2>1 DEF EndsRoot, AtRoot
  <2>5. Remains(head, next)
    BY <1>14, <2>1, <2>4 DEF Remains, Refreshes
  <2> QED
    BY <1>14, <2>1, <2>3, <2>5
<1>17. CASE PeerClosing(head)
  <2> DEFINE close == Simple(event.on, "close")
  <2>1. next = ScheduledAll(d, DelayOf("handle"), "handle", <<close>>)
    BY <1>7, <1>9, <1>17, Delays DEF Handled, d
  <2>2. close.on = event.on /\ close.type = "close" /\ close \in Events
    BY <1>2, EventFields DEF Simple, EventTypes
  <2> HIDE DEF close
  <2>3. event.on # Root /\ ~EndsRoot(head)
    BY <1>7, <1>17
  <2>4. /\ RootClose \notin done
        /\ \A n \in DOMAIN d : EndsRoot(d[n]) =>
             d[n].job = "handle" /\ d[n].event.type = "closing"
    BY <1>5, <1>13, <1>17, <2>3 DEF EndsRoot, AtRoot
  <2>5. Patient(d, done, "handle", close)
    BY <2>2, <2>3, <2>4 DEF Patient
  <2>6. EndsOrder(next, done)
    BY <1>11, <1>12, <2>1, <2>2, <2>3, <2>5, PatientKeeps
  <2>7. Grown(d, next, "handle", close)
    BY <1>11, <2>1, <2>2, OneInserts
  <2>8. \E n \in DOMAIN next : PeerClose(next[n])
    BY <2>2, <2>3, <2>7 DEF Grown, PeerClose, PeerHandle
  <2>9. Remains(head, next)
    BY <1>14, <2>3, <2>7, <2>8 DEF Remains, Refreshes
  <2> QED
    BY <1>14, <2>6, <2>7, <2>9
<1>18. CASE PeerClose(head)
  <2> DEFINE gone == Event(Root, "disconnect", event.on)
  <2>1. next = ScheduledAll(d, DelayOf("dispatch"), "dispatch", <<gone>>)
    BY <1>7, <1>9, <1>18, Delays DEF Handled, d
  <2>2. gone.on = Root /\ gone.type = "disconnect" /\ gone \in Events
    BY <1>2, EventFields DEF EventTypes, Objects
  <2> HIDE DEF gone
  <2>3. event.on # Root /\ ~EndsRoot(head)
    BY <1>7, <1>18
  <2>4. /\ RootClose \notin done
        /\ \A n \in DOMAIN d : EndsRoot(d[n]) => d[n].job = "handle"
    BY <1>5, <1>13, <1>18, <2>3 DEF EndsRoot, AtRoot
  <2>5. Patient(d, done, "dispatch", gone)
    BY <2>2, <2>4 DEF Patient
  <2>6. EndsOrder(next, done)
    BY <1>11, <1>12, <2>1, <2>2, <2>3, <2>5, PatientKeeps
  <2>7. Grown(d, next, "dispatch", gone)
    BY <1>11, <2>1, <2>2, OneInserts
  <2>8. \E n \in DOMAIN next : Disconnects(next[n])
    BY <2>2, <2>7 DEF Grown, Disconnects, AtRoot
  <2>9. Remains(head, next)
    BY <1>14, <2>3, <2>7, <2>8 DEF Remains, Refreshes
  <2> QED
    BY <1>14, <2>6, <2>7, <2>9
<1>19. CASE event.type \notin {"closing", "close"}
  <2>1. next = d
    BY <1>9, <1>19 DEF Handled, d
  <2>2. ~EndsRoot(head) /\ ~PeerClosing(head) /\ ~PeerClose(head)
    BY <1>7, <1>19
  <2>3. EndsOrder(next, done)
    BY <1>12, <2>1, <2>2
  <2>4. Remains(head, next)
    BY <1>7, <1>14, <2>1, <2>2 DEF Remains, Refreshes
  <2> QED
    BY <1>14, <2>1, <2>3, <2>4
<1> QED
  BY <1>7, <1>15, <1>16, <1>17, <1>18, <1>19

(***************************************************************************)
(* The steps of the console.                                               *)
(***************************************************************************)

LEMMA UnclosedAtConsole ==
  ASSUME SInv, ws # "closed"
  PROVE  EndsOrder(timers, fired)
  BY UnclosedEndsOrder DEF SInv

LEMMA StillThere ==
  ASSUME NEW timer, NEW next, \E n \in DOMAIN next : next[n] = timer
  PROVE  Remains(timer, next)
  BY DEF Remains

\* Time passes: what is to be done stays.
LEMMA WaitingAtConsole ==
  ASSUME SInv, EndsOrder(timers, fired), Elapse
  PROVE  /\ EndsOrder(timers', fired)
         /\ \A n \in DOMAIN timers : Remains(timers[n], timers')
<1>1. \A n \in DOMAIN timers : timers[n] \in Timers
  BY DEF SInv, Pending
<1>2. DOMAIN timers' = DOMAIN timers
  BY DEF Elapse
<1>3. ASSUME NEW n \in DOMAIN timers
      PROVE  timers'[n].job = timers[n].job /\ timers'[n].event = timers[n].event
  BY <1>1 DEF Elapse, Timers
<1>4. ASSUME NEW n \in DOMAIN timers
      PROVE  /\ EndsRoot(timers'[n]) <=> EndsRoot(timers[n])
             /\ PeerClosing(timers'[n]) <=> PeerClosing(timers[n])
             /\ PeerClose(timers'[n]) <=> PeerClose(timers[n])
             /\ Disconnects(timers'[n]) <=> Disconnects(timers[n])
             /\ Connects(timers'[n]) <=> Connects(timers[n])
             /\ Opens(timers'[n]) <=> Opens(timers[n])
  BY <1>3 DEF EndsRoot, AtRoot, PeerClosing, PeerClose, PeerHandle, Disconnects,
              Connects, Opens
<1>5. \A n \in DOMAIN timers : Remains(timers[n], timers')
  BY <1>2, <1>4 DEF Remains, Refreshes
<1> QED
  BY <1>2, <1>3, <1>4, <1>5 DEF EndsOrder

\* Steps that only move timers on.
LEMMA Carried ==
  ASSUME SInv, ListFollows, CountFollows, timers # <<>>,
         UNCHANGED <<ws, peers, fired, list, count>>,
         \A n \in DOMAIN timers : Remains(timers[n], timers')
  PROVE  ListFollows' /\ CountFollows'
<1>1. ws # "connecting"
  BY DEF CountFollows
<1>2. ListFollows'
  BY DEF ListFollows, Listed, Remains
<1>3. ws = "open" =>
        \/ count' = <<Len(peers)>>
        \/ \E n \in DOMAIN timers' : Refreshes(timers'[n]) \/ Opens(timers'[n])
  BY DEF CountFollows, Remains
<1>4. ws = "closed" =>
        \/ \E n \in DOMAIN timers' : EndsRoot(timers'[n])
        \/ RootClose \in fired /\ count' = None
  BY DEF CountFollows, Remains
<1> QED
  BY <1>1, <1>2, <1>3, <1>4 DEF CountFollows

LEMMA ElapseAtConsole ==
  ASSUME PagesInv, Console, Elapse, UNCHANGED scriptVars
  PROVE  ConsoleInv'
<1>1. /\ SInv /\ EndsOrder(timers, fired) /\ ListFollows /\ CountFollows
      /\ timers # <<>>
      /\ UNCHANGED <<ws, peers, fired, list, count>>
  BY DEF PagesInv, ConsoleInv, Elapse, scriptVars, consoleVars
<1> QED
  BY <1>1, WaitingAtConsole, Carried DEF ConsoleInv, Elapse

LEMMA HandleAtConsole ==
  ASSUME PagesInv, Console, Handle, UNCHANGED scriptVars
  PROVE  ConsoleInv'
<1>1. /\ SInv /\ EndsOrder(timers, fired) /\ ListFollows /\ CountFollows
      /\ timers # <<>> /\ Head(timers).job = "handle"
      /\ timers' = Handled(Tail(timers), Head(timers).event)
      /\ UNCHANGED <<ws, peers, fired, list, count>>
  BY DEF PagesInv, ConsoleInv, Handle, Due, scriptVars, consoleVars
<1>2. Pending(timers, fired, Created)
  BY <1>1 DEF SInv
<1>3. /\ EndsOrder(timers', fired)
      /\ \A n \in DOMAIN timers : Remains(timers[n], timers')
  BY <1>1, <1>2, HandledAtConsole
<1> QED
  BY <1>1, <1>3, Carried DEF ConsoleInv

LEMMA OpenPeerAtConsole ==
  ASSUME PagesInv, Console, OpenPeer, UNCHANGED scriptVars
  PROVE  ConsoleInv'
<1> DEFINE event == Head(timers).event
           rest == Tail(timers)
           head == Head(timers)
<1>1. /\ SInv /\ EndsOrder(timers, fired) /\ ListFollows /\ CountFollows
      /\ timers # <<>> /\ head.job = "openPeer"
      /\ timers' = HandleEvent(rest, event)
      /\ UNCHANGED <<ws, peers, fired, list, count>>
  BY DEF PagesInv, ConsoleInv, OpenPeer, Due, scriptVars, consoleVars
<1>2. Ordered(timers)
  BY <1>1 DEF SInv, Pending, Ordered
<1>3. event \in Events /\ event.on \in PeerObjects /\ event.type = "open"
  <2>1. head \in Timers /\ 1 \in DOMAIN timers /\ head = timers[1]
    BY <1>1, <1>2, TailFacts DEF Ordered
  <2> QED
    BY <1>1, <1>2, <2>1 DEF Ordered, Fit, Timers
<1>4. /\ Ordered(rest) /\ EndsOrder(rest, fired)
      /\ \A m \in DOMAIN timers :
           timers[m] = head \/ \E n \in DOMAIN rest : rest[n] = timers[m]
  <2>1. FiredBy(head, fired) = fired
    BY <1>1 DEF FiredBy
  <2> QED
    BY <1>1, <1>2, <2>1, EndsOrderFiring
<1>5. event.on # Root
  BY <1>3 DEF PeerObjects, Root
<1>6. timers' = ScheduledAll(rest, DelayOf("handle"), "handle", <<event>>)
  BY <1>1, Delays
<1>7. ~Refreshes(head) /\ ~EndsRoot(head) /\ ~Opens(head)
  BY <1>1, <1>5 DEF Refreshes, EndsRoot, AtRoot, PeerClosing, PeerClose, PeerHandle,
                    Disconnects, Connects, Opens
<1> HIDE DEF event, rest, head
<1>8. EndsOrder(timers', fired)
  <2>1. Patient(rest, fired, "handle", event)
    BY <1>3, <1>5 DEF Patient
  <2> QED
    BY <1>3, <1>4, <1>6, <2>1, PatientKeeps
<1>9. \A n \in DOMAIN timers : Remains(timers[n], timers')
  <2>1. Grown(rest, timers', "handle", event)
    BY <1>3, <1>4, <1>6, OneInserts
  <2>2. \A m \in DOMAIN timers :
          timers[m] = head \/ \E n \in DOMAIN timers' : timers'[n] = timers[m]
    BY <1>4, <2>1 DEF Grown
  <2> QED
    BY <1>7, <2>2 DEF Remains
<1> QED
  BY <1>1, <1>8, <1>9, Carried DEF ConsoleInv

\* webSocket.onopen: the list is right, and the count will be.
LEMMA SocketOpensAtConsole ==
  ASSUME PagesInv, Console, SocketOpens, UNCHANGED scriptVars
  PROVE  ConsoleInv'
<1> DEFINE open == Simple(Root, "open")
<1>1. /\ SInv /\ ListFollows /\ CountFollows /\ ws = "connecting" /\ ws' = "open"
      /\ UNCHANGED <<peers, list>>
  BY DEF PagesInv, ConsoleInv, SocketOpens, scriptVars, consoleVars
<1>2. timers' = ScheduledAll(timers, DelayOf("handle"), "handle", <<open>>)
  BY Delays DEF SocketOpens, OpenRoot
<1>3. open.on = Root /\ open.type = "open" /\ open \in Events
  BY EventFields DEF Simple, Objects, EventTypes
<1> HIDE DEF open
<1>4. EndsOrder(timers', fired')
  <2>1. SInv'
    BY <1>1, SocketOpensKeeps
  <2> QED
    BY <1>1, <2>1, UnclosedEndsOrder DEF SInv
<1>5. ListFollows'
  <2>1. list = Listed
    BY <1>1 DEF CountFollows, ListFollows
  <2> QED
    BY <1>1, <2>1 DEF ListFollows, Listed
<1>6. \E n \in DOMAIN timers' : Opens(timers'[n])
  <2>1. Ordered(timers)
    BY <1>1 DEF SInv, Pending, Ordered
  <2>2. Grown(timers, timers', "handle", open)
    BY <1>2, <1>3, <2>1, OneInserts
  <2> QED
    BY <1>3, <2>2 DEF Grown, Opens
<1>7. CountFollows'
  BY <1>1, <1>6 DEF CountFollows
<1> QED
  BY <1>4, <1>5, <1>7 DEF ConsoleInv

\* webSocket.onclose: the root's chain begins behind those of its peers.
LEMMA SocketClosesAtConsole ==
  ASSUME PagesInv, Console, SocketCloses, UNCHANGED scriptVars
  PROVE  ConsoleInv'
<1> DEFINE closed == DoCloseAll(timers, peers)
           end == Closing(Root)
<1>1. SInv /\ ws # "closed" /\ ws' = "closed" /\ fired' = fired
  BY DEF PagesInv, SocketCloses
<1>2. timers' = ScheduledAll(closed, DelayOf("handle"), "handle", <<end>>)
  BY Delays DEF SocketCloses, CloseRoot, DoClose
<1>3. Ordered(closed) /\ Unclosed(closed, fired)
  BY <1>1, DoCloseAllKeeps DEF Pending, Ordered
<1>4. end.on = Root /\ end.type = "closing" /\ end.detail = Root /\ end \in Events
  BY EventFields DEF end, Closing, Simple, Objects, EventTypes
<1> HIDE DEF closed, end
<1>5. EndsOrder(timers', fired)
  BY <1>2, <1>3, <1>4, EndKeeps
<1>6. \E n \in DOMAIN timers' : EndsRoot(timers'[n])
  <2>1. Grown(closed, timers', "handle", end)
    BY <1>2, <1>3, <1>4, OneInserts
  <2> QED
    BY <1>4, <2>1 DEF Grown, EndsRoot, AtRoot
<1>7. ListFollows' /\ CountFollows'
  BY <1>1, <1>6 DEF ListFollows, Refreshes, CountFollows
<1> QED
  BY <1>1, <1>5, <1>7 DEF ConsoleInv

\* A change of the peers of an open root, for which the list will be made anew.
LEMMA PeersChange ==
  ASSUME SInv', ws' = "open", \E n \in DOMAIN timers' : Refreshes(timers'[n])
  PROVE  ConsoleInv'
<1>1. EndsOrder(timers', fired')
  BY UnclosedEndsOrder DEF SInv
<1> QED
  BY <1>1 DEF ConsoleInv, ListFollows, CountFollows

LEMMA ReceiveConnectAtConsole ==
  ASSUME PagesInv, NEW i \in PeerIds, ReceiveConnect(i)
  PROVE  ConsoleInv'
<1> DEFINE k == 1 + Cardinality(Created)
           told == DispatchEvent(timers, Connect(k))
           open == Simple(k, "open")
<1>1. SInv /\ SInv' /\ ws' = "open" /\ k \in PeerObjects /\ timers' = Announce(timers, k)
  BY ReceiveConnectKeeps DEF PagesInv, ReceiveConnect
<1> HIDE DEF k
<1>2. told = ScheduledAll(timers, DelayOf("dispatch"), "dispatch", <<Connect(k)>>)
  BY Delays
<1>3. timers' = ScheduledAll(told, DelayOf("openPeer"), "openPeer", <<open>>)
  BY <1>1, Delays DEF Announce, Connect
<1>4. /\ Connect(k).on = Root /\ Connect(k).type = "connect" /\ Connect(k) \in Events
      /\ open.on = k /\ open.type = "open" /\ open \in Events
  <2>1. k \in Objects /\ Root \in Objects
    BY <1>1 DEF Objects
  <2> QED
    BY <2>1, EventFields DEF Connect, Simple, EventTypes
<1> HIDE DEF told, open
<1>5. Ordered(told) /\ Grown(timers, told, "dispatch", Connect(k))
  <2>1. Ordered(timers)
    BY <1>1 DEF SInv, Pending, Ordered
  <2> QED
    BY <1>2, <1>4, <2>1, OneInserts
<1>6. Grown(told, timers', "openPeer", open)
  BY <1>1, <1>3, <1>4, <1>5, OneInserts
<1>7. \E n \in DOMAIN told : Connects(told[n])
  BY <1>4, <1>5 DEF Grown, Connects, AtRoot
<1>8. \E n \in DOMAIN timers' : Refreshes(timers'[n])
  BY <1>6, <1>7 DEF Grown, Refreshes
<1> QED
  BY <1>1, <1>8, PeersChange

LEMMA ReceiveDisconnectAtConsole ==
  ASSUME PagesInv, NEW i \in PeerIds, ReceiveDisconnect(i)
  PROVE  ConsoleInv'
<1>1. SInv /\ SInv' /\ ws' = "open"
  BY ReceiveDisconnectKeeps DEF PagesInv, ReceiveDisconnect
<1>2. PICK n \in DOMAIN peers : timers' = DoClose(timers, peers[n].object)
  BY DEF ReceiveDisconnect
<1>3. peers[n].object \in Created
  BY <1>1, ListedCreated DEF SInv
<1> DEFINE event == Closing(peers[n].object)
<1>4. event.on \in PeerObjects /\ event.type = "closing" /\ event \in Events
  BY <1>3, CreatedObjects, EventFields DEF Closing, Simple, EventTypes, Created
<1>5. timers' = ScheduledAll(timers, DelayOf("handle"), "handle", <<event>>)
  BY <1>2, Delays DEF DoClose
<1> HIDE DEF event
<1>6. Grown(timers, timers', "handle", event)
  <2>1. Ordered(timers)
    BY <1>1 DEF SInv, Pending, Ordered
  <2> QED
    BY <1>4, <1>5, <2>1, OneInserts
<1>7. event.on # Root
  BY <1>4 DEF PeerObjects, Root
<1>8. \E m \in DOMAIN timers' : Refreshes(timers'[m])
  BY <1>4, <1>6, <1>7 DEF Grown, Refreshes, PeerClosing, PeerHandle
<1> QED
  BY <1>1, <1>8, PeersChange

\* The console's listeners: at what belongs to the end of a chain the list is
\* made anew, and the count shown anew.
LEMMA ConsoleHearing ==
  ASSUME NEW timer \in Timers, timer.job = "dispatch", ConsoleHears(timer.event)
  PROVE  /\ list' \in {list, Listed} /\ (Refreshes(timer) => list' = Listed)
         /\ timer.event.type # "close" \/ timer.event.on # Root =>
              count' \in {count, <<Len(peers)>>}
         /\ (Refreshes(timer) \/ Opens(timer)) /\ ~EndsRoot(timer) =>
              count' = <<Len(peers)>>
         /\ EndsRoot(timer) => count' = None
         /\ timer.event.on # Root => count' = count
<1> DEFINE event == timer.event
<1>1. /\ Refreshes(timer) => event.on = Root /\ event.type \in {"connect", "disconnect", "close"}
      /\ EndsRoot(timer) <=> event.on = Root /\ event.type = "close"
      /\ Opens(timer) <=> event.on = Root /\ event.type = "open"
      /\ Refreshes(timer) /\ ~EndsRoot(timer) => event.type \in {"connect", "disconnect"}
  BY DEF Refreshes, EndsRoot, AtRoot, PeerClosing, PeerClose, PeerHandle, Disconnects,
         Connects, Opens
<1> HIDE DEF event
<1>2. ConsoleHears(event)
  BY DEF event
<1> QED
  BY <1>1, <1>2 DEF ConsoleHears, RefreshPeerList, Refresh, event

LEMMA DispatchAtConsole ==
  ASSUME PagesInv, Console, DispatchToPage
  PROVE  ConsoleInv'
<1> DEFINE head == Head(timers)
           rest == Tail(timers)
<1>1. /\ SInv /\ EndsOrder(timers, fired) /\ ListFollows /\ CountFollows
      /\ timers # <<>> /\ head.job = "dispatch" /\ timers' = rest
      /\ fired' = fired \cup {head.event}
      /\ UNCHANGED <<ws, peers>>
      /\ ConsoleHears(head.event)
  BY DEF PagesInv, ConsoleInv, DispatchToPage, Dispatch, Due
<1>2. Pending(timers, fired, Created) /\ Ordered(timers)
  BY <1>1 DEF SInv, Pending, Ordered
<1>3. /\ head \in Timers /\ head.event \in Events
      /\ 1 \in DOMAIN timers /\ head = timers[1]
  <2>1. head \in Timers /\ 1 \in DOMAIN timers /\ head = timers[1]
    BY <1>1, <1>2, TailFacts DEF Ordered
  <2> QED
    BY <2>1 DEF Timers
<1>4. FiredBy(head, fired) = fired'
  BY <1>1 DEF FiredBy
<1>5. /\ EndsOrder(rest, fired')
      /\ \A m \in DOMAIN timers :
           timers[m] = head \/ \E n \in DOMAIN rest : rest[n] = timers[m]
      /\ EndsRoot(head) => head.event.detail = Root
      /\ RootClose \in fired => ~Disconnects(head)
  <2>1. EndsOrder(rest, FiredBy(head, fired))
    BY <1>1, <1>2, EndsOrderFiring
  <2>2. \A m \in DOMAIN timers :
          timers[m] = head \/ \E n \in DOMAIN rest : rest[n] = timers[m]
    BY <1>1, <1>2, EndsOrderFiring
  <2>3. EndsRoot(head) => head.event.detail = Root
    BY <1>1, <1>2, EndsOrderFiring
  <2>4. RootClose \in fired => ~Disconnects(head)
    BY <1>1, <1>2, EndsOrderFiring
  <2> HIDE DEF head, rest
  <2> QED
    BY <1>4, <2>1, <2>2, <2>3, <2>4
<1>6. RootClose \in fired /\ head.event.on = Root => head.event.type = "disconnect"
  BY <1>1, <1>2, FiringKeeps DEF AtRoot
<1> HIDE DEF head, rest
<1>7. /\ list' \in {list, Listed} /\ (Refreshes(head) => list' = Listed)
      /\ head.event.type # "close" \/ head.event.on # Root =>
           count' \in {count, <<Len(peers)>>}
      /\ (Refreshes(head) \/ Opens(head)) /\ ~EndsRoot(head) => count' = <<Len(peers)>>
      /\ EndsRoot(head) => count' = None
      /\ head.event.on # Root => count' = count
  BY <1>1, <1>3, ConsoleHearing
<1>8. Listed' = Listed
  BY <1>1 DEF Listed
<1>9. ListFollows'
  <2>1. CASE list' = Listed
    BY <1>8, <2>1 DEF ListFollows
  <2>2. CASE list' = list /\ ~Refreshes(head)
    <3>1. ASSUME NEW m \in DOMAIN timers, Refreshes(timers[m])
          PROVE  \E n \in DOMAIN rest : Refreshes(rest[n])
      <4>1. PICK n \in DOMAIN rest : rest[n] = timers[m]
        BY <1>5, <2>2, <3>1
      <4> QED
        BY <3>1, <4>1
    <3> QED
      BY <1>1, <1>8, <2>2, <3>1 DEF ListFollows
  <2> QED
    BY <1>7, <2>1, <2>2
<1>10. ASSUME ws = "open"
       PROVE  \/ count' = <<Len(peers)>>
              \/ \E n \in DOMAIN rest : Refreshes(rest[n]) \/ Opens(rest[n])
  <2>1. ~EndsRoot(head)
    BY <1>1, <1>3, <1>10 DEF SInv, Unclosed
  <2>2. count' \in {count, <<Len(peers)>>}
    BY <1>1, <1>7, <2>1 DEF EndsRoot, AtRoot
  <2>3. CASE Refreshes(head) \/ Opens(head)
    BY <1>7, <2>1, <2>3
  <2>4. CASE ~Refreshes(head) /\ ~Opens(head)
    <3>1. ASSUME NEW m \in DOMAIN timers, Refreshes(timers[m]) \/ Opens(timers[m])
          PROVE  \E n \in DOMAIN rest : Refreshes(rest[n]) \/ Opens(rest[n])
      <4>1. PICK n \in DOMAIN rest : rest[n] = timers[m]
        BY <1>5, <2>4, <3>1
      <4> QED
        BY <3>1, <4>1
    <3> QED
      BY <1>1, <1>10, <2>2, <3>1 DEF CountFollows
  <2> QED
    BY <2>3, <2>4
<1>11. ASSUME ws = "closed"
       PROVE  \/ \E n \in DOMAIN rest : EndsRoot(rest[n])
              \/ RootClose \in fired' /\ count' = None
  <2>1. CASE RootClose \in fired /\ count = None
    <3>1. head.event.on # Root
      BY <1>1, <1>5, <1>6, <2>1 DEF Disconnects, AtRoot
    <3> QED
      BY <1>1, <1>7, <2>1, <3>1
  <2>2. CASE EndsRoot(head)
    <3>1. head.event.on = Root /\ head.event.type = "close" /\ head.event.detail = Root
      BY <1>1, <1>5, <2>2 DEF EndsRoot, AtRoot
    <3>2. head.event = RootClose
      BY <1>3, <3>1 DEF RootClose, Event, Events
    <3> QED
      BY <1>1, <1>7, <2>2, <3>2
  <2>3. ASSUME NEW m \in DOMAIN timers, EndsRoot(timers[m]), ~EndsRoot(head)
        PROVE  \E n \in DOMAIN rest : EndsRoot(rest[n])
    <3>1. PICK n \in DOMAIN rest : rest[n] = timers[m]
      BY <1>5, <2>3
    <3> QED
      BY <2>3, <3>1
  <2> QED
    BY <1>1, <1>11, <2>1, <2>2, <2>3 DEF CountFollows
<1>12. CountFollows'
  <2>1. ws # "connecting"
    BY <1>1 DEF CountFollows
  <2> QED
    BY <1>1, <1>10, <1>11, <2>1 DEF CountFollows
<1> QED
  BY <1>1, <1>5, <1>9, <1>12 DEF ConsoleInv

\* disconnect() of the console.
LEMMA DisconnectAtConsole ==
  ASSUME PagesInv, Disconnect
  PROVE  ConsoleInv'
<1>1. SInv /\ ws # "closed" /\ ws' = "closing" /\ UNCHANGED <<timers, fired>>
  BY DEF PagesInv, Disconnect
<1>2. EndsOrder(timers', fired')
  BY <1>1, UnclosedAtConsole
<1> QED
  BY <1>1, <1>2 DEF ConsoleInv, ListFollows, CountFollows

(***************************************************************************)
(* The theorems.                                                           *)
(***************************************************************************)

\* A step of a page is one of its NetworkWebSocket, or the console's disconnect().
LEMMA PageStep ==
  ASSUME [NextPages]_pagesVars
  PROVE  [Next]_vars \/ Disconnect
<1>1. ASSUME NEW i \in PeerIds, ReceiveConnectAtPage(i) PROVE Next
  BY <1>1 DEF ReceiveConnectAtPage, Next, Socket
<1>2. CASE Unseen
  BY <1>2 DEF Unseen, ReceiveDataAtPage, Next, Socket
<1>3. CASE TimersOfPage
  BY <1>3 DEF TimersOfPage, DispatchToPage, Next, Fire
<1>4. CASE ElapseAtPage
  BY <1>4 DEF ElapseAtPage, Next
<1>5. ASSUME NEW choice \in PeerIds \cup {"*"}, Choose(choice) PROVE UNCHANGED vars
  BY <1>5 DEF Choose
<1>6. SendToAll \/ SendToPeer \/ Render => UNCHANGED vars
  BY DEF SendToAll, SendToPeer, Sends, Render
<1>7. UNCHANGED pagesVars => UNCHANGED vars
  BY DEF pagesVars
<1> QED
  BY <1>1, <1>2, <1>3, <1>4, <1>5, <1>6, <1>7 DEF NextPages

\* So every page keeps the invariant of its NetworkWebSocket.
LEMMA SocketOfPage ==
  ASSUME SInv, [NextPages]_pagesVars
  PROVE  SInv' /\ [NothingLate]_vars /\ [Forward(Root)]_vars
<1>1. CASE Disconnect
  <2>1. SInv'
    BY <1>1, ClosingKeeps DEF Disconnect
  <2>2. NothingLate
    BY <1>1 DEF Disconnect, NothingLate
  <2>3. Forward(Root)
    <3>1. readyState[Root] \in {"none", "connecting", "open", "closing", "closed"}
      BY DEF SInv, TypeOK, Objects
    <3> QED
      BY <1>1, <3>1 DEF Disconnect, Forward, Rank
  <2> QED
    BY <2>1, <2>2, <2>3
<1>2. CASE Next
  BY <1>2, Step
<1>3. CASE UNCHANGED vars
  BY <1>3, Stuttering
<1> QED
  BY <1>1, <1>2, <1>3, PageStep

\* Steps that neither the NetworkWebSocket nor what the console shows take part in.
LEMMA NothingShown ==
  ASSUME PagesInv, UNCHANGED <<vars, script, list, count>>
  PROVE  ConsoleInv'
  BY DEF PagesInv, ConsoleInv, Console, ListFollows, CountFollows, Listed, vars

LEMMA ConsoleKeeps ==
  ASSUME PagesInv, [NextPages]_pagesVars
  PROVE  ConsoleInv'
<1>1. CASE UNCHANGED pagesVars
  BY <1>1, NothingShown DEF pagesVars, scriptVars, consoleVars
<1>2. CASE ~Console
  <2>1. script' = script
    BY DEF NextPages, pagesVars, scriptVars, ReceiveConnectAtPage, Unseen, TimersOfPage,
           DispatchToPage, ElapseAtPage, Choose, SendToAll, SendToPeer, Sends,
           Disconnect, Render
  <2> QED
    BY <1>2, <2>1 DEF ConsoleInv, Console
<1>3. ASSUME Console, NEW i \in PeerIds, ReceiveConnectAtPage(i) PROVE ConsoleInv'
  BY <1>3, ReceiveConnectAtConsole DEF ReceiveConnectAtPage
<1>4. CASE Console /\ Unseen
  <2>1. script # "any"
    BY <1>4 DEF Console
  <2>2. SocketOpens \/ SocketCloses \/ \E i \in PeerIds : ReceiveDisconnect(i)
    BY <1>4, <2>1 DEF Unseen, ReceiveDataAtPage
  <2>3. UNCHANGED scriptVars
    BY <1>4 DEF Unseen
  <2> QED
    BY <1>4, <2>2, <2>3, SocketOpensAtConsole, SocketClosesAtConsole,
       ReceiveDisconnectAtConsole
<1>5. CASE Console /\ TimersOfPage
  BY <1>5, DispatchAtConsole, HandleAtConsole, OpenPeerAtConsole DEF TimersOfPage
<1>6. CASE Console /\ ElapseAtPage
  BY <1>6, ElapseAtConsole DEF ElapseAtPage
<1>7. ASSUME NEW choice \in PeerIds \cup {"*"}, Choose(choice) PROVE ConsoleInv'
  BY <1>7, NothingShown DEF Choose
<1>8. CASE SendToAll \/ SendToPeer \/ Render
  BY <1>8, NothingShown DEF SendToAll, SendToPeer, Sends, Render, consoleVars
<1>9. CASE Disconnect
  BY <1>9, DisconnectAtConsole
<1> QED
  BY <1>1, <1>2, <1>3, <1>4, <1>5, <1>6, <1>7, <1>8, <1>9 DEF NextPages

\* The inductive invariant of the pages.
THEOREM PagesInvariant == PagesSpec => []PagesInv
<1>1. InitPages => PagesInv
  <2>1. ASSUME InitPages PROVE ConsoleInv
    <3>1. EndsOrder(timers, fired)
      BY <2>1 DEF InitPages, Init, EndsOrder
    <3>2. Listed = <<>>
      BY <2>1 DEF InitPages, Init, Listed
    <3> QED
      BY <2>1, <3>1, <3>2 DEF InitPages, Init, ConsoleInv, ListFollows, CountFollows
  <2> QED
    BY <2>1, Initially DEF InitPages, PagesInv
<1>2. PagesInv /\ [NextPages]_pagesVars => PagesInv'
  BY SocketOfPage, ConsoleKeeps DEF PagesInv
<1> QED
  BY <1>1, <1>2, PTL DEF PagesSpec

\* Type correctness with the scripts on top, the console's disconnect() included.
THEOREM PagesTypeCorrect == PagesSpec => []TypeOK
<1>1. PagesInv => TypeOK
  BY DEF PagesInv, SInv
<1> QED
  BY <1>1, PagesInvariant, PTL

\* On every page 'connect' comes before anything else about a peer.
THEOREM PagesConnectFirst == PagesSpec => []ConnectFirst
<1>1. PagesInv => ConnectFirst
  BY DEF PagesInv, SInv
<1> QED
  BY <1>1, PagesInvariant, PTL

\* On every page the root object fires nothing but the 'disconnect' of peers
\* after its 'close'.
THEOREM PagesNothingAfterClose == PagesSpec => NothingAfterClose
<1>1. PagesInv /\ [NextPages]_pagesVars => [NothingLate]_vars
  BY SocketOfPage DEF PagesInv
<1> QED
  BY <1>1, PagesInvariant, PTL DEF PagesSpec, NothingAfterClose

\* On every page the root object's readyState never goes back.
THEOREM PagesRootForward == PagesSpec => RootForward
<1>1. PagesInv /\ [NextPages]_pagesVars => [Forward(Root)]_vars
  BY SocketOfPage DEF PagesInv
<1> QED
  BY <1>1, PagesInvariant, PTL DEF PagesSpec, RootForward

\* Whenever no timer is pending, the console shows the peers that are listed, and
\* no count before the root opens and once it has closed.
THEOREM ConsoleAlwaysFollows == PagesSpec => []ConsoleFollows
<1>1. PagesInv => ConsoleFollows
  <2>1. ASSUME PagesInv, Console, timers = <<>>, ws # "closing"
        PROVE  list = Listed /\ count = IF ws = "open" THEN <<Len(peers)>> ELSE None
    <3>1. DOMAIN timers = {}
      BY <2>1
    <3>2. ws \in {"connecting", "open", "closing", "closed"}
      BY <2>1 DEF PagesInv, SInv, TypeOK
    <3> QED
      BY <2>1, <3>1, <3>2 DEF PagesInv, ConsoleInv, ListFollows, CountFollows
  <2> QED
    BY <2>1 DEF ConsoleFollows
<1> QED
  BY <1>1, PagesInvariant, PTL
=============================================================================
