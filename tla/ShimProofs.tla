----------------------------- MODULE ShimProofs -----------------------------
(***************************************************************************)
(* Proofs about the NetworkWebSocket of a page, for any number of peer     *)
(* objects, any uuids and payloads and any delay until a peer opens: what  *)
(* the queue of timers keeps, and from it the order in which the page      *)
(* hears of its peers and of the end.                                      *)
(***************************************************************************)
EXTENDS Shim, FiniteSetTheorems, SequenceTheorems, TLAPS

Timers == [wait : 0..(2 + OpenDelay),
           job : {"dispatch", "handle", "openPeer"}, event : Events]

(***************************************************************************)
(* The invariant.                                                          *)
(***************************************************************************)

\* Timers stand in the order in which they are due.
InOrder(queue) ==
  \A m, n \in DOMAIN queue : m < n => queue[m].wait <= queue[n].wait

\* What the timers of each job look like.
Fit(queue) ==
  \A n \in DOMAIN queue :
    /\ queue[n].job = "dispatch" => queue[n].wait <= 2
    /\ queue[n].job = "handle" =>
         queue[n].wait <= 1 /\ queue[n].event.type # "disconnect"
    /\ queue[n].job = "openPeer" =>
         queue[n].event.on \in PeerObjects /\ queue[n].event.type = "open"

Connect(k) == Event(Root, "connect", k)

IsConnect(timer, k) == timer.job = "dispatch" /\ timer.event = Connect(k)

\* The events at the object of peer k, and its 'disconnect' at the root.
About(event, k) ==
  event.on = k \/ (event.type = "disconnect" /\ event.detail = k)

\* Every object made has its 'connect' fired or pending, and whatever is
\* dispatched about it is due after that.
AnnouncedFirst(queue, done, made) ==
  /\ \A k \in made :
       Connect(k) \in done \/ \E n \in DOMAIN queue : IsConnect(queue[n], k)
  /\ \A n \in DOMAIN queue, k \in PeerObjects :
       About(queue[n].event, k) =>
         /\ k \in made
         /\ queue[n].job = "dispatch" =>
              \/ Connect(k) \in done
              \/ \E m \in DOMAIN queue : m < n /\ IsConnect(queue[m], k)

RootClose == Event(Root, "close", Root)

AtRoot(timer, job) == timer.event.on = Root /\ timer.job = job

\* The timers of the chain from __doClose of the root to its 'close'.
EndsRoot(timer) ==
  \/ AtRoot(timer, "handle") /\ timer.event.type \in {"closing", "close"}
  \/ AtRoot(timer, "dispatch") /\ timer.event.type = "close"

\* What is still dispatched at the root besides the 'disconnect' of peers.
Live(timer) == AtRoot(timer, "dispatch") /\ timer.event.type # "disconnect"

\* The root has not begun to close.
Unclosed(queue, done) ==
  RootClose \notin done /\ \A n \in DOMAIN queue : ~EndsRoot(queue[n])

\* The root closes once, behind everything that came before.
RootOrder(queue, done) ==
  /\ \A n \in DOMAIN queue :
       EndsRoot(queue[n]) =>
         /\ RootClose \notin done
         /\ \A m \in DOMAIN queue \ {n} :
              /\ ~EndsRoot(queue[m])
              /\ AtRoot(queue[m], "handle") =>
                   m < n /\ AtRoot(queue[n], "handle") /\ queue[n].event.type = "closing"
              /\ Live(queue[m]) /\ queue[n].job = "dispatch" => m < n
  /\ RootClose \in done =>
       \A n \in DOMAIN queue : ~AtRoot(queue[n], "handle") /\ ~Live(queue[n])

\* The pending timers of a page whose listeners have got done, and which has
\* made these objects.
Pending(queue, done, made) ==
  /\ queue \in Seq(Timers) /\ InOrder(queue) /\ Fit(queue)
  /\ AnnouncedFirst(queue, done, made)
  /\ RootOrder(queue, done)

\* What the root is still to handle.
RootHandles(queue) ==
  {queue[n].event : n \in {m \in DOMAIN queue : AtRoot(queue[m], "handle")}}

\* Once it is closing the root has nothing left to handle but its close.
RootState(queue, state, socket) ==
  /\ state[Root] # "none"
  /\ state[Root] \in {"closing", "closed"} =>
       /\ socket = "closed"
       /\ \A event \in RootHandles(queue) : event.type = "close"

SInv ==
  /\ TypeOK
  /\ Pending(timers, fired, Created)
  /\ ws # "closed" => Unclosed(timers, fired)
  /\ RootState(timers, readyState, ws)
  /\ ConnectFirst

(***************************************************************************)
(* Where a new timer goes.                                                 *)
(***************************************************************************)

\* The least element of a set of naturals.
LEMMA LeastNatural ==
  ASSUME NEW T, T \subseteq Nat, T # {}
  PROVE  \E x \in T : \A y \in T : x <= y
<1> DEFINE R == OpToRel(<, Nat)
<1>1. IsWellFoundedOn(R, Nat)
  BY NatLessThanWellFounded
<1>2. \A x, y \in Nat : y < x => <<y, x>> \in R
  BY DEF OpToRel
<1> HIDE DEF R
<1>3. PICK x \in T : \A y \in T : ~ (<<y, x>> \in R)
  BY <1>1, WFMin
<1>4. \A y \in T : ~ (y < x)
  BY <1>2, <1>3
<1> QED
  BY <1>4

\* A new timer goes between those due no later and those due later.
LEMMA PlaceFacts ==
  ASSUME NEW queue \in Seq(Timers), InOrder(queue), NEW delay \in Nat
  PROVE  /\ Place(queue, delay) \in 1..(Len(queue) + 1)
         /\ \A m \in 1..(Place(queue, delay) - 1) : queue[m].wait <= delay
         /\ \A m \in Place(queue, delay)..Len(queue) : queue[m].wait > delay
<1> DEFINE soon == {n \in DOMAIN queue : queue[n].wait <= delay}
           late == {n \in 1..(Len(queue) + 1) : n \notin soon}
<1>1. DOMAIN queue = 1..Len(queue) /\ Len(queue) \in Nat
  OBVIOUS
<1>2. \A n \in 1..Len(queue) : queue[n].wait \in Int
  <2>1. \A n \in 1..Len(queue) : queue[n] \in Timers
    OBVIOUS
  <2> QED
    BY <2>1 DEF Timers
<1>3. late \subseteq Nat /\ Len(queue) + 1 \in late
  <2>1. Len(queue) + 1 \notin DOMAIN queue /\ Len(queue) + 1 \in 1..(Len(queue) + 1)
    BY <1>1
  <2> QED
    BY <1>1, <2>1
<1>4. PICK c \in late : \A n \in late : c <= n
  BY <1>3, LeastNatural
<1>5. soon = 1..(c - 1)
  <2>1. \A n \in 1..(c - 1) : n \in soon
    BY <1>1, <1>3, <1>4
  <2>2. ASSUME NEW n \in soon PROVE n < c
    <3>1. CASE c = Len(queue) + 1
      BY <1>1, <3>1
    <3>2. CASE c # Len(queue) + 1
      <4>1. c \in 1..Len(queue) /\ queue[c].wait > delay
        BY <1>1, <1>2, <3>2
      <4>2. n # c /\ ~(c < n)
        BY <1>1, <1>2, <4>1 DEF InOrder
      <4> QED
        BY <1>1, <4>1, <4>2
    <3> QED
      BY <3>1, <3>2
  <2> QED
    BY <1>1, <1>3, <2>1, <2>2
<1>6. Cardinality(soon) = c - 1
  <2>1. c \in Nat /\ c - 1 \in Int /\ c >= 1
    BY <1>1
  <2>2. Cardinality(1..(c - 1)) = IF 1 > c - 1 THEN 0 ELSE (c - 1) - 1 + 1
    BY <2>1, FS_Interval
  <2> HIDE DEF soon, late
  <2> QED
    BY <1>5, <2>1, <2>2
<1>7. Place(queue, delay) = c
  <2>1. Place(queue, delay) = 1 + Cardinality(soon)
    BY DEF Place
  <2>2. Cardinality(soon) = c - 1
    BY <1>6
  <2>3. c \in Nat
    BY <1>1
  <2> HIDE DEF soon, late
  <2> QED
    BY <2>1, <2>2, <2>3
<1>8. c \in 1..(Len(queue) + 1)
  BY <1>4
<1>9. \A m \in 1..(c - 1) : queue[m].wait <= delay
  BY <1>5
<1>10. ASSUME NEW m \in c..Len(queue)
      PROVE  queue[m].wait > delay
  <2>1. m \in 1..Len(queue) /\ ~(m \in 1..(c - 1))
    BY <1>1, <1>8
  <2>2. ~(queue[m].wait <= delay)
    BY <1>1, <1>5, <2>1
  <2>3. queue[m].wait \in Int
    BY <1>2, <2>1
  <2> QED
    BY <2>2, <2>3
<1> HIDE DEF soon, late
<1> QED
  BY <1>7, <1>8, <1>9, <1>10

IsTimer(timer, delay, job, event) ==
  timer.wait = delay /\ timer.job = job /\ timer.event = event

\* longer is queue with a timer for each of events put in behind those due no
\* later: up tells where the old timers have gone, at where the new ones are.
Inserts(queue, longer, delay, job, events, up, at) ==
  /\ longer \in Seq(Timers) /\ InOrder(longer)
  /\ up \in [DOMAIN queue -> DOMAIN longer]
  /\ at \in [DOMAIN events -> DOMAIN longer]
  /\ \A n \in DOMAIN longer :
       (\E m \in DOMAIN queue : n = up[m]) \/ (\E i \in DOMAIN events : n = at[i])
  /\ \A m, n \in DOMAIN queue : m < n => up[m] < up[n]
  /\ \A m \in DOMAIN queue : longer[up[m]] = queue[m]
  /\ \A i \in DOMAIN events :
       /\ IsTimer(longer[at[i]], delay, job, events[i])
       /\ \A m \in DOMAIN queue : queue[m].wait <= delay => up[m] < at[i]

LEMMA Concatenation ==
  ASSUME NEW s \in Seq(Timers), NEW t \in Seq(Timers)
  PROVE  /\ s \o t \in Seq(Timers)
         /\ Len(s \o t) = Len(s) + Len(t)
         /\ \A i \in 1..Len(s) : (s \o t)[i] = s[i]
         /\ \A i \in 1..Len(t) : (s \o t)[Len(s) + i] = t[i]
  OBVIOUS

\* window.setTimeout for a list of events is such an insertion.
LEMMA ScheduledAllInserts ==
  ASSUME NEW queue \in Seq(Timers), InOrder(queue), NEW delay \in 0..(2 + OpenDelay),
         NEW job \in {"dispatch", "handle", "openPeer"}, NEW events \in Seq(Events)
  PROVE  \E up, at : Inserts(queue, ScheduledAll(queue, delay, job, events),
                             delay, job, events, up, at)
<1> DEFINE p == Place(queue, delay)
           longer == ScheduledAll(queue, delay, job, events)
           batch == [i \in DOMAIN events |->
                       [wait |-> delay, job |-> job, event |-> events[i]]]
           a == SubSeq(queue, 1, p - 1)
           b == SubSeq(queue, p, Len(queue))
           e == Len(events)
           up == [m \in DOMAIN queue |-> IF m < p THEN m ELSE m + e]
           at == [i \in DOMAIN events |-> i + p - 1]
<1>1. /\ Len(queue) \in Nat /\ DOMAIN queue = 1..Len(queue)
      /\ \A m \in 1..Len(queue) : queue[m] \in Timers
  OBVIOUS
<1>2. e \in Nat /\ DOMAIN events = 1..e /\ \A i \in 1..e : events[i] \in Events
  OBVIOUS
<1>3. /\ p \in 1..(Len(queue) + 1)
      /\ \A m \in 1..(p - 1) : queue[m].wait <= delay
      /\ \A m \in p..Len(queue) : queue[m].wait > delay
  <2>1. delay \in Nat
    BY ShimAssumption DEF ShimAssumption
  <2> QED
    BY <2>1, PlaceFacts
<1>4. \A m \in 1..Len(queue) : queue[m].wait \in Int
  BY <1>1 DEF Timers
<1>5. batch \in Seq(Timers) /\ Len(batch) = e
      /\ \A i \in 1..e : IsTimer(batch[i], delay, job, events[i])
  <2>1. \A i \in 1..e : [wait |-> delay, job |-> job, event |-> events[i]] \in Timers
    BY <1>2 DEF Timers
  <2>2. batch \in Seq(Timers) /\ Len(batch) = e
        /\ \A i \in 1..e : batch[i] = [wait |-> delay, job |-> job, event |-> events[i]]
    BY <1>2, <2>1
  <2> HIDE DEF batch
  <2>3. ASSUME NEW i \in 1..e PROVE IsTimer(batch[i], delay, job, events[i])
    <3>1. batch[i] = [wait |-> delay, job |-> job, event |-> events[i]]
      BY <2>2
    <3> QED
      BY <3>1 DEF IsTimer
  <2> QED
    BY <2>2, <2>3
<1>6. longer = a \o batch \o b
  BY DEF ScheduledAll
<1> HIDE DEF p, batch, e
<1>7. /\ a \in Seq(Timers) /\ Len(a) = p - 1 /\ \A m \in 1..(p - 1) : a[m] = queue[m]
      /\ b \in Seq(Timers) /\ Len(b) = Len(queue) - p + 1
      /\ \A m \in 1..(Len(queue) - p + 1) : b[m] = queue[m + p - 1]
  <2>1. p \in Int /\ p - 1 \in Int /\ Len(queue) \in Int
    BY <1>1, <1>3
  <2>2. /\ \A m \in 1..(p - 1) : queue[m] \in Timers
        /\ \A m \in p..Len(queue) : queue[m] \in Timers
    BY <1>1, <1>3
  <2>3. /\ a \in Seq(Timers) /\ Len(a) = IF 1 <= p - 1 THEN p - 1 - 1 + 1 ELSE 0
        /\ \A m \in 1..(p - 1 - 1 + 1) : a[m] = queue[1 + m - 1]
    BY <2>1, <2>2, SubSeqProperties
  <2>4. /\ b \in Seq(Timers)
        /\ Len(b) = IF p <= Len(queue) THEN Len(queue) - p + 1 ELSE 0
        /\ \A m \in 1..(Len(queue) - p + 1) : b[m] = queue[p + m - 1]
    BY <2>1, <2>2, SubSeqProperties
  <2> HIDE DEF a, b
  <2>5. /\ \A m \in 1..(p - 1) : m \in 1..(p - 1 - 1 + 1) /\ 1 + m - 1 = m
        /\ \A m \in 1..(Len(queue) - p + 1) : p + m - 1 = m + p - 1
    BY <2>1
  <2> QED
    BY <1>1, <1>3, <2>1, <2>3, <2>4, <2>5
<1> HIDE DEF a, b
<1>8. /\ longer \in Seq(Timers) /\ Len(longer) = Len(queue) + e
      /\ \A m \in 1..(p - 1) : longer[m] = queue[m]
      /\ \A n \in p..(p + e - 1) :
           IsTimer(longer[n], delay, job, events[n - p + 1])
      /\ \A n \in (p + e)..(Len(queue) + e) : longer[n] = queue[n - e]
  <2> DEFINE c == a \o batch
  <2>1. /\ c \in Seq(Timers) /\ Len(c) = Len(a) + Len(batch)
        /\ \A i \in 1..Len(a) : c[i] = a[i]
        /\ \A i \in 1..Len(batch) : c[Len(a) + i] = batch[i]
    BY <1>5, <1>7, Concatenation
  <2>2. longer = c \o b
    BY <1>6
  <2> HIDE DEF c
  <2>3. /\ c \o b \in Seq(Timers) /\ Len(c \o b) = Len(c) + Len(b)
        /\ \A i \in 1..Len(c) : (c \o b)[i] = c[i]
        /\ \A i \in 1..Len(b) : (c \o b)[Len(c) + i] = b[i]
    BY <1>7, <2>1, Concatenation
  <2> HIDE DEF longer
  <2>4. /\ longer \in Seq(Timers) /\ Len(longer) = Len(c) + Len(b)
        /\ \A i \in 1..Len(c) : longer[i] = c[i]
        /\ \A i \in 1..Len(b) : longer[Len(c) + i] = b[i]
    BY <2>2, <2>3
  <2>5. Len(c) = p - 1 + e
    BY <1>2, <1>3, <1>5, <1>7, <2>1
  <2>6. ASSUME NEW m \in 1..(p - 1) PROVE longer[m] = queue[m]
    <3>1. m \in 1..Len(a) /\ m \in 1..Len(c)
      BY <1>1, <1>2, <1>3, <1>7, <2>5
    <3> QED
      BY <1>7, <2>1, <2>4, <3>1
  <2>7. ASSUME NEW n \in p..(p + e - 1)
        PROVE  IsTimer(longer[n], delay, job, events[n - p + 1])
    <3>1. /\ n - p + 1 \in 1..e /\ n - p + 1 \in 1..Len(batch) /\ n \in 1..Len(c)
          /\ Len(a) + (n - p + 1) = n
      BY <1>1, <1>2, <1>3, <1>5, <1>7, <2>5
    <3>2. longer[n] = c[n] /\ c[n] = batch[n - p + 1]
      BY <2>1, <2>4, <3>1
    <3> QED
      BY <1>5, <3>1, <3>2
  <2>10. ASSUME NEW n \in (p + e)..(Len(queue) + e) PROVE longer[n] = queue[n - e]
    <3>1. /\ n - (p + e - 1) \in 1..Len(b) /\ Len(c) + (n - (p + e - 1)) = n
          /\ n - (p + e - 1) \in 1..(Len(queue) - p + 1)
          /\ n - (p + e - 1) + p - 1 = n - e
      BY <1>1, <1>2, <1>3, <1>7, <2>5
    <3>2. longer[n] = b[n - (p + e - 1)]
      BY <2>4, <3>1
    <3>3. b[n - (p + e - 1)] = queue[n - (p + e - 1) + p - 1]
      BY <1>7, <3>1
    <3> QED
      BY <3>1, <3>2, <3>3
  <2>8. Len(longer) = Len(queue) + e
    BY <1>1, <1>2, <1>3, <1>7, <2>4, <2>5
  <2> QED
    BY <2>4, <2>6, <2>7, <2>8, <2>10
<1> HIDE DEF longer
<1>9. DOMAIN longer = 1..(Len(queue) + e)
  BY <1>8
<1>10. up \in [DOMAIN queue -> DOMAIN longer]
       /\ \A m, n \in DOMAIN queue : m < n <=> up[m] < up[n]
  BY <1>1, <1>2, <1>3, <1>9
<1>11. ASSUME NEW m \in DOMAIN queue PROVE longer[up[m]] = queue[m]
  <2>1. m \in 1..Len(queue) /\ Len(queue) \in Nat /\ up[m] = IF m < p THEN m ELSE m + e
    OBVIOUS
  <2>2. CASE m < p
    <3>1. up[m] = m /\ m \in 1..(p - 1)
      BY <1>1, <1>2, <1>3, <2>1, <2>2
    <3> QED
      BY <1>8, <3>1
  <2>3. CASE ~(m < p)
    <3>1. up[m] \in (p + e)..(Len(queue) + e) /\ up[m] - e = m
      BY <1>1, <1>2, <1>3, <2>1, <2>3
    <3>2. \A n \in (p + e)..(Len(queue) + e) : longer[n] = queue[n - e]
      BY <1>8
    <3> HIDE DEF up
    <3> QED
      BY <3>1, <3>2
  <2> QED
    BY <2>2, <2>3
<1>12. at \in [DOMAIN events -> DOMAIN longer]
  BY <1>1, <1>2, <1>3, <1>9
<1>13. ASSUME NEW n \in DOMAIN longer
       PROVE  \/ \E m \in DOMAIN queue : n = up[m]
              \/ \E i \in DOMAIN events : n = at[i]
  <2>1. CASE n < p
    <3>1. n \in DOMAIN queue /\ n = up[n]
      BY <1>1, <1>3, <1>9, <2>1
    <3> QED
      BY <3>1
  <2>2. CASE n >= p + e
    <3>1. n - e \in DOMAIN queue /\ n = up[n - e]
      BY <1>1, <1>2, <1>3, <1>9, <2>2
    <3> QED
      BY <3>1
  <2>3. CASE n \in p..(p + e - 1)
    <3>1. n - p + 1 \in DOMAIN events /\ n = at[n - p + 1]
      BY <1>2, <1>3, <2>3
    <3> QED
      BY <3>1
  <2> QED
    BY <1>1, <1>2, <1>3, <1>9, <2>1, <2>2, <2>3
<1>14. ASSUME NEW i \in DOMAIN events
       PROVE  /\ IsTimer(longer[at[i]], delay, job, events[i])
              /\ \A m \in DOMAIN queue : queue[m].wait <= delay => up[m] < at[i]
              /\ \A m \in DOMAIN queue : queue[m].wait > delay => at[i] < up[m]
  <2>1. at[i] \in p..(p + e - 1) /\ at[i] - p + 1 = i
    BY <1>1, <1>2, <1>3, <1>9
  <2>2. IsTimer(longer[at[i]], delay, job, events[i])
    BY <1>8, <2>1
  <2>3. ASSUME NEW m \in DOMAIN queue
        PROVE  /\ queue[m].wait <= delay => up[m] < at[i]
               /\ queue[m].wait > delay => at[i] < up[m]
    <3>1. queue[m].wait \in Int /\ delay \in Int
      BY <1>1, <1>4, ShimAssumption DEF ShimAssumption
    <3>2. CASE m < p
      <4>1. queue[m].wait <= delay /\ up[m] = m
        BY <1>1, <1>3, <3>2
      <4> QED
        BY <1>1, <1>3, <2>1, <3>1, <3>2, <4>1
    <3>3. CASE m >= p
      <4>1. queue[m].wait > delay /\ up[m] = m + e
        BY <1>1, <1>3, <3>3
      <4>2. at[i] < up[m]
        BY <1>1, <1>2, <1>3, <2>1, <3>3, <4>1
      <4> QED
        BY <3>1, <4>1, <4>2
    <3> QED
      BY <1>1, <1>3, <3>2, <3>3
  <2> QED
    BY <2>2, <2>3
<1>15. \A m \in DOMAIN queue : up[m] \in Int
  BY <1>9, <1>10
<1> HIDE DEF up, at
<1>16. InOrder(longer)
  <2> SUFFICES ASSUME NEW m \in DOMAIN longer, NEW n \in DOMAIN longer, m < n
               PROVE  longer[m].wait <= longer[n].wait
    BY DEF InOrder
  <2>1. \A x \in DOMAIN queue : longer[up[x]].wait = queue[x].wait /\ queue[x].wait \in Int
    BY <1>1, <1>4, <1>11
  <2>2. \A i \in DOMAIN events : longer[at[i]].wait = delay
    BY <1>14 DEF IsTimer
  <2>3. ASSUME NEW x \in DOMAIN queue, m = up[x], NEW y \in DOMAIN queue, n = up[y]
        PROVE  longer[m].wait <= longer[n].wait
    BY <1>10, <2>1, <2>3 DEF InOrder
  <2>4. ASSUME NEW x \in DOMAIN queue, m = up[x], NEW i \in DOMAIN events, n = at[i]
        PROVE  longer[m].wait <= longer[n].wait
    BY <1>9, <1>14, <2>1, <2>2, <2>4
  <2>5. ASSUME NEW y \in DOMAIN queue, n = up[y], NEW i \in DOMAIN events, m = at[i]
        PROVE  longer[m].wait <= longer[n].wait
    BY <1>9, <1>14, <2>1, <2>2, <2>5
  <2>6. ASSUME NEW i \in DOMAIN events, m = at[i], NEW j \in DOMAIN events, n = at[j]
        PROVE  longer[m].wait <= longer[n].wait
    BY <2>2, <2>6
  <2> QED
    BY <1>13, <2>3, <2>4, <2>5, <2>6
<1>17. Inserts(queue, longer, delay, job, events, up, at)
  BY <1>8, <1>10, <1>11, <1>12, <1>13, <1>14, <1>16 DEF Inserts
<1> QED
  BY <1>17 DEF longer

(***************************************************************************)
(* What new timers do to the invariant.                                    *)
(***************************************************************************)

LEMMA FitInserted ==
  ASSUME NEW queue, NEW longer, NEW delay, NEW job, NEW events, NEW up, NEW at,
         Inserts(queue, longer, delay, job, events, up, at), Fit(queue),
         job = "dispatch" => delay <= 2,
         job = "handle" =>
           delay <= 1 /\ \A i \in DOMAIN events : events[i].type # "disconnect",
         job = "openPeer" => \A i \in DOMAIN events :
                               events[i].on \in PeerObjects /\ events[i].type = "open"
  PROVE  Fit(longer)
<1> SUFFICES ASSUME NEW n \in DOMAIN longer
             PROVE  /\ longer[n].job = "dispatch" => longer[n].wait <= 2
                    /\ longer[n].job = "handle" =>
                         longer[n].wait <= 1 /\ longer[n].event.type # "disconnect"
                    /\ longer[n].job = "openPeer" =>
                         /\ longer[n].event.on \in PeerObjects
                         /\ longer[n].event.type = "open"
  BY DEF Fit
<1>1. ASSUME NEW m \in DOMAIN queue, n = up[m] PROVE longer[n] = queue[m]
  BY <1>1 DEF Inserts
<1>2. ASSUME NEW i \in DOMAIN events, n = at[i]
      PROVE  longer[n].wait = delay /\ longer[n].job = job /\ longer[n].event = events[i]
  BY <1>2 DEF Inserts, IsTimer
<1> QED
  BY <1>1, <1>2 DEF Inserts, Fit

\* New timers keep what is announced in its place, a new 'connect' included.
LEMMA AnnouncedInserted ==
  ASSUME NEW queue, NEW longer, NEW delay, NEW job, NEW events, NEW up, NEW at,
         Inserts(queue, longer, delay, job, events, up, at), Fit(queue),
         NEW done, NEW made, NEW more, AnnouncedFirst(queue, done, made),
         made \subseteq more,
         \A k \in more \ made :
           job = "dispatch" /\ \E i \in DOMAIN events : events[i] = Connect(k),
         \A i \in DOMAIN events, k \in PeerObjects : About(events[i], k) => k \in made,
         job = "dispatch" => delay = 2
  PROVE  AnnouncedFirst(longer, done, more)
<1>1. \A m \in DOMAIN queue : up[m] \in DOMAIN longer /\ longer[up[m]] = queue[m]
  BY DEF Inserts
<1>2. \A i \in DOMAIN events :
        /\ at[i] \in DOMAIN longer /\ longer[at[i]].wait = delay
        /\ longer[at[i]].job = job /\ longer[at[i]].event = events[i]
  BY DEF Inserts, IsTimer
<1>3. ASSUME NEW k \in made
      PROVE  Connect(k) \in done \/ \E n \in DOMAIN longer : IsConnect(longer[n], k)
  BY <1>1 DEF AnnouncedFirst
<1>4. ASSUME NEW k \in more \ made PROVE \E n \in DOMAIN longer : IsConnect(longer[n], k)
  BY <1>2 DEF IsConnect
<1>5. ASSUME NEW n \in DOMAIN longer, NEW k \in PeerObjects, About(longer[n].event, k)
      PROVE  /\ k \in made
             /\ longer[n].job = "dispatch" =>
                  \/ Connect(k) \in done
                  \/ \E m \in DOMAIN longer : m < n /\ IsConnect(longer[m], k)
  <2>1. ASSUME NEW x \in DOMAIN queue, n = up[x]
        PROVE  /\ k \in made
               /\ longer[n].job = "dispatch" =>
                    \/ Connect(k) \in done
                    \/ \E m \in DOMAIN longer : m < n /\ IsConnect(longer[m], k)
    <3>1. /\ k \in made
          /\ queue[x].job = "dispatch" =>
               \/ Connect(k) \in done
               \/ \E m \in DOMAIN queue : m < x /\ IsConnect(queue[m], k)
      BY <1>1, <1>5, <2>1 DEF AnnouncedFirst
    <3>2. \A m \in DOMAIN queue : m < x => up[m] < n
      BY <2>1 DEF Inserts
    <3> QED
      BY <1>1, <2>1, <3>1, <3>2
  <2>2. ASSUME NEW i \in DOMAIN events, n = at[i]
        PROVE  /\ k \in made
               /\ longer[n].job = "dispatch" =>
                    \/ Connect(k) \in done
                    \/ \E m \in DOMAIN longer : m < n /\ IsConnect(longer[m], k)
    <3>1. k \in made
      BY <1>2, <1>5, <2>2
    <3>2. Connect(k) \in done \/ \E m \in DOMAIN queue : IsConnect(queue[m], k)
      BY <3>1 DEF AnnouncedFirst
    <3>3. ASSUME NEW m \in DOMAIN queue, IsConnect(queue[m], k), job = "dispatch"
          PROVE  up[m] < n
      BY <2>2, <3>3 DEF Inserts, IsConnect, Fit
    <3> QED
      BY <1>1, <1>2, <2>2, <3>1, <3>2, <3>3
  <2> QED
    BY <2>1, <2>2 DEF Inserts
<1> QED
  BY <1>3, <1>4, <1>5 DEF AnnouncedFirst

\* What does not belong to the end of the root, and what the root still takes:
\* messages and its opening before it closes, and after that only the events of
\* timers that came before.
Harmless(queue, done, job, event) ==
  event.on = Root =>
    /\ job = "handle" =>
         event.type \notin {"closing", "close"} /\ Unclosed(queue, done)
    /\ job = "dispatch" =>
         /\ event.type # "close"
         /\ \/ event.type = "disconnect"
            \/ /\ RootClose \notin done
               /\ \A n \in DOMAIN queue :
                    EndsRoot(queue[n]) => queue[n].job # "dispatch"

LEMMA RootOrderInserted ==
  ASSUME NEW queue, NEW longer, NEW delay, NEW job, NEW events, NEW up, NEW at,
         Inserts(queue, longer, delay, job, events, up, at),
         NEW done, RootOrder(queue, done),
         \A i \in DOMAIN events : Harmless(queue, done, job, events[i])
  PROVE  /\ RootOrder(longer, done)
         /\ Unclosed(queue, done) => Unclosed(longer, done)
<1>1. \A m \in DOMAIN queue : up[m] \in DOMAIN longer /\ longer[up[m]] = queue[m]
  BY DEF Inserts
<1>2. \A i \in DOMAIN events :
        longer[at[i]].job = job /\ longer[at[i]].event = events[i]
  BY DEF Inserts, IsTimer
<1>3. \A i \in DOMAIN events : ~EndsRoot(longer[at[i]])
  BY <1>2 DEF Harmless, EndsRoot, AtRoot
<1>4. ASSUME NEW n \in DOMAIN longer, EndsRoot(longer[n])
      PROVE  \E x \in DOMAIN queue : n = up[x] /\ EndsRoot(queue[x])
  BY <1>1, <1>3, <1>4 DEF Inserts
<1>5. ASSUME NEW n \in DOMAIN longer, EndsRoot(longer[n])
      PROVE  /\ RootClose \notin done
             /\ \A m \in DOMAIN longer \ {n} :
                  /\ ~EndsRoot(longer[m])
                  /\ AtRoot(longer[m], "handle") =>
                       /\ m < n
                       /\ AtRoot(longer[n], "handle")
                       /\ longer[n].event.type = "closing"
                  /\ Live(longer[m]) /\ longer[n].job = "dispatch" => m < n
  <2>1. PICK x \in DOMAIN queue : n = up[x] /\ EndsRoot(queue[x])
    BY <1>4, <1>5
  <2>2. /\ RootClose \notin done
        /\ \A y \in DOMAIN queue \ {x} :
             /\ ~EndsRoot(queue[y])
             /\ AtRoot(queue[y], "handle") =>
                  /\ y < x
                  /\ AtRoot(queue[x], "handle")
                  /\ queue[x].event.type = "closing"
             /\ Live(queue[y]) /\ queue[x].job = "dispatch" => y < x
    BY <2>1 DEF RootOrder
  <2>3. ASSUME NEW y \in DOMAIN queue, up[y] # n
        PROVE  /\ ~EndsRoot(longer[up[y]])
               /\ AtRoot(longer[up[y]], "handle") =>
                    /\ up[y] < n
                    /\ AtRoot(longer[n], "handle")
                    /\ longer[n].event.type = "closing"
               /\ Live(longer[up[y]]) /\ longer[n].job = "dispatch" => up[y] < n
    <3>1. y # x /\ longer[up[y]] = queue[y] /\ longer[n] = queue[x]
      BY <1>1, <2>1, <2>3
    <3>2. y < x => up[y] < n
      BY <2>1 DEF Inserts
    <3> QED
      BY <2>2, <3>1, <3>2
  <2>4. ASSUME NEW i \in DOMAIN events
        PROVE  /\ ~EndsRoot(longer[at[i]])
               /\ ~AtRoot(longer[at[i]], "handle")
               /\ ~(Live(longer[at[i]]) /\ longer[n].job = "dispatch")
    <3>1. Harmless(queue, done, job, events[i])
      OBVIOUS
    <3>2. longer[n] = queue[x]
      BY <1>1, <2>1
    <3>3. longer[at[i]].job = job /\ longer[at[i]].event = events[i]
      BY <1>2
    <3> QED
      BY <1>3, <2>1, <3>1, <3>2, <3>3 DEF Harmless, Unclosed, AtRoot, Live
  <2> QED
    BY <2>2, <2>3, <2>4 DEF Inserts
<1>6. ASSUME RootClose \in done, NEW n \in DOMAIN longer
      PROVE  ~AtRoot(longer[n], "handle") /\ ~Live(longer[n])
  <2>1. ASSUME NEW x \in DOMAIN queue, n = up[x]
        PROVE  ~AtRoot(longer[n], "handle") /\ ~Live(longer[n])
    BY <1>1, <1>6, <2>1 DEF RootOrder
  <2>2. ASSUME NEW i \in DOMAIN events, n = at[i]
        PROVE  ~AtRoot(longer[n], "handle") /\ ~Live(longer[n])
    <3>1. Harmless(queue, done, job, events[i])
      OBVIOUS
    <3> QED
      BY <1>2, <1>6, <2>2, <3>1 DEF Harmless, Unclosed, AtRoot, Live
  <2> QED
    BY <2>1, <2>2 DEF Inserts
<1>7. Unclosed(queue, done) => Unclosed(longer, done)
  BY <1>4 DEF Unclosed
<1> QED
  BY <1>5, <1>6, <1>7 DEF RootOrder

\* A timer of the end of the root comes behind everything of the root's that is
\* pending: behind what is handled when it begins, and with nothing left to
\* handle when it goes on.
LEMMA RootEndInserted ==
  ASSUME NEW queue, NEW longer, NEW delay, NEW job, NEW event, NEW up, NEW at,
         Inserts(queue, longer, delay, job, <<event>>, up, at), Fit(queue),
         NEW done, Unclosed(queue, done),
         \/ job = "handle" /\ event.on = Root /\ event.type = "closing" /\ delay = 1
         \/ /\ \A n \in DOMAIN queue : ~AtRoot(queue[n], "handle")
            /\ job = "handle" \/ (job = "dispatch" /\ delay = 2)
  PROVE  RootOrder(longer, done)
<1> DEFINE c == at[1]
<1>1. \A m \in DOMAIN queue : up[m] \in DOMAIN longer /\ longer[up[m]] = queue[m]
  BY DEF Inserts
<1>2. DOMAIN <<event>> = {1} /\ <<event>>[1] = event
  OBVIOUS
<1>3. /\ longer[c].job = job /\ longer[c].event = event
      /\ \A m \in DOMAIN queue : queue[m].wait <= delay => up[m] < c
      /\ \A n \in DOMAIN longer : n = c \/ \E m \in DOMAIN queue : n = up[m]
  BY <1>2 DEF Inserts, IsTimer
<1> HIDE DEF c
<1>4. ASSUME NEW m \in DOMAIN longer, m # c
      PROVE  /\ ~EndsRoot(longer[m])
             /\ AtRoot(longer[m], "handle") =>
                  /\ m < c
                  /\ AtRoot(longer[c], "handle")
                  /\ longer[c].event.type = "closing"
             /\ Live(longer[m]) /\ longer[c].job = "dispatch" => m < c
  <2>1. PICK x \in DOMAIN queue : m = up[x] /\ longer[m] = queue[x]
    BY <1>1, <1>3, <1>4
  <2>2. ~EndsRoot(longer[m])
    BY <2>1 DEF Unclosed
  <2>3. AtRoot(longer[m], "handle") =>
          m < c /\ AtRoot(longer[c], "handle") /\ longer[c].event.type = "closing"
    BY <1>3, <2>1 DEF AtRoot, Fit
  <2>4. Live(longer[m]) /\ longer[c].job = "dispatch" => m < c
    BY <1>3, <2>1 DEF AtRoot, Live, Fit
  <2> QED
    BY <2>2, <2>3, <2>4
<1>5. RootClose \notin done /\ \A n \in DOMAIN longer : EndsRoot(longer[n]) => n = c
  BY <1>4 DEF Unclosed
<1> QED
  BY <1>4, <1>5 DEF RootOrder

LEMMA RootHandlesInserted ==
  ASSUME NEW queue, NEW longer, NEW delay, NEW job, NEW events, NEW up, NEW at,
         Inserts(queue, longer, delay, job, events, up, at)
  PROVE  \A event \in RootHandles(longer) :
           \/ event \in RootHandles(queue)
           \/ job = "handle" /\ event.on = Root /\ \E i \in DOMAIN events : event = events[i]
<1> SUFFICES ASSUME NEW n \in DOMAIN longer, AtRoot(longer[n], "handle")
             PROVE  \/ longer[n].event \in RootHandles(queue)
                    \/ /\ job = "handle" /\ longer[n].event.on = Root
                       /\ \E i \in DOMAIN events : longer[n].event = events[i]
  BY DEF RootHandles
<1>1. ASSUME NEW m \in DOMAIN queue, n = up[m] PROVE longer[n].event \in RootHandles(queue)
  BY <1>1 DEF Inserts, RootHandles
<1>2. ASSUME NEW i \in DOMAIN events, n = at[i]
      PROVE  job = "handle" /\ longer[n].event.on = Root /\ longer[n].event = events[i]
  BY <1>2 DEF Inserts, IsTimer, AtRoot
<1> QED
  BY <1>1, <1>2 DEF Inserts

\* The delays of each job.
DelayOf(job) ==
  CASE job = "dispatch" -> 2 [] job = "handle" -> 1 [] OTHER -> OpenDelay

\* Events for which setTimeout may be called: about objects that have been made,
\* or the 'connect' of those that are made now.
Allowed(queue, done, made, more, job, events) ==
  /\ made \subseteq more
  /\ \A k \in more \ made :
       job = "dispatch" /\ \E i \in DOMAIN events : events[i] = Connect(k)
  /\ \A i \in DOMAIN events :
       /\ job = "openPeer" =>
            events[i].on \in PeerObjects /\ events[i].type = "open"
       /\ job = "handle" => events[i].type # "disconnect"
       /\ \A k \in PeerObjects : About(events[i], k) => k \in made
       /\ Harmless(queue, done, job, events[i])

\* All that a setTimeout of such events does.
LEMMA ScheduledKeeps ==
  ASSUME NEW queue, NEW done, NEW made, Pending(queue, done, made),
         NEW job \in {"dispatch", "handle", "openPeer"}, NEW events \in Seq(Events),
         NEW more, Allowed(queue, done, made, more, job, events)
  PROVE  /\ Pending(ScheduledAll(queue, DelayOf(job), job, events), done, more)
         /\ Unclosed(queue, done) =>
              Unclosed(ScheduledAll(queue, DelayOf(job), job, events), done)
         /\ \A event \in RootHandles(ScheduledAll(queue, DelayOf(job), job, events)) :
              \/ event \in RootHandles(queue)
              \/ /\ job = "handle" /\ event.on = Root
                 /\ \E i \in DOMAIN events : event = events[i]
<1> DEFINE delay == DelayOf(job)
           longer == ScheduledAll(queue, delay, job, events)
<1>1. /\ delay \in 0..(2 + OpenDelay)
      /\ job = "dispatch" => delay = 2 /\ delay <= 2
      /\ job = "handle" => delay <= 1
  BY ShimAssumption DEF ShimAssumption, DelayOf
<1> HIDE DEF delay
<1>2. PICK up, at : Inserts(queue, longer, delay, job, events, up, at)
  BY <1>1, ScheduledAllInserts DEF Pending
<1> HIDE DEF longer
<1>3. longer \in Seq(Timers) /\ InOrder(longer)
  BY <1>2 DEF Inserts
<1>4. Fit(longer)
  BY <1>1, <1>2, FitInserted DEF Pending, Allowed
<1>5. AnnouncedFirst(longer, done, more)
  BY <1>1, <1>2, AnnouncedInserted DEF Pending, Allowed
<1>6. RootOrder(longer, done) /\ (Unclosed(queue, done) => Unclosed(longer, done))
  BY <1>2, RootOrderInserted DEF Pending, Allowed
<1>7. \A event \in RootHandles(longer) :
        \/ event \in RootHandles(queue)
        \/ job = "handle" /\ event.on = Root /\ \E i \in DOMAIN events : event = events[i]
  BY <1>2, RootHandlesInserted
<1> QED
  BY <1>3, <1>4, <1>5, <1>6, <1>7 DEF Pending, longer, delay

\* All that a setTimeout of the end of the root does.
LEMMA RootEndKeeps ==
  ASSUME NEW queue, NEW done, NEW made, Pending(queue, done, made),
         NEW job \in {"dispatch", "handle"}, NEW event \in Events, event.on = Root,
         event.type \in {"closing", "close"},
         Unclosed(queue, done),
         (job = "handle" /\ event.type = "closing") \/ RootHandles(queue) = {}
  PROVE  /\ Pending(ScheduledAll(queue, DelayOf(job), job, <<event>>), done, made)
         /\ \A e \in RootHandles(ScheduledAll(queue, DelayOf(job), job, <<event>>)) :
              e \in RootHandles(queue) \/ (job = "handle" /\ e = event)
<1> DEFINE delay == DelayOf(job)
           longer == ScheduledAll(queue, delay, job, <<event>>)
<1>1. /\ delay \in 0..(2 + OpenDelay)
      /\ job = "dispatch" => delay = 2 /\ delay <= 2
      /\ job = "handle" => delay = 1 /\ delay <= 1
      /\ job \in {"dispatch", "handle", "openPeer"}
  BY ShimAssumption DEF ShimAssumption, DelayOf
<1>2. <<event>> \in Seq(Events) /\ DOMAIN <<event>> = {1} /\ <<event>>[1] = event
  OBVIOUS
<1> HIDE DEF delay
<1>3. PICK up, at : Inserts(queue, longer, delay, job, <<event>>, up, at)
  BY <1>1, <1>2, ScheduledAllInserts DEF Pending
<1> HIDE DEF longer
<1>4. longer \in Seq(Timers) /\ InOrder(longer)
  BY <1>3 DEF Inserts
<1>5. Fit(longer)
  BY <1>1, <1>2, <1>3, FitInserted DEF Pending
<1>6. \A k \in PeerObjects : ~About(event, k)
  BY DEF About, PeerObjects, Root
<1>7. AnnouncedFirst(longer, done, made)
  <2>1. \A i \in DOMAIN <<event>>, k \in PeerObjects : ~About(<<event>>[i], k)
    BY <1>2, <1>6
  <2> QED
    BY <1>1, <1>3, <2>1, AnnouncedInserted DEF Pending
<1>8. RootOrder(longer, done)
  <2>1. RootHandles(queue) = {} => \A n \in DOMAIN queue : ~AtRoot(queue[n], "handle")
    BY DEF RootHandles
  <2> QED
    BY <1>1, <1>3, <2>1, RootEndInserted DEF Pending
<1>9. \A e \in RootHandles(longer) :
        e \in RootHandles(queue) \/ (job = "handle" /\ e = event)
  <2>1. \A e \in RootHandles(longer) :
          \/ e \in RootHandles(queue)
          \/ job = "handle" /\ e.on = Root /\ \E i \in DOMAIN <<event>> : e = <<event>>[i]
    BY <1>3, RootHandlesInserted
  <2> QED
    BY <1>2, <2>1
<1> QED
  BY <1>4, <1>5, <1>7, <1>8, <1>9 DEF Pending, longer, delay

(***************************************************************************)
(* What time and the firing of a timer do to the invariant.                *)
(***************************************************************************)

LEMMA TailFacts ==
  ASSUME NEW queue \in Seq(Timers), queue # <<>>
  PROVE  /\ Tail(queue) \in Seq(Timers) /\ Head(queue) = queue[1]
         /\ Head(queue) \in Timers /\ 1 \in DOMAIN queue
         /\ \A n \in DOMAIN Tail(queue) :
              n + 1 \in DOMAIN queue /\ Tail(queue)[n] = queue[n + 1] /\ n \in Nat
         /\ \A m \in DOMAIN queue :
              m \in Nat /\ m >= 1 /\ (m # 1 => m - 1 \in DOMAIN Tail(queue))
  OBVIOUS

\* The listeners that a timer calls.
FiredBy(timer, done) ==
  IF timer.job = "dispatch" THEN done \cup {timer.event} ELSE done

LEMMA FiringKeeps ==
  ASSUME NEW queue, NEW done, NEW made, Pending(queue, done, made), queue # <<>>
  PROVE  /\ Pending(Tail(queue), FiredBy(Head(queue), done), made)
         /\ Unclosed(queue, done) => Unclosed(Tail(queue), FiredBy(Head(queue), done))
         /\ RootHandles(Tail(queue)) \subseteq RootHandles(queue)
         /\ \A k \in PeerObjects :
              About(Head(queue).event, k) =>
                /\ k \in made
                /\ Head(queue).job = "dispatch" => Connect(k) \in done
         /\ AtRoot(Head(queue), "handle") =>
              /\ RootClose \notin done
              /\ \A n \in DOMAIN Tail(queue) :
                   EndsRoot(Tail(queue)[n]) => Tail(queue)[n].job # "dispatch"
         /\ AtRoot(Head(queue), "handle") /\ EndsRoot(Head(queue)) =>
              /\ Unclosed(Tail(queue), done)
              /\ \A n \in DOMAIN Tail(queue) : ~AtRoot(Tail(queue)[n], "handle")
         /\ RootClose \in done /\ AtRoot(Head(queue), "dispatch") =>
              Head(queue).event.type = "disconnect"
<1> DEFINE rest == Tail(queue)
           head == Head(queue)
           now == FiredBy(head, done)
<1>1. /\ rest \in Seq(Timers) /\ head = queue[1]
      /\ head \in Timers /\ 1 \in DOMAIN queue
      /\ \A n \in DOMAIN rest : n + 1 \in DOMAIN queue /\ rest[n] = queue[n + 1] /\ n \in Nat
      /\ \A m \in DOMAIN queue :
           m \in Nat /\ m >= 1 /\ (m # 1 => m - 1 \in DOMAIN rest)
  BY TailFacts DEF Pending
<1>2. \A m \in DOMAIN queue : m # 1 => m - 1 \in DOMAIN rest /\ rest[m - 1] = queue[m]
  BY <1>1
<1>3. \A m, n \in DOMAIN rest : m < n <=> m + 1 < n + 1
  BY <1>1
<1>4. done \subseteq now
  BY DEF FiredBy
<1> HIDE DEF rest, head
<1>5. InOrder(rest)
  BY <1>1, <1>3 DEF Pending, InOrder
<1>6. Fit(rest)
  BY <1>1 DEF Pending, Fit
<1>7. ASSUME NEW k \in PeerObjects, About(head.event, k)
      PROVE  k \in made /\ (head.job = "dispatch" => Connect(k) \in done)
  BY <1>1, <1>7 DEF Pending, AnnouncedFirst
<1>8. \A k : IsConnect(queue[1], k) => Connect(k) \in now
  BY <1>1 DEF FiredBy, IsConnect
<1> HIDE DEF now
<1>9. AnnouncedFirst(rest, now, made)
  <2>1. ASSUME NEW k \in made
        PROVE  Connect(k) \in now \/ \E n \in DOMAIN rest : IsConnect(rest[n], k)
    <3>1. CASE Connect(k) \in done
      BY <1>4, <3>1
    <3>2. CASE \E m \in DOMAIN queue : IsConnect(queue[m], k)
      BY <1>2, <1>8, <3>2
    <3> QED
      BY <3>1, <3>2 DEF Pending, AnnouncedFirst
  <2>2. ASSUME NEW n \in DOMAIN rest, NEW k \in PeerObjects, About(rest[n].event, k)
        PROVE  /\ k \in made
               /\ rest[n].job = "dispatch" =>
                    \/ Connect(k) \in now
                    \/ \E m \in DOMAIN rest : m < n /\ IsConnect(rest[m], k)
    <3>1. /\ k \in made
          /\ rest[n].job = "dispatch" =>
               \/ Connect(k) \in done
               \/ \E m \in DOMAIN queue : m < n + 1 /\ IsConnect(queue[m], k)
      BY <1>1, <2>2 DEF Pending, AnnouncedFirst
    <3>2. ASSUME NEW m \in DOMAIN queue, m < n + 1, IsConnect(queue[m], k), m # 1
          PROVE  m - 1 \in DOMAIN rest /\ m - 1 < n /\ IsConnect(rest[m - 1], k)
      BY <1>1, <1>2, <3>2
    <3> QED
      BY <1>4, <1>8, <3>1, <3>2
  <2> QED
    BY <2>1, <2>2 DEF AnnouncedFirst
<1>10. RootClose \in now /\ RootClose \notin done =>
         head.job = "dispatch" /\ head.event = RootClose
  BY DEF now, FiredBy
<1>11. head.event = RootClose /\ head.job = "dispatch" => EndsRoot(head)
  BY DEF EndsRoot, AtRoot, RootClose, Event
<1>12. ASSUME EndsRoot(head)
       PROVE  /\ RootClose \notin done
              /\ \A n \in DOMAIN rest :
                   /\ ~EndsRoot(rest[n]) /\ ~AtRoot(rest[n], "handle")
                   /\ head.job = "dispatch" => ~Live(rest[n])
  <2>1. /\ RootClose \notin done
        /\ \A m \in DOMAIN queue \ {1} :
             /\ ~EndsRoot(queue[m])
             /\ AtRoot(queue[m], "handle") => m < 1
             /\ Live(queue[m]) /\ queue[1].job = "dispatch" => m < 1
    BY <1>1, <1>12 DEF Pending, RootOrder
  <2>2. \A n \in DOMAIN rest : n + 1 \in DOMAIN queue \ {1} /\ ~(n + 1 < 1)
    BY <1>1
  <2> QED
    BY <1>1, <2>1, <2>2
<1>13. RootOrder(rest, now)
  <2>1. ASSUME NEW n \in DOMAIN rest, EndsRoot(rest[n])
        PROVE  /\ RootClose \notin now
               /\ \A m \in DOMAIN rest \ {n} :
                    /\ ~EndsRoot(rest[m])
                    /\ AtRoot(rest[m], "handle") =>
                         /\ m < n
                         /\ AtRoot(rest[n], "handle")
                         /\ rest[n].event.type = "closing"
                    /\ Live(rest[m]) /\ rest[n].job = "dispatch" => m < n
    <3>1. RootClose \notin now
      BY <1>1, <1>10, <1>11, <1>12, <2>1 DEF Pending, RootOrder
    <3>2. ASSUME NEW m \in DOMAIN rest \ {n}
          PROVE  /\ ~EndsRoot(rest[m])
                 /\ AtRoot(rest[m], "handle") =>
                      /\ m < n
                      /\ AtRoot(rest[n], "handle")
                      /\ rest[n].event.type = "closing"
                 /\ Live(rest[m]) /\ rest[n].job = "dispatch" => m < n
      <4>1. /\ m + 1 \in DOMAIN queue \ {n + 1} /\ n + 1 \in DOMAIN queue
            /\ rest[m] = queue[m + 1] /\ rest[n] = queue[n + 1]
            /\ m < n <=> m + 1 < n + 1
        BY <1>1
      <4> QED
        BY <2>1, <4>1 DEF Pending, RootOrder
    <3> QED
      BY <3>1, <3>2
  <2>2. ASSUME RootClose \in now, NEW n \in DOMAIN rest
        PROVE  ~AtRoot(rest[n], "handle") /\ ~Live(rest[n])
    <3>1. CASE RootClose \in done
      BY <1>1, <3>1 DEF Pending, RootOrder
    <3>2. CASE RootClose \notin done
      BY <1>10, <1>11, <1>12, <2>2, <3>2
    <3> QED
      BY <3>1, <3>2
  <2> QED
    BY <2>1, <2>2 DEF RootOrder
<1>14. ASSUME Unclosed(queue, done) PROVE Unclosed(rest, now)
  BY <1>1, <1>10, <1>11, <1>14 DEF Unclosed
<1>15. RootHandles(rest) \subseteq RootHandles(queue)
  BY <1>1 DEF RootHandles
<1>16. ASSUME AtRoot(head, "handle")
       PROVE  /\ RootClose \notin done
              /\ \A n \in DOMAIN rest : EndsRoot(rest[n]) => rest[n].job # "dispatch"
  <2>1. RootClose \notin done
    BY <1>1, <1>16 DEF Pending, RootOrder
  <2>2. ASSUME NEW n \in DOMAIN rest, EndsRoot(rest[n]) PROVE AtRoot(rest[n], "handle")
    <3>1. 1 \in DOMAIN queue \ {n + 1} /\ n + 1 \in DOMAIN queue /\ rest[n] = queue[n + 1]
      BY <1>1
    <3> QED
      BY <1>1, <1>16, <2>2, <3>1 DEF Pending, RootOrder
  <2> QED
    BY <2>1, <2>2 DEF AtRoot
<1>17. ASSUME RootClose \in done, AtRoot(head, "dispatch")
       PROVE  head.event.type = "disconnect"
  BY <1>1, <1>17 DEF Pending, RootOrder, Live
<1>18. EndsRoot(head) => Unclosed(rest, done)
  BY <1>12 DEF Unclosed
<1>19. Pending(rest, now, made)
  BY <1>1, <1>5, <1>6, <1>9, <1>13 DEF Pending
<1> QED
  BY <1>7, <1>12, <1>14, <1>15, <1>16, <1>17, <1>18, <1>19 DEF rest, head, now

\* A millisecond passes.
LEMMA WaitingKeeps ==
  ASSUME NEW queue, NEW done, NEW made, Pending(queue, done, made)
  PROVE  LET later == [n \in DOMAIN queue |->
                         [queue[n] EXCEPT !.wait = IF @ = 0 THEN 0 ELSE @ - 1]]
         IN  /\ Pending(later, done, made)
             /\ Unclosed(queue, done) => Unclosed(later, done)
             /\ RootHandles(later) = RootHandles(queue)
<1> DEFINE later == [n \in DOMAIN queue |->
                       [queue[n] EXCEPT !.wait = IF @ = 0 THEN 0 ELSE @ - 1]]
<1>1. queue \in Seq(Timers) /\ \A n \in DOMAIN queue : queue[n] \in Timers
  BY DEF Pending
<1>2. ASSUME NEW n \in DOMAIN queue
      PROVE  /\ later[n] \in Timers
             /\ later[n].job = queue[n].job /\ later[n].event = queue[n].event
             /\ later[n].wait = IF queue[n].wait = 0 THEN 0 ELSE queue[n].wait - 1
             /\ queue[n].wait \in Nat
  <2>1. queue[n] \in Timers
    BY <1>1
  <2> QED
    BY <2>1, ShimAssumption DEF Timers, ShimAssumption
<1>3. DOMAIN later = DOMAIN queue
  OBVIOUS
<1>4. later \in Seq(Timers)
  <2>1. Len(queue) \in Nat /\ DOMAIN queue = 1..Len(queue)
    BY <1>1
  <2>2. later \in [1..Len(queue) -> Timers]
    BY <1>2, <2>1
  <2> HIDE DEF later
  <2> QED
    BY <2>1, <2>2
<1> HIDE DEF later
<1>5. InOrder(later)
  BY <1>2, <1>3 DEF Pending, InOrder
<1>6. Fit(later)
  BY <1>2, <1>3 DEF Pending, Fit
<1>7. \A n \in DOMAIN queue : /\ EndsRoot(later[n]) = EndsRoot(queue[n])
                             /\ Live(later[n]) = Live(queue[n])
                             /\ \A job : AtRoot(later[n], job) = AtRoot(queue[n], job)
                             /\ \A k : IsConnect(later[n], k) = IsConnect(queue[n], k)
  BY <1>2 DEF EndsRoot, Live, AtRoot, IsConnect
<1>8. AnnouncedFirst(later, done, made)
  <2>1. AnnouncedFirst(queue, done, made)
    BY DEF Pending
  <2>2. \A k \in made :
          Connect(k) \in done \/ \E n \in DOMAIN later : IsConnect(later[n], k)
    BY <1>3, <1>7, <2>1 DEF AnnouncedFirst
  <2>3. ASSUME NEW n \in DOMAIN queue, NEW k \in PeerObjects, About(queue[n].event, k)
        PROVE  /\ k \in made
               /\ later[n].job = "dispatch" =>
                    \/ Connect(k) \in done
                    \/ \E m \in DOMAIN queue : m < n /\ IsConnect(later[m], k)
    BY <1>2, <1>7, <2>1, <2>3 DEF AnnouncedFirst
  <2> QED
    BY <1>2, <1>3, <2>2, <2>3 DEF AnnouncedFirst
<1>9. RootOrder(later, done)
  BY <1>2, <1>3, <1>7 DEF Pending, RootOrder
<1>10. Unclosed(queue, done) => Unclosed(later, done)
  BY <1>3, <1>7 DEF Unclosed
<1>11. RootHandles(later) = RootHandles(queue)
  BY <1>2, <1>3, <1>7 DEF RootHandles
<1> QED
  BY <1>4, <1>5, <1>6, <1>8, <1>9, <1>10, <1>11 DEF Pending, later

(***************************************************************************)
(* The steps of the page.                                                  *)
(***************************************************************************)

LEMMA EventFields ==
  ASSUME NEW on, NEW type, NEW detail
  PROVE  /\ Event(on, type, detail).on = on
         /\ Event(on, type, detail).type = type
         /\ Event(on, type, detail).detail = detail
         /\ on \in Objects /\ type \in EventTypes /\ detail \in Objects \cup Payloads =>
              Event(on, type, detail) \in Events
  BY DEF Event, Events

LEMMA EventsTyped ==
  ASSUME NEW event \in Events
  PROVE  /\ event.on \in Objects /\ event.type \in EventTypes
         /\ event.on # Root => event.on \in PeerObjects
         /\ \A k \in PeerObjects : k \in Objects /\ k # Root /\ k \in Nat
  BY DEF Events, Objects, PeerObjects, Root

\* ScheduledKeeps for one event.
LEMMA OneKeeps ==
  ASSUME NEW queue, NEW done, NEW made, Pending(queue, done, made),
         NEW job \in {"dispatch", "handle", "openPeer"}, NEW event \in Events,
         job = "openPeer" => event.on \in PeerObjects /\ event.type = "open",
         job = "handle" => event.type # "disconnect",
         NEW more, made \subseteq more,
         \A k \in more \ made : job = "dispatch" /\ event = Connect(k),
         \A k \in PeerObjects : About(event, k) => k \in made,
         Harmless(queue, done, job, event)
  PROVE  /\ Pending(ScheduledAll(queue, DelayOf(job), job, <<event>>), done, more)
         /\ Unclosed(queue, done) =>
              Unclosed(ScheduledAll(queue, DelayOf(job), job, <<event>>), done)
         /\ \A e \in RootHandles(ScheduledAll(queue, DelayOf(job), job, <<event>>)) :
              e \in RootHandles(queue) \/ (job = "handle" /\ e.on = Root /\ e = event)
<1> DEFINE events == <<event>>
<1>1. events \in Seq(Events) /\ DOMAIN events = {1} /\ events[1] = event
  OBVIOUS
<1> HIDE DEF events
<1>2. Allowed(queue, done, made, more, job, events)
  BY <1>1 DEF Allowed
<1>3. /\ Pending(ScheduledAll(queue, DelayOf(job), job, events), done, more)
      /\ Unclosed(queue, done) =>
           Unclosed(ScheduledAll(queue, DelayOf(job), job, events), done)
      /\ \A e \in RootHandles(ScheduledAll(queue, DelayOf(job), job, events)) :
           \/ e \in RootHandles(queue)
           \/ /\ job = "handle" /\ e.on = Root
              /\ \E i \in DOMAIN events : e = events[i]
  BY <1>1, <1>2, ScheduledKeeps
<1> QED
  BY <1>1, <1>3 DEF events

LEMMA Delays ==
  ASSUME NEW queue, NEW event
  PROVE  /\ DispatchEvent(queue, event) =
              ScheduledAll(queue, DelayOf("dispatch"), "dispatch", <<event>>)
         /\ HandleEvent(queue, event) =
              ScheduledAll(queue, DelayOf("handle"), "handle", <<event>>)
         /\ Scheduled(queue, OpenDelay, "openPeer", event) =
              ScheduledAll(queue, DelayOf("openPeer"), "openPeer", <<event>>)
  BY DEF DispatchEvent, HandleEvent, Scheduled, DelayOf

\* The end of __handleEvent's timer.
LEMMA HandledKeeps ==
  ASSUME NEW queue, NEW done, NEW made, Pending(queue, done, made), queue # <<>>,
         Head(queue).job = "handle", NEW next,
         next = Handled(Tail(queue), Head(queue).event)
  PROVE  /\ Pending(next, done, made)
         /\ Unclosed(queue, done) => Unclosed(next, done)
         /\ \A e \in RootHandles(next) : e \in RootHandles(queue) \/ e.type = "close"
         /\ EndsRoot(Head(queue)) => \A e \in RootHandles(next) : e.type = "close"
<1> DEFINE rest == Tail(queue)
           head == Head(queue)
           event == head.event
           d == DispatchEvent(rest, event)
<1>1. head \in Timers /\ queue \in Seq(Timers)
  BY TailFacts DEF Pending
<1>2. /\ event \in Events /\ event.on \in Objects /\ event.type \in EventTypes
      /\ event.on # Root => event.on \in PeerObjects
      /\ \A k \in PeerObjects : k \in Objects /\ k # Root /\ k \in Nat
  <2>1. event \in Events
    BY <1>1 DEF Timers
  <2> HIDE DEF event
  <2> QED
    BY <2>1, EventsTyped
<1>3. /\ Pending(rest, done, made)
      /\ Unclosed(queue, done) => Unclosed(rest, done)
      /\ RootHandles(rest) \subseteq RootHandles(queue)
      /\ \A k \in PeerObjects : About(event, k) => k \in made
      /\ event.on = Root =>
           /\ RootClose \notin done
           /\ \A n \in DOMAIN rest : EndsRoot(rest[n]) => rest[n].job # "dispatch"
      /\ EndsRoot(head) =>
           /\ Unclosed(rest, done)
           /\ \A n \in DOMAIN rest : ~AtRoot(rest[n], "handle")
  <2>1. FiredBy(head, done) = done
    BY DEF FiredBy
  <2>2. /\ event.on = Root => AtRoot(head, "handle")
        /\ EndsRoot(head) => AtRoot(head, "handle")
    BY DEF AtRoot, EndsRoot
  <2> QED
    BY <2>1, <2>2, FiringKeeps
<1>4. EndsRoot(head) <=> event.on = Root /\ event.type \in {"closing", "close"}
  BY DEF EndsRoot, AtRoot
<1>5. EndsRoot(head) => RootHandles(rest) = {}
  BY <1>3 DEF RootHandles
<1>6. d = ScheduledAll(rest, DelayOf("dispatch"), "dispatch", <<event>>)
  BY Delays
<1>7. next = Handled(rest, event)
  OBVIOUS
<1>8. ASSUME ~(event.on = Root /\ event.type = "close")
      PROVE  /\ Pending(d, done, made)
             /\ Unclosed(rest, done) => Unclosed(d, done)
             /\ RootHandles(d) \subseteq RootHandles(rest)
  <2>1. Harmless(rest, done, "dispatch", event)
    BY <1>3, <1>8 DEF Harmless
  <2> HIDE DEF rest, event, d
  <2> QED
    BY <1>2, <1>3, <1>6, <2>1, OneKeeps
<1> HIDE DEF rest, head, event, d
<1>9. CASE EndsRoot(head) /\ event.type = "closing"
  <2> DEFINE close == Simple(Root, "close")
  <2>1. next = ScheduledAll(d, DelayOf("handle"), "handle", <<close>>)
    BY <1>4, <1>7, <1>9, Delays DEF Handled, d
  <2>2. close.on = Root /\ close.type = "close" /\ close \in Events
    BY EventFields DEF Simple, Objects, EventTypes
  <2>3. Unclosed(d, done) /\ RootHandles(d) = {} /\ Pending(d, done, made)
    BY <1>3, <1>5, <1>8, <1>9
  <2> HIDE DEF close
  <2>4. /\ Pending(next, done, made)
        /\ \A e \in RootHandles(next) : e \in RootHandles(d) \/ e = close
    BY <2>1, <2>2, <2>3, RootEndKeeps
  <2>5. ~Unclosed(queue, done)
    BY <1>1, <1>9, TailFacts DEF Unclosed, Pending, head
  <2> QED
    BY <2>2, <2>3, <2>4, <2>5
<1>10. CASE EndsRoot(head) /\ event.type = "close"
  <2>1. next = d
    BY <1>4, <1>7, <1>10 DEF Handled, d
  <2>2. /\ Pending(d, done, made)
        /\ \A e \in RootHandles(d) : e \in RootHandles(rest)
    BY <1>2, <1>3, <1>4, <1>5, <1>6, <1>10, RootEndKeeps
  <2>5. ~Unclosed(queue, done)
    BY <1>1, <1>10, TailFacts DEF Unclosed, Pending, head
  <2> QED
    BY <1>5, <1>10, <2>1, <2>2, <2>5
<1>11. CASE ~EndsRoot(head)
  <2>1. /\ Pending(d, done, made)
        /\ Unclosed(queue, done) => Unclosed(d, done)
        /\ RootHandles(d) \subseteq RootHandles(queue)
    BY <1>3, <1>4, <1>8, <1>11
  <2>2. CASE event.type = "closing"
    <3> DEFINE close == Simple(event.on, "close")
    <3>1. next = ScheduledAll(d, DelayOf("handle"), "handle", <<close>>)
      BY <1>7, <2>2, Delays DEF Handled, d
    <3>2. event.on \in PeerObjects /\ event.on # Root
      BY <1>2, <1>4, <1>11, <2>2
    <3>3. close.on = event.on /\ close.type = "close" /\ close \in Events
      BY <1>2, <3>2, EventFields DEF Simple, EventTypes
    <3> HIDE DEF close
    <3>4. \A k \in PeerObjects : About(close, k) => k \in made
      BY <1>3, <3>3 DEF About
    <3>5. Harmless(d, done, "handle", close)
      BY <3>2, <3>3 DEF Harmless
    <3>6. /\ Pending(next, done, made)
          /\ Unclosed(d, done) => Unclosed(next, done)
          /\ \A e \in RootHandles(next) : e \in RootHandles(d) \/ e = close
      BY <2>1, <3>1, <3>3, <3>4, <3>5, OneKeeps
    <3> QED
      BY <1>11, <2>1, <3>3, <3>6 DEF head
  <2>3. CASE event.type = "close"
    <3> DEFINE gone == Event(Root, "disconnect", event.on)
    <3>1. event.on \in PeerObjects /\ event.on # Root
      BY <1>2, <1>4, <1>11, <2>3
    <3>2. next = ScheduledAll(d, DelayOf("dispatch"), "dispatch", <<gone>>)
      BY <1>7, <2>3, <3>1, Delays DEF Handled, d
    <3>3. /\ gone.on = Root /\ gone.type = "disconnect" /\ gone.detail = event.on
          /\ gone \in Events
      BY <1>2, EventFields DEF Objects, EventTypes
    <3> HIDE DEF gone
    <3>4. \A k \in PeerObjects : About(gone, k) => k \in made
      BY <1>2, <1>3, <3>3 DEF About
    <3>5. Harmless(d, done, "dispatch", gone)
      BY <3>3 DEF Harmless
    <3>6. /\ Pending(next, done, made)
          /\ Unclosed(d, done) => Unclosed(next, done)
          /\ \A e \in RootHandles(next) : e \in RootHandles(d)
      BY <2>1, <3>2, <3>3, <3>4, <3>5, OneKeeps
    <3> QED
      BY <1>11, <2>1, <3>6 DEF head
  <2>4. CASE event.type \notin {"closing", "close"}
    <3>1. next = d
      BY <1>7, <2>4 DEF Handled, d
    <3> QED
      BY <1>11, <2>1, <3>1 DEF head
  <2> QED
    BY <2>2, <2>3, <2>4
<1> QED
  BY <1>4, <1>9, <1>10, <1>11

LEMMA ListedCreated ==
  ASSUME TypeOK
  PROVE  \A n \in DOMAIN peers : peers[n].object \in Created /\ peers[n].id \in PeerIds
<1> DEFINE Entry == [object : Created, id : PeerIds]
<1>1. peers \in Seq(Entry)
  BY DEF TypeOK
<1>2. \A e \in Entry : e.object \in Created /\ e.id \in PeerIds
  OBVIOUS
<1> HIDE DEF Entry
<1> QED
  BY <1>1, <1>2

\* webSocket.onopen: the root's opening is to be handled.
LEMMA SocketOpensKeeps ==
  ASSUME SInv, SocketOpens
  PROVE  SInv'
<1> DEFINE open == Simple(Root, "open")
<1>1. open.on = Root /\ open.type = "open" /\ open \in Events
  BY EventFields DEF Simple, Objects, EventTypes
<1>2. timers' = ScheduledAll(timers, DelayOf("handle"), "handle", <<open>>)
  BY Delays DEF SocketOpens, OpenRoot
<1> HIDE DEF open
<1>3. Pending(timers, fired, Created) /\ Unclosed(timers, fired)
  BY DEF SInv, SocketOpens
<1>4. Harmless(timers, fired, "handle", open)
  BY <1>1, <1>3 DEF Harmless
<1>5. \A k \in PeerObjects : ~About(open, k)
  BY <1>1 DEF About, PeerObjects, Root
<1>6. Pending(timers', fired, Created) /\ Unclosed(timers', fired)
  BY <1>1, <1>2, <1>3, <1>4, <1>5, OneKeeps
<1>7. Created' = Created
  BY DEF SocketOpens, Created
<1>8. TypeOK'
  BY <1>6, <1>7 DEF SInv, TypeOK, SocketOpens, Pending, Timers
<1>9. ConnectFirst'
  BY DEF SInv, ConnectFirst, SocketOpens
<1>10. RootState(timers', readyState', ws')
  BY DEF SInv, RootState, SocketOpens
<1> QED
  BY <1>6, <1>7, <1>8, <1>9, <1>10 DEF SInv, SocketOpens

\* Every object listed begins to close.
LEMMA DoCloseAllKeeps ==
  ASSUME SInv, ws # "closed"
  PROVE  /\ Pending(DoCloseAll(timers, peers), fired, Created)
         /\ Unclosed(DoCloseAll(timers, peers), fired)
<1> DEFINE batch == [n \in DOMAIN peers |-> Closing(peers[n].object)]
           closed == ScheduledAll(timers, DelayOf("handle"), "handle", batch)
<1>1. Pending(timers, fired, Created) /\ Unclosed(timers, fired)
  BY DEF SInv
<1>2. \A n \in DOMAIN peers : peers[n].object \in Created
  BY ListedCreated DEF SInv
<1>3. Created \subseteq PeerObjects /\ \A k \in PeerObjects : k \in Objects /\ k # Root
  BY DEF Created, Objects, PeerObjects, Root
<1>4. ASSUME NEW n \in DOMAIN peers
      PROVE  /\ batch[n].on = peers[n].object /\ batch[n].type = "closing"
             /\ batch[n] \in Events
  BY <1>2, <1>3, EventFields DEF Closing, Simple, EventTypes
<1>5. batch \in Seq(Events) /\ DOMAIN batch = DOMAIN peers
  <2>1. peers \in Seq([object : Created, id : PeerIds])
    BY DEF SInv, TypeOK
  <2>2. Len(peers) \in Nat /\ DOMAIN peers = 1..Len(peers)
    BY <2>1
  <2>3. batch \in [1..Len(peers) -> Events]
    BY <1>4, <2>2
  <2> HIDE DEF batch
  <2> QED
    BY <2>2, <2>3
<1>6. DoCloseAll(timers, peers) = closed
  BY DEF DoCloseAll, DelayOf
<1> HIDE DEF batch
<1>7. Allowed(timers, fired, Created, Created, "handle", batch)
  <2>1. ASSUME NEW n \in DOMAIN batch, NEW k \in PeerObjects, About(batch[n], k)
        PROVE  k \in Created
    BY <1>2, <1>4, <1>5, <2>1 DEF About
  <2>2. ASSUME NEW n \in DOMAIN batch PROVE Harmless(timers, fired, "handle", batch[n])
    BY <1>2, <1>3, <1>4, <1>5 DEF Harmless
  <2> QED
    BY <1>4, <1>5, <2>1, <2>2 DEF Allowed
<1>8. Pending(closed, fired, Created) /\ Unclosed(closed, fired)
  BY <1>1, <1>5, <1>7, ScheduledKeeps
<1> QED
  BY <1>6, <1>8

\* webSocket.onclose: every object listed, and then the root, begins to close.
LEMMA SocketClosesKeeps ==
  ASSUME SInv, SocketCloses
  PROVE  SInv'
<1> DEFINE closed == DoCloseAll(timers, peers)
           end == Closing(Root)
<1>1. timers' = ScheduledAll(closed, DelayOf("handle"), "handle", <<end>>)
  BY Delays DEF SocketCloses, CloseRoot, DoClose
<1>2. Pending(closed, fired, Created) /\ Unclosed(closed, fired)
  BY DoCloseAllKeeps DEF SocketCloses
<1> HIDE DEF closed, end
<1>3. end.on = Root /\ end.type = "closing" /\ end \in Events
  BY EventFields DEF end, Closing, Simple, Objects, EventTypes
<1>4. Pending(timers', fired, Created)
  BY <1>1, <1>2, <1>3, RootEndKeeps
<1>5. Created' = Created
  BY DEF SocketCloses, Created
<1>6. TypeOK'
  <2>1. peers' \in Seq([object : Created, id : PeerIds])
    BY DEF SocketCloses
  <2> QED
    BY <1>4, <1>5, <2>1 DEF SInv, TypeOK, SocketCloses, Pending, Timers
<1>7. ConnectFirst'
  BY DEF SInv, ConnectFirst, SocketCloses
<1>8. RootState(timers', readyState', ws')
  BY DEF SInv, RootState, SocketCloses
<1> QED
  BY <1>4, <1>5, <1>6, <1>7, <1>8 DEF SInv, SocketCloses

\* A connect: the new object is announced at once and opens later.
LEMMA ReceiveConnectKeeps ==
  ASSUME SInv, NEW i \in PeerIds, ReceiveConnect(i)
  PROVE  SInv'
<1> DEFINE k == 1 + Cardinality(Created)
           told == Scheduled(timers, 2, "dispatch", Connect(k))
           open == Simple(k, "open")
<1>1. /\ k \in PeerObjects /\ ws = "open" /\ ws' = ws /\ fired' = fired
      /\ readyState' = [readyState EXCEPT ![k] = "connecting"]
      /\ peers' = Append(peers, [object |-> k, id |-> i])
      /\ timers' = Announce(timers, k)
      /\ UNCHANGED <<arrived, asked>>
  BY DEF ReceiveConnect
<1> HIDE DEF k
<1>2. told = ScheduledAll(timers, DelayOf("dispatch"), "dispatch", <<Connect(k)>>)
  BY Delays DEF DispatchEvent
<1>3. timers' = ScheduledAll(told, DelayOf("openPeer"), "openPeer", <<open>>)
  BY <1>1, Delays DEF Announce, DispatchEvent, Connect
<1>4. /\ Connect(k).on = Root /\ Connect(k).type = "connect" /\ Connect(k) \in Events
      /\ open.on = k /\ open.type = "open" /\ open \in Events
      /\ k # Root /\ k \in Objects
  <2>1. k \in Objects /\ k # Root /\ Root \in Objects
    BY <1>1 DEF Objects, PeerObjects, Root
  <2> QED
    BY <2>1, EventFields DEF Connect, Simple, EventTypes
<1> HIDE DEF told, open
<1>5. Pending(timers, fired, Created) /\ Unclosed(timers, fired)
  BY <1>1 DEF SInv
<1>6. Created' = Created \cup {k}
  BY <1>1 DEF Created, SInv, TypeOK, Objects
<1>7. /\ Pending(told, fired, Created \cup {k}) /\ Unclosed(told, fired)
      /\ RootHandles(told) \subseteq RootHandles(timers)
  <2>1. \A j \in PeerObjects : ~About(Connect(k), j)
    BY <1>4 DEF About, PeerObjects, Root
  <2>2. Harmless(timers, fired, "dispatch", Connect(k))
    BY <1>4, <1>5 DEF Harmless, Unclosed
  <2> QED
    BY <1>2, <1>4, <1>5, <2>1, <2>2, OneKeeps
<1>8. /\ Pending(timers', fired, Created \cup {k}) /\ Unclosed(timers', fired)
      /\ RootHandles(timers') \subseteq RootHandles(told)
  <2>1. \A j \in PeerObjects : About(open, j) => j \in Created \cup {k}
    BY <1>4 DEF About
  <2>2. Harmless(told, fired, "openPeer", open)
    BY <1>4 DEF Harmless
  <2>3. "openPeer" \in {"dispatch", "handle", "openPeer"} /\ open.type # "disconnect"
    BY <1>4
  <2>4. /\ Pending(timers', fired, Created \cup {k})
        /\ Unclosed(told, fired) => Unclosed(timers', fired)
        /\ \A e \in RootHandles(timers') : e \in RootHandles(told)
    BY <1>1, <1>3, <1>4, <1>7, <2>1, <2>2, <2>3, OneKeeps
  <2> QED
    BY <1>7, <2>4
<1>9. TypeOK'
  <2>1. readyState' \in [Objects -> {"none", "connecting", "open", "closing", "closed"}]
    BY <1>1 DEF SInv, TypeOK
  <2>2. peers' \in Seq([object : Created', id : PeerIds])
    <3> DEFINE Entry(made) == [object : made, id : PeerIds]
    <3>1. peers \in Seq(Entry(Created))
      BY DEF SInv, TypeOK
    <3>2. Entry(Created) \subseteq Entry(Created') /\ [object |-> k, id |-> i] \in Entry(Created')
      BY <1>6
    <3>3. \A e \in Entry(Created) : e \in Entry(Created')
      BY <3>2
    <3> HIDE DEF Entry
    <3>4. peers \in Seq(Entry(Created'))
      BY <3>1, <3>3
    <3>5. peers' \in Seq(Entry(Created'))
      BY <1>1, <3>2, <3>4
    <3> QED
      BY <3>5 DEF Entry
  <2> QED
    BY <1>1, <1>8, <2>1, <2>2 DEF SInv, TypeOK, Pending, Timers
<1>10. ConnectFirst'
  BY <1>1 DEF SInv, ConnectFirst
<1>11. RootState(timers', readyState', ws')
  BY <1>1, <1>4 DEF SInv, RootState, TypeOK, Objects
<1> QED
  BY <1>1, <1>6, <1>8, <1>9, <1>10, <1>11 DEF SInv

\* The steps that have an object handle a message, or that of a peer close, and
\* change neither the socket nor a state.
LEMMA PeerHandleKeeps ==
  ASSUME SInv, NEW event \in Events, event.type \in {"closing", "message"},
         \/ event.on \in Created
         \/ event.on = Root /\ event.type = "message" /\ ws = "open",
         timers' = HandleEvent(timers, event),
         UNCHANGED <<ws, readyState, fired>>,
         peers' \in Seq([object : Created, id : PeerIds]),
         arrived' \subseteq Payloads, asked' \subseteq PeerObjects
  PROVE  SInv'
<1>1. timers' = ScheduledAll(timers, DelayOf("handle"), "handle", <<event>>)
  BY Delays
<1>2. Created' = Created
  BY DEF Created
<1>3. Created \subseteq PeerObjects /\ \A k \in PeerObjects : k # Root
  BY DEF Created, PeerObjects, Root
<1>4. Pending(timers, fired, Created) /\ (ws # "closed" => Unclosed(timers, fired))
  BY DEF SInv
<1>5. event.on = Root => ws = "open" /\ event.type = "message"
  BY <1>3
<1>6. Harmless(timers, fired, "handle", event)
  BY <1>4, <1>5 DEF Harmless
<1>7. \A k \in PeerObjects : About(event, k) => k \in Created
  BY <1>3 DEF About
<1>8. /\ Pending(timers', fired, Created)
      /\ Unclosed(timers, fired) => Unclosed(timers', fired)
      /\ \A e \in RootHandles(timers') :
           e \in RootHandles(timers) \/ event.on = Root
  BY <1>1, <1>4, <1>6, <1>7, OneKeeps
<1>9. TypeOK'
  BY <1>2, <1>8 DEF SInv, TypeOK, Pending, Timers
<1>10. ConnectFirst'
  BY DEF SInv, ConnectFirst
<1>11. RootState(timers', readyState', ws')
  BY <1>5, <1>8 DEF SInv, RootState
<1> QED
  BY <1>2, <1>4, <1>8, <1>9, <1>10, <1>11 DEF SInv

LEMMA RemoveAtTyped ==
  ASSUME NEW S, NEW s \in Seq(S), NEW n \in DOMAIN s
  PROVE  RemoveAt(s, n) \in Seq(S)
<1>1. n \in Int /\ n >= 1 /\ n <= Len(s) /\ Len(s) \in Nat
      /\ \A m \in 1..Len(s) : s[m] \in S
  OBVIOUS
<1>2. SubSeq(s, 1, n - 1) \in Seq(S)
  <2>1. 1 \in Int /\ n - 1 \in Int /\ \A m \in 1..(n - 1) : s[m] \in S
    BY <1>1
  <2> QED
    BY <2>1, SubSeqProperties
<1>3. SubSeq(s, n + 1, Len(s)) \in Seq(S)
  <2>1. n + 1 \in Int /\ Len(s) \in Int /\ \A m \in (n + 1)..Len(s) : s[m] \in S
    BY <1>1
  <2> QED
    BY <2>1, SubSeqProperties
<1> QED
  BY <1>2, <1>3, ConcatProperties DEF RemoveAt

LEMMA CreatedObjects ==
  ASSUME NEW k \in Created \cup {Root}
  PROVE  k \in Objects
  BY DEF Created, Objects

\* A disconnect: the object that is unlisted begins to close.
LEMMA ReceiveDisconnectKeeps ==
  ASSUME SInv, NEW i \in PeerIds, ReceiveDisconnect(i)
  PROVE  SInv'
<1>1. PICK n \in DOMAIN peers : /\ timers' = DoClose(timers, peers[n].object)
                                /\ peers' = RemoveAt(peers, n)
  BY DEF ReceiveDisconnect
<1>2. peers[n].object \in Created
  BY ListedCreated DEF SInv
<1> DEFINE event == Closing(peers[n].object)
<1>3. event.on = peers[n].object /\ event.type = "closing" /\ event \in Events
  BY <1>2, CreatedObjects, EventFields DEF Closing, Simple, EventTypes
<1>4. timers' = HandleEvent(timers, event)
  BY <1>1 DEF DoClose
<1> HIDE DEF event
<1>5. peers' \in Seq([object : Created, id : PeerIds])
  BY <1>1, RemoveAtTyped DEF SInv, TypeOK
<1>6. arrived' \subseteq Payloads /\ asked' \subseteq PeerObjects
      /\ UNCHANGED <<ws, readyState, fired>>
  BY DEF SInv, TypeOK, ReceiveDisconnect
<1> QED
  BY <1>2, <1>3, <1>4, <1>5, <1>6, PeerHandleKeeps

\* A payload arrives.
LEMMA ReceiveDataKeeps ==
  ASSUME SInv, NEW k \in Created \cup {Root}, NEW d \in Payloads, ReceiveData(k, d)
  PROVE  SInv'
<1> DEFINE event == Event(k, "message", d)
<1>1. event.on = k /\ event.type = "message" /\ event \in Events
  BY CreatedObjects, EventFields DEF EventTypes
<1>2. timers' = HandleEvent(timers, event) /\ ws = "open"
  BY DEF ReceiveData
<1> HIDE DEF event
<1>3. /\ peers' \in Seq([object : Created, id : PeerIds])
      /\ arrived' \subseteq Payloads /\ asked' \subseteq PeerObjects
      /\ UNCHANGED <<ws, readyState, fired>>
  BY DEF SInv, TypeOK, ReceiveData
<1> QED
  BY <1>1, <1>2, <1>3, PeerHandleKeeps

\* The page closes the object of a peer.
LEMMA ClosePeerKeeps ==
  ASSUME SInv, NEW k \in PeerObjects, ClosePeer(k)
  PROVE  SInv'
<1> DEFINE event == Closing(k)
<1>1. k \in Created
  BY DEF ClosePeer, Created
<1>2. event.on = k /\ event.type = "closing" /\ event \in Events
  BY <1>1, CreatedObjects, EventFields DEF Closing, Simple, EventTypes
<1>3. timers' = HandleEvent(timers, event)
  BY DEF ClosePeer, DoClose
<1> HIDE DEF event
<1>4. /\ peers' \in Seq([object : Created, id : PeerIds])
      /\ arrived' \subseteq Payloads /\ asked' \subseteq PeerObjects
      /\ UNCHANGED <<ws, readyState, fired>>
  BY DEF SInv, TypeOK, ClosePeer
<1> QED
  BY <1>1, <1>2, <1>3, <1>4, PeerHandleKeeps

\* The page closes the root, or forgets the peers while it does.
LEMMA ClosingKeeps ==
  ASSUME SInv, ws # "closed", ws' = "closing", peers' \in {peers, <<>>},
         UNCHANGED <<readyState, timers, fired, arrived, asked>>
  PROVE  SInv'
<1>1. Created' = Created
  BY DEF Created
<1>2. <<>> \in Seq([object : Created, id : PeerIds])
  OBVIOUS
<1>3. TypeOK'
  BY <1>1, <1>2 DEF SInv, TypeOK
<1>4. ConnectFirst'
  BY DEF SInv, ConnectFirst
<1>5. RootState(timers', readyState', ws')
  BY DEF SInv, RootState
<1> QED
  BY <1>1, <1>3, <1>4, <1>5 DEF SInv

\* Time passes.
LEMMA ElapseKeeps ==
  ASSUME SInv, Elapse
  PROVE  SInv'
<1>1. /\ Pending(timers', fired, Created)
      /\ Unclosed(timers, fired) => Unclosed(timers', fired)
      /\ RootHandles(timers') = RootHandles(timers)
  BY WaitingKeeps DEF SInv, Elapse
<1>2. Created' = Created
  BY DEF Elapse, Created
<1>3. TypeOK'
  BY <1>1, <1>2 DEF SInv, TypeOK, Elapse, Pending, Timers
<1>4. ConnectFirst'
  BY DEF SInv, ConnectFirst, Elapse
<1>5. RootState(timers', readyState', ws')
  BY <1>1 DEF SInv, RootState, Elapse
<1> QED
  BY <1>1, <1>2, <1>3, <1>4, <1>5 DEF SInv, Elapse

\* Listeners are called: nothing that they hear comes before the 'connect' it
\* depends on, nor after the end of the root.
LEMMA DispatchKeeps ==
  ASSUME SInv, Dispatch
  PROVE  SInv' /\ NothingLate
<1> DEFINE event == Head(timers).event
<1>1. /\ timers # <<>> /\ Head(timers).job = "dispatch"
      /\ fired' = fired \cup {event} /\ timers' = Tail(timers)
      /\ UNCHANGED <<ws, readyState, peers, arrived, asked>>
  BY DEF Dispatch, Due
<1>2. fired' = FiredBy(Head(timers), fired)
  BY <1>1 DEF FiredBy
<1>3. Head(timers) \in Timers /\ event \in Events
  BY <1>1, TailFacts DEF SInv, Pending, Timers
<1>4. /\ Pending(timers', fired', Created)
      /\ Unclosed(timers, fired) => Unclosed(timers', fired')
      /\ RootHandles(timers') \subseteq RootHandles(timers)
      /\ \A k \in PeerObjects : About(event, k) => Connect(k) \in fired
      /\ RootClose \in fired /\ event.on = Root => event.type = "disconnect"
  <2>1. event.on = Root => AtRoot(Head(timers), "dispatch")
    BY <1>1 DEF AtRoot
  <2>2. Pending(timers, fired, Created) /\ timers # <<>>
    BY <1>1 DEF SInv
  <2>3. /\ Pending(Tail(timers), FiredBy(Head(timers), fired), Created)
        /\ Unclosed(timers, fired) =>
             Unclosed(Tail(timers), FiredBy(Head(timers), fired))
        /\ RootHandles(Tail(timers)) \subseteq RootHandles(timers)
    BY <2>2, FiringKeeps
  <2>4. \A k \in PeerObjects : About(event, k) => Connect(k) \in fired
    BY <1>1, <2>2, FiringKeeps
  <2>5. RootClose \in fired /\ event.on = Root => event.type = "disconnect"
    BY <2>1, <2>2, FiringKeeps
  <2> QED
    BY <1>1, <1>2, <2>3, <2>4, <2>5
<1> HIDE DEF event
<1>5. Created' = Created
  BY <1>1 DEF Created
<1>6. TypeOK'
  BY <1>1, <1>3, <1>4, <1>5 DEF SInv, TypeOK, Pending, Timers
<1>7. ConnectFirst'
  BY <1>1, <1>4 DEF SInv, ConnectFirst, About, Connect
<1>8. RootState(timers', readyState', ws')
  BY <1>1, <1>4 DEF SInv, RootState
<1>9. NothingLate
  BY <1>1, <1>4 DEF NothingLate, RootClose
<1> QED
  BY <1>1, <1>4, <1>5, <1>6, <1>7, <1>8, <1>9 DEF SInv

\* An object handles an event: the root never goes back.
LEMMA HandleKeeps ==
  ASSUME SInv, Handle
  PROVE  SInv' /\ Forward(Root)
<1> DEFINE event == Head(timers).event
           after == StateAfter(event)
           States == {"none", "connecting", "open", "closing", "closed"}
<1>1. /\ timers # <<>> /\ Head(timers).job = "handle"
      /\ readyState' = [readyState EXCEPT ![event.on] = after]
      /\ timers' = Handled(Tail(timers), event)
      /\ UNCHANGED <<ws, peers, fired, arrived, asked>>
  BY DEF Handle, Due
<1>2. Head(timers) \in Timers /\ 1 \in DOMAIN timers /\ Head(timers) = timers[1]
  BY <1>1, TailFacts DEF SInv, Pending
<1>3. /\ event \in Events /\ event.on \in Objects
      /\ event.on # Root => event.on \in PeerObjects
  <2>1. event \in Events
    BY <1>2 DEF Timers
  <2> HIDE DEF event
  <2> QED
    BY <2>1, EventsTyped
<1>4. \A k \in PeerObjects : About(event, k) => k \in Created
  BY <1>1, FiringKeeps DEF SInv
<1>5. /\ Pending(timers', fired, Created)
      /\ Unclosed(timers, fired) => Unclosed(timers', fired)
      /\ \A e \in RootHandles(timers') : e \in RootHandles(timers) \/ e.type = "close"
      /\ EndsRoot(Head(timers)) => \A e \in RootHandles(timers') : e.type = "close"
  BY <1>1, HandledKeeps DEF SInv
<1>6. /\ event.on = Root => event \in RootHandles(timers)
      /\ event.on = Root /\ event.type \in {"closing", "close"} => EndsRoot(Head(timers))
      /\ EndsRoot(Head(timers)) => ws = "closed"
  <2>1. event.on = Root => event \in RootHandles(timers)
    BY <1>1, <1>2 DEF RootHandles, AtRoot
  <2>2. event.on = Root /\ event.type \in {"closing", "close"} => EndsRoot(Head(timers))
    BY <1>1 DEF EndsRoot, AtRoot
  <2>3. EndsRoot(Head(timers)) => ~Unclosed(timers, fired)
    BY <1>2 DEF Unclosed
  <2> QED
    BY <2>1, <2>2, <2>3 DEF SInv
<1> HIDE DEF event
<1>7. /\ event.type = "open" => after = "open"
      /\ event.type = "closing" => after = "closing"
      /\ event.type = "close" => after = "closed"
      /\ event.type \notin {"open", "closing", "close"} => after = readyState[event.on]
  BY DEF StateAfter
<1> HIDE DEF after
<1>8. /\ readyState \in [Objects -> States] /\ after \in States
      /\ Root \in Objects /\ readyState[Root] # "none"
      /\ event.on \in Created \/ event.on = Root
  <2>1. event.on \in PeerObjects => event.on \in Created
    BY <1>4 DEF About
  <2> QED
    BY <1>3, <1>7, <2>1 DEF SInv, TypeOK, RootState, Objects
<1>9. after # "none"
  BY <1>7, <1>8 DEF Created
<1>10. Created' = Created
  BY <1>1, <1>3, <1>8, <1>9 DEF Created, Objects
<1>11. TypeOK'
  <2>1. readyState' \in [Objects -> States]
    BY <1>1, <1>8
  <2> QED
    BY <1>1, <1>5, <1>10, <2>1 DEF SInv, TypeOK, Pending, Timers
<1>12. ConnectFirst'
  BY <1>1 DEF SInv, ConnectFirst
<1>13. /\ event.on # Root => readyState'[Root] = readyState[Root]
       /\ event.on = Root => readyState'[Root] = after
  BY <1>1, <1>8
<1>14. RootState(timers', readyState', ws')
  <2>1. CASE event.on = Root /\ event.type \in {"closing", "close"}
    BY <1>1, <1>5, <1>6, <1>9, <1>13, <2>1 DEF RootState
  <2>2. CASE ~(event.on = Root /\ event.type \in {"closing", "close"})
    <3>1. readyState'[Root] \in {"closing", "closed"} => readyState'[Root] = readyState[Root]
      BY <1>7, <1>13, <2>2
    <3> QED
      BY <1>1, <1>5, <1>8, <1>9, <1>13, <3>1 DEF SInv, RootState
  <2> QED
    BY <2>1, <2>2
<1>15. Forward(Root)
  <2>1. \/ readyState'[Root] = readyState[Root]
        \/ readyState[Root] \in {"connecting", "open"} /\ readyState'[Root] = "open"
        \/ readyState[Root] \in {"connecting", "open"} /\ readyState'[Root] = "closing"
        \/ readyState'[Root] = "closed"
    <3>1. event.on = Root /\ readyState[Root] \in {"closing", "closed"} =>
            event.type = "close"
      BY <1>6 DEF SInv, RootState
    <3> QED
      BY <1>7, <1>8, <1>13, <3>1
  <2>2. readyState[Root] \in {"connecting", "open", "closing", "closed"}
    BY <1>8
  <2> QED
    BY <2>1, <2>2 DEF Forward, Rank
<1> QED
  BY <1>1, <1>5, <1>10, <1>11, <1>12, <1>14, <1>15 DEF SInv

\* The object of a peer is to handle its opening.
LEMMA OpenPeerKeeps ==
  ASSUME SInv, OpenPeer
  PROVE  SInv'
<1> DEFINE event == Head(timers).event
           rest == Tail(timers)
<1>1. /\ timers # <<>> /\ Head(timers).job = "openPeer"
      /\ timers' = HandleEvent(rest, event)
      /\ UNCHANGED <<ws, readyState, peers, fired, arrived, asked>>
  BY DEF OpenPeer, Due
<1>2. Head(timers) \in Timers /\ 1 \in DOMAIN timers /\ Head(timers) = timers[1]
  BY <1>1, TailFacts DEF SInv, Pending
<1>3. event \in Events /\ event.on \in PeerObjects /\ event.type = "open"
  BY <1>1, <1>2 DEF SInv, Pending, Fit, Timers
<1>4. /\ Pending(rest, fired, Created)
      /\ Unclosed(timers, fired) => Unclosed(rest, fired)
      /\ RootHandles(rest) \subseteq RootHandles(timers)
      /\ \A k \in PeerObjects : About(event, k) => k \in Created
  <2>1. FiredBy(Head(timers), fired) = fired
    BY <1>1 DEF FiredBy
  <2> QED
    BY <1>1, <2>1, FiringKeeps DEF SInv
<1> HIDE DEF event, rest
<1>5. timers' = ScheduledAll(rest, DelayOf("handle"), "handle", <<event>>)
  BY <1>1, Delays
<1>6. event.on # Root
  BY <1>3 DEF PeerObjects, Root
<1>7. Harmless(rest, fired, "handle", event)
  BY <1>6 DEF Harmless
<1>8. /\ Pending(timers', fired, Created)
      /\ Unclosed(rest, fired) => Unclosed(timers', fired)
      /\ \A e \in RootHandles(timers') : e \in RootHandles(rest)
  BY <1>3, <1>4, <1>5, <1>6, <1>7, OneKeeps
<1>9. Created' = Created
  BY <1>1 DEF Created
<1>10. TypeOK'
  BY <1>1, <1>8, <1>9 DEF SInv, TypeOK, Pending, Timers
<1>11. ConnectFirst'
  BY <1>1 DEF SInv, ConnectFirst
<1>12. RootState(timers', readyState', ws')
  BY <1>1, <1>4, <1>8 DEF SInv, RootState
<1> QED
  BY <1>1, <1>4, <1>8, <1>9, <1>10, <1>11, <1>12 DEF SInv

(***************************************************************************)
(* The theorems.                                                           *)
(***************************************************************************)

LEMMA Initially ==
  ASSUME Init
  PROVE  SInv
<1>1. Created = {}
  BY DEF Init, Created, Objects, PeerObjects, Root
<1>2. <<>> \in Seq(Timers) /\ <<>> \in Seq([object : Created, id : PeerIds])
      /\ DOMAIN <<>> = {}
  OBVIOUS
<1>3. Pending(timers, fired, Created) /\ Unclosed(timers, fired)
  BY <1>1, <1>2 DEF Init, Pending, InOrder, Fit, AnnouncedFirst, RootOrder, Unclosed
<1>4. TypeOK
  BY <1>2 DEF Init, TypeOK, Timers, Objects
<1>5. RootState(timers, readyState, ws)
  BY DEF Init, RootState, Objects
<1>6. ConnectFirst
  BY DEF Init, ConnectFirst
<1> QED
  BY <1>3, <1>4, <1>5, <1>6 DEF SInv

\* Every step keeps the invariant, calls no listener of the root late and does
\* not take the root's readyState back.
LEMMA Step ==
  ASSUME SInv, Next
  PROVE  SInv' /\ NothingLate /\ Forward(Root)
<1>1. fired' = fired => NothingLate
  BY DEF NothingLate
<1>2. readyState'[Root] = readyState[Root] => Forward(Root)
  <2>1. readyState[Root] \in {"none", "connecting", "open", "closing", "closed"}
    BY DEF SInv, TypeOK, Objects
  <2> QED
    BY <2>1 DEF Forward, Rank
<1>3. CASE CloseNetworkWebSocket
  BY <1>1, <1>2, <1>3, ClosingKeeps DEF CloseNetworkWebSocket
<1>4. ASSUME NEW k \in PeerObjects, ClosePeer(k)
      PROVE  SInv' /\ NothingLate /\ Forward(Root)
  BY <1>1, <1>2, <1>4, ClosePeerKeeps DEF ClosePeer
<1>5. CASE SocketOpens
  BY <1>1, <1>2, <1>5, SocketOpensKeeps DEF SocketOpens
<1>6. CASE SocketCloses
  BY <1>1, <1>2, <1>6, SocketClosesKeeps DEF SocketCloses
<1>7. ASSUME NEW i \in PeerIds, ReceiveConnect(i)
      PROVE  SInv' /\ NothingLate /\ Forward(Root)
  <2>1. readyState'[Root] = readyState[Root]
    BY <1>7 DEF ReceiveConnect, SInv, TypeOK, Objects, PeerObjects, Root
  <2> QED
    BY <1>1, <1>2, <1>7, <2>1, ReceiveConnectKeeps DEF ReceiveConnect
<1>8. ASSUME NEW i \in PeerIds, ReceiveDisconnect(i)
      PROVE  SInv' /\ NothingLate /\ Forward(Root)
  BY <1>1, <1>2, <1>8, ReceiveDisconnectKeeps DEF ReceiveDisconnect
<1>9. ASSUME NEW k \in Created \cup {Root}, NEW d \in Payloads, ReceiveData(k, d)
      PROVE  SInv' /\ NothingLate /\ Forward(Root)
  BY <1>1, <1>2, <1>9, ReceiveDataKeeps DEF ReceiveData
<1>10. ASSUME NEW i \in PeerIds, NEW d \in Payloads, ReceiveMessage(i, d)
       PROVE  SInv' /\ NothingLate /\ Forward(Root)
  <2>1. PICK n \in DOMAIN peers : ReceiveData(peers[n].object, d)
    BY <1>10 DEF ReceiveMessage
  <2>2. peers[n].object \in Created
    BY ListedCreated DEF SInv
  <2> QED
    BY <1>9, <2>1, <2>2
<1>11. ASSUME NEW d \in Payloads, ReceiveBroadcast(d)
       PROVE  SInv' /\ NothingLate /\ Forward(Root)
  BY <1>9, <1>11 DEF ReceiveBroadcast
<1>12. CASE Dispatch
  BY <1>2, <1>12, DispatchKeeps DEF Dispatch
<1>13. CASE Handle
  BY <1>1, <1>13, HandleKeeps DEF Handle
<1>14. CASE OpenPeer
  BY <1>1, <1>2, <1>14, OpenPeerKeeps DEF OpenPeer
<1>15. CASE Elapse
  BY <1>1, <1>2, <1>15, ElapseKeeps DEF Elapse
<1> QED
  BY <1>3, <1>4, <1>5, <1>6, <1>7, <1>8, <1>10, <1>11, <1>12, <1>13, <1>14, <1>15
     DEF Next, Page, Socket, Fire

LEMMA Stuttering ==
  ASSUME SInv, UNCHANGED vars
  PROVE  SInv' /\ NothingLate /\ Forward(Root)
<1>1. SInv'
  <2>1. Created' = Created
    BY DEF vars, Created
  <2>2. TypeOK'
    BY <2>1 DEF SInv, TypeOK, vars
  <2>3. ConnectFirst'
    BY DEF SInv, ConnectFirst, vars
  <2> QED
    BY <2>1, <2>2, <2>3 DEF SInv, vars
<1>2. NothingLate
  BY DEF NothingLate, vars
<1>3. Forward(Root)
  <2>1. readyState[Root] \in {"none", "connecting", "open", "closing", "closed"}
    BY DEF SInv, TypeOK, Objects
  <2> QED
    BY <2>1 DEF Forward, Rank, vars
<1> QED
  BY <1>1, <1>2, <1>3

\* The inductive invariant of a NetworkWebSocket and its timers.
THEOREM ShimInvariant == Spec => []SInv
<1>1. SInv /\ [Next]_vars => SInv'
  BY Step, Stuttering
<1> QED
  BY <1>1, Initially, PTL DEF Spec

\* Type correctness, through every chain of timers.
THEOREM ShimTypeCorrect == Spec => []TypeOK
<1>1. SInv => TypeOK
  BY DEF SInv
<1> QED
  BY <1>1, ShimInvariant, PTL

\* A page hears of a peer by 'connect' before anything else about it.
THEOREM ConnectAlwaysFirst == Spec => []ConnectFirst
<1>1. SInv => ConnectFirst
  BY DEF SInv
<1> QED
  BY <1>1, ShimInvariant, PTL

\* After its 'close' the root object fires nothing but the 'disconnect' of peers.
THEOREM NothingEverAfterClose == Spec => NothingAfterClose
<1>1. SInv /\ [Next]_vars => [NothingLate]_vars
  BY Step
<1> QED
  BY <1>1, ShimInvariant, PTL DEF Spec, NothingAfterClose

\* The root object's readyState never goes back.
THEOREM RootAlwaysForward == Spec => RootForward
<1>1. SInv /\ [Next]_vars => [Forward(Root)]_vars
  BY Step
<1> QED
  BY <1>1, ShimInvariant, PTL DEF Spec, RootForward
=============================================================================
