-------------------------- MODULE PublicationsProofs --------------------------
(***************************************************************************)
(* Proofs about the publication of events for any number of clients, any   *)
(* capacity of their queues and any number of events and interruptions:    *)
(* that no client misses an event, or is told the same one twice by a      *)
(* refresh that was not interrupted (FollowedInOrder).                     *)
(***************************************************************************)
EXTENDS Publications, SequenceTheorems, TLAPS

-----------------------------------------------------------------------------
(* The inductive invariant.                                                *)

\* The last event offered to the subscribers.
Position == IF view.phase = "publishing" THEN view.at ELSE view.local

\* The projection is behind the canonical state, and what was dropped from the next
\* one has failed.
ViewInv ==
    /\ view.local <= events
    /\ view.phase = "publishing" =>
            view.local <= view.at /\ view.at <= view.target /\ view.target <= events
    /\ view.phase = "idle" => view.dropped = {}
    /\ \A f \in view.dropped : followers[f].phase = "following" /\ followers[f].failed

\* The last event a subscriber has or is going to get without further offers.
Reached(s) == IF s.received > s.replay[2] THEN s.received ELSE s.replay[2]
LastOffered(s) == IF s.queue = <<>> THEN Reached(s) ELSE s.queue[Len(s.queue)]

\* What a client has received, its replay and its queue leave no gap, up to the last
\* event that was offered, nor does the cursor it is told when it is cut off.
Gapless(s, last, position) ==
    /\ s.seen # "gap" /\ s.phase # "expired"
    /\ s.cursor <= s.received /\ s.received <= last
    /\ s.phase = "reading" => s.cursor <= s.needs
    /\ s.phase # "following" => s.replay[1] = s.replay[2] /\ s.queue = <<>> /\ ~s.failed
    /\ s.replay[1] <= s.replay[2] /\ s.replay[1] <= s.received /\ s.replay[2] <= last
    /\ \A k \in 1..Len(s.queue) :
        /\ s.queue[k] <= last
        /\ s.queue[k] <= (IF k = 1 THEN Reached(s) ELSE s.queue[k - 1]) + 1
    /\ s.phase = "following" /\ ~s.failed => position <= LastOffered(s)
    /\ s.failed => s.told <= LastOffered(s)

\* As long as no refresh was interrupted the queue goes on exactly where the replay,
\* or what was received, ends.
Base(s) == IF s.replay[1] < s.replay[2] THEN s.replay[2] ELSE s.received
Exact(s, position) ==
    /\ s.seen = "ordered"
    /\ s.phase # "following" => s.cursor = s.received
    /\ s.replay[1] < s.replay[2] => s.received = s.replay[1]
    /\ \A k \in 1..Len(s.queue) : s.queue[k] = Base(s) + k
    /\ s.phase = "following" /\ ~s.failed => position = Base(s) + Len(s.queue)
    /\ s.failed => s.told = Base(s) + Len(s.queue)

FollowersInv ==
    \A f \in Follower : /\ Gapless(followers[f], events, Position)
                        /\ ~view.interrupted => Exact(followers[f], Position)

PublicationsInv == PublicationsTypeOK /\ ViewInv /\ FollowersInv

-----------------------------------------------------------------------------
(* What happens to one subscription.                                       *)

LEMMA SubscriptionTypes ==
    ASSUME NEW s \in Subscription
    PROVE  /\ s.replay[1] \in Nat /\ s.replay[2] \in Nat
           /\ s.replay[1] \in Sequence /\ s.replay[2] \in Sequence
           /\ s.received \in Nat /\ s.cursor \in Nat /\ s.told \in Nat /\ s.needs \in Nat
           /\ s.received \in Sequence /\ s.cursor \in Sequence
           /\ s.told \in Sequence /\ s.needs \in Sequence
           /\ s.queue \in Seq(Sequence) /\ Len(s.queue) \in Nat
           /\ \A k \in 1..Len(s.queue) : s.queue[k] \in Nat /\ s.queue[k] \in Sequence
           /\ Reached(s) \in Nat /\ Base(s) \in Nat /\ LastOffered(s) \in Nat
           /\ s.failed \in BOOLEAN
<1>1. /\ s.replay \in Sequence \X Sequence
      /\ s.received \in Sequence /\ s.cursor \in Sequence
      /\ s.told \in Sequence /\ s.needs \in Sequence
      /\ s.queue \in Seq(Sequence) /\ s.failed \in BOOLEAN
  BY DEF Subscription
<1>2. Sequence \subseteq Nat
  BY PublicationsAssumption DEF Sequence, PublicationsAssumption
<1>3. s.replay[1] \in Sequence /\ s.replay[2] \in Sequence
  BY <1>1
<1>4. Len(s.queue) \in Nat /\ \A k \in 1..Len(s.queue) : s.queue[k] \in Sequence
  BY <1>1
<1>5. Reached(s) \in Nat /\ Base(s) \in Nat
  BY <1>1, <1>2, <1>3 DEF Reached, Base
<1>6. LastOffered(s) \in Nat
  <2>1. CASE s.queue = <<>>
    BY <1>5, <2>1 DEF LastOffered
  <2>2. CASE s.queue # <<>>
    <3>1. Len(s.queue) \in 1..Len(s.queue)
      BY <1>1, <2>2
    <3> QED BY <1>2, <1>4, <2>2, <3>1 DEF LastOffered
  <2> QED BY <2>1, <2>2
<1> QED BY <1>1, <1>2, <1>3, <1>4, <1>5, <1>6

\* A subscriber is offered the event after the last one: it is queued, or the
\* subscriber is cut off with the cursor of the last one.
LEMMA OfferKeeps ==
    ASSUME NEW s \in Subscription, NEW last \in Nat, NEW position \in Nat,
           s.phase = "following", ~s.failed, Len(s.queue) <= Capacity,
           position + 1 <= last, position + 1 \in Sequence, position \in Sequence,
           Gapless(s, last, position)
    PROVE  LET t == Offered(s, position + 1)
           IN  /\ t \in Subscription /\ t.phase = "following" /\ Len(t.queue) <= Capacity
               /\ Gapless(t, last, position + 1)
               /\ Exact(s, position) => Exact(t, position + 1)
<1> DEFINE e == position + 1
           t == Offered(s, e)
<1>1. /\ s.replay[1] \in Nat /\ s.replay[2] \in Nat
      /\ s.received \in Nat /\ s.cursor \in Nat /\ s.told \in Nat /\ s.needs \in Nat
      /\ s.queue \in Seq(Sequence) /\ Len(s.queue) \in Nat
      /\ \A k \in 1..Len(s.queue) : s.queue[k] \in Nat
      /\ Reached(s) \in Nat /\ Base(s) \in Nat /\ LastOffered(s) \in Nat
  BY SubscriptionTypes
<1>2. position <= LastOffered(s)
  BY DEF Gapless
<1>3. Capacity \in Nat
  BY PublicationsAssumption DEF PublicationsAssumption
<1>4. CASE Len(s.queue) < Capacity
  <2> DEFINE queue == Append(s.queue, e)
             n == Len(s.queue)
  <2>1. t = [s EXCEPT !.queue = queue]
    BY <1>4 DEF Offered
  <2>2. /\ queue \in Seq(Sequence) /\ Len(queue) = n + 1 /\ queue # <<>>
        /\ \A k \in 1..n : queue[k] = s.queue[k]
        /\ queue[n + 1] = e
    <3>1. e \in Sequence
      OBVIOUS
    <3> HIDE DEF e
    <3>2. s.queue \in Seq(Sequence)
      BY <1>1, SubscriptionTypes
    <3> QED BY <3>1, <3>2, AppendProperties
  <2>9. n \in Nat /\ (s.queue = <<>> <=> n = 0)
    BY <1>1
  <2> HIDE DEF queue, n
  <2>3. /\ t \in Subscription /\ t.queue = queue
        /\ t.phase = s.phase /\ t.failed = s.failed /\ t.told = s.told /\ t.seen = s.seen
        /\ t.cursor = s.cursor /\ t.received = s.received /\ t.needs = s.needs
        /\ t.replay = s.replay
    BY <2>1, <2>2 DEF Subscription
  <2> HIDE DEF t
  <2>4. Reached(t) = Reached(s) /\ Base(t) = Base(s) /\ LastOffered(t) = e
    BY <2>2, <2>3 DEF Reached, Base, LastOffered
  <2>5. \A k \in 1..Len(queue) : k = n + 1 \/ k \in 1..n
    BY <2>2, <2>9
  <2>6. ASSUME NEW k \in 1..Len(queue)
        PROVE  /\ queue[k] <= last
               /\ queue[k] <= (IF k = 1 THEN Reached(s) ELSE queue[k - 1]) + 1
    <3>1. CASE k \in 1..n
      <4>1. k = 1 \/ k - 1 \in 1..n
        BY <2>9, <3>1
      <4>2. /\ s.queue[k] <= last
            /\ s.queue[k] <= (IF k = 1 THEN Reached(s) ELSE s.queue[k - 1]) + 1
        BY <3>1 DEF Gapless, n
      <4> QED BY <2>2, <3>1, <4>1, <4>2
    <3>2. CASE k = n + 1 /\ k = 1
      <4>1. LastOffered(s) = Reached(s)
        BY <2>9, <3>2 DEF LastOffered
      <4> QED BY <1>1, <1>2, <2>2, <3>2, <4>1
    <3>3. CASE k = n + 1 /\ k # 1
      <4>1. s.queue # <<>> /\ k - 1 = n /\ n \in 1..n
        BY <2>9, <3>3
      <4>2. LastOffered(s) = s.queue[n]
        BY <4>1 DEF LastOffered, n
      <4>3. queue[k - 1] = LastOffered(s) /\ queue[k] = e
        BY <2>2, <3>3, <4>1, <4>2
      <4> QED BY <1>1, <1>2, <3>3, <4>3
    <3> QED BY <2>5, <3>1, <3>2, <3>3
  <2>7. Gapless(t, last, e)
    BY <2>3, <2>4, <2>6 DEF Gapless
  <2>8. Exact(s, position) => Exact(t, e)
    <3> SUFFICES ASSUME Exact(s, position) PROVE Exact(t, e)
      OBVIOUS
    <3>1. /\ position = Base(s) + n
          /\ \A k \in 1..n : s.queue[k] = Base(s) + k
      BY DEF Exact, n
    <3>2. ASSUME NEW k \in 1..Len(queue)
          PROVE  queue[k] = Base(s) + k
      <4>1. CASE k \in 1..n
        BY <2>2, <3>1, <4>1
      <4>2. CASE k = n + 1
        BY <1>1, <2>2, <2>9, <3>1, <4>2
      <4> QED BY <2>5, <4>1, <4>2
    <3>3. e = Base(s) + Len(queue)
      BY <1>1, <2>2, <2>9, <3>1
    <3> HIDE DEF e
    <3> QED BY <2>3, <2>4, <3>2, <3>3 DEF Exact
  <2>10. Len(t.queue) <= Capacity
    BY <1>1, <1>3, <1>4, <2>2, <2>3 DEF n
  <2> QED BY <2>3, <2>7, <2>8, <2>10 DEF t
<1>5. CASE ~(Len(s.queue) < Capacity)
  <2>1. t = [s EXCEPT !.failed = TRUE, !.told = position]
    <3>1. LagCursor(e) = position
      BY DEF LagCursor
    <3> HIDE DEF e
    <3> QED BY <1>5, <3>1 DEF Offered
  <2>2. /\ t \in Subscription /\ t.queue = s.queue
        /\ t.phase = s.phase /\ t.failed = TRUE /\ t.told = position /\ t.seen = s.seen
        /\ t.cursor = s.cursor /\ t.received = s.received /\ t.needs = s.needs
        /\ t.replay = s.replay
    BY <2>1 DEF Subscription
  <2> HIDE DEF t
  <2>3. Reached(t) = Reached(s) /\ Base(t) = Base(s) /\ LastOffered(t) = LastOffered(s)
    BY <2>2 DEF Reached, Base, LastOffered
  <2>4. Gapless(t, last, e)
    BY <1>2, <2>2, <2>3 DEF Gapless
  <2>5. Exact(s, position) => Exact(t, e)
    BY <2>2, <2>3 DEF Exact
  <2> QED BY <2>2, <2>4, <2>5 DEF t
<1> QED BY <1>4, <1>5

\* Offers do not concern a subscriber that was cut off, nor a client that reads or is
\* away; and new events concern nobody before they are offered.
LEMMA OthersKeep ==
    ASSUME NEW s \in Subscription, NEW last \in Nat, NEW position \in Nat,
           NEW newLast \in Nat, NEW newPosition \in Nat,
           last <= newLast,
           s.phase = "following" /\ ~s.failed => newPosition = position,
           Gapless(s, last, position)
    PROVE  /\ Gapless(s, newLast, newPosition)
           /\ Exact(s, position) => Exact(s, newPosition)
<1>1. /\ s.replay[2] \in Nat /\ s.received \in Nat
      /\ \A k \in 1..Len(s.queue) : s.queue[k] \in Nat
  BY SubscriptionTypes
<1>2. Gapless(s, newLast, newPosition)
  BY <1>1 DEF Gapless
<1>3. Exact(s, position) => Exact(s, newPosition)
  BY DEF Exact
<1> QED BY <1>2, <1>3

\* A client that goes away with a cursor it has reached.
LEMMA AwayKeeps ==
    ASSUME NEW s \in Subscription, NEW last \in Nat, NEW position \in Nat,
           NEW newPosition \in Nat, NEW cursor \in Sequence,
           cursor <= s.received, Gapless(s, last, position)
    PROVE  LET t == Away(s, cursor)
           IN  /\ t \in Subscription /\ Len(t.queue) <= Capacity
               /\ t.phase = "away" /\ ~t.failed
               /\ Gapless(t, last, newPosition)
               /\ Exact(s, position) /\ cursor = s.received => Exact(t, newPosition)
<1> DEFINE t == Away(s, cursor)
<1>1. /\ t \in Subscription /\ t.queue = <<>> /\ t.phase = "away" /\ t.failed = FALSE
      /\ t.replay = <<0, 0>> /\ t.cursor = cursor /\ t.told = 0
      /\ t.received = s.received /\ t.seen = s.seen
  <2>1. 0 \in Sequence
    BY PublicationsAssumption DEF Sequence, PublicationsAssumption
  <2>2. <<0, 0>> \in Sequence \X Sequence /\ <<>> \in Seq(Sequence)
    BY <2>1
  <2> QED BY <2>1, <2>2 DEF Away, Subscription
<1>2. s.received \in Nat /\ cursor \in Nat /\ 0 <= last
  BY SubscriptionTypes, PublicationsAssumption DEF Sequence, PublicationsAssumption
<1>3. t.replay[1] = 0 /\ t.replay[2] = 0 /\ Len(t.queue) = 0 /\ 1..0 = {}
  BY <1>1
<1> HIDE DEF t
<1>4. Gapless(t, last, newPosition)
  BY <1>1, <1>2, <1>3 DEF Gapless
<1>5. Exact(s, position) /\ cursor = s.received => Exact(t, newPosition)
  BY <1>1, <1>2, <1>3 DEF Exact
<1>6. Len(t.queue) <= Capacity
  BY <1>3, PublicationsAssumption DEF PublicationsAssumption
<1> QED BY <1>1, <1>4, <1>5, <1>6 DEF t

\* The event a client receives next leaves no gap.
LEMMA ReceivedFields ==
    ASSUME NEW s \in Subscription, NEW e \in Sequence
    PROVE  LET t == Received(s, e)
           IN  /\ t \in Subscription
               /\ t.received = IF e > s.received THEN e ELSE s.received
               /\ s.seen # "gap" /\ e <= s.received + 1 => t.seen # "gap"
               /\ s.seen = "ordered" /\ e = s.received + 1 => t.seen = "ordered"
               /\ t.phase = s.phase /\ t.failed = s.failed /\ t.told = s.told
               /\ t.cursor = s.cursor /\ t.needs = s.needs
               /\ t.replay = s.replay /\ t.queue = s.queue
<1> DEFINE received == IF e > s.received THEN e ELSE s.received
           seen == IF e > s.received + 1 THEN "gap"
                   ELSE IF e <= s.received /\ s.seen = "ordered" THEN "repeated" ELSE s.seen
           t == [s EXCEPT !.received = received, !.seen = seen]
<1>1. Received(s, e) = t
  BY DEF Received, Subscription
<1>2. received \in Sequence /\ seen \in {"ordered", "repeated", "gap"}
  BY DEF Subscription
<1>3. e \in Nat /\ s.received \in Nat
  BY SubscriptionTypes, PublicationsAssumption DEF Sequence, PublicationsAssumption
<1>4. /\ s.seen # "gap" /\ e <= s.received + 1 => seen # "gap"
      /\ s.seen = "ordered" /\ e = s.received + 1 => seen = "ordered"
  BY <1>3
<1> HIDE DEF seen
<1>5. /\ t \in Subscription /\ t.received = received /\ t.seen = seen
      /\ t.phase = s.phase /\ t.failed = s.failed /\ t.told = s.told
      /\ t.cursor = s.cursor /\ t.needs = s.needs
      /\ t.replay = s.replay /\ t.queue = s.queue
  BY <1>2 DEF Subscription
<1> QED BY <1>1, <1>4, <1>5

\* The next event of the replay.
LEMMA ReplayKeeps ==
    ASSUME NEW s \in Subscription, NEW last \in Nat, NEW position \in Nat,
           s.phase = "following", s.replay[1] < s.replay[2], Len(s.queue) <= Capacity,
           Gapless(s, last, position)
    PROVE  LET t == [Received(s, s.replay[1] + 1) EXCEPT !.replay[1] = @ + 1]
           IN  /\ t \in Subscription /\ t.phase = s.phase /\ Len(t.queue) <= Capacity
               /\ t.failed = s.failed
               /\ Gapless(t, last, position)
               /\ Exact(s, position) => Exact(t, position)
<1> DEFINE e == s.replay[1] + 1
           r == Received(s, e)
           replay == [r.replay EXCEPT ![1] = r.replay[1] + 1]
           t == [r EXCEPT !.replay = replay]
<1>1. /\ s.replay[1] \in Nat /\ s.replay[2] \in Nat /\ s.received \in Nat
      /\ s.queue \in Seq(Sequence) /\ Len(s.queue) \in Nat
      /\ \A k \in 1..Len(s.queue) : s.queue[k] \in Nat
      /\ Reached(s) \in Nat /\ Base(s) \in Nat /\ LastOffered(s) \in Nat
      /\ s.replay[2] \in Sequence /\ s.told \in Nat
  BY SubscriptionTypes
<1>2. e \in Sequence /\ e <= s.received + 1 /\ e <= last /\ e <= s.replay[2]
  <2>1. MaxEvents \in Nat
    BY PublicationsAssumption DEF PublicationsAssumption
  <2>2. s.replay[2] <= MaxEvents
    BY <1>1, <2>1 DEF Sequence
  <2>3. e \in Nat /\ e <= s.replay[2] /\ e <= s.received + 1 /\ e <= last
    <3>1. s.replay[1] <= s.received /\ s.replay[2] <= last
      BY DEF Gapless
    <3>2. \A a, b, c, d \in Nat :
            a < b /\ a <= c /\ b <= d => /\ a + 1 \in Nat /\ a + 1 <= b
                                         /\ a + 1 <= c + 1 /\ a + 1 <= d
      OBVIOUS
    <3> QED BY <1>1, <3>1, <3>2
  <2> HIDE DEF e
  <2> QED BY <1>1, <2>1, <2>2, <2>3 DEF Sequence
<1>3. /\ r \in Subscription
      /\ r.received = IF e > s.received THEN e ELSE s.received
      /\ s.seen # "gap" => r.seen # "gap"
      /\ s.seen = "ordered" /\ e = s.received + 1 => r.seen = "ordered"
      /\ r.phase = s.phase /\ r.failed = s.failed /\ r.told = s.told
      /\ r.cursor = s.cursor /\ r.needs = s.needs
      /\ r.replay = s.replay /\ r.queue = s.queue
  <2> HIDE DEF e
  <2> QED BY <1>2, ReceivedFields
<1> HIDE DEF r
<1>4. replay \in Sequence \X Sequence /\ replay[1] = e /\ replay[2] = s.replay[2]
  <2>1. s.replay \in Sequence \X Sequence
    BY DEF Subscription
  <2>2. replay = <<e, s.replay[2]>>
    BY <1>3, <2>1
  <2> HIDE DEF e, replay
  <2> QED BY <1>1, <1>2, <2>2
<1>5. [Received(s, s.replay[1] + 1) EXCEPT !.replay[1] = @ + 1] = t
  BY <1>3 DEF r, Subscription
<1> HIDE DEF replay
<1>6. /\ t \in Subscription /\ t.replay = replay
      /\ t.phase = s.phase /\ t.failed = s.failed /\ t.told = s.told /\ t.seen = r.seen
      /\ t.cursor = s.cursor /\ t.received = r.received /\ t.needs = s.needs
      /\ t.queue = s.queue
  BY <1>3, <1>4 DEF Subscription
<1> HIDE DEF t
<1>7. Reached(t) = Reached(s) /\ LastOffered(t) = LastOffered(s)
  BY <1>1, <1>2, <1>3, <1>4, <1>6 DEF Reached, LastOffered
<1>8. s.cursor \in Nat /\ s.cursor <= t.received /\ t.received <= last /\ e <= t.received
  <2>1. s.cursor \in Nat /\ s.cursor <= s.received /\ s.received <= last
    BY SubscriptionTypes DEF Gapless
  <2>2. e \in Nat
    BY <1>1
  <2> HIDE DEF e
  <2> QED BY <1>1, <1>2, <1>3, <1>6, <2>1, <2>2
<1>9. Gapless(t, last, position)
  BY <1>1, <1>2, <1>3, <1>4, <1>6, <1>7, <1>8 DEF Gapless
<1>10. Exact(s, position) => Exact(t, position)
  <2> SUFFICES ASSUME Exact(s, position) PROVE Exact(t, position)
    OBVIOUS
  <2>1. s.received = s.replay[1] /\ s.seen = "ordered"
    BY DEF Exact
  <2>2. t.received = e /\ t.seen = "ordered"
    BY <1>1, <1>3, <1>6, <2>1
  <2>3. Base(t) = s.replay[2] /\ Base(s) = s.replay[2]
    BY <1>1, <1>2, <1>4, <1>6, <2>2 DEF Base
  <2> QED BY <1>4, <1>6, <2>2, <2>3 DEF Exact
<1> QED BY <1>5, <1>6, <1>9, <1>10

\* The next event of the queue.
LEMMA TakeKeeps ==
    ASSUME NEW s \in Subscription, NEW last \in Nat, NEW position \in Nat,
           s.phase = "following", s.replay[1] = s.replay[2], s.queue # <<>>,
           Len(s.queue) <= Capacity, Gapless(s, last, position)
    PROVE  LET t == [Received(s, Head(s.queue)) EXCEPT !.queue = Tail(@)]
           IN  /\ t \in Subscription /\ t.phase = s.phase /\ Len(t.queue) <= Capacity
               /\ t.failed = s.failed
               /\ Gapless(t, last, position)
               /\ Exact(s, position) => Exact(t, position)
<1> DEFINE e == Head(s.queue)
           r == Received(s, e)
           queue == Tail(s.queue)
           t == [r EXCEPT !.queue = Tail(r.queue)]
           n == Len(s.queue)
<1>1. /\ s.replay[1] \in Nat /\ s.replay[2] \in Nat /\ s.received \in Nat
      /\ s.queue \in Seq(Sequence) /\ n \in Nat
      /\ \A k \in 1..n : s.queue[k] \in Nat /\ s.queue[k] \in Sequence
      /\ Reached(s) \in Nat /\ LastOffered(s) \in Nat
      /\ s.cursor \in Nat /\ s.told \in Nat
  BY SubscriptionTypes
<1>2. /\ n >= 1 /\ 1 \in 1..n /\ e = s.queue[1]
      /\ queue \in Seq(Sequence) /\ Len(queue) = n - 1
      /\ \A k \in 1..(n - 1) : queue[k] = s.queue[k + 1]
      /\ (queue = <<>> <=> n = 1)
  <2>1. s.queue \in Seq(Sequence) /\ s.queue # <<>>
    BY <1>1
  <2>2. /\ queue \in Seq(Sequence) /\ Len(queue) = n - 1
        /\ \A k \in 1..Len(queue) : queue[k] = s.queue[k + 1]
    BY <2>1, HeadTailProperties
  <2>3. n >= 1 /\ e = s.queue[1]
    BY <2>1
  <2> HIDE DEF queue, e
  <2>4. queue = <<>> <=> Len(queue) = 0
    BY <2>2, EmptySeq
  <2> QED BY <1>1, <2>2, <2>3, <2>4
<1>3. Reached(s) = s.received
  BY <1>1 DEF Reached, Gapless
<1>4. e \in Sequence /\ e \in Nat /\ e <= s.received + 1 /\ e <= last
  BY <1>1, <1>2, <1>3 DEF Gapless
<1>5. /\ r \in Subscription
      /\ r.received = IF e > s.received THEN e ELSE s.received
      /\ s.seen # "gap" => r.seen # "gap"
      /\ s.seen = "ordered" /\ e = s.received + 1 => r.seen = "ordered"
      /\ r.phase = s.phase /\ r.failed = s.failed /\ r.told = s.told
      /\ r.cursor = s.cursor /\ r.needs = s.needs
      /\ r.replay = s.replay /\ r.queue = s.queue
  <2> HIDE DEF e
  <2> QED BY <1>4, ReceivedFields
<1>6. [Received(s, Head(s.queue)) EXCEPT !.queue = Tail(@)] = t
  BY <1>5 DEF Subscription
<1> HIDE DEF r
<1>7. /\ t \in Subscription /\ t.queue = queue
      /\ t.phase = s.phase /\ t.failed = s.failed /\ t.told = s.told /\ t.seen = r.seen
      /\ t.cursor = s.cursor /\ t.received = r.received /\ t.needs = s.needs
      /\ t.replay = s.replay
  BY <1>2, <1>5 DEF Subscription
<1> HIDE DEF t, e, queue
<1>8. /\ t.received \in Nat /\ e <= t.received /\ s.received <= t.received
      /\ t.received <= last /\ Reached(t) = t.received
  BY <1>1, <1>3, <1>4, <1>5, <1>7 DEF Gapless, Reached
<1>9. LastOffered(s) <= LastOffered(t) /\ LastOffered(t) \in Nat
  <2>1. LastOffered(s) = s.queue[n]
    BY DEF LastOffered
  <2>2. CASE n = 1
    BY <1>1, <1>2, <1>7, <1>8, <2>1, <2>2 DEF LastOffered
  <2>3. CASE n > 1
    <3>1. LastOffered(t) = queue[n - 1] /\ n - 1 \in 1..(n - 1)
      BY <1>1, <1>2, <1>7, <2>3 DEF LastOffered
    <3> QED BY <1>1, <1>2, <2>1, <2>3, <3>1
  <2> QED BY <1>2, <2>2, <2>3
<1>10. ASSUME NEW k \in 1..(n - 1)
       PROVE  /\ queue[k] <= last
              /\ queue[k] <= (IF k = 1 THEN t.received ELSE queue[k - 1]) + 1
  <2>1. k + 1 \in 1..n /\ k + 1 # 1 /\ (k + 1) - 1 = k /\ k \in 1..n
    BY <1>1
  <2>2. queue[k] = s.queue[k + 1] /\ s.queue[k + 1] <= last /\ s.queue[k + 1] <= s.queue[k] + 1
    BY <1>2, <2>1 DEF Gapless
  <2>3. CASE k = 1
    BY <1>1, <1>2, <1>4, <1>8, <2>1, <2>2, <2>3
  <2>4. CASE k # 1
    <3>1. k - 1 \in 1..(n - 1) /\ (k - 1) + 1 = k
      BY <1>1, <2>4
    <3>2. queue[k - 1] = s.queue[k]
      BY <1>2, <3>1
    <3> QED BY <2>2, <2>4, <3>2
  <2> QED BY <2>3, <2>4
<1> HIDE DEF n
<1>11. Gapless(t, last, position)
  <2>1. \A k \in 1..Len(t.queue) :
          /\ t.queue[k] <= last
          /\ t.queue[k] <= (IF k = 1 THEN Reached(t) ELSE t.queue[k - 1]) + 1
    BY <1>2, <1>7, <1>8, <1>10
  <2>2. /\ s.phase = "following" /\ ~s.failed => position <= LastOffered(t)
        /\ s.failed => s.told <= LastOffered(t)
    BY <1>1, <1>9 DEF Gapless
  <2> QED BY <1>1, <1>5, <1>7, <1>8, <2>1, <2>2 DEF Gapless
<1>12. Exact(s, position) => Exact(t, position)
  <2> SUFFICES ASSUME Exact(s, position) PROVE Exact(t, position)
    OBVIOUS
  <2>1. Base(s) = s.received /\ s.seen = "ordered"
    BY <1>1 DEF Exact, Base
  <2>2. \A k \in 1..n : s.queue[k] = s.received + k
    BY <2>1 DEF Exact, n
  <2>3. e = s.received + 1
    BY <1>2, <2>2
  <2>4. t.received = s.received + 1 /\ t.seen = "ordered" /\ Base(t) = s.received + 1
    BY <1>1, <1>5, <1>7, <2>1, <2>3 DEF Base
  <2>5. ASSUME NEW k \in 1..(n - 1)
        PROVE  t.queue[k] = Base(t) + k
    <3>1. k + 1 \in 1..n
      BY <1>1
    <3>2. queue[k] = s.queue[k + 1]
      BY <1>2
    <3>3. s.queue[k + 1] = s.received + (k + 1)
      BY <2>2, <3>1
    <3>4. k \in Nat /\ t.queue[k] = s.received + (k + 1)
      BY <1>1, <1>7, <3>2, <3>3
    <3>5. \A a, b \in Nat : a + (b + 1) = (a + 1) + b
      OBVIOUS
    <3>6. s.received + (k + 1) = (s.received + 1) + k
      BY <1>1, <3>4, <3>5
    <3>7. t.queue[k] = s.received + (k + 1) /\ Base(t) = s.received + 1
      BY <2>4, <3>4
    <3> QED BY <3>6, <3>7
  <2>6. Base(t) + Len(t.queue) = Base(s) + n
    <3>1. Len(t.queue) = n - 1 /\ n \in Nat /\ s.received \in Nat
      BY <1>1, <1>2, <1>7
    <3>2. \A a, b \in Nat : (a + 1) + (b - 1) = a + b
      OBVIOUS
    <3>3. (s.received + 1) + (n - 1) = s.received + n
      BY <3>1, <3>2
    <3> QED BY <2>1, <2>4, <3>1, <3>3
  <2>7. \A k \in 1..Len(t.queue) : t.queue[k] = Base(t) + k
    BY <1>2, <1>7, <2>5
  <2>8. /\ s.phase = "following" /\ ~s.failed => position = Base(t) + Len(t.queue)
        /\ s.failed => s.told = Base(t) + Len(t.queue)
    BY <2>6 DEF Exact, n
  <2> QED BY <1>1, <1>7, <2>4, <2>7, <2>8 DEF Exact
<1>13. Len(t.queue) <= Capacity
  BY <1>1, <1>2, <1>7, PublicationsAssumption DEF n, PublicationsAssumption
<1> QED BY <1>6, <1>7, <1>11, <1>12, <1>13

-----------------------------------------------------------------------------
(* Every step keeps the invariant.                                         *)

LEMMA InvTypes ==
    ASSUME PublicationsInv
    PROVE  /\ events \in Nat /\ events \in Sequence /\ Sequence \subseteq Nat
           /\ view \in HostView /\ view.local \in Nat /\ view.at \in Nat /\ view.target \in Nat
           /\ view.local \in Sequence /\ view.at \in Sequence /\ view.target \in Sequence
           /\ Position \in Nat /\ Position \in Sequence
           /\ followers \in [Follower -> Subscription]
           /\ \A f \in Follower : Len(followers[f].queue) <= Capacity
<1>1. Sequence \subseteq Nat
  BY PublicationsAssumption DEF Sequence, PublicationsAssumption
<1>2. /\ events \in Sequence /\ view \in HostView
      /\ followers \in [Follower -> Subscription]
      /\ \A f \in Follower : Len(followers[f].queue) <= Capacity
  BY DEF PublicationsInv, PublicationsTypeOK
<1>3. view.local \in Sequence /\ view.at \in Sequence /\ view.target \in Sequence
  BY <1>2 DEF HostView
<1> QED BY <1>1, <1>2, <1>3 DEF Position

\* Steps that change neither the subscriptions nor the offers under way.
LEMMA ViewStepKeeps ==
    ASSUME PublicationsInv, followers' = followers,
           events' \in Sequence, events <= events',
           view' \in HostView, watcher' \in TreeWatcher, viewFaults' \in 0..MaxViewFaults,
           Position' \in Nat,
           Position' = Position \/ (view'.interrupted /\ Position' <= Position),
           view.interrupted => view'.interrupted,
           view'.local <= events',
           view'.phase = "publishing" => /\ view'.local <= view'.at /\ view'.at <= view'.target
                                         /\ view'.target <= events',
           view'.phase = "idle" => view'.dropped = {},
           view'.dropped \subseteq view.dropped
    PROVE  PublicationsInv'
<1>1. PublicationsTypeOK'
  BY DEF PublicationsInv, PublicationsTypeOK
<1>2. ViewInv'
  BY DEF PublicationsInv, ViewInv
<1>3. FollowersInv'
  <2> SUFFICES ASSUME NEW f \in Follower
               PROVE  /\ Gapless(followers[f], events', Position')
                      /\ ~view'.interrupted => Exact(followers[f], Position')
    BY DEF FollowersInv
  <2>1. /\ Gapless(followers[f], events, Position)
        /\ ~view.interrupted => Exact(followers[f], Position)
    BY DEF PublicationsInv, FollowersInv
  <2>2. followers[f] \in Subscription /\ Position \in Nat /\ events \in Nat /\ events' \in Nat
    BY InvTypes
  <2>3. CASE Position' = Position
    BY <2>1, <2>2, <2>3, OthersKeep
  <2>4. CASE view'.interrupted /\ Position' <= Position
    <3>1. Gapless(followers[f], events', Position)
      BY <2>1, <2>2, OthersKeep
    <3>2. LastOffered(followers[f]) \in Nat
      BY <2>2, SubscriptionTypes
    <3>3. Gapless(followers[f], events', Position')
      BY <2>2, <2>4, <3>1, <3>2 DEF Gapless
    <3> QED BY <2>4, <3>3
  <2> QED BY <2>3, <2>4
<1> QED BY <1>1, <1>2, <1>3 DEF PublicationsInv

LEMMA AppendKeeps ==
    ASSUME PublicationsInv, AppendEvents
    PROVE  PublicationsInv'
<1>1. PICK n \in 1..MaxBatch : events + n <= MaxEvents /\ events' = events + n
  BY DEF AppendEvents
<1>2. /\ UNCHANGED <<view, followers, watcher, viewFaults>>
      /\ watcher \in TreeWatcher /\ viewFaults \in 0..MaxViewFaults
  BY DEF AppendEvents, PublicationsInv, PublicationsTypeOK
<1>3. MaxEvents \in Nat
  BY PublicationsAssumption DEF PublicationsAssumption
<1>4. events' \in Sequence /\ events <= events' /\ events' \in Nat
  <2>1. n \in Nat /\ events \in Nat
    BY InvTypes
  <2> QED BY <1>1, <1>3, <2>1 DEF Sequence
<1>5. Position' = Position
  BY <1>2 DEF Position
<1>6. /\ view.local <= events
      /\ view.phase = "publishing" =>
            view.local <= view.at /\ view.at <= view.target /\ view.target <= events
      /\ view.phase = "idle" => view.dropped = {}
  BY DEF PublicationsInv, ViewInv
<1> QED BY <1>2, <1>4, <1>5, <1>6, InvTypes, ViewStepKeeps

LEMMA RefreshKeeps ==
    ASSUME PublicationsInv, Refresh \/ Install \/ InterruptRefresh
    PROVE  PublicationsInv'
<1>1. /\ UNCHANGED <<events, followers, watcher>> /\ watcher \in TreeWatcher
      /\ viewFaults' \in 0..MaxViewFaults
  <2>1. viewFaults \in 0..MaxViewFaults /\ MaxViewFaults \in Nat
    BY PublicationsAssumption DEF PublicationsInv, PublicationsTypeOK, PublicationsAssumption
  <2> QED BY <2>1 DEF Refresh, Install, InterruptRefresh, ViewFault, PublicationsInv,
                      PublicationsTypeOK
<1>2. /\ view.local <= events
      /\ view.phase = "publishing" =>
            view.local <= view.at /\ view.at <= view.target /\ view.target <= events
      /\ view.phase = "idle" => view.dropped = {}
  BY DEF PublicationsInv, ViewInv
<1>3. CASE Refresh
  <2>1. /\ view.phase = "idle" /\ view.local < events
        /\ view' = [view EXCEPT !.phase = "publishing", !.at = view.local, !.target = events]
    BY <1>3 DEF Refresh
  <2>2. /\ view' \in HostView /\ view'.phase = "publishing" /\ view'.at = view.local
        /\ view'.target = events /\ view'.local = view.local
        /\ view'.dropped = view.dropped /\ view'.interrupted = view.interrupted
    BY <2>1, InvTypes DEF HostView
  <2>3. Position' = Position
    BY <2>1, <2>2 DEF Position
  <2> QED BY <1>1, <1>2, <2>1, <2>2, <2>3, InvTypes, ViewStepKeeps
<1>4. CASE Install
  <2>1. /\ view.phase = "publishing" /\ view.at = view.target
        /\ view' = [view EXCEPT !.phase = "idle", !.local = view.target, !.dropped = {}]
    BY <1>4 DEF Install
  <2>2. /\ view' \in HostView /\ view'.phase = "idle" /\ view'.local = view.target
        /\ view'.dropped = {} /\ view'.interrupted = view.interrupted
    BY <2>1, InvTypes DEF HostView
  <2>3. Position' = Position
    BY <2>1, <2>2 DEF Position
  <2> QED BY <1>1, <1>2, <2>1, <2>2, <2>3, InvTypes, ViewStepKeeps
<1>5. CASE InterruptRefresh
  <2>1. /\ view.phase = "publishing"
        /\ view' = [view EXCEPT !.phase = "idle", !.dropped = {}, !.interrupted = TRUE]
    BY <1>5 DEF InterruptRefresh
  <2>2. /\ view' \in HostView /\ view'.phase = "idle" /\ view'.local = view.local
        /\ view'.dropped = {} /\ view'.interrupted = TRUE
    BY <2>1, InvTypes DEF HostView
  <2>3. Position' <= Position /\ Position' \in Nat
    BY <1>2, <2>1, <2>2, InvTypes DEF Position
  <2> QED BY <1>1, <1>2, <2>1, <2>2, <2>3, InvTypes, ViewStepKeeps
<1> QED BY <1>3, <1>4, <1>5

\* The steps of the watcher.
LEMMA WatcherKeeps ==
    ASSUME PublicationsInv, WatcherStep
    PROVE  PublicationsInv'
<1>1. UNCHANGED <<events, view, followers, viewFaults>>
  BY DEF WatcherStep, Watch, TakeTick, ReadTree
<1>2. watcher \in TreeWatcher /\ viewFaults \in 0..MaxViewFaults
  BY DEF PublicationsInv, PublicationsTypeOK
<1>3. watcher' \in TreeWatcher
  <2>1. 0 \in Sequence
    BY PublicationsAssumption DEF Sequence, PublicationsAssumption
  <2> QED BY <1>2, <2>1, InvTypes DEF WatcherStep, Watch, TakeTick, ReadTree, TreeWatcher
<1>4. Position' = Position
  BY <1>1 DEF Position
<1>5. /\ view.local <= events
      /\ view.phase = "publishing" =>
            view.local <= view.at /\ view.at <= view.target /\ view.target <= events
      /\ view.phase = "idle" => view.dropped = {}
  BY DEF PublicationsInv, ViewInv
<1> QED BY <1>1, <1>2, <1>3, <1>4, <1>5, InvTypes, ViewStepKeeps

\* A step of one client, or of the clients that are not dropped: every subscription is
\* kept or gets another that fits what was offered.
LEMMA FollowersStepKeeps ==
    ASSUME PublicationsInv, events' = events,
           followers' \in [Follower -> Subscription],
           view' \in HostView, watcher' \in TreeWatcher, viewFaults' \in 0..MaxViewFaults,
           view'.interrupted = view.interrupted, ViewInv',
           \A f \in Follower :
                /\ Len(followers'[f].queue) <= Capacity
                /\ Gapless(followers'[f], events, Position')
                /\ ~view.interrupted => Exact(followers'[f], Position')
    PROVE  PublicationsInv'
<1>1. PublicationsTypeOK'
  BY DEF PublicationsInv, PublicationsTypeOK
<1>2. FollowersInv'
  BY DEF FollowersInv
<1> QED BY <1>1, <1>2 DEF PublicationsInv

\* One client gets another subscription while the host does nothing.
LEMMA ClientKeeps ==
    ASSUME PublicationsInv, NEW f \in Follower, NEW t \in Subscription,
           followers' = [followers EXCEPT ![f] = t],
           UNCHANGED <<events, view, watcher>>, viewFaults' \in 0..MaxViewFaults,
           Len(t.queue) <= Capacity, Gapless(t, events, Position),
           ~view.interrupted => Exact(t, Position),
           f \in view.dropped => t.phase = "following" /\ t.failed
    PROVE  PublicationsInv'
<1>1. /\ followers' \in [Follower -> Subscription]
      /\ \A g \in Follower : followers'[g] = IF g = f THEN t ELSE followers[g]
  BY InvTypes
<1>2. Position' = Position
  BY DEF Position
<1>3. ViewInv'
  <2>1. view.dropped \subseteq Follower
    BY InvTypes DEF HostView
  <2> QED BY <1>1, <2>1 DEF PublicationsInv, ViewInv
<1>4. ASSUME NEW g \in Follower
      PROVE  /\ Len(followers'[g].queue) <= Capacity
             /\ Gapless(followers'[g], events, Position')
             /\ ~view.interrupted => Exact(followers'[g], Position')
  <2>1. /\ Gapless(followers[g], events, Position)
        /\ ~view.interrupted => Exact(followers[g], Position)
    BY DEF PublicationsInv, FollowersInv
  <2> QED BY <1>1, <1>2, <2>1, InvTypes
<1>5. watcher' \in TreeWatcher /\ view' \in HostView /\ view'.interrupted = view.interrupted
  BY InvTypes DEF PublicationsInv, PublicationsTypeOK
<1> QED BY <1>1, <1>3, <1>4, <1>5, FollowersStepKeeps

\* A client reads the state.
LEMMA ReadKeeps ==
    ASSUME PublicationsInv, NEW f \in Follower, ReadEvents(f)
    PROVE  PublicationsInv'
<1> DEFINE s == followers[f]
           t == [s EXCEPT !.phase = "reading", !.needs = events]
<1>1. /\ s.phase = "away" /\ UNCHANGED <<events, view, watcher, viewFaults>>
      /\ viewFaults \in 0..MaxViewFaults /\ s \in Subscription
  BY InvTypes DEF ReadEvents, PublicationsInv, PublicationsTypeOK
<1>2. followers' = [followers EXCEPT ![f] = t]
  BY InvTypes DEF ReadEvents, Subscription
<1>3. /\ t \in Subscription /\ t.phase = "reading" /\ t.needs = events
      /\ t.cursor = s.cursor /\ t.received = s.received /\ t.seen = s.seen
      /\ t.replay = s.replay /\ t.queue = s.queue /\ t.failed = s.failed /\ t.told = s.told
  BY <1>1, InvTypes DEF Subscription
<1>4. /\ Gapless(s, events, Position) /\ (~view.interrupted => Exact(s, Position))
      /\ f \notin view.dropped /\ Len(s.queue) <= Capacity
  BY <1>1, InvTypes DEF PublicationsInv, FollowersInv, ViewInv
<1>5. s.cursor \in Nat /\ s.received \in Nat /\ events \in Nat
  BY <1>1, InvTypes, SubscriptionTypes
<1> HIDE DEF s, t
<1>6. Reached(t) = Reached(s) /\ Base(t) = Base(s) /\ LastOffered(t) = LastOffered(s)
  BY <1>3 DEF Reached, Base, LastOffered
<1>7. Gapless(t, events, Position)
  BY <1>1, <1>3, <1>4, <1>5, <1>6 DEF Gapless
<1>8. ~view.interrupted => Exact(t, Position)
  BY <1>1, <1>3, <1>4, <1>6 DEF Exact
<1> QED BY <1>1, <1>2, <1>3, <1>4, <1>7, <1>8, ClientKeeps

\* A client subscribes: its cursor is not refused, and the replay reaches up to the
\* first event it will be offered.
LEMMA SubscribeKeeps ==
    ASSUME PublicationsInv, NEW f \in Follower, Subscribe(f)
    PROVE  PublicationsInv'
<1> DEFINE s == followers[f]
           t == [s EXCEPT !.phase = "following", !.replay = <<s.cursor, view.local>>]
<1>1. /\ s.phase = "reading" /\ view.phase = "idle" /\ view.local >= s.needs
      /\ UNCHANGED <<events, view, watcher, viewFaults>>
      /\ viewFaults \in 0..MaxViewFaults /\ s \in Subscription
  BY InvTypes DEF Subscribe, PublicationsInv, PublicationsTypeOK
<1>2. /\ Gapless(s, events, Position) /\ (~view.interrupted => Exact(s, Position))
      /\ f \notin view.dropped /\ Len(s.queue) <= Capacity /\ view.local <= events
  BY <1>1, InvTypes DEF PublicationsInv, FollowersInv, ViewInv
<1>3. /\ s.cursor \in Nat /\ s.received \in Nat /\ events \in Nat /\ s.needs \in Nat
      /\ s.cursor \in Sequence /\ view.local \in Nat /\ view.local \in Sequence
  BY <1>1, InvTypes, SubscriptionTypes
<1>4. s.cursor <= view.local /\ s.cursor <= s.received /\ s.received <= events
  BY <1>1, <1>2, <1>3 DEF Gapless
<1>5. followers' = [followers EXCEPT ![f] = t]
  <2>1. ~(s.cursor > view.local)
    BY <1>3, <1>4
  <2> QED BY <2>1, InvTypes DEF Subscribe, Subscription
<1>6. /\ t \in Subscription /\ t.phase = "following" /\ t.replay = <<s.cursor, view.local>>
      /\ t.cursor = s.cursor /\ t.received = s.received /\ t.seen = s.seen
      /\ t.queue = s.queue /\ t.failed = s.failed /\ t.told = s.told
  BY <1>1, <1>3 DEF Subscription
<1> HIDE DEF s, t
<1>7. t.replay[1] = s.cursor /\ t.replay[2] = view.local
  BY <1>6
<1>8. /\ t.queue = <<>> /\ Len(t.queue) = 0 /\ 1..0 = {} /\ ~t.failed
      /\ s.seen # "gap" /\ Position = view.local
  BY <1>1, <1>2, <1>6 DEF Gapless, Position
<1>9. LastOffered(t) = Reached(t) /\ view.local <= Reached(t)
  BY <1>3, <1>6, <1>7, <1>8 DEF LastOffered, Reached
<1>10. Gapless(t, events, Position)
  BY <1>2, <1>3, <1>4, <1>6, <1>7, <1>8, <1>9 DEF Gapless
<1>11. ~view.interrupted => Exact(t, Position)
  <2> SUFFICES ASSUME ~view.interrupted PROVE Exact(t, Position)
    OBVIOUS
  <2>1. s.seen = "ordered" /\ s.cursor = s.received
    BY <1>1, <1>2 DEF Exact
  <2>2. Base(t) = view.local
    BY <1>3, <1>4, <1>6, <1>7, <2>1 DEF Base
  <2> QED BY <1>3, <1>6, <1>7, <1>8, <2>1, <2>2 DEF Exact
<1> QED BY <1>1, <1>2, <1>5, <1>6, <1>10, <1>11, ClientKeeps

\* A client receives an event.
LEMMA TakeEventKeeps ==
    ASSUME PublicationsInv, NEW f \in Follower, TakeEvent(f)
    PROVE  PublicationsInv'
<1> DEFINE s == followers[f]
           replayed == [Received(s, s.replay[1] + 1) EXCEPT !.replay[1] = @ + 1]
           taken == [Received(s, Head(s.queue)) EXCEPT !.queue = Tail(@)]
<1>1. /\ s.phase = "following"
      /\ \/ s.replay[1] < s.replay[2] /\ followers' = [followers EXCEPT ![f] = replayed]
         \/ /\ s.replay[1] = s.replay[2] /\ s.queue # <<>>
            /\ followers' = [followers EXCEPT ![f] = taken]
      /\ UNCHANGED <<events, view, watcher, viewFaults>>
      /\ viewFaults \in 0..MaxViewFaults /\ s \in Subscription
  BY InvTypes DEF TakeEvent, PublicationsInv, PublicationsTypeOK
<1>2. /\ Gapless(s, events, Position) /\ (~view.interrupted => Exact(s, Position))
      /\ (f \in view.dropped => s.failed) /\ Len(s.queue) <= Capacity
      /\ events \in Nat /\ Position \in Nat
  BY InvTypes DEF PublicationsInv, FollowersInv, ViewInv
<1> HIDE DEF s
<1>3. CASE s.replay[1] < s.replay[2] /\ followers' = [followers EXCEPT ![f] = replayed]
  <2>1. /\ replayed \in Subscription /\ replayed.phase = s.phase
        /\ Len(replayed.queue) <= Capacity /\ replayed.failed = s.failed
        /\ Gapless(replayed, events, Position)
        /\ Exact(s, Position) => Exact(replayed, Position)
    BY <1>1, <1>2, <1>3, ReplayKeeps
  <2> HIDE DEF replayed
  <2> QED BY <1>1, <1>2, <1>3, <2>1, ClientKeeps
<1>4. CASE /\ s.replay[1] = s.replay[2] /\ s.queue # <<>>
           /\ followers' = [followers EXCEPT ![f] = taken]
  <2>1. /\ taken \in Subscription /\ taken.phase = s.phase
        /\ Len(taken.queue) <= Capacity /\ taken.failed = s.failed
        /\ Gapless(taken, events, Position)
        /\ Exact(s, Position) => Exact(taken, Position)
    BY <1>1, <1>2, <1>4, TakeKeeps
  <2> HIDE DEF taken
  <2> QED BY <1>1, <1>2, <1>4, <2>1, ClientKeeps
<1> QED BY <1>1, <1>3, <1>4

\* A client that was cut off, or that leaves, comes back with a cursor it has reached.
LEMMA LeavesKeeps ==
    ASSUME PublicationsInv, NEW f \in Follower, Lagged(f) \/ LeaveEvents(f)
    PROVE  PublicationsInv'
<1> DEFINE s == followers[f]
           cursor == IF Lagged(f) THEN s.told ELSE s.received
           t == Away(s, cursor)
<1>1. /\ s.phase = "following" /\ view.phase = "idle"
      /\ UNCHANGED <<events, view, watcher>> /\ s \in Subscription
      /\ followers' = [followers EXCEPT ![f] = t]
      /\ Lagged(f) => s.failed /\ s.replay[1] = s.replay[2] /\ s.queue = <<>>
  BY InvTypes DEF Lagged, LeaveEvents
<1>2. viewFaults' \in 0..MaxViewFaults
  <2>1. viewFaults \in 0..MaxViewFaults /\ MaxViewFaults \in Nat
    BY PublicationsAssumption DEF PublicationsInv, PublicationsTypeOK, PublicationsAssumption
  <2> QED BY <2>1 DEF Lagged, LeaveEvents, ViewFault
<1>3. /\ Gapless(s, events, Position) /\ (~view.interrupted => Exact(s, Position))
      /\ f \notin view.dropped /\ events \in Nat /\ Position \in Nat
  BY <1>1, InvTypes DEF PublicationsInv, FollowersInv, ViewInv
<1>4. /\ s.replay[2] \in Nat /\ s.received \in Nat /\ s.told \in Nat
      /\ s.received \in Sequence /\ s.told \in Sequence /\ s.replay[1] \in Nat
  BY <1>1, SubscriptionTypes
<1> HIDE DEF s
<1>5. cursor \in Sequence /\ cursor <= s.received
  <2>1. CASE Lagged(f)
    <3>1. LastOffered(s) = s.received
      BY <1>1, <1>3, <1>4, <2>1 DEF Gapless, LastOffered, Reached
    <3> QED BY <1>1, <1>3, <1>4, <2>1, <3>1 DEF Gapless
  <2>2. CASE ~Lagged(f)
    BY <1>4, <2>2
  <2> QED BY <2>1, <2>2
<1>6. ~view.interrupted => cursor = s.received
  <2>1. CASE ~view.interrupted /\ Lagged(f)
    <3>1. Base(s) = s.received /\ Len(s.queue) = 0
      BY <1>1, <1>4, <2>1 DEF Base
    <3>2. s.told = Base(s) + Len(s.queue)
      BY <1>1, <1>3, <2>1 DEF Exact
    <3> QED BY <1>4, <2>1, <3>1, <3>2
  <2>2. CASE ~Lagged(f)
    BY <2>2
  <2> QED BY <2>1, <2>2
<1> HIDE DEF cursor
<1>7. /\ t \in Subscription /\ Len(t.queue) <= Capacity
      /\ Gapless(t, events, Position)
      /\ Exact(s, Position) /\ cursor = s.received => Exact(t, Position)
  BY <1>1, <1>3, <1>5, AwayKeeps
<1> HIDE DEF t
<1> QED BY <1>1, <1>2, <1>3, <1>6, <1>7, ClientKeeps

\* One event is offered to every subscriber.
LEMMA PublishKeeps ==
    ASSUME PublicationsInv, Publish
    PROVE  PublicationsInv'
<1> DEFINE e == view.at + 1
           live == {f \in Follower : followers[f].phase = "following" /\ f \notin view.dropped}
<1>1. /\ view.phase = "publishing" /\ view.at < view.target
      /\ followers' = [f \in Follower |->
            IF f \in live /\ ~followers[f].failed THEN Offered(followers[f], e)
            ELSE followers[f]]
      /\ view' = [view EXCEPT !.at = e,
                      !.dropped = view.dropped \cup {f \in live : followers'[f].failed}]
      /\ watcher' = Ticked(watcher)
      /\ UNCHANGED <<events, viewFaults>>
  BY InvTypes DEF Publish, HostView
<1>2. /\ view.local <= view.at /\ view.at <= view.target /\ view.target <= events
      /\ view.local <= events
      /\ \A f \in view.dropped : followers[f].phase = "following" /\ followers[f].failed
      /\ view.dropped \subseteq Follower
  BY <1>1, InvTypes DEF PublicationsInv, ViewInv, HostView
<1>3. e \in Sequence /\ e \in Nat /\ view.at <= e /\ e <= view.target /\ e <= events
  <2>1. /\ view.at \in Nat /\ view.target \in Nat /\ events \in Nat
        /\ view.target \in Sequence
    BY InvTypes
  <2>2. MaxEvents \in Nat
    BY PublicationsAssumption DEF PublicationsAssumption
  <2> QED BY <1>1, <1>2, <2>1, <2>2 DEF Sequence
<1>4. Position = view.at /\ Position + 1 = e
  BY <1>1 DEF Position
<1> HIDE DEF live
<1>5. ASSUME NEW f \in Follower
      PROVE  /\ followers'[f] \in Subscription /\ Len(followers'[f].queue) <= Capacity
             /\ followers'[f].phase = followers[f].phase
             /\ followers[f].failed => followers'[f].failed
             /\ Gapless(followers'[f], events, e)
             /\ ~view.interrupted => Exact(followers'[f], e)
  <2> DEFINE s == followers[f]
  <2>1. /\ s \in Subscription /\ Len(s.queue) <= Capacity /\ events \in Nat
        /\ Position \in Nat /\ Position \in Sequence
        /\ Gapless(s, events, Position) /\ (~view.interrupted => Exact(s, Position))
    BY InvTypes DEF PublicationsInv, FollowersInv
  <2>2. CASE f \in live /\ ~s.failed
    <3>1. followers'[f] = Offered(s, Position + 1)
      BY <1>1, <1>4, <2>2
    <3>2. s.phase = "following"
      BY <2>2 DEF live
    <3> DEFINE t == Offered(s, Position + 1)
    <3>3. Position + 1 \in Sequence /\ Position + 1 <= events
      BY <1>3, <1>4
    <3> HIDE DEF e, s
    <3>4. /\ t \in Subscription /\ t.phase = "following" /\ Len(t.queue) <= Capacity
          /\ Gapless(t, events, Position + 1)
          /\ Exact(s, Position) => Exact(t, Position + 1)
      BY <2>1, <2>2, <3>2, <3>3, OfferKeeps
    <3> HIDE DEF t
    <3>5. followers'[f] = t
      BY <3>1 DEF t
    <3> QED BY <1>4, <2>1, <2>2, <3>2, <3>4, <3>5 DEF s
  <2>3. CASE ~(f \in live /\ ~s.failed)
    <3>1. followers'[f] = s
      BY <1>1, <2>3
    <3>2. ~(s.phase = "following" /\ ~s.failed)
      BY <1>2, <2>3 DEF live
    <3> HIDE DEF s, e
    <3>3. /\ Gapless(s, events, e)
          /\ Exact(s, Position) => Exact(s, e)
      BY <1>3, <2>1, <3>2, OthersKeep
    <3> QED BY <2>1, <3>1, <3>3 DEF s
  <2> QED BY <2>2, <2>3
<1> HIDE DEF e
<1>6. /\ view' \in HostView /\ view'.phase = "publishing" /\ view'.at = e
      /\ view'.target = view.target /\ view'.local = view.local
      /\ view'.interrupted = view.interrupted
      /\ view'.dropped = view.dropped \cup {f \in live : followers'[f].failed}
  <2> DEFINE dropped == view.dropped \cup {f \in live : followers'[f].failed}
  <2>1. dropped \subseteq Follower
    BY <1>2 DEF live
  <2>2. view' = [view EXCEPT !.at = e, !.dropped = dropped]
    BY <1>1
  <2> HIDE DEF dropped
  <2>3. /\ view' \in HostView /\ view'.phase = "publishing" /\ view'.at = e
        /\ view'.target = view.target /\ view'.local = view.local
        /\ view'.interrupted = view.interrupted /\ view'.dropped = dropped
    BY <1>1, <1>3, <2>1, <2>2, InvTypes DEF HostView
  <2> QED BY <2>3 DEF dropped
<1>7. Position' = e
  BY <1>6 DEF Position
<1>8. ViewInv'
  <2>1. ASSUME NEW f \in view'.dropped
        PROVE  followers'[f].phase = "following" /\ followers'[f].failed
    <3>1. CASE f \in view.dropped
      BY <1>2, <1>5, <3>1
    <3>2. CASE f \in live /\ followers'[f].failed
      BY <1>5, <3>2 DEF live
    <3> QED BY <1>6, <3>1, <3>2
  <2>2. view.local \in Nat /\ view.at \in Nat
    BY InvTypes
  <2> QED BY <1>1, <1>2, <1>3, <1>6, <2>1, <2>2 DEF ViewInv
<1>9. watcher' \in TreeWatcher /\ viewFaults' \in 0..MaxViewFaults
  BY <1>1 DEF Ticked, TreeWatcher, PublicationsInv, PublicationsTypeOK
<1>10. followers' \in [Follower -> Subscription]
  BY <1>1, <1>5
<1> QED BY <1>1, <1>5, <1>6, <1>7, <1>8, <1>9, <1>10, FollowersStepKeeps

\* The host restarts: clients resume at what they have received.
LEMMA RestartKeeps ==
    ASSUME PublicationsInv, RestartHost
    PROVE  PublicationsInv'
<1> DEFINE cursor(f) == IF followers[f].phase = "following" THEN followers[f].received
                        ELSE followers[f].cursor
<1>1. /\ view' = [view EXCEPT !.local = events, !.phase = "idle", !.dropped = {}]
      /\ followers' = [f \in Follower |->
            IF followers[f].phase = "expired" THEN followers[f]
            ELSE Away(followers[f], cursor(f))]
      /\ watcher' = [watcher EXCEPT !.phase = "away", !.tick = FALSE]
      /\ UNCHANGED events
  BY DEF RestartHost
<1>2. viewFaults' \in 0..MaxViewFaults
  <2>1. viewFaults \in 0..MaxViewFaults /\ MaxViewFaults \in Nat
    BY PublicationsAssumption DEF PublicationsInv, PublicationsTypeOK, PublicationsAssumption
  <2> QED BY <2>1 DEF RestartHost, ViewFault
<1>3. /\ view' \in HostView /\ view'.phase = "idle" /\ view'.local = events
      /\ view'.dropped = {} /\ view'.interrupted = view.interrupted
  BY <1>1, InvTypes DEF HostView
<1>4. Position' = events /\ events \in Nat
  BY <1>3, InvTypes DEF Position
<1>5. ASSUME NEW f \in Follower
      PROVE  /\ followers'[f] \in Subscription /\ Len(followers'[f].queue) <= Capacity
             /\ Gapless(followers'[f], events, events)
             /\ ~view.interrupted => Exact(followers'[f], events)
  <2> DEFINE s == followers[f]
             c == cursor(f)
             t == Away(s, c)
  <2>1. /\ s \in Subscription /\ Gapless(s, events, Position)
        /\ (~view.interrupted => Exact(s, Position)) /\ Position \in Nat
    BY InvTypes DEF PublicationsInv, FollowersInv
  <2>2. followers'[f] = t
    BY <1>1, <2>1 DEF Gapless
  <2>3. /\ c \in Sequence /\ c <= s.received
        /\ ~view.interrupted => c = s.received
    <3>1. s.cursor \in Sequence /\ s.received \in Sequence /\ s.received \in Nat
      BY <2>1, SubscriptionTypes
    <3> QED BY <2>1, <3>1 DEF Gapless, Exact
  <2> HIDE DEF s, c
  <2>4. /\ t \in Subscription /\ Len(t.queue) <= Capacity
        /\ Gapless(t, events, events)
        /\ Exact(s, Position) /\ c = s.received => Exact(t, events)
    BY <1>4, <2>1, <2>3, AwayKeeps
  <2> HIDE DEF t
  <2> QED BY <2>1, <2>2, <2>3, <2>4
<1>6. ViewInv'
  BY <1>1, <1>3, <1>4 DEF ViewInv
<1>7. watcher' \in TreeWatcher
  BY <1>1 DEF TreeWatcher, PublicationsInv, PublicationsTypeOK
<1>8. followers' \in [Follower -> Subscription]
  <2>1. DOMAIN followers' = Follower /\ followers' = [f \in Follower |-> followers'[f]]
    BY <1>1
  <2> QED BY <1>5, <2>1
<1> HIDE DEF cursor
<1> QED BY <1>1, <1>2, <1>3, <1>4, <1>5, <1>6, <1>7, <1>8, FollowersStepKeeps

-----------------------------------------------------------------------------
(* The theorems.                                                           *)

LEMMA PublicationsInvInit ==
    ASSUME PublicationsInit
    PROVE  PublicationsInv
<1>1. /\ MaxEvents \in Nat /\ MaxViewFaults \in Nat /\ Capacity \in Nat /\ 0 <= Capacity
  BY PublicationsAssumption DEF PublicationsAssumption
<1>2. 0 \in Sequence /\ 0 \in 0..MaxViewFaults
  BY <1>1 DEF Sequence
<1> DEFINE fresh == [phase |-> "away", needs |-> 0, cursor |-> 0, replay |-> <<0, 0>>,
                     queue |-> <<>>, failed |-> FALSE, told |-> 0, received |-> 0,
                     seen |-> "ordered"]
<1>3. fresh \in Subscription /\ Len(fresh.queue) = 0
  <2>1. <<0, 0>> \in Sequence \X Sequence /\ <<>> \in Seq(Sequence) /\ Len(<<>>) = 0
    BY <1>2
  <2> QED BY <1>2, <2>1 DEF Subscription
<1>4. followers = [f \in Follower |-> fresh]
  BY DEF PublicationsInit
<1>5. fresh.replay[1] = 0 /\ fresh.replay[2] = 0 /\ 1..0 = {}
  OBVIOUS
<1>6. Gapless(fresh, 0, 0) /\ Exact(fresh, 0)
  BY <1>3, <1>5 DEF Gapless, Exact
<1> HIDE DEF fresh
<1>7. PublicationsTypeOK
  BY <1>1, <1>2, <1>3, <1>4 DEF PublicationsInit, PublicationsTypeOK, HostView, TreeWatcher
<1>8. ViewInv
  BY DEF PublicationsInit, ViewInv
<1>9. Position = 0 /\ events = 0
  BY DEF PublicationsInit, Position
<1>10. FollowersInv
  BY <1>4, <1>6, <1>9 DEF FollowersInv
<1> QED BY <1>7, <1>8, <1>10 DEF PublicationsInv

LEMMA PublicationsInvNext ==
    ASSUME PublicationsInv, [PublicationsNext]_viewVars
    PROVE  PublicationsInv'
<1>1. CASE AppendEvents
  BY <1>1, AppendKeeps
<1>2. CASE Refresh \/ Install \/ InterruptRefresh
  BY <1>2, RefreshKeeps
<1>3. CASE Publish
  BY <1>3, PublishKeeps
<1>4. CASE RestartHost
  BY <1>4, RestartKeeps
<1>5. CASE \E f \in Follower : FollowerStep(f) \/ LeaveEvents(f)
  BY <1>5, ReadKeeps, SubscribeKeeps, TakeEventKeeps, LeavesKeeps DEF FollowerStep
<1>6. CASE WatcherStep
  BY <1>6, WatcherKeeps
<1>7. CASE UNCHANGED viewVars
  BY <1>7 DEF viewVars, PublicationsInv, PublicationsTypeOK, ViewInv, FollowersInv, Position
<1> QED BY <1>1, <1>2, <1>3, <1>4, <1>5, <1>6, <1>7 DEF PublicationsNext, ViewStep

\* The queues, replays and cursors of all clients fit what the host has offered.
THEOREM PublicationsInvariant == PublicationsSpec => []PublicationsInv
<1>1. PublicationsInit => PublicationsInv
  BY PublicationsInvInit
<1>2. PublicationsInv /\ [PublicationsNext]_viewVars => PublicationsInv'
  BY PublicationsInvNext
<1> QED BY <1>1, <1>2, PTL DEF PublicationsSpec

\* Queues stay within their capacity, and what is stored keeps its form.
THEOREM PublicationsTypeCorrect == PublicationsSpec => []PublicationsTypeOK
<1>1. PublicationsInv => PublicationsTypeOK
  BY DEF PublicationsInv
<1> QED BY <1>1, PublicationsInvariant, PTL

\* Every client receives every event, in order and without a gap, through replays, live
\* events, lag, restarts and reconnections, and none twice unless a refresh was
\* interrupted; no cursor it was given is refused.
THEOREM ClientsFollowInOrder == PublicationsSpec => []FollowedInOrder
<1>1. PublicationsInv => FollowedInOrder
  <2> SUFFICES ASSUME PublicationsInv, NEW f \in Follower
               PROVE  /\ followers[f].seen # "gap" /\ followers[f].phase # "expired"
                      /\ followers[f].seen = "repeated" => view.interrupted
    BY DEF FollowedInOrder
  <2>1. /\ Gapless(followers[f], events, Position)
        /\ ~view.interrupted => Exact(followers[f], Position)
    BY DEF PublicationsInv, FollowersInv
  <2> QED BY <2>1 DEF Gapless, Exact
<1> QED BY <1>1, PublicationsInvariant, PTL
=============================================================================
