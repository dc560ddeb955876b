------------------------------- MODULE Broker -------------------------------
(***************************************************************************)
(* Queues and topics: the shards of internal/resource/broker_queue.go and  *)
(* the handlers of internal/simd/queue_handlers.go and topic_handlers.go,  *)
(* with the consumer requests they start.                                  *)
(*                                                                         *)
(* One point-to-point queue, or one topic with a shard for each partition  *)
(* and consumer group.  The handlers run one at a time, in the order of    *)
(* the event queue: time, priority, order of scheduling (module Engine).   *)
(* What becomes of a consumer request (refused at its start, waiting for   *)
(* CPU, busy for a while) and whether the request that published is still  *)
(* known to the run manager is decided elsewhere and left open here.       *)
(***************************************************************************)
EXTENDS Integers, Sequences, FiniteSets, SequencesExt

CONSTANTS
  Subscribers,      \* the consumer groups of the topic, in canonical order
  Partitions,       \* Partitions of the topic
  Capacity,         \* Capacity of each shard; 0 means unlimited
  MaxConcurrency,   \* the largest consumer_concurrency explored
  MaxRedeliveries,  \* max_redeliveries
  Scenarios,        \* the settings explored: the kind of broker, its drop policy, its
                    \* consumer_concurrency and ack_timeout_ms (0 disables it), do
                    \* consumers call on?
  Retention,        \* retention_ms of the topic; 0 disables it
  Delays,           \* how long a publish may take
  Waits,            \* how long a consumer may wait for CPU
  Durations,        \* how long it may work
  MaxPublish        \* bound on the messages

None == -1
Ids == 1..MaxPublish
Queue == <<"queue", 0, "-">>
TopicShard(p, g) == <<"topic", p, g>>
Topics == {TopicShard(p, g) : p \in 0..(Partitions - 1), g \in ToSet(Subscribers)}
Shards == {Queue} \cup Topics
Topic(key) == <<"topic", key, "-">>
Keys == {None} \cup 0..(Partitions - 1)

DropPolicies == {"block", "reject", "drop_oldest", "drop_newest"}

ASSUME BrokerConstants ==
  /\ Partitions \in Nat \ {0} /\ Capacity \in Nat /\ MaxConcurrency \in Nat \ {0}
  /\ MaxRedeliveries \in Nat /\ Retention \in Nat
  /\ Scenarios \subseteq [uses : {"queue", "topic"}, drop : DropPolicies,
                           concurrency : 1..MaxConcurrency, ackTimeout : Nat, callsOn : BOOLEAN]
  /\ Delays \subseteq Nat /\ Waits \subseteq Nat \ {0} /\ Durations \subseteq Nat
  /\ MaxPublish \in Nat

VARIABLES
  now,        \* the simulation time
  events,     \* the event queue, first event first
  cfg,        \* the settings of this scenario
  shard,      \* BrokerQueueShard
  hw,         \* topicPartitionHW: the next offset of each partition
  cursor,     \* topicPartitionCursor
  consumers,  \* the consumer requests that have not finished
  published,  \* history: messages published
  given,      \* history: the messages each shard was offered
  done,       \* history: messages consumed from each shard
  lost,       \* history: messages of each shard popped for a request no longer known
  trouble     \* history: shards where a consumer could not be started

vars == <<now, events, cfg, shard, hw, cursor, consumers, published, given, done, lost, trouble>>

Message == [id : Ids, enq : Nat, red : Nat, off : Nat]
NoMessage == [id |-> 0, enq |-> 0, red |-> 0, off |-> 0]
EmptyShard ==
  [msgs |-> <<>>, inFlight |-> 0, drops |-> 0, redeliveries |-> 0, dlq |-> 0,
   next |-> 0, pending |-> {}, retentionAt |-> None]

Kinds == {"queue_enqueue", "topic_publish", "dequeue", "start", "complete", "ack_timeout",
          "finish", "dlq", "retention"}

TypeOK ==
  /\ now \in Nat
  /\ \A i \in DOMAIN events :
       /\ events[i].kind \in Kinds /\ events[i].at \in Nat /\ events[i].at >= now
       /\ events[i].prio \in {0, 1} /\ events[i].shard \in Shards \cup {Topic(key) : key \in Keys}
       /\ events[i].msg \in Message \cup {NoMessage}
  /\ cfg \in Scenarios
  /\ \A k \in Shards :
       /\ shard[k].msgs \in Seq(Message)
       /\ shard[k].inFlight \in 0..cfg.concurrency
       /\ shard[k].pending \subseteq Nat /\ shard[k].next \in Nat
       /\ shard[k].retentionAt \in Nat \cup {None}
  /\ hw \in [0..(Partitions - 1) -> Nat] /\ cursor \in 0..(Partitions - 1)
  /\ \A c \in consumers :
       /\ c.shard \in Shards /\ c.msg \in Message /\ {c.acked, c.timedOut} \subseteq BOOLEAN
       /\ c.status \in {"pending", "deferred", "processing", "failed"}
  /\ published \in 0..MaxPublish /\ trouble \subseteq Shards

Init ==
  /\ now = 0 /\ events = <<>>
  /\ cfg \in Scenarios
  /\ shard = [k \in Shards |-> EmptyShard]
  /\ hw = [p \in 0..(Partitions - 1) |-> 0] /\ cursor = 0
  /\ consumers = {} /\ published = 0
  /\ given = [k \in Shards |-> {}] /\ done = [k \in Shards |-> 0]
  /\ lost = [k \in Shards |-> {}]
  /\ trouble = {}

-----------------------------------------------------------------------------
(* The event queue.                                                        *)

Event(kind, at, prio, k, m) ==
  [kind |-> kind, at |-> at, prio |-> prio, shard |-> k, msg |-> m]

\* EventQueue.Less, with the order of scheduling as the last criterion.
NotAfter(d, e) == d.at < e.at \/ (d.at = e.at /\ d.prio <= e.prio)

\* ScheduleAt, ScheduleAtPriority
Schedule(q, e) ==
  LET n == Cardinality({i \in DOMAIN q : NotAfter(q[i], e)})
  IN SubSeq(q, 1, n) \o <<e>> \o SubSeq(q, n + 1, Len(q))

Wake(q, k, t) == Schedule(q, Event("dequeue", t, 0, k, NoMessage))

-----------------------------------------------------------------------------
(* BrokerQueueShard.                                                       *)

capacityReached(s) == Capacity > 0 /\ Len(s.msgs) >= Capacity

\* Enqueue: is the message accepted, which one was evicted, and the shard.
Enqueue(s, m) ==
  IF ~capacityReached(s)
  THEN [accepted |-> TRUE, evicted |-> {}, s |-> [s EXCEPT !.msgs = Append(@, m)]]
  ELSE IF cfg.drop = "drop_oldest"
  THEN [accepted |-> TRUE, evicted |-> {Head(s.msgs)},
        s |-> [s EXCEPT !.msgs = Append(Tail(@), m), !.drops = @ + 1]]
  ELSE [accepted |-> FALSE, evicted |-> {}, s |-> [s EXCEPT !.drops = @ + 1]]

CanDispatch(s) == s.inFlight < cfg.concurrency /\ s.msgs # <<>>

TryPopForDispatch(s) == [s EXCEPT !.msgs = Tail(@), !.inFlight = @ + 1]

ConsumerFinished(s) == [s EXCEPT !.inFlight = IF @ > 0 THEN @ - 1 ELSE @]

\* Without giving the slot back.
RequeueFrontKeepingSlot(s, m) == [s EXCEPT !.msgs = <<m>> \o @]

RequeueFront(s, m) == [ConsumerFinished(s) EXCEPT !.msgs = <<m>> \o @]

\* ExpireQueuedByRetention: how many messages at the front are too old.
Expired(s, t) ==
  CHOOSE n \in 0..Len(s.msgs) :
    /\ \A i \in 1..n : s.msgs[i].enq + Retention <= t
    /\ n < Len(s.msgs) => s.msgs[n + 1].enq + Retention > t

ExpireQueuedByRetention(s, t) ==
  [s EXCEPT !.msgs = SubSeq(@, Expired(s, t) + 1, Len(@)), !.drops = @ + Expired(s, t)]

\* RecordTopicOffsetProcessed, for each offset of a set: the frontier moves
\* over the offsets that are contiguous with it.
RecordTopicOffsetProcessed(s, offs) ==
  LET p == s.pending \cup {o \in offs : o >= s.next}
      n == CHOOSE n \in s.next..(s.next + Cardinality(p)) :
             n \notin p /\ s.next..(n - 1) \subseteq p
  IN [s EXCEPT !.next = n, !.pending = {o \in p : o >= n}]

\* ShouldScheduleRetentionAt
ShouldScheduleRetentionAt(s, at) == s.retentionAt = None \/ at < s.retentionAt

\* scheduleTopicShardRetention, on a pair of a shard and the event queue.
scheduleTopicShardRetention(st, k, t) ==
  IF Retention = 0 \/ st.s.msgs = <<>> THEN st
  ELSE LET due == Head(st.s.msgs).enq + Retention
           at == IF due < t THEN t ELSE due
       IN IF ~ShouldScheduleRetentionAt(st.s, at) THEN st
          ELSE [s |-> [st.s EXCEPT !.retentionAt = at],
                q |-> Schedule(st.q, Event("retention", at, 0, k, NoMessage))]

-----------------------------------------------------------------------------
(* Publishing.  The engine takes the first event and calls its handler.    *)

Takes(kind, e) == e.kind = kind /\ now' = e.at

\* scheduleQueuePublishFromOverhead
PublishToQueue(d) ==
  /\ cfg.uses = "queue" /\ published < MaxPublish
  /\ published' = published + 1
  /\ events' = Schedule(events, Event("queue_enqueue", now + d, 0, Queue,
                          [NoMessage EXCEPT !.id = published + 1]))
  /\ UNCHANGED <<now, cfg, shard, hw, cursor, consumers, given, done, lost, trouble>>

handleQueueEnqueue(e) ==
  LET m == [e.msg EXCEPT !.enq = e.at]
      r == Enqueue(shard[Queue], m)
  IN /\ Takes("queue_enqueue", e)
     /\ shard' = [shard EXCEPT ![Queue] = r.s]
     /\ events' = IF r.accepted THEN Wake(Tail(events), Queue, e.at) ELSE Tail(events)
     /\ given' = [given EXCEPT ![Queue] = @ \cup {m.id}]
     /\ UNCHANGED <<cfg, hw, cursor, consumers, published, done, lost, trouble>>

\* scheduleTopicPublishFromOverhead.  A partition key fixes the partition;
\* without one (None) the cursor chooses.
PublishToTopic(d, key) ==
  /\ cfg.uses = "topic" /\ published < MaxPublish
  /\ published' = published + 1
  /\ events' = Schedule(events, Event("topic_publish", now + d, 0, Topic(key),
                          [NoMessage EXCEPT !.id = published + 1]))
  /\ UNCHANGED <<now, cfg, shard, hw, cursor, consumers, given, done, lost, trouble>>

\* topicPartitionForPublish; the hash of a key is the partition it names.
topicPartitionForPublish(key) ==
  IF Partitions = 1 THEN 0 ELSE IF key # None THEN key ELSE cursor

\* One group gets its copy: a refused message counts as processed at once,
\* and so does the one an accepted message pushes out.
DeliverToGroup(st, k, m, t) ==
  LET r == Enqueue(st.shard[k], m)
      s == RecordTopicOffsetProcessed(r.s, IF r.accepted THEN {x.off : x \in r.evicted}
                                           ELSE {m.off})
      w == scheduleTopicShardRetention([s |-> s, q |-> st.q], k, t)
  IN IF ~r.accepted THEN [shard |-> [st.shard EXCEPT ![k] = s], q |-> st.q]
     ELSE [shard |-> [st.shard EXCEPT ![k] = w.s], q |-> Wake(w.q, k, t)]

handleTopicPublish(e) ==
  LET p == topicPartitionForPublish(e.shard[2])
      m == [e.msg EXCEPT !.enq = e.at, !.off = hw[p]]
      group(st, g) == DeliverToGroup(st, TopicShard(p, g), m, e.at)
      st == FoldLeft(group, [shard |-> shard, q |-> Tail(events)], Subscribers)
  IN /\ Takes("topic_publish", e)
     /\ hw' = [hw EXCEPT ![p] = @ + 1]
     /\ cursor' = IF Partitions > 1 /\ e.shard[2] = None
                  THEN (cursor + 1) % Partitions ELSE cursor
     /\ shard' = st.shard /\ events' = st.q
     /\ given' = [k \in Shards |-> IF k \in Topics /\ k[2] = p THEN given[k] \cup {m.id}
                                   ELSE given[k]]
     /\ UNCHANGED <<cfg, consumers, published, done, lost, trouble>>

-----------------------------------------------------------------------------
(* Dispatching.                                                            *)

Consumer(k, m) ==
  [shard |-> k, msg |-> m, status |-> "pending", acked |-> FALSE, timedOut |-> FALSE]

\* The consumer request of a popped message, its start and its timeout.
Spawn(q, k, m, t) ==
  LET s == Schedule(q, Event("start", t, 0, k, m))
  IN IF cfg.ackTimeout = 0 THEN s
     ELSE Schedule(s, Event("ack_timeout", t + cfg.ackTimeout, 1, k, m))

\* The state with the popped message back at the front of its shard.
Returned(e) ==
  LET s == shard[e.shard]
  IN [s |-> RequeueFront(TryPopForDispatch(s), Head(s.msgs)), q |-> Tail(events)]

\* What both dequeue handlers do: nothing when no slot is free or nothing is
\* queued; the message is dropped when the publishing request is unknown; it
\* goes back to the front when the consuming service has no instance, which
\* leaves the shard and the events of returned; or its consumer starts.
Dequeue(e, returned) ==
  LET k == e.shard
      s == shard[k]
      m == Head(s.msgs)
      popped == TryPopForDispatch(s)
  IN \/ /\ ~CanDispatch(s)
        /\ events' = Tail(events)
        /\ UNCHANGED <<shard, consumers, lost, trouble>>
     \/ /\ CanDispatch(s)
        /\ shard' = [shard EXCEPT ![k] = ConsumerFinished(popped)]
        /\ lost' = [lost EXCEPT ![k] = @ \cup {m}]
        /\ events' = Tail(events)
        /\ trouble' = trouble \cup {k}
        /\ UNCHANGED consumers
     \/ /\ CanDispatch(s)
        /\ shard' = [shard EXCEPT ![k] = returned.s]
        /\ events' = returned.q
        /\ trouble' = trouble \cup {k}
        /\ UNCHANGED <<consumers, lost>>
     \/ /\ CanDispatch(s)
        /\ shard' = [shard EXCEPT ![k] = popped]
        /\ consumers' = consumers \cup {Consumer(k, m)}
        /\ events' = Spawn(Tail(events), k, m, e.at)
        /\ UNCHANGED <<lost, trouble>>

handleQueueDequeue(e) ==
  /\ Takes("dequeue", e) /\ e.shard = Queue
  /\ Dequeue(e, Returned(e))
  /\ UNCHANGED <<cfg, hw, cursor, published, given, done>>

\* A message that goes back is watched by the retention again.
handleTopicDequeue(e) ==
  /\ Takes("dequeue", e) /\ e.shard \in Topics
  /\ Dequeue(e, scheduleTopicShardRetention(Returned(e), e.shard, e.at))
  /\ UNCHANGED <<cfg, hw, cursor, published, given, done>>

-----------------------------------------------------------------------------
(* The consumer requests (handleRequestStart, handleRequestComplete).      *)

ConsumerOf(e) == {c \in consumers : c.shard = e.shard /\ c.msg = e.msg}

\* A consumer that is refused at its start fails, and tells the shard nothing.
ConsumerStartFails(e) ==
  \E c \in consumers :
    /\ Takes("start", e) /\ c \in ConsumerOf(e)
    /\ consumers' = (consumers \ {c}) \cup {[c EXCEPT !.status = "failed"]}
    /\ events' = Tail(events)
    /\ trouble' = trouble \cup {c.shard}
    /\ UNCHANGED <<cfg, shard, hw, cursor, published, given, done, lost>>

\* Its CPU is reserved for later, and it starts again then.
ConsumerWaits(e) ==
  \E c \in consumers, w \in Waits :
    /\ Takes("start", e) /\ c \in ConsumerOf(e) /\ c.status = "pending"
    /\ consumers' = (consumers \ {c}) \cup {[c EXCEPT !.status = "deferred"]}
    /\ events' = Schedule(Tail(events), [e EXCEPT !.at = @ + w])
    /\ UNCHANGED <<cfg, shard, hw, cursor, published, given, done, lost, trouble>>

ConsumerStarts(e) ==
  \E c \in consumers, d \in Durations :
    /\ Takes("start", e) /\ c \in ConsumerOf(e)
    /\ consumers' = (consumers \ {c}) \cup {[c EXCEPT !.status = "processing"]}
    /\ events' = Schedule(Tail(events), Event("complete", e.at + d, 0, e.shard, e.msg))
    /\ UNCHANGED <<cfg, shard, hw, cursor, published, given, done, lost, trouble>>

\* After its local work a consumer with synchronous calls of its own goes on
\* processing until they have returned; otherwise it is finished.
Acknowledged(c, e) ==
  IF cfg.callsOn /\ ~c.timedOut
  THEN (consumers \ {c}) \cup {[c EXCEPT !.acked = TRUE]} ELSE consumers \ {c}
Calls(q, c, e, d) ==
  IF cfg.callsOn /\ ~c.timedOut
  THEN Schedule(q, Event("finish", e.at + d, 0, e.shard, e.msg)) ELSE q

\* Without fetching the next message.
QueueConsumerCompletesQuietly(e) ==
  \E c \in consumers, d \in Durations :
    /\ Takes("complete", e) /\ c \in ConsumerOf(e) /\ e.shard = Queue
    /\ consumers' = Acknowledged(c, e)
    /\ IF c.timedOut
       THEN events' = Tail(events) /\ UNCHANGED <<shard, done>>
       ELSE /\ shard' = [shard EXCEPT ![Queue] = ConsumerFinished(@)]
            /\ events' = Calls(Tail(events), c, e, d)
            /\ done' = [done EXCEPT ![Queue] = @ + 1]
    /\ UNCHANGED <<cfg, hw, cursor, published, given, lost, trouble>>

\* metaQueueConsumerDone: the slot is free, and the next message is fetched.
\* A consumer that was timed out has lost its slot already.
QueueConsumerCompletes(e) ==
  \E c \in consumers, d \in Durations :
    /\ Takes("complete", e) /\ c \in ConsumerOf(e) /\ e.shard = Queue
    /\ consumers' = Acknowledged(c, e)
    /\ IF c.timedOut
       THEN events' = Tail(events) /\ UNCHANGED <<shard, done>>
       ELSE /\ shard' = [shard EXCEPT ![Queue] = ConsumerFinished(@)]
            /\ events' = Calls(Wake(Tail(events), Queue, e.at), c, e, d)
            /\ done' = [done EXCEPT ![Queue] = @ + 1]
    /\ UNCHANGED <<cfg, hw, cursor, published, given, lost, trouble>>

\* metaTopicConsumerDone: the same, and the offset is committed.
TopicConsumerCompletes(e) ==
  \E c \in consumers, d \in Durations :
    /\ Takes("complete", e) /\ c \in ConsumerOf(e) /\ e.shard \in Topics
    /\ consumers' = Acknowledged(c, e)
    /\ IF c.timedOut
       THEN events' = Tail(events) /\ UNCHANGED <<shard, done>>
       ELSE /\ shard' = [shard EXCEPT ![e.shard] =
                           RecordTopicOffsetProcessed(ConsumerFinished(@), {e.msg.off})]
            /\ events' = Calls(Wake(Tail(events), e.shard, e.at), c, e, d)
            /\ done' = [done EXCEPT ![e.shard] = @ + 1]
    /\ UNCHANGED <<cfg, hw, cursor, published, given, lost, trouble>>

\* finalizeRequestCompletion, once the calls have returned.
ConsumerFinishes(e) ==
  /\ Takes("finish", e)
  /\ consumers' = consumers \ ConsumerOf(e)
  /\ events' = Tail(events)
  /\ UNCHANGED <<cfg, shard, hw, cursor, published, given, done, lost, trouble>>

-----------------------------------------------------------------------------
(* Timeouts, dead letters and retention.                                   *)

\* The consumer of an acknowledgement timeout, if it is still processing.
Slow(e) == {c \in ConsumerOf(e) : c.status = "processing" /\ ~c.timedOut}
Fail(c) == (consumers \ {c}) \cup {[c EXCEPT !.status = "failed", !.timedOut = TRUE]}
Again(m) == [m EXCEPT !.red = @ + 1]

\* Redelivered once more than allowed.
handleQueueAckTimeoutOnceMore(e) ==
  /\ Takes("ack_timeout", e) /\ e.shard = Queue
  /\ \/ /\ Slow(e) = {}
        /\ events' = Tail(events) /\ UNCHANGED <<shard, consumers>>
     \/ \E c \in Slow(e) :
          LET again == e.msg.red <= MaxRedeliveries
              dead == Event("dlq", e.at, 0, Queue, e.msg)
          IN /\ consumers' = Fail(c)
             /\ shard' = [shard EXCEPT ![Queue] =
                  IF again THEN [RequeueFront(@, Again(e.msg)) EXCEPT !.redeliveries = @ + 1]
                  ELSE ConsumerFinished(@)]
             /\ events' = Wake(IF again THEN Tail(events) ELSE Schedule(Tail(events), dead),
                               Queue, e.at)
  /\ UNCHANGED <<cfg, hw, cursor, published, given, done, lost, trouble>>

\* handleQueueAckTimeout: the consumer fails; its message goes back to the
\* front, or to the dead letters when it was redelivered often enough.
handleQueueAckTimeout(e) ==
  /\ Takes("ack_timeout", e) /\ e.shard = Queue
  /\ \/ /\ Slow(e) = {}
        /\ events' = Tail(events) /\ UNCHANGED <<shard, consumers>>
     \/ \E c \in Slow(e) :
          LET again == e.msg.red + 1 <= MaxRedeliveries
              dead == Event("dlq", e.at, 0, Queue, e.msg)
          IN /\ consumers' = Fail(c)
             /\ shard' = [shard EXCEPT ![Queue] =
                  IF again THEN [RequeueFront(@, Again(e.msg)) EXCEPT !.redeliveries = @ + 1]
                  ELSE ConsumerFinished(@)]
             /\ events' = Wake(IF again THEN Tail(events) ELSE Schedule(Tail(events), dead),
                               Queue, e.at)
  /\ UNCHANGED <<cfg, hw, cursor, published, given, done, lost, trouble>>

\* handleTopicAckTimeout: the same, and what goes back is watched again.
handleTopicAckTimeout(e) ==
  /\ Takes("ack_timeout", e) /\ e.shard \in Topics
  /\ \/ /\ Slow(e) = {}
        /\ events' = Tail(events) /\ UNCHANGED <<shard, consumers>>
     \/ \E c \in Slow(e) :
          LET k == e.shard
              dead == Event("dlq", e.at, 0, k, e.msg)
              back == scheduleTopicShardRetention(
                        [s |-> [RequeueFront(shard[k], Again(e.msg))
                                  EXCEPT !.redeliveries = @ + 1],
                         q |-> Tail(events)], k, e.at)
              st == IF e.msg.red + 1 <= MaxRedeliveries THEN back
                    ELSE [s |-> ConsumerFinished(shard[k]), q |-> Schedule(Tail(events), dead)]
          IN /\ consumers' = Fail(c)
             /\ shard' = [shard EXCEPT ![k] = st.s]
             /\ events' = Wake(st.q, k, e.at)
  /\ UNCHANGED <<cfg, hw, cursor, published, given, done, lost, trouble>>

handleQueueDLQ(e) ==
  /\ Takes("dlq", e) /\ e.shard = Queue
  /\ shard' = [shard EXCEPT ![Queue].dlq = @ + 1]
  /\ events' = Tail(events)
  /\ UNCHANGED <<cfg, hw, cursor, consumers, published, given, done, lost, trouble>>

\* A dead letter stays unprocessed.
handleTopicDLQUncommitted(e) ==
  /\ Takes("dlq", e) /\ e.shard \in Topics
  /\ shard' = [shard EXCEPT ![e.shard].dlq = @ + 1]
  /\ events' = Tail(events)
  /\ UNCHANGED <<cfg, hw, cursor, consumers, published, given, done, lost, trouble>>

\* handleTopicDLQ: a dead letter counts as processed.
handleTopicDLQ(e) ==
  /\ Takes("dlq", e) /\ e.shard \in Topics
  /\ shard' = [shard EXCEPT ![e.shard] =
                 RecordTopicOffsetProcessed([@ EXCEPT !.dlq = @ + 1], {e.msg.off})]
  /\ events' = Tail(events)
  /\ UNCHANGED <<cfg, hw, cursor, consumers, published, given, done, lost, trouble>>

\* handleTopicRetentionExpire
handleTopicRetentionExpire(e) ==
  LET k == e.shard
      s == [shard[k] EXCEPT !.retentionAt = None]
      n == Expired(s, e.at)
      gone == {s.msgs[i].off : i \in 1..n}
      kept == RecordTopicOffsetProcessed(ExpireQueuedByRetention(s, e.at), gone)
      st == scheduleTopicShardRetention([s |-> kept, q |-> Tail(events)], k, e.at)
  IN /\ Takes("retention", e)
     /\ shard' = [shard EXCEPT ![k] = st.s]
     /\ events' = IF n = 0 THEN st.q ELSE Wake(st.q, k, e.at)
     /\ UNCHANGED <<cfg, hw, cursor, consumers, published, given, done, lost, trouble>>

-----------------------------------------------------------------------------
Handle ==
  /\ events # <<>>
  /\ LET e == Head(events) IN
       \/ handleQueueEnqueue(e) \/ handleQueueDequeue(e)
       \/ handleQueueAckTimeout(e) \/ handleQueueDLQ(e)
       \/ handleTopicPublish(e) \/ handleTopicDequeue(e)
       \/ handleTopicAckTimeout(e) \/ handleTopicDLQ(e)
       \/ handleTopicRetentionExpire(e)
       \/ ConsumerStartFails(e) \/ ConsumerWaits(e) \/ ConsumerStarts(e)
       \/ QueueConsumerCompletes(e) \/ TopicConsumerCompletes(e) \/ ConsumerFinishes(e)

Next ==
  \/ \E d \in Delays : PublishToQueue(d) \/ \E key \in Keys : PublishToTopic(d, key)
  \/ Handle

Spec == Init /\ [][Next]_vars

-----------------------------------------------------------------------------
(* Properties.                                                             *)

Live(k) == {c \in consumers : c.shard = k /\ ~c.acked /\ ~c.timedOut}
Queued(k) == ToSet(shard[k].msgs)
Scheduled(kind, k) == {e \in ToSet(events) : e.kind = kind /\ e.shard = k}

\* TryPopForDispatch, ConsumerFinished and RequeueFront keep the in-flight
\* count of a shard equal to the consumers that hold one of its messages:
\* the guard "if inFlight > 0" never hides a second decrement.
InFlightExact == \A k \in Shards : shard[k].inFlight = Cardinality(Live(k))

\* Redelivery ignores the capacity of a shard, but its backlog together with
\* what is in flight stays within the capacity plus the concurrency.
BacklogBounded ==
  Capacity > 0 => \A k \in Shards :
    Len(shard[k].msgs) + shard[k].inFlight <= Capacity + cfg.concurrency

\* RecordTopicOffsetProcessed: no offset is committed, or waits to be, while
\* its message is queued or with a consumer.
CommittedIsSettled ==
  \A k \in Topics : \A m \in Queued(k) \cup {c.msg : c \in Live(k)} :
    m.off >= shard[k].next /\ m.off \notin shard[k].pending

\* The lag of a consumer group has a cause: an offset that was assigned and
\* is not processed is queued, with a consumer, on its way to the dead
\* letters, or was popped for a request that is no longer known.
LagExplained ==
  \A k \in Topics : \A o \in shard[k].next..(hw[k[2]] - 1) :
    \/ o \in shard[k].pending
    \/ \E m \in Queued(k) \cup {c.msg : c \in Live(k)} \cup lost[k]
               \cup {e.msg : e \in Scheduled("dlq", k)} : m.off = o

\* scheduleTopicShardRetention: while messages are queued, an expiry event is
\* scheduled, no later than the expiry of the message at the front.
RetentionArmed ==
  Retention > 0 => \A k \in Topics : shard[k].msgs # <<>> =>
    \E e \in Scheduled("retention", k) :
      e.at = shard[k].retentionAt
      /\ (e.at <= Head(shard[k].msgs).enq + Retention \/ e.at = now)

\* A message that can be dispatched has a dequeue event, unless a consumer of
\* the shard could not be started before.
NoStall ==
  \A k \in Shards \ trouble : CanDispatch(shard[k]) => Scheduled("dequeue", k) # {}

\* The counters of a shard account for every message it was given.
CountersAddUp ==
  \A k \in Shards :
    Cardinality(given[k]) =
      Len(shard[k].msgs) + shard[k].inFlight + shard[k].drops + shard[k].dlq
        + Cardinality(Scheduled("dlq", k)) + done[k] + Cardinality(lost[k])

\* The place of a copy, and how often it was handed out.
Copy(k, i) ==
  IF \E m \in Queued(k) : m.id = i
  THEN [place |-> "queued", tries |-> (CHOOSE m \in Queued(k) : m.id = i).red]
  ELSE IF \E c \in Live(k) : c.msg.id = i
  THEN [place |-> "out", tries |-> (CHOOSE c \in Live(k) : c.msg.id = i).msg.red + 1]
  ELSE [place |-> IF i \in given[k] THEN "gone" ELSE "none", tries |-> 0]

Channel == INSTANCE MessageChannel
             WITH copy <- [k \in Shards |-> [i \in Ids |-> Copy(k, i)]]

\* The shards and their handlers keep the promise of module MessageChannel.
ImplementsChannel == Channel!Spec

\* The consumer slots, the backlog and the counters of every shard are exact.
SlotsExact == TypeOK /\ InFlightExact /\ BacklogBounded /\ CountersAddUp

\* The offsets of a topic say what happened to its messages: what is committed is
\* settled, and what is not has a reason.
OffsetsExplained == CommittedIsSettled /\ LagExplained

\* Whatever waits in a shard has an event on its way that looks at it.
WakeUpsArmed == RetentionArmed /\ NoStall
=============================================================================
