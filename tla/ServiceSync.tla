---------------------------- MODULE ServiceSync ----------------------------
(***************************************************************************)
(* The updateServiceInEvent consumer: a change of a service in the         *)
(* catalogue reaches RabbitMQ as a message, and the calendar copies it     *)
(* into the snapshots of the future events of that service.                *)
(*                                                                         *)
(* The handler is asynchronous, so up to PREFETCH deliveries per process   *)
(* interleave at every await.  A lock and a "processed" mark in Redis,     *)
(* both keyed by the digest of the message body, are meant to make the     *)
(* consumer idempotent; a retry queue with a delay, a dead-letter queue    *)
(* and a table of dead letters that an operator may replay, handle errors. *)
(*                                                                         *)
(* A body is a member of Contents: two messages with the same body have    *)
(* the same digest.  The log holds every copy of a message ever put on the *)
(* main or the retry queue, in order, and says where the copy is now, so   *)
(* that the first copy of the log at a queue is the head of that queue and *)
(* a redelivered copy is back at its old position.                         *)
(***************************************************************************)
EXTENDS Integers, Sequences

CONSTANTS
    Contents,     \* message bodies
    Malformed,    \* the bodies without payload.id
    Unparsable,   \* the bodies that are not JSON
    Handlers,     \* prefetch slots, over all processes
    Instances,    \* processes of this service
    InstanceOf,   \* the process a slot belongs to
    MaxRetries,   \* MAX_RETRIES
    RedisEnabled, \* ENABLE_REDIS
    Faults,       \* what may go wrong, a subset of FaultKinds
    Budget,       \* how often each bounded environment step may occur
    NoContent     \* the snapshot before the first update

\* apply    the transaction or the notification that follows it fails
\* redis    a Redis command of the handler throws (and has no effect)
\* publish  the retry or the replay cannot be published
\* update   the UPDATE of a replayed dead letter fails after the publish
\* release  the DEL of the lock fails
\* persist  the INSERT of a dead letter fails
\* crash    a process stops, by a crash or by SIGTERM
\* expire   the lock's TTL ends while its handler is still running
\* ttl      the TTL of a processed mark ends
\* slow     a released lock is deleted later than the retry delay
FaultKinds == {"apply", "redis", "publish", "update", "release", "persist",
               "crash", "expire", "ttl", "slow"}

Bounded == {"publish", "replay", "crash"}

ASSUME SyncAssumption ==
    /\ Malformed \subseteq Contents
    /\ Unparsable \subseteq Contents \ Malformed
    /\ NoContent \notin Contents
    /\ InstanceOf \in [Handlers -> Instances]
    /\ MaxRetries \in Nat
    /\ RedisEnabled \in BOOLEAN
    /\ Faults \subseteq FaultKinds
    /\ Budget \in [Bounded -> Nat]

VARIABLES
    log,       \* copies of messages, in the order they entered a queue
    pc,        \* where each slot's handler is
    cur,       \* the copy each slot handles, 0 if none
    locks,     \* digests whose lock key exists
    processed, \* digests whose processed key exists
    snapshot,  \* what the future events of the service hold
    catalog,   \* what the publisher last published
    applied,   \* history: contents that some transaction committed
    budget     \* how many bounded environment steps are left

vars == <<log, pc, cur, locks, processed, snapshot, catalog, applied, budget>>
redis == <<locks, processed>>
db == <<snapshot, applied>>
environment == <<catalog, budget>>

\* The status of a row of deadLetterMessages.
RowStatus == {"PENDING", "REPLAYED", "REPLAY_FAILED"}

Place == {"queue", "handling", "retry", "dlq", "gone"} \union RowStatus

Message == [content : Contents, retries : 0..MaxRetries, at : Place]

\* The handler's position, named for what it does next.
Label == {"idle", "unparsed", "check", "acquire", "apply", "mark", "ack",
          "fail", "ackRetry", "release"}

\* The labels between the acquisition and the release of the lock.
Critical == {"apply", "mark", "ack", "fail", "ackRetry", "release"}

At(place) == {i \in DOMAIN log : log[i].at = place}

IsHead(i, place) == i \in At(place) /\ \A j \in At(place) : i <= j

Moved(i, place) == [log EXCEPT ![i].at = place]

Body(h) == log[cur[h]].content

May(fault) == fault \in Faults

Spend(kind) ==
    /\ budget[kind] > 0
    /\ budget' = [budget EXCEPT ![kind] = @ - 1]

Goto(h, label) == pc' = [pc EXCEPT ![h] = label]

\* A copy whose handler leaves for good, its message having gone to place.
Settle(h, place) ==
    /\ log' = Moved(cur[h], place)
    /\ pc' = [pc EXCEPT ![h] = "idle"]
    /\ cur' = [cur EXCEPT ![h] = 0]

\* A copy whose handler has yet to run its finally block.
SettleInTry(h, place) ==
    /\ log' = Moved(cur[h], place)
    /\ Goto(h, "release")
    /\ UNCHANGED cur

-----------------------------------------------------------------------------
Init ==
    /\ log = <<>>
    /\ pc = [h \in Handlers |-> "idle"]
    /\ cur = [h \in Handlers |-> 0]
    /\ locks = {}
    /\ processed = {}
    /\ snapshot = NoContent
    /\ catalog = NoContent
    /\ applied = {}
    /\ budget = Budget

\* The catalogue's service changes and a message says so.
Publish(c) ==
    /\ Spend("publish")
    /\ log' = Append(log, [content |-> c, retries |-> 0, at |-> "queue"])
    /\ catalog' = c
    /\ UNCHANGED <<pc, cur, redis, db>>

\* The broker hands the head of the queue to a free slot.  A body without
\* payload.id is rejected before the first await (the consumer's line 120).
\* One that is not JSON is parsed outside the try block of consumeQueue:
\* nobody acknowledges it, and nobody handles the rejected promise.
Deliver(h) ==
    /\ pc[h] = "idle"
    /\ \E i \in At("queue") :
        /\ IsHead(i, "queue")
        /\ \/ /\ log[i].content \in Malformed
              /\ log' = Moved(i, "dlq")
              /\ UNCHANGED <<pc, cur>>
           \/ /\ log[i].content \in Unparsable
              /\ log' = Moved(i, "handling")
              /\ Goto(h, "unparsed")
              /\ cur' = [cur EXCEPT ![h] = i]
           \/ /\ log[i].content \notin Malformed \union Unparsable
              /\ log' = Moved(i, "handling")
              /\ Goto(h, "check")
              /\ cur' = [cur EXCEPT ![h] = i]
    /\ UNCHANGED <<redis, db, environment>>

\* Mutant: the exception is acknowledged.
ThrowOutsideTryAcks(h) ==
    /\ May("redis") /\ RedisEnabled
    /\ pc[h] \in {"check", "acquire"}
    /\ Settle(h, "gone")
    /\ UNCHANGED <<redis, db, environment>>

\* An exception outside the try block reaches consumeQueue, which nacks
\* without requeue: no retry.
ThrowOutsideTry(h) ==
    /\ May("redis") /\ RedisEnabled
    /\ pc[h] \in {"check", "acquire"}
    /\ Settle(h, "dlq")
    /\ UNCHANGED <<redis, db, environment>>

\* Mutant: the digest is marked when it is first seen.
CheckMarksFirst(h) ==
    /\ pc[h] = "check"
    /\ \/ /\ Body(h) \in processed
          /\ Settle(h, "gone")
          /\ UNCHANGED processed
       \/ /\ Body(h) \notin processed
          /\ processed' = processed \union {Body(h)}
          /\ Goto(h, "acquire")
          /\ UNCHANGED <<log, cur>>
    /\ UNCHANGED <<locks, db, environment>>

\* isMessageProcessed
Check(h) ==
    /\ pc[h] = "check"
    /\ \/ /\ RedisEnabled /\ Body(h) \in processed
          /\ Settle(h, "gone")
       \/ /\ ~(RedisEnabled /\ Body(h) \in processed)
          /\ Goto(h, "acquire")
          /\ UNCHANGED <<log, cur>>
    /\ UNCHANGED <<redis, db, environment>>

\* Mutant: the acquisition is inside the try, so that a duplicate deletes
\* the lock of the handler it met.
AcquireInTry(h) ==
    /\ pc[h] = "acquire"
    /\ \/ /\ Body(h) \in locks
          /\ SettleInTry(h, "gone")
          /\ UNCHANGED locks
       \/ /\ Body(h) \notin locks
          /\ locks' = locks \union {Body(h)}
          /\ Goto(h, "apply")
          /\ UNCHANGED <<log, cur>>
    /\ UNCHANGED <<processed, db, environment>>

\* acquireMessageLock: SET NX.  A lock that exists is read as "a duplicate
\* is in flight" and the delivery is acknowledged.
Acquire(h) ==
    /\ pc[h] = "acquire"
    /\ \/ /\ RedisEnabled /\ Body(h) \in locks
          /\ Settle(h, "gone")
          /\ UNCHANGED locks
       \/ /\ ~(RedisEnabled /\ Body(h) \in locks)
          /\ locks' = IF RedisEnabled THEN locks \union {Body(h)} ELSE locks
          /\ Goto(h, "apply")
          /\ UNCHANGED <<log, cur>>
    /\ UNCHANGED <<processed, db, environment>>

\* The transaction that rewrites the snapshots of the future events.
Apply(h) ==
    /\ pc[h] = "apply"
    /\ snapshot' = Body(h)
    /\ applied' = applied \union {Body(h)}
    /\ Goto(h, "mark")
    /\ UNCHANGED <<log, cur, redis, environment>>

\* markMessageProcessed, once the notifications are out
Mark(h) ==
    /\ pc[h] = "mark"
    /\ processed' = IF RedisEnabled THEN processed \union {Body(h)} ELSE processed
    /\ Goto(h, "ack")
    /\ UNCHANGED <<log, cur, locks, db, environment>>

\* The transaction, a notification or the mark throws inside the try block.
Throw(h) ==
    /\ \/ pc[h] \in {"apply", "mark"} /\ May("apply")
       \/ pc[h] = "mark" /\ May("redis") /\ RedisEnabled
    /\ Goto(h, "fail")
    /\ UNCHANGED <<log, cur, redis, db, environment>>

Ack(h) ==
    /\ pc[h] = "ack"
    /\ SettleInTry(h, "gone")
    /\ UNCHANGED <<redis, db, environment>>

\* Mutant: one retry too many.
RetriesLeftOffByOne(h) == log[cur[h]].retries <= MaxRetries

RetriesLeft(h) == log[cur[h]].retries < MaxRetries

\* Mutant: nack(true) puts an exhausted message back on the queue.
CatchRequeues(h) ==
    /\ pc[h] = "fail"
    /\ \/ /\ ~RetriesLeft(h)
          /\ SettleInTry(h, "queue")
       \/ /\ RetriesLeft(h)
          /\ log' = Append(log, [content |-> Body(h),
                                 retries |-> log[cur[h]].retries + 1,
                                 at |-> "retry"])
          /\ Goto(h, "ackRetry")
          /\ UNCHANGED cur
    /\ UNCHANGED <<redis, db, environment>>

\* The catch block, up to the await of the republication: with retries left
\* the same payload goes to the retry queue, else the message is dead.
Catch(h) ==
    /\ pc[h] = "fail"
    /\ \/ /\ ~RetriesLeft(h)
          /\ SettleInTry(h, "dlq")
       \/ /\ RetriesLeft(h)
          /\ log' = Append(log, [content |-> Body(h),
                                 retries |-> log[cur[h]].retries + 1,
                                 at |-> "retry"])
          /\ Goto(h, "ackRetry")
          /\ UNCHANGED cur
       \/ /\ RetriesLeft(h) /\ May("publish")
          /\ SettleInTry(h, "dlq")
    /\ UNCHANGED <<redis, db, environment>>

AckRetry(h) ==
    /\ pc[h] = "ackRetry"
    /\ SettleInTry(h, "gone")
    /\ UNCHANGED <<redis, db, environment>>

\* Mutant: no finally block.
ReleaseForgotten(h) ==
    /\ pc[h] = "release"
    /\ UNCHANGED locks
    /\ Goto(h, "idle")
    /\ cur' = [cur EXCEPT ![h] = 0]
    /\ UNCHANGED <<log, processed, db, environment>>

\* The finally block: DEL of the key, whoever set it.
Release(h) ==
    /\ pc[h] = "release"
    /\ \/ locks' = locks \ {Body(h)}
       \/ May("release") /\ UNCHANGED locks
    /\ Goto(h, "idle")
    /\ cur' = [cur EXCEPT ![h] = 0]
    /\ UNCHANGED <<log, processed, db, environment>>

HandlerStep(h) ==
    \/ Check(h) \/ Acquire(h) \/ ThrowOutsideTry(h)
    \/ Apply(h) \/ Mark(h) \/ Throw(h) \/ Ack(h)
    \/ Catch(h) \/ AckRetry(h) \/ Release(h)

-----------------------------------------------------------------------------
\* No handler that has settled a copy of c is still about to delete its
\* lock: the retry delay of 30 s and an operator's reaction are taken to
\* outlast one DEL, unless Faults has "slow".
Released(c) ==
    \/ May("slow")
    \/ \A h \in Handlers : pc[h] \in {"ackRetry", "release"} => Body(h) # c

\* The TTL of the head of the retry queue ends and the broker dead-letters
\* it back to the main queue, at the tail.
RetryDelayEnds ==
    /\ \E i \in At("retry") :
        /\ IsHead(i, "retry")
        /\ Released(log[i].content)
        /\ log' = Append(Moved(i, "gone"), [log[i] EXCEPT !.at = "queue"])
    /\ UNCHANGED <<pc, cur, redis, db, environment>>

\* The dead-letter consumer acknowledges whether or not the INSERT worked.
RegisterDeadLetter ==
    /\ \E i \in At("dlq") :
        \/ log' = Moved(i, "PENDING")
        \/ May("persist") /\ log' = Moved(i, "gone")
    /\ UNCHANGED <<pc, cur, redis, db, environment>>

\* An operator replays a dead letter, whatever its status.  The retry count
\* is gone from the headers.
ReplayMessage(i) ==
    /\ i \in DOMAIN log /\ log[i].at \in RowStatus
    /\ Released(log[i].content)
    /\ Spend("replay")
    /\ LET again == [content |-> log[i].content, retries |-> 0, at |-> "queue"]
       IN \/ log' = Append(Moved(i, "REPLAYED"), again)
          \/ May("update") /\ log' = Append(Moved(i, "REPLAY_FAILED"), again)
          \/ May("publish") /\ log' = Moved(i, "REPLAY_FAILED")
    /\ UNCHANGED <<pc, cur, redis, db, catalog>>

\* A process is gone, without releasing locks: the broker puts what it had
\* not acknowledged back in place.
Down(p) ==
    LET down == {h \in Handlers : InstanceOf[h] = p}
        unacked == {cur[h] : h \in down} \intersect At("handling")
    IN  /\ log' = [i \in DOMAIN log |->
                      IF i \in unacked THEN [log[i] EXCEPT !.at = "queue"]
                                       ELSE log[i]]
        /\ pc' = [h \in Handlers |-> IF h \in down THEN "idle" ELSE pc[h]]
        /\ cur' = [h \in Handlers |-> IF h \in down THEN 0 ELSE cur[h]]

\* A process stops, by a crash or a signal.
Stop(p) ==
    /\ May("crash")
    /\ Spend("crash")
    /\ Down(p)
    /\ UNCHANGED <<redis, db, catalog>>

\* The unhandled rejection of a body that is not JSON shuts the process down;
\* its other handlers run on until it exits, which may take any time.
Exit(p) ==
    /\ \E h \in Handlers :
        InstanceOf[h] = p /\ pc[h] # "idle" /\ Body(h) \in Unparsable
    /\ Down(p)
    /\ UNCHANGED <<redis, db, environment>>

InFlight(c) == \E h \in Handlers : pc[h] \in Critical /\ Body(h) = c

\* Redis drops a lock after 120 s, and a processed mark after 7 days.
LockExpires(c) ==
    /\ c \in locks
    /\ May("expire") \/ ~InFlight(c)
    /\ locks' = locks \ {c}
    /\ UNCHANGED <<log, pc, cur, processed, db, environment>>

ProcessedExpires(c) ==
    /\ May("ttl")
    /\ c \in processed
    /\ processed' = processed \ {c}
    /\ UNCHANGED <<log, pc, cur, locks, db, environment>>

Next ==
    \/ \E c \in Contents : Publish(c) \/ LockExpires(c) \/ ProcessedExpires(c)
    \/ \E h \in Handlers : Deliver(h) \/ HandlerStep(h)
    \/ RetryDelayEnds
    \/ RegisterDeadLetter
    \/ \E i \in DOMAIN log : ReplayMessage(i)
    \/ \E p \in Instances : Stop(p) \/ Exit(p)

Spec == Init /\ [][Next]_vars

\* A running process resumes its handlers and the broker delivers, delays
\* and dead-letters; nothing obliges anybody to publish, replay or crash.
Fairness ==
    /\ \A h \in Handlers : WF_vars(HandlerStep(h))
    /\ WF_vars(\E h \in Handlers : Deliver(h))
    /\ WF_vars(RetryDelayEnds)
    /\ WF_vars(RegisterDeadLetter)

FairSpec == Spec /\ Fairness

-----------------------------------------------------------------------------
TypeOK ==
    /\ log \in Seq(Message)
    /\ pc \in [Handlers -> Label]
    /\ cur \in [Handlers -> Nat]
    /\ \A h \in Handlers : pc[h] # "idle" => cur[h] \in DOMAIN log
    /\ locks \subseteq Contents
    /\ processed \subseteq Contents
    /\ snapshot \in Contents \union {NoContent}
    /\ catalog \in Contents \union {NoContent}
    /\ applied \subseteq Contents
    /\ budget \in [Bounded -> Nat]

\* "lock temporal por mensaje (evita doble procesamiento en paralelo)",
\* docs/rabbitmq.md: two handlers never run the protected block on the same
\* digest at once, although the lock is deleted by key and not by owner.
MutualExclusion ==
    \A g, h \in Handlers :
        g # h /\ pc[g] \in Critical /\ pc[h] \in Critical => Body(g) # Body(h)

\* A digest marked as processed stands for an update that was committed, so
\* that the early acknowledgement of a duplicate drops nothing new.
ProcessedWasApplied == processed \subseteq applied

\* A copy that will still reach the consumer or an operator.
Tracked(i) == log[i].at \notin {"gone", "REPLAYED"}

\* Every update ever published was applied, or a copy of it is on its way
\* or waits as a dead letter for an operator.
NoSilentLoss ==
    \A i \in DOMAIN log :
        \/ log[i].content \in applied
        \/ \E j \in DOMAIN log : log[j].content = log[i].content /\ Tracked(j)

\* A delivery acknowledged without a republication, whose update was never
\* applied and has no other copy left, was acknowledged because the lock key
\* existed: of all the paths of the handler, whatever fails around it, the
\* in-flight check is the only one that can lose an update.
LossOnlyThroughLock ==
    [][\A h \in Handlers :
        LET c == Body(h)
        IN (/\ pc[h] \notin {"idle", "ackRetry"}
            /\ log[cur[h]].at = "handling" /\ log'[cur[h]].at = "gone"
            /\ c \notin applied'
            /\ ~\E j \in DOMAIN log' : log'[j].content = c /\ Tracked(j)')
           => c \in locks]_vars

Quiescent ==
    /\ \A h \in Handlers : pc[h] = "idle"
    /\ \A i \in DOMAIN log : log[i].at \in RowStatus \union {"gone"}

\* Each update ends up applied or recorded as a dead letter, however the
\* handler's failures, the retries and the other deliveries interleave.
EventuallyResolved ==
    \A c \in Contents :
        (\E i \in DOMAIN log : log[i].content = c)
            ~> (c \in applied \/ \E i \in DOMAIN log :
                                   log[i].content = c /\ log[i].at \in RowStatus)

\* A body that is not JSON waits for a slot or holds one.
Poisoned ==
    \E i \in DOMAIN log :
        log[i].content \in Unparsable /\ log[i].at \in {"queue", "handling"}

\* Whatever fails, the consumer drains its queues: no delivery loops for
\* ever between the main, the retry and the dead-letter queue.  The only
\* exception is a body that is not JSON, which never leaves the main queue and
\* takes down every process it is delivered to.
EventuallyQuiescent == <>[]Quiescent \/ <>[]Poisoned
=============================================================================
