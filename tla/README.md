# Verification of ms-calendar-service

TLA+ models, TLC runs and TLAPS proofs about the calendar microservice: a Node.js / Express process
(several replicas may run) over PostgreSQL (Prisma), Redis and RabbitMQ. Paths below are relative to the
repository root; the code is `src/` there (`src/src/` in `PROJECT.json`).

## 1. Inventory

About 34 000 of the 49 000 lines of TypeScript can be reached from `src/index.ts`; the rest (the controllers
of `controllers/event`, `client-event.service.ts`, the recurrence-rule strategies, `recurrenceWorker.consumer.ts`,
the first `deleteRecords.consumer.ts`) is legacy code that nothing imports, and is left out.

| Component | State it keeps | Operations | Talks to |
|---|---|---|---|
| **Service synchronisation consumer** `updateServiceInEvent.consumer.ts` | the main, retry and dead-letter queues; the snapshots in `events` | publish, deliver, apply, retry, dead-letter | Redis marks and locks, PostgreSQL, notifications |
| **Message reliability** `message-reliability.strategy.ts` | Redis keys *processed* (7 days) and *in flight* (120 s) per message digest | check, mark, acquire, release | the two consumers |
| **Dead-letter management** `dead-letter-message.service.ts`, `features/dead-letter-management` | table `deadLetterMessages` | register, replay, list | both dead-letter queues, the administrator's routes |
| **Cascading deletions consumer** `deleteRecordsSoft.consumer.ts` | `deletedDate` of groups, events, participants, schedules | soft-delete by company, workspace, client, user, in chunks | the same reliability skeleton |
| **Client bookings: creation** `event-client-write.service.ts`, `booking.persistence.ts` | `events`, `groupEvents`, `eventParticipants`; advisory locks | plan, hold, pick, create or join, regroup | availability, round robin, notifications |
| **Client bookings: cancel, confirm** `event-client.command.service.ts` | the same rows; a 5 h cache of answers | cancelEventFromWeb, confirmEventFromWeb | notifications |
| **Client bookings: update** `event-client-update-write.service.ts` and its flows | the same rows | fast path of one event, move inside a class, rebuild | availability |
| **Platform bookings** `features/event-platform`, `upsertEvent.service.ts` | the same rows | upsert, update by id, change of status, delete | notifications |
| **Round robin and holds** `round-robin.strategy.ts` | Redis: weights' state, hold keys (60 s) | acquireHold, releaseHold, pick | creation |
| **Availability** `availability-special.service.ts`, `event-times.service.ts`, `eventv2`, `event-availability.ts` | none (pure over rows and cached hours) | free windows, sequential assignment | schedules, Redis caches |
| **Schedules** `business-hour`, `worker-business-hour`, `temporary-business-hour`, `worker-absence` | their tables, Redis caches | CRUD, cache refresh | availability |
| **Booking guards** `booking-guard.middleware.ts` | none | checks before a booking | booking page, clients, events |
| **Request idempotency** `request-idempotency.middleware.ts` | a Redis key per request digest (5 s) | SET NX, answer 429 | routes |
| **Waiting list** | its table | CRUD, a cron that deletes | - |
| **Notifications, authentication, service clients, configuration, start and shutdown** | none of the calendar's | build messages, check tokens, HTTP, SIGTERM | other services |

What is hard about it:

* the prefetch of a consumer lets handlers of one process interleave at each `await`, and replicas run in parallel;
* the consumer's exactly-once effort rests on two Redis keys with a TTL, on a retry queue with a delay and on a
  dead-letter table that an operator replays, each of which can fail alone;
* transactions are READ COMMITTED: a query and the insertion that relies on it are protected by an advisory lock
  or not at all; several operations read outside any transaction and write later what they decided;
* a class is one group of participants behind one event, while a booking of several services is one group
  behind several events, and the code lets the two meet;
* a cancellation of a class is a sequence of separate statements.

The correctness of each part, in short: no update of a service is lost and the newest one wins (consumer);
the protected block runs once at a time per message (reliability); a dead letter is never lost (dead letters);
no slot twice, no professional twice at a time, no class above its capacity, no client twice in a class
(creation); nobody else loses a seat (cancellation); the transition table is respected (status); what belongs to a
deleted owner is deleted, all of it (deletions). `PROJECT.json` lists the hazards line by line.

## 2. Modules

| Module | Models | Instance | Proofs |
|---|---|---|---|
| `ServiceSync` | the consumer, its reliability keys, retries, dead letters, shutdown | `MCServiceSync` | `ServiceSyncProofs` |
| `Booking` | creation by clients next to cancellation by clients, over tables and advisory locks | `MCBooking` | `BookingProofs` |
| `Attendance` | the abstract specification of bookings: a book of slots, one step per answer | `BookingRefinement` maps Booking to it | `BookingProofs` |
| `BookingUpdate` | the three update flows over the same tables | `MCBookingUpdate` | `BookingUpdateProofs` |
| `PlatformEdits` | the platform's edits of a booking of several events: moves with clones and splits, new layouts, deletions, next to clients | `MCPlatformEdits` | `ServiceSyncProofs` (second part) |
| `EditPromises` | what PlatformEdits promises of windows and attendance, with the state that the promises name, so that the proofs can name both | | |
| `EventStatus` | one booking under changes of status, confirmations, cancellations, edits, clearing and deletion | `MCEventStatus` | `EventStatusProofs` |
| `BookingGuards` | the limits of bookings per client, and the cached workspace they come from | `MCBookingGuards` | `BookingGuardsProofs` |
| `Offers` | the listing of starts, as operators on the table, the hours and the clock, and what it promises for individual services | `MCAvailability` | `DeletionProofs` (second part) |
| `Planning` | extends Offers by the plan of a booking and its acceptance, and says where they part from the listing | `MCAvailability` | |
| `Availability` | extends Planning by the listing of days and the steps that change the table | `MCAvailability` | |
| `RoundRobin` | the smooth weighted round robin with its unprotected state | `MCRoundRobin` | `BookingGuardsProofs` |
| `FairShares` | what RoundRobin promises the professionals, apart from its state so that the proofs can name both | | |
| `WeeklyHours` | weekly hours of workspaces and professionals, their rows and Redis keys | `MCWeeklyHours` | `WeeklyHoursProofs` |
| `DatedHours` | temporary hours and absences, their rows, block events, groups and Redis map | `MCDatedHours` | `DatedHoursProofs` |
| `Deletion` | the cascading deletions in chunks, next to clients who join classes | `MCDeletion` | `DeletionProofs` |

Each question is one run, and each run has a `.cfg` of its module's name. Nearly all models are checked on
their own: what one takes from another (a hold that may refuse a plan, a booking that may be refused) is a free choice
there, so that every behaviour of the neighbour is allowed. `Booking` composes creation, holds, locks and cancellation;
`Deletion` and `PlatformEdits` compose the deletions and the edits with the clients' own steps on the same rows; `Availability` composes the listings with the acceptance
test of the creation.

## 3. ServiceSync

**State.** `log` holds every copy of a message ever put on a queue, in order, and says where each copy is
(`queue`, `handling`, `retry`, `dlq`, the status of its row in `deadLetterMessages`, or `gone`): the first copy at a
place is the head of that queue, and a redelivered copy is back at its old position. `pc` and `cur` are the handlers,
one per prefetch slot of each process; `locks` and `processed` the Redis keys, by message body, since the digest is
taken from the body; `snapshot` what the events hold, `catalog` what was last published, `applied` a history.

**Actions.** One per `await` of `updateServiceInEventConsumer`: `Deliver` (a body without `payload.id` is rejected before the
first await), `Check`, `Acquire`, `Apply` (the transaction), `Mark`, `Ack`, `Throw`, `Catch` (retry or dead letter),
`AckRetry`, `Release` (the `finally`), and `ThrowOutsideTry` for an exception before the `try`, which
`consumeQueue` nacks. Around it: `Publish`, `RetryDelayEnds`, `RegisterDeadLetter`, `ReplayMessage`, `Stop` (a process
exits without waiting for its handlers), `Exit` (the same, for the reason below), `LockExpires`, `ProcessedExpires`.
`Faults` says what may go wrong in an instance.

**Bodies that are not JSON** (`Unparsable`). `consumeQueue` parses a body outside its `try`
(`rabbit-pubsub.service.ts:282`), in a callback whose promise nobody handles: the copy is neither acknowledged nor rejected,
the unhandled rejection starts `gracefulShutdown` (`index.ts:150`), and when the process is gone the broker puts the copy back
at the head of the queue, for the next process. `Deliver` takes such a copy to `unparsed`, from where only `Exit` or `Stop`
lead away, and `EventuallyQuiescent` names the case (`Poisoned`). What restarts the process is outside the repository: the
process of an instance is simply there again.

**Runs.**

| Run | Question | Answer |
|---|---|---|
| `service_sync` | what holds if releases are prompt, dead letters are stored and no process stops | the protected block excludes itself per message, no update is lost, and each ends up applied or recorded |
| `service_sync_faulty` | what holds whatever fails | a mark means a commit, the in-flight check is the only step that can drop an update, the queues drain but for a body that is not JSON |

**Bounds.** Two slots, in one or two processes, one well-formed body, one without `payload.id` and, in
`service_sync_faulty`, one that is not JSON, one retry, two publications, one replay or one stop (`Exit` is not bounded).
`service_sync` asks what holds without stops and so has no body that is not JSON. Locks and marks concern one body at a time, and a body needs two
publications and two handlers for everything that a duplicate can meet; a retry, a replay and a redelivery add copies
of the same kind. A second well-formed body matters only to the order of updates, where it is present.
The proofs cover any number of all of them.

**Fairness.** A running process goes on with its handlers (the event loop runs every continuation), the broker
delivers, ends retry delays and feeds the dead-letter consumer. Nothing obliges anybody to publish, to replay, or
to fail: weak fairness of `HandlerStep` lets a handler fail for ever only as often as the retries allow.

**Assumption on time.** `Released`: the delay of 30 s before a retry, and an operator's reaction, outlast one DEL of
the lock. `slow` in `Faults` drops it, and then a retry can meet the lock of its own predecessor.

## 4. Booking

**State.** Tables are sets of rows; `tx` holds the uncommitted rows of each request's transaction and `held` its
advisory locks. `holds` are the Redis keys. `seen` is what a request read while planning and `plan` the segments it
still has to book; `cancel` is the state of each cancellation.

**Actions.** Planning: `Post` (`_buildAvailabilityContext`), `TryJoin`, `CheckHold` and `SetHold` (acquireHold is GET,
then SET), `Pick`, `Assign`. The transaction, a statement each: `Lock`, `Find`, `Join` or `Create`
(createOrJoinGroupEvent), `Commit` (regrouping and COMMIT), or `Abort` at any point. Cancellation: `CancelRead`,
`CancelIndividual` (one transaction), or `CancelSeat`, `DeleteEvents`, `DeleteSeats`, `DeleteGroup` (no transaction).
A statement sees the committed rows and those of its own transaction, as READ COMMITTED does.

**Runs.**

| Run | Question | Answer |
|---|---|---|
| `booking` | three requests of three clients, all for one service each (a class of two, individual slots of two lengths), all for two individual services in any order, or one client's second booking over a cancelled one; and a cancellation | a slot exists once, nobody has two seats, no two overlapping appointments share an advisory lock, only a stale read takes a seat away, every request is answered (no circle of advisory locks), and the whole implements `Attendance` (capacities included) |

**Refinement.** `Attendance` has two actions a request can see, `Book` and `Refuse`, and `Dissolve` for the end of a
class. `BookingRefinement` reads the book of slots from the committed tables: a slot has the clients who have a seat
in its event's group, and a request books when it commits. It holds for bookings of one service and for those of
several individual services. A class booked together with an individual service is left out of the run: the regrouping
(`booking.persistence.ts:115`) then puts both events into one group, so that the class's participants also have a
seat at the individual appointment, beyond its capacity. Nor are two classes booked together: with both in one group,
a client who joins it twice at once, through either class, takes two locks, so that `SeatOnce` too is about classes
booked alone. The proofs of both make that premise explicit (`ClassesAlone`). Two more divergences show in the model without
breaking a property: a cancelled event still stands at its exact slot and refuses others
(`event-client-write.service.ts:227`), although `availability-special.service.ts:96` offers it; and a request joins a
class whose group was cancelled.

**Overlaps.** The key of the advisory lock (`event-client-write.service.ts:219`: professional, service, start) is finer than
the overlap it protects ("Evitar solape con otros eventos del pro", 305): two overlapping bookings of one professional
that differ in service or start take different locks, do not see each other's uncommitted event, and both
commit. The model does so too; `NoOverlapUnderOneLock` states what remains: among bookings of one key no overlap
comes about, whatever else goes on. Its one exception is an event that was there before and comes alive again: its client, who
keeps a seat in the cancelled group, books its slot anew together with another service, and the regrouping takes the
old event out of the cancelled group, next to a booking made meanwhile.

**Bounds.** Two professionals, one class of two seats and two individual services, a day of three units: the least
in which slots touch, overlap and coincide. Three requests are needed to fill a class and be refused; one
cancellation interleaves with all of them. Each request runs once: a client who comes back is another request.

**Fairness.** A started request goes on, and PostgreSQL grants a lock that stays free. Aborts are allowed, never
required.

**Left out.** The group's date window (`startDate`, `endDate` of `groupEvents`), which no query modelled here reads;
the client's own data and notes; the notification after the commit; the cached answer of a repeated cancellation,
which changes nothing. Working hours are the interval from 0 to `Horizon`. `Pick` chooses freely among the weighted
professionals, and `Assign` any valid plan, where the code has an order of preference: the properties hold for each
choice.

## 5. BookingUpdate

**State.** Rows of events, groups and seats by id, `live` for those without `deletedDate`; `writes` holds what each open
transaction has written. `read` is what a request listed before its transaction, `looked` the seats and `checked` the
events that its queries returned (histories the properties refer to).

**Actions.** `Look` (`updateEventFromWebBase` up to the choice of a flow); for a class, `Count`, `GiveUp`, `Lock`,
`Find`, `Join` or `OverlapQuery` and `Create`, `Finish`; for one event `Check` and `Rewrite`; for any other booking
`Open`, `Ensure`, `CheckEach`, `Rebuild`; `Abort` anywhere. UPDATEs by id that follow each other without a read between
them are one action with the COMMIT.

**Run** `update`. Three requests on two classes, on two single bookings, and on a booking of two services that is
rebuilt with one, two or three: a client gets two seats in one booking only when two requests of that client cross;
another client's seat goes only with a stale count of participants; a professional is booked twice only with an event
that changed after the overlap query or that was moved with its class; and a rebuilt booking consists of exactly the
chosen segments. Each of these exceptions is reached.

**Divergences.** A participant who joins the class of another booking gets the seat there, and then the class's event is
moved into the booking the participant came from (`event-client-update.persistence.ts:327-334`): nobody of either has
an event afterwards, with no second request. An update of a cancelled or deleted booking is answered with OK. The
route has no `EnforceUserLimits` (`BookingGuards`).

**Left out.** The group's date window (in `BookingGuards`), comments and snapshots. `GroupEditServiceSetPolicy` never
refuses, since the mode is always `single`. The hold is a free refusal: `Booking` shows when it is taken.

## 6. EventStatus

**State.** One booking: its group, its event and the seats, each with `status` and `life` (live, soft-deleted, gone);
`writes` are the rows an open transaction has written and so locked, `todo` its remaining statements. `cache` is the
answer kept for 5 h. `raced` is a history: a status was written by a request that had read another one.

**Actions.** `ChangeRead`, `WebRead` (confirm and cancel), `Upsert`, `Clear` and `DeleteEvent` read and fill `todo`;
`Execute` runs one statement, waiting for locked rows; `Commit`, `Rollback`, `Throw`, `DeadlockDetected`, `CacheExpires`.

**Run** `status`. Every choice of three requests out of ten (an individual booking) or twelve (a class): a booking the
platform cancelled has no active seat unless a stale read interfered; deadlocks occur, and each circle mixes requests that
lock the booking first with requests that lock it last; the status follows `ALLOWED` save for stale reads,
edits and clients' cancellations, which the code does not check against it; and all requests are answered.

**Divergences.** After a client's cancellation, an edit by the platform renews the booking and its seats; for up to 5 h the
client's next cancellation is answered "Evento cancelado" from the cache (`event-client.command.service.ts:212`) and
cancels nothing. An edit of a cleared booking restores the group but not its soft-deleted event.
`changeEventStatusByParticipant` has no route.

**Fairness.** A request goes on; a circle of waits is ended by PostgreSQL.

## 7. PlatformEdits

**State.** One booking with four events and its clones: `rows` by id (bookings with a window, events, seats), `writes` what
each open transaction has written and so locked, `read` and `plan` what it read and has yet to write. `known`,
`touched` and `spoilt` are histories: who attended when the participants were read, which bookings others changed since, and
which windows may be wrong.

**Actions.** updateById: `LoadEvent`, `LoadGroup` (with the clone of isMany), `MoveEvent`, `Remain`, `Bound` and `Split`
(one clone per further segment), `SyncRead`, `SyncWrite`. upsertEvent: `OpenGroup`, `ListObsolete`, `DateObsolete`,
`UpsertService` per service, `ReplaceSeats`, and the same two at the end. deleteEvent: `DeleteLook` (before the transaction),
`DropEvent`, `FindSeats`, `DropSeats`, `DropGroup`. Clients: `FindEvent` and `Join`, `CancelRead`, `CancelSeat` and
`CancelGroup`. `Commit`, and `Abort` at any point. What a statement lists before it waits for a row is a step of its own;
an INSERT, which nobody sees before the COMMIT, belongs to the step before it. The two properties and the part of the
state they are about are in `EditPromises`, which PlatformEdits extends.

**Run** `platform_edits`. Every choice of three requests out of twelve, on four events in a chain and on three beside a long
one: the window of a booking is the span of its events, and moving an event changes nobody's attendance, save for the
exceptions that the properties name; each of these is reached.

| Exception | How it comes about |
|---|---|
| two changes of one booking at a time | the second reads the events before the first commits and waits only for the booking's row: it writes the window of another moment, or takes an event back that was moved away |
| a deleted event | `deleteEvent` sets no window at all |
| an event of another booking | an edit takes it by its id (`upsertEvent.service.ts:341`) and renews only the window of its own booking |
| an attendance that changed | a clone is made of the participants read at the start: a client who has cancelled since, or whom an edit has replaced, attends the moved event again |

**Divergences**, without a second request. Moving the only event of a booking with isMany leaves the old booking without
events but with its clients. `deleteEvent` counts soft-deleted events, so a booking whose other events an edit has
dropped stays, with its clients, when its last one is deleted. The split compares each event with the end of the one
before it, not with the latest end (`update-event-by-id.use-case.ts:457`): a booking with a long event beside short ones
is split where there is no gap. Without isMany no check keeps the start before the end (225).

**Bounds.** Four events give two splits, and one that takes two events along; three requests are a change between two others.
Two clients: one who attends, and one whom an edit has taken out.
**Left out.** Liveness: deadlocks (an edit and a move lock events and booking in opposite orders) and time limits are the
`Abort` that is always allowed. Edits without a booking's id, which meet nobody; the status, which is `EventStatus`'s; seats
left in a class, `Booking`'s; an update that sends only one of start and end.

## 8. BookingGuards

**State.** The groups in which one client has a seat, each with its dates (`window`), which the limits count by, the times
of its live and of its deleted events, and whether the seat and the group are cancelled; the classes of others that the
client may join (`Classes`); the workspace's limits (`config`), their copy in Redis (`brief`), what each request read (`ctx`)
and counted (`counted`), and the groups as they were at its counts (`before`, a history).

**Actions.** The guards of the three client routes in order: `Resolve`, `Fetch`, `Store` (the workspace and its copy),
`Client` (resolution of the client and time rules, any refusal), `CountDay`, `CountConcurrent`, and then the booking in
one step: `Add`, `MoveToClass`, `MoveInPlace`, `Cancel` or `Refuse`. Another client's request in a group of this one is
`Other`. Around them `Configure` and `Expire`.

What the steps do to a group is what the limits depend on, and follows the code:

| Step | Events | Dates of the group |
|---|---|---|
| `Add` | one of its own, or those of the class that is joined | from that event, or as they are |
| `MoveToClass`, a new event | in the client's group (`event-client-update-write.service.ts:279`), next to those that live on there | widened to all its live events (`_syncGroupStartEndDates`, 354) |
| `MoveToClass`, an event found elsewhere | it moves into the group that the client has left, while the seat is in the other (`event-client-update.persistence.ts:327`) | neither group's change |
| `MoveInPlace` | rewritten, inserted or deleted | as they are: `updateSingleEvent` and `rebuildBooking` never call `_syncGroupStartEndDates` |

**Run** `booking_guards`. A limit is exceeded, and a client wrongly told to have reached it, only for one of the reasons
the properties list; each reason occurs, and none can be left out:

| Reason | Limit exceeded | Wrongly refused |
|---|---|---|
| the limits were changed since they were cached (nothing invalidates the copy, which lives up to an hour) | yes | yes |
| a booking was made or moved there, or went, after the count | yes | yes |
| an event lies outside the dates of its group: moved in place, or brought by somebody's change of class | yes | |
| the dates of the group are not those of its event: moved in place or away, or widened to events of several times | | yes |
| a seat cancelled in a group that lives on still counts | | yes |

**Bounds.** Three requests out of nine, at least one of which adds: two bookings reach either limit and the third is
counted against them, or one changes what another has counted. Three overlapping and touching times of one day and one of the next
(a move across midnight changes both days' counts), a class of one event and one of two. Two configurations: none (the default
of one a day), and two a day with one at a time.
**Left out.** The platform's edits of these groups (`PlatformEdits` shows when they leave dates and events apart, which is one
more way to the two reasons in the middle). The services of one request are one event, and so are two events of one
group at one time. How a slot is found is `Booking`'s and `BookingUpdate`'s part.

## 9. Availability

**State.** The table of events, a clock, and a constant `scene` (hours, offset from UTC, grid, allow-list, weights,
lead time). The rest is operators: `TimeSlots` (`publicGetAvailableTimeSlots_SPECIAL`) in Offers, `DayStatus`
(`publicGetAvailableDays`) in Availability, `Plans`, `Finds` and `Accepted` (`addEventFromWeb`) in Planning, each with the
helpers of its own file, so that they can differ where the code's do. Where several rows stand at the slot of a booking,
`findFirst` returns any one of them (`Finds`). The loops of the listing of starts are recursive functions, one
value per element of the list (`Joins`, `Cuts`, `Delays`), so that the proofs can speak of what holds after each.

**Run** `availability`. After any history of two rows: what is offered for individual services equals a definition
point by point; what one listing offers the other shows, and conversely if everything lies on the grid; an offered start
is refused, and a start that is not offered is accepted, only for the reasons listed in `BookedAsOffered`.

**Divergences.** The calendar may show a day as available that offers no start, since it counts starts from the beginning of
each window (`eventv2.service.ts:1162`) while starts lie on a grid from midnight (`event-times.service.ts:653`): hence
`AllOnGrid` in `ListingsAgree`. The listing reads the events of the UTC day. Classes are offered across
other classes, and of two classes of a professional at one time the booking may look at either. An event without duration takes
no time from the listing, but is in the way of a booking. Professionals of weight 0 are offered and never picked. The booking knows neither the allow-list, nor the
fallback switch, nor the grid; a booking of several services that ends at midnight is bookable and not offered.

**Bounds.** Two days of eight ticks (a tick is any multiple of five minutes), three workspaces chosen so that windows touch, are cut
by the clock, by another event and by midnight; two rows, one of them withdrawn at most.
**Left out.** Caches of the hours (`WeeklyHours`, `DatedHours`), `excludeEventId`, holds, daylight saving time. `mergeRanges` of the
listing of days throws when every range it is given is empty (`eventv2.service.ts:1116` reads the first of none, 1126 adds it);
`MergeRanges` returns nothing then, and the days are as if those ranges were not there.

## 10. RoundRobin

Pick and save are two actions, since `pickWeightedSmoothRR` reads Redis, computes and writes back; `owed` counts, for
each professional, the weights due minus the picks answered. `SharesAreFair`: nobody is ever further from the
share of the weights than n - 1 times the greatest weight (n professionals), plus as much for each pick whose update was
lost; section 14 proves it for every n. The runs bound the lost picks (`MaxLost`); the eligible and the weights change
freely from pick to pick. `resetState` and `resetWorkspace` have no caller.

## 11. WeeklyHours

**State.** The rows of `businessHours` and `workerBusinessHours` of one weekday, the Redis keys, and the requests and
readers. `met` (which requests were under way together), `touched` (which keys a request changed), `fell` (the call that
failed), `wrote` (who has written the hours) and `late` (a value read before a deletion of its key) are histories.

**Actions.** The middleware chain `Find`, `Purge` (what the new hours replace), `Forget` (DEL of a key) and `Check` (overlaps), then
`Count`, `Create` or `Update`, or `Remove`, and `Invalidate`; the generator `Look` and `Insert`; the
cached read `Get`, `Fetch`, `Save`; `Expire`. `Fails`: any call that a request waits for, of PostgreSQL or of Redis, fails and
the catch block answers with an error.

**Run** `weekly_hours`. Which changes Redis misses, which rows can contradict each other, what a request that is refused or fails
leaves, and that the cache agrees with the table again in the end: each `Save` has a time to live of one hour.
**Bounds.** Two requests of every kind and one reader, and the pairs whose second request names the row that the first
adds; one failing call. Two are not enough for every cause: a third request can be refused because of two rows that others wrote in a
race, after it has deleted one of them, and leave the key as it was. `FailureIsClean` and `Unannounced` name these cases;
the proofs (section 14) found them and hold for any number of requests and failures.

**Failures.** The middleware deletes before the handler writes, so a failing call after `Purge` leaves the day without
hours: `FailureIsClean` says with which calls (the DEL, the check, the count, the creation), and that otherwise only a race or the
workspace's own PUT does. A professional's update that purged rows and was left alone creates its row anew and never gets to the
UPDATE, which is why the failure of that call is not in the list. A request that fails in its last DEL has written its hours and
leaves the key as it was (`Unannounced`).
**Assumed** (`WeeklyAssumption`): the first tables have no conflicts, an add or update carries one hour, and ids are those of rows of
the owner the request writes for, seen before it starts (`Seen`).
**Divergences.** A PUT of the workspace's own hours from open to closed deletes its own row in the middleware and then
fails with 500; the deletion of a professional's hours never deletes a key; when a change purges a professional's rows of several
workspaces, only the key of the first is deleted; the generator accepts hours that overlap among themselves.
**Fairness.** Requests and readers go on, keys expire; nobody has to send a request. **Left out.** Requests carry the
fields the front end sends, although the schema of PUT makes each optional. The deletion of several ids at once is one of
each. A failing call has no effect: one that takes effect and still reports an error is left out. The consumer of the
cascading deletion (`Deletion`, set `Hours`) dates these rows too, outside the middleware and without touching a key: what it
deletes is offered from Redis until the key expires, and is no part of what `StaleHoursAreExplained` says.

## 12. DatedHours

**State.** Temporary hours, absences, the events that block the calendar for them, their groups, and one Redis map of
dates per professional and workspace. **Actions.** `Add`, `Read` and `Write` (an update reads outside its
transaction), `Gather`, `Forget`, `Remove` (a deletion deletes the keys before its transaction), `Clean`, `Leave`, `Revise`,
`Return` (absences and their middleware), `Invalidate`, and the merging reader `Get`, `Fetch`, `Save`, with `Expire`. `Fails` as
in `WeeklyHours`: the DEL after an update's commit (`temporary-business-hour.controller.ts:176`), which answers 500 and
leaves the old hours in Redis, that before a deletion's transaction, which then does not happen, and any call of PostgreSQL,
such as an absence's transaction after its middleware has deleted the hours. `Fetch` reads the missing dates, or all that
are wanted once more when more than `Few` are missing (6 in the code, `temporary-business-hour.service.ts:899`).

**Run** `dated_hours`. Which changes Redis misses; that a block event agrees with its hours unless two updates overlapped;
that what these routes leave behind is always the work of an absence. Both are proved (section 14).
**Bounds.** Two requests of every kind, one reader, three dates, `Few` = 1 (two missing dates are many, and an absence or a
map can have one date besides), one failing call; the proofs have none.
**Assumed** (`DatedAssumption`): one row per id, ids apart from those of the requests, whose own ids the new rows take.
**Divergences.** The absence middleware deletes temporary hours with raw SQL and leaves their block events and cached
hours; deleting an absence leaves its empty group; a PUT that changes the workspace leaves the group in the old one, and
one that changes the professional never deletes the old key; a merging reader renews the time to live of all dates, so
that no run can claim stale dates pass. The temporary routes check neither overlaps nor closed days.
**Left out.** The reader cuts what it found in Redis to the dates from yesterday to 32 days on (`all-business-services/interfaces.ts:47-55`): all
dates of the model lie within. The deletion of several ids at once, as in `WeeklyHours`, and failing calls that take
effect. The consumer of the cascading deletion dates temporary hours without touching Redis, and hard-deletes the block events of
deleted professionals, which leaves their groups behind: the two properties are about the routes alone, and `Deletion` has
the consumer's own.

## 13. Deletion

**State.** The tables are constant sets of rows, and `Attr` says what each refers to; the columns of a booking stand for
its events' and participants', which the code reaches through `groupEvents`. `db` says which rows are soft-deleted,
removed or unlinked from their user, and `own` holds the same for each open transaction. `queue` and `delayed` are bags
of copies of messages, `batches` the chunks that a handler has left, `todo` the statements of its transaction, `found`
the bookings it has read, `now` the bookings that had ended at its `new Date()`. `raced` is a history: the bookings that lost seats to two open
transactions at once, or to one that had not read them. `DeletionAssumption` keeps the tables apart and gives each
event and participant a booking with the same company and workspace.

**Actions.** `Deliver` (validation), `Check`, `Acquire`, `Start` (split or delete), `PublishPart`; the transaction of a
chunk, a statement each, as `Read` and `Write` with the `Script` of the table; `Commit`, `Mark`, `Fail`, `Catch`,
`Release`; around them `DelayEnds`, `LockExpires`, `GroupEnds`, and a client who joins a class (`PlanJoin`, and `Join`,
the part of createOrJoinGroupEvent that inserts a participant). A `Write` waits while another transaction has changed
a row that it matches, sees its own transaction's changes and, once it goes on, the newest committed rows. The four
tables of working hours and absences are one set, `Hours`, since every branch gives them the same condition.

**Runs.**

| Run | Question | Answer |
|---|---|---|
| `deletion` | what holds for two deliveries at a time of every kind of deletion, with failures at any statement | no id is forgotten but for clients who join meanwhile, an emptied booking goes with its events, it stays only if two transactions raced or a client joined between a read and its update, and the queues drain although transactions block each other |

**Divergences.** A deleted company or workspace keeps its events and participants: the transaction dates the groups
first (`deleteRecordsSoft.consumer.ts:245`, 296) and then matches events and participants of groups without a date
(250-268), although the comment says "groups + their events + participants"; `DeletedTogether` is stated of the other
tables. "SOLO de bookings ... que se quedaron sin participantes activos" (361) is decided before the update: a
client who joins in between keeps a seat in a deleted booking. Likewise the bookings of a deleted client are read
before the seats are updated (325, 376): a class that the client joins in between loses the seat again and, if
it has no other, stays behind without participants.

**Bounds.** A class of two clients and an individual booking with a block, one professional; the client of the individual
booking may join the class, also while being deleted. Each initial state
publishes one to three messages: a large one, two copies of one body next to an overlapping deletion, and pairs of
tables whose transactions touch the same rows. One retry, two ids in a message and one in a transaction give a split,
a second chunk, a failed chunk and a dead letter. `Budget` bounds the expiries of locks, the bookings that end and the
clients who join, together. Failures are unbounded: the retries bound them. The default prefetch is 1; two handlers
stand for a prefetch of 2 or for two replicas, and only then can a booking stay behind without participants.

**Fairness.** The broker delivers and ends delays, a handler goes on, and a blocked transaction ends by
PostgreSQL's deadlock check or by Prisma's timeout of 5 s.

**Left out.** Failures of Redis, stops of the process and bodies that are not JSON, which ServiceSync shows for the same protocol
(the consumer uses the same `consumeQueue`, so `EventuallyDrained` too is about JSON). A retried copy
comes back only after its handler's `finally` (30 s against one DEL). A message of table `calendarEvents` is
accepted and marked although no branch handles it; `interfaces.ts:27` announces a hard deletion.

## 14. Proofs

For every value of the constants that satisfies the modules' assumptions, in ServiceSyncProofs:

* `TypeCorrect`: `TypeOK` is inductive; in particular a handler that is not idle has a copy of the log.
* `ProcessedMarksAreHonest`: a handler about to mark has committed (`ProcessedInv`), and bodies never change.
* `LocksExclude` (Redis enabled, no lock expires under its handler): a handler in the protected block owns the key of
  its body and no other handler of that body is there (`LockInv`). The invariant needs both, since Release deletes the key
  without asking who set it.
* `NoUpdateIsLost` (prompt releases, dead letters stored, no stop, and no body that causes one; locks may expire): `LossInv` joins four facts. A copy
  being handled has its handler (`HeldInv`); every lock has a handler at work (`LiveLocks`), so a
  delivery dropped as a duplicate leaves another one at work; what a handler finished is applied or parked
  (`DoneInv`); and no update is lost so far.
* `OnlyTheLockLoses` (`LossOnlyThroughLock`), with no assumption on faults: `CopyInv` says which copies a stop may put
  back: a handler that waits for nothing has no copy, and one past its `try` has settled its own; a settled copy
  never comes back (`NeverBack`). So the last copy of an update not yet applied is settled only by the check for a duplicate.

In BookingProofs:

* `TypeCorrect`: `TypeInv` is inductive: the state's types, a plan for every request that locks, looks up or inserts
  (`PlanOK`), and an event found for every one that joins (`FoundOK`).
* `NoSlotTwice` (`SlotOnce`: two committed events never stand at the same slot). `SlotInv` adds five facts: locks of
  two transactions are disjoint (`LocksApart`); a transaction holds the lock of every event it has inserted
  (`OwnLocked`) and of the segment it looks up or inserts (`SegmentLocked`); what it has inserted is at no committed
  event's slot and at no other slot of its own (`OwnApart`); and at an insertion no visible event is at the slot
  (`CreateIsNew`). The locks keep `CreateIsNew` and `OwnApart` true while other transactions commit, and `OwnApart` is
  what makes a commit preserve `SlotOnce`.
* `NoOverlapPerLock` (`NoOverlapUnderOneLock`): no step leaves a new event over another live one of its lock's key,
  except by regrouping. `ApartInv` says what a transaction relies on between its lookup and its commit: ids given by a request are
  its own and name one slot (`IdNamesSlot`), and are committed only by a request that booked (`Committed`); its rows are
  alive, and apart (`OwnRows`); the names it has collected are those of its own rows or of committed ones whose keys it has locked
  (`NamesBacked`); and whatever clashes with a row of its own is dead (`ClashesAreDead`). The commit then adds rows
  that clash with dead ones only.

Also in BookingProofs, for bookings of one service or of several individual ones
(`ClassesAlone`, see section 4), any number of each, and any cancellations and aborts:

* `OneSeatEach` (`SeatOnce`). The lock is on a slot, while the seat is looked up in a group, so `SeatInv` says that for a
  class these are one: every row has the kind of its group, a class is the only event of its group and keeps its id
  (`EventKinds`, `SeatKinds`, and `PlanKinds`, `CoreKinds` for what a transaction is about to insert or regroup); what
  was found stands at the segment (`FoundHere`); a transaction that found or joined a class holds the key of its event
  (`ClaimsLocked`), hence no two have claims on the same class (`ClaimsApart`), and no seat it inserted doubles a committed
  one (`NewSeats`). Outside classes a seat names its own request, and there is nothing to double.
* `SeatsAreLostByStaleReads` (`SeatLossIsStaleRead`), also without `ClassesAlone`: a cancellation that is about to delete a
  group was read by its own client as the only one in it (`LastWhenDeleting`), so a seat of somebody else
  that goes with the group was cancelled, or taken since that read.
* `BookingsTakeEffectAtOnce` (`ImplementsAttendance`). A commit maps to `Book`, a rejection or abort to `Refuse`, the
  `DELETE` of a class's event to `Dissolve`, every other step to a stutter. `Book` demands of the moment of the
  commit what statements decided before on rows that others could change since; `PromiseInv` is what of it lasts. Each
  slot of the plan that the transaction is through with, under its lock, has an event of its own, or an event in which
  its client has a seat, or was that of a class which is gone (`Done`, `OnChain`, `StillFound`); a seat it
  inserted in a class is still free (`FreeSeats`: cancelled seats count, and the claims of others are disjoint); each
  individual event has somebody who takes part (`Attended`); and a cancellation that deletes an event deletes
  a class (`CancelKinds`). TLC checked `SeatInv` and `PromiseInv` on the instance of `booking` before they were proved.

In EventStatusProofs:

* `TypeCorrect`, and with it that a running request has statements of its own kind only.
* `StatusFollowsTable` (`TableUnlessRaced`). `TableInv` has, besides types and `Running`, that no row is written by two
  transactions at once (`WritesApart`), that a request which decides by the table wants what it allows from the status it read, and
  writes the booking once (`Checked`), and that what it has written is allowed from the status committed now, unless a stale
  decision was written (`GroupWritten`): the row lock keeps that status until the commit.
* `NobodyAttendsCancelled` (`CancelledHasNoActiveSeat`). `SeatsInv` says of each request that a confirmation read
  an accepted seat, that no seat of its transaction is active that was not active before, and that with its last statement
  executed a transaction which cancels the booking sees no active seat. Cascades pass over seats that are not active:
  these stay so because nothing makes a seat active again but a stale decision.
* `DeadlocksNeedBothOrders` (`CirclesMixLockOrders`), circles of any length among finitely many requests. `LocksInOrder`: a change or
  an edit holds the booking from its first statement on; the rows of any other transaction are below the next that it wants, in the
  order event, seats, booking. A request of a circle waits for another of it (`CircleGoesOn`, by
  least numbers over the recursion of `Reach`). Where all lock the booking first, two of them would hold it; where all
  lock it last, each waits for one further up.

In WeeklyHoursProofs, for any number of requests, readers, workspaces and professionals, and failing calls (`BaseInv`: the path of each
request, the owner of each row that somebody names, and that requests under way together have met):

* `HoursAgree` (`HoursAgreeUnlessRaced`). `RaceInv`: whoever wrote a row that contradicts what a request is about to write has met the request
  (`NoneUnmet`). After the deletion and the check there is no such row, and what is written later is written by
  somebody under way at the same time.
* `FailuresAreClean` (`FailureIsClean`). `CleanInv`: a request that met nobody, and has deleted rows of nobody who did, leaves no row
  standing (`LeftNothing`): an open hour next to the closed row it deleted would be a conflict, which `RaceInv` explains by a
  race. So its check finds nothing and a professional's row is created anew. Where a request that broke had stood, and whether it
  had written by then, is what `fell` and `wrote` say (`Marked`).
* `StaleHoursHaveCauses` (`StaleHoursAreExplained`). `StaleInv`: a request is under way until it has deleted the keys it touched, unless its
  change is one of those never announced (`Announces`); a workspace's row not found before its deletion does not appear
  until then (`StaysAway`); and what Redis holds, or a reader is about to save, is a view of the table, or late, or of
  a touched key (`CacheFresh`, `ReadersFresh`).

In DatedHoursProofs, for any number of requests, readers, workspaces, professionals and dates (`BaseInv` as above):

* `StaleDaysHaveCauses` (`StaleDaysAreExplained`). `StaleInv`: a request that changed a date of a key has yet to delete the key
  or never will (`Announces`), and each date Redis holds, or a reader has found there or in the rows, is a view of the
  rows, or late, or touched (`Agrees`, `FreshReader`).
* `BlocksFollowHours` (`BlocksMatchHours`). `BlockInv`: no two rows share an id, and a row whose id a request gives was added
  by that request (`IdInv`); what an update has read is the row as it still is, unless the row is gone or another
  update of it was under way (`ReadInv`). An update whose row is gone finds nothing to write, and so fails.

In the second part of ServiceSyncProofs, which shares no state with the first, for any number of requests, bookings, events and
clients, of PlatformEdits (instantiated as `Edits`). Assumed are `EditsAssumption` (the tables are well formed and finite at
first, each window is the span of its events, an edit has a service) and `IdsAreNew`: the ids that requests give to new rows
are of no row there is at first, as the database's are. `EditsInv` has one part for each request (`TxOK`), besides the ids
(`IdsInv`) and who wrote which rows (`LocksInv`):

* `WindowsFollow` (`WindowsFollowEvents`). The property alone is not inductive, since the window is read, written and committed
  in three steps. A move writes clones, their seats and events of the booking it read or of one that others changed since
  (`MoveOK`), an edit only its own booking (`EditOK`). While nobody else has changed that booking (`Alone`), the segments
  yet to be split off have the windows of their events (`PlanOK`), each clone has its own, and what was read for the
  window, and then written, is the span of the events seen (`SyncOK`). The commit of another transaction leaves all that
  as it is, or `touched` says which bookings it changed (`OtherTx`). So a commit leaves every booking it changes with the
  right window, or in `spoilt` (`MoveWindows`, `EditWindows`), and the others as they were (`Untouched`).
* `AttendanceFollows` (`AttendanceFollowsEvents`). The clones of a move have exactly the seats that it read, and what it knows of
  the attendance is what those seats say (`KnownOK`). An event that it puts into a clone has that attendance
  (`CloneAttended`); any other event keeps its booking, of which the move writes no seat (`MoveAttended`).

In the first part of DeletionProofs, for any number of handlers, messages, ids, chunks, retries, bookings and participants. `BaseInv` has the
types, and that every copy carries ids of a message sent, and the chunks of a handler ids of its copy. `TxInv`:

* `BookingsGoTogether` (`DeletedTogether`). Which bookings an owner's message names does not depend on what was deleted; any
  other booking that a transaction has deleted has lost its events too, or they go with the one statement left (`TogetherInv`).
* `StrandedByRaceOnly` (`StrandedOnlyByRace`). A transaction for an owner has deleted all bookings of the owner before it looks for
  seats, and so takes none (`OwnersInv`). One for clients has read the bookings that it takes seats from, unless they raced,
  and those it found empty are deleted at the end; in the others somebody is left in its view (`LeaversInv`). A commit
  leaves that so for the others, since open transactions have taken seats of different bookings unless they raced (`LostInv`).
* `NothingIsForgotten` (`NoIdLost`). `Done` says that nothing is left to do for an id, which lasts: every condition of
  the scripts is one that other changes can only make false (`StillLess`), and a statement leaves nothing for itself
  (`AfterEffect`). `CoverInv` says who answers for an id not yet done. Every lock has a handler that set it and has yet
  to release it (`LockInv`), so a copy dropped as a duplicate in flight leaves that handler's, or, once that one is in its
  `finally`, a copy sent back or a processed body. The ids of a handler's copy are done, in the chunks it has left or in
  parts that it published (`ProgressInv`; the chunks have all ids, `ChunksCover`). A processed body is done, or was too long, and
  its parts answer for it (`Settled`).

In BookingGuardsProofs, for any number of requests, bookings and configurations of the limits:

* `LimitsHold` (`LimitsHoldUnlessExplained`) and `RefusalsHaveCauses` (`RefusalsAreExplained`). `CountInv`: at each of its counts a
  request counts the groups of the bookings there are, which `before` keeps; and a request about to book has found neither
  limit reached. Nothing need be known of how groups change, nor of their names: an active event within the dates of its group is
  counted, so that what the client has now is counted, or lay outside those dates, or has come since; and what was counted and
  is not there had other dates than its events, was cancelled in a group that lived on, or has gone since. The rest compares
  cardinalities (`ReachedGrows`).

* `TurnsAreShared` (`SharesAreFair`), of RoundRobin (instantiated as `Turns`), for any number n of professionals, any pickers,
  any pool at each pick, any weights and any number of lost updates. The bound on one professional is not inductive: a pick
  compares only the members of its pool. `Balanced` is: the "currents" sum to zero, and no group of k professionals is
  behind by more than k(n - k) times the greatest weight (`Floor`); k = 1 and k = n - 1 give the bound. A pick takes from
  a group only if the chosen one is in it and others of the pool are not. None of these is ahead of the chosen one, so
  what the group may fall to follows from the bounds of two other groups, the one without the chosen one and the one
  with these others (`FloorKept`, `PickBalances`). `TurnsInv` adds that the turns owed differ from what Redis holds, or
  a picker will write, by at most one bound for each write overwritten. The sum over a set is a recursion over its subsets; that
  sums split, add up and compare (`SumUnion`, `SumPlus`, `SumMonotone`) is proved on a smallest set (`LeastSet`).

In BookingUpdateProofs, for any number of requests, clients, bookings and capacities, from what a transaction has read and
written, which nobody else changes (`SeatsInv`, `EventsInv`; that initial tables are finite is part of `UpdateAssumption`):

* `SecondSeatsAreUnseen` (`SeatTwiceUnseen`): a transaction that has taken a seat has given up every other of the client in that
  booking that was live when it looked (`OthersGivenUp`).
* `SeatsAreLostByStaleCounts` (`SeatLossIsStaleCount`): the count finds the client's own seat, so that a count of one found no
  other (`OwnOrUncounted`), and only the seats of the `UPDATE`'s snapshot are given up (`GivenUp`).
* `DoubleBookingsAreUnseen` (`DoubleBookingUnseen`). `EventsInv`: nothing that the overlap query saw is in the way of the plan
  (`NothingBlocks`), a transaction writes no live event but the one it creates (`OwnEvents`), and the segments of a plan
  follow each other (`Follows`), which is an induction over the services: `LeastNumber` gives the least place where the
  recursion of `Starts` is undefined or goes wrong, and there is none (`StartsDefined`, `StartsFollow`).
* `RebuildsAreExact` (`RebuiltExactly`). Each segment of the plan is taken by one event, a kept one by its rank or an inserted one
  by its number: the ranks reach every number up to how many are kept (`RanksReachAll`), and the ids of inserted events
  are new (`FreshIds`).

In the second part of DeletionProofs, for any number of professionals, services and days, any hours, grid, lead time and
clock, and any finite table of events:

* `OfferedIsDue` (`OffersAreExact`). `OffersAssumption` says that hours are times of day (`DailyHours`; an end before
  its start is allowed), that a day is a number of whole hours, and that a request names at least one service;
  `AvailabilityAssumption`, that the business enters rows of the table's type. Invariant is little
  (`HistoryInv`: the table stays finite, its times are numbers); the argument is about the algorithm.
  Sorting a finite set lists each window once, in order (`Places`, `SortedFacts`). What each loop has done after n windows:
  the merged windows cover just what the first n do, and lie apart (`Merging`, `MergeFacts`); the
  free windows are what the first n busy times leave before the next possible start (`Cutting`,
  `SubtractFacts`). Both are inductions over the list, done on a least counterexample (`LeastNumber`). Hence a
  moment lies in a free window just if the professional is open and has nothing then (`FreeWindowsFacts`), and, because the
  windows are apart, an interval of such moments lies in one of them (`FittingWindows`). The
  arithmetic of the grid (`GridFacts`, `RoundedOnGrid`: the rounded clock skips no point if the step divides the hour)
  and of the delays (`DelayFacts`) gives `SingleExact` and `MultiExact`; in the latter each service is assigned by itself, since
  consecutive segments never overlap.

Only model-checked: the liveness properties (fairness and ENABLED are outside the prover), and of
the availability `ListingsAgree` and `BookedAsOffered`, which compare these operators with those of two other files, by
counts of starts and by the reasons of a refusal, and would take as much again for each of those files.

## 15. Documents that promise more

Of ServiceSync, three documents say more than the code does, and the properties are stated accordingly: a redelivery
after a stop finds the lock of the handler that is gone and is acknowledged as a "duplicate in-flight"
(`updateServiceInEvent.consumer.ts:139`; the update is lost, `LossOnlyThroughLock` names this step); with a prefetch of
5 an older update may commit after a newer one (`docs/rabbitmq.md:20` promises snapshots of the change); and an invalid payload
ends among the dead letters (`docs/rabbitmq.md:161`) only if it is JSON (section 3). The other
modules' sections list theirs.

## 16. Not modelled

* **Request idempotency**: SET NX with a TTL of 5 s on the platform and dead-letter routes, fail-open; one command, no
  further step.
* **Waiting list**: CRUD and a cron that deletes old rows. **Notifications, authentication, HTTP clients**: no shared
  state whose order matters to the calendar; their failures are steps that may fail. **The RabbitMQ connection** memoised
  before its channel exists (`rabbit-pubsub.service.ts:151`): the start order of consumers.
* **Legacy code**: not reachable from `src/index.ts`.
* **What remains of the lines**: the map names about a seventh of the implementation. The rest is legacy code, variants of an
  operation that are commented out or that no route reaches, controllers and CRUD without a second step, the texts of
  notifications and answers, logging, and validation of fields, whose outcome is a free choice of the models.
* Within the modelled parts: seconds and daylight saving, texts of answers and logs, encrypted fields.
