--------------------------- MODULE BookingGuards ---------------------------
(***************************************************************************)
(* How many bookings a client may have: the guards in front of the routes  *)
(* client-add, client-update and client-cancel.                            *)
(*                                                                         *)
(* The limits come with the workspace, from a copy in Redis that nothing   *)
(* but its expiry removes.  client-add counts the client's bookings by the *)
(* dates of the groups, and not the events, in two queries; only later and *)
(* in another transaction does it make the booking.  client-update counts  *)
(* nothing.                                                                *)
(*                                                                         *)
(* The bookings are those of one client; what other clients do to a class  *)
(* that they share with this one is Other.  How a booking finds its slot   *)
(* is in Booking and BookingUpdate: here it is made, moved and cancelled   *)
(* in one step, or refused for reasons of its own.  The services of one    *)
(* request, one after the other, are one event; so are two events of one   *)
(* group at one time.                                                      *)
(***************************************************************************)
EXTENDS Integers, FiniteSets, FiniteSetsExt

CONSTANTS
    Requests,  \* each handled once; a new booking has the name of its request
    Asks,      \* what a request may ask for
    Jobs,      \* what the requests may ask for together
    Classes,   \* the groups of other clients that this one may join
    Configs,   \* the limits that the workspace may have configured
    Unset,     \* no value configured
    NoBrief,   \* no copy of the workspace in Redis
    DayLength

Time == [start : Nat, end : Nat]

Config == [perDay : Nat \union {Unset}, concurrent : Nat \union {Unset}]

Ask == [kind : {"add", "update"}, time : Time, class : BOOLEAN]
          \union [kind : {"other"}, time : Time]
          \union [kind : {"cancel"}]

\* A group: its dates, the times of its events and of its deleted events
Group == [window : Time, events : SUBSET Time, dead : SUBSET Time,
          group : {"active", "cancelled"}]

ASSUME GuardsAssumption ==
    /\ DayLength \in Nat \ {0}
    /\ Configs \subseteq Config
    /\ Classes \subseteq Group
    /\ Asks \subseteq Ask
    /\ Jobs \subseteq [Requests -> Asks]
    /\ NoBrief \notin Configs

VARIABLES
    config,   \* the limits as the workspace's owner set them
    brief,    \* the copy of the workspace in Redis
    bookings, \* the groups in which the client has a seat, by the requests
              \* that took it: [window, events, dead, class, seat, group],
              \* the dates of the group, those of its events and of its
              \* deleted events, whether the service is a class, and whether
              \* the client's seat and the group are cancelled
    ask,      \* what each request asks for
    pc,       \* where each request is
    ctx,      \* the limits that each request read
    counted,  \* the bookings that each request counted, for each limit
    before    \* history: the bookings there were at each of its counts

vars == <<config, brief, bookings, ask, pc, ctx, counted, before>>

Overlap(s, t) == s.start < t.end /\ s.end > t.start

\* The day of a time, from its first instant to its last
DayOf(t) ==
    LET d == t.start \div DayLength
    IN  [start |-> d * DayLength, end |-> (d + 1) * DayLength]

\* What a limit looks at: the day of the booking, or its own time
Span(limit, t) == IF limit = "day" THEN DayOf(t) ELSE t

\* "por defecto, 1 reserva al día", "0 = sin límite concurrente por defecto"
Allowed(c, limit) ==
    IF limit = "day" THEN IF c.perDay = Unset THEN 1 ELSE c.perDay
    ELSE IF c.concurrent = Unset THEN 0 ELSE c.concurrent

Reached(number, c, limit) == Allowed(c, limit) > 0 /\ number >= Allowed(c, limit)

\* Mutant: cancelled groups count as well.
InGroupsAll(limit, t) ==
    {b \in DOMAIN bookings : Overlap(bookings[b].window, Span(limit, t))}

\* Mutant: only bookings that lie in the span as a whole.
InGroupsWithin(limit, t) ==
    {b \in DOMAIN bookings :
        /\ bookings[b].group = "active"
        /\ Span(limit, t).start <= bookings[b].window.start
        /\ bookings[b].window.end <= Span(limit, t).end}

\* The query of EnforceUserLimits: the groups that are not cancelled, by
\* their dates, whatever the status of the seat
InGroups(limit, t) ==
    {b \in DOMAIN bookings :
        bookings[b].group = "active" /\ Overlap(bookings[b].window, Span(limit, t))}

Goto(r, label) == pc' = [pc EXCEPT ![r] = label]

\* A booking of a group of its own, and a seat in a class of others
Row(t, class) ==
    [window |-> t, events |-> {t}, dead |-> {}, class |-> class,
     seat |-> "active", group |-> "active"]

SeatIn(g) ==
    [window |-> g.window, events |-> g.events, dead |-> g.dead, class |-> TRUE,
     seat |-> "active", group |-> g.group]

-----------------------------------------------------------------------------
Init ==
    /\ config \in Configs
    /\ brief = NoBrief
    /\ bookings = [b \in {} |-> Row([start |-> 0, end |-> 0], FALSE)]
    /\ ask \in Jobs
    /\ pc = [r \in Requests |-> "idle"]
    /\ ctx = [r \in Requests |-> NoBrief]
    /\ counted = [r \in Requests |-> [day |-> {}, concurrent |-> {}]]
    /\ before = [r \in Requests |-> [day |-> bookings, concurrent |-> bookings]]

\* ResolveWorkspace looks in Redis.
Resolve(r) ==
    /\ pc[r] = "idle" /\ ask[r].kind # "other"
    /\ ctx' = [ctx EXCEPT ![r] = brief]
    /\ Goto(r, IF brief = NoBrief THEN "fetch" ELSE "client")
    /\ UNCHANGED <<config, brief, bookings, ask, counted, before>>

\* getWorkspacesByIds looks in Redis again and asks the auth service, whose
\* failure leaves the request without a time zone.
Fetch(r) ==
    /\ pc[r] = "fetch"
    /\ \/ /\ ctx' = [ctx EXCEPT ![r] = IF brief = NoBrief THEN config ELSE brief]
          /\ Goto(r, "store")
       \/ /\ brief = NoBrief
          /\ Goto(r, "refused")
          /\ UNCHANGED ctx
    /\ UNCHANGED <<config, brief, bookings, ask, counted, before>>

\* Its SET, and then the guard's, of the same value
Store(r) ==
    /\ pc[r] = "store"
    /\ brief' = ctx[r]
    /\ Goto(r, "client")
    /\ UNCHANGED <<config, bookings, ask, ctx, counted, before>>

\* ResolveClientWorkspace and EnforceTimeRules: the client service and the
\* clock may refuse any request.
Client(r) ==
    /\ pc[r] = "client"
    /\ \/ Goto(r, IF ask[r].kind = "add" THEN "day" ELSE "act")
       \/ Goto(r, "refused")
    /\ UNCHANGED <<config, brief, bookings, ask, ctx, counted, before>>

\* EnforceUserLimits: the bookings of the day
CountDay(r) ==
    /\ pc[r] = "day"
    /\ counted' = [counted EXCEPT ![r].day = InGroups("day", ask[r].time)]
    /\ before' = [before EXCEPT ![r].day = bookings]
    /\ Goto(r, "concurrent")
    /\ UNCHANGED <<config, brief, bookings, ask, ctx>>

\* EnforceUserLimits: the bookings at the same time, and the verdict on both
CountConcurrent(r) ==
    /\ pc[r] = "concurrent"
    /\ counted' = [counted EXCEPT ![r].concurrent = InGroups("concurrent", ask[r].time)]
    /\ before' = [before EXCEPT ![r].concurrent = bookings]
    /\ Goto(r, IF \E limit \in {"day", "concurrent"} :
                    Reached(Cardinality(counted'[r][limit]), ctx[r], limit)
               THEN "limited" ELSE "act")
    /\ UNCHANGED <<config, brief, bookings, ask, ctx>>

Refuse(r) ==
    /\ pc[r] = "act"
    /\ Goto(r, "refused")
    /\ UNCHANGED <<config, brief, bookings, ask, ctx, counted, before>>

With(rows, b, row) == [x \in DOMAIN rows \union {b} |-> IF x = b THEN row ELSE rows[x]]

Without(b) == [x \in DOMAIN bookings \ {b} |-> bookings[x]]

\* The times at which a group has an event, deleted or not: the lookup of a slot
\* finds both.
Slots(g) == g.events \union g.dead

\* A group of its own, a seat in a class, or a slot that the client has already
Add(r) ==
    /\ pc[r] = "act" /\ ask[r].kind = "add"
    /\ \/ bookings' = With(bookings, r, Row(ask[r].time, ask[r].class))
       \/ /\ ask[r].class
          /\ \E g \in Classes : /\ ask[r].time \in Slots(g)
                                /\ bookings' = With(bookings, r, SeatIn(g))
       \/ /\ \E b \in DOMAIN bookings : ask[r].time \in Slots(bookings[b])
          /\ UNCHANGED bookings
    /\ Goto(r, "done")
    /\ UNCHANGED <<config, brief, ask, ctx, counted, before>>

\* What updates of a class are about: a group with one live event, or a
\* deleted one
OneEvent(g) == Slots(g) # {} /\ \A e, f \in g.events : e = f

\* The client leaves a group: its events are deleted with the last seat.
Left(g, alone) == IF alone THEN [g EXCEPT !.events = {}, !.dead = Slots(g)] ELSE g

\* A new event in a group, and _syncGroupStartEndDates: from the first start to
\* the last end of the events that are live.
Created(g, t) ==
    LET events == g.events \union {t}
    IN  [g EXCEPT !.events = events,
                  !.window = [start |-> Min({e.start : e \in events}),
                              end |-> Max({e.end : e \in events})]]

\* An event moves to another group; the dates of neither follow.
Taken(g, t) == [g EXCEPT !.events = @ \ {t}, !.dead = @ \ {t}]

\* To a class, which is a new event in the same group, or one found there; or
\* else that of another group: the client gets a seat in that one, or has one
\* there, and then its event moves into the group that the client has left.
MoveToClass(r) ==
    /\ pc[r] = "act" /\ ask[r].kind = "update" /\ ask[r].class
    /\ \E b \in DOMAIN bookings, alone \in BOOLEAN :
        LET t == ask[r].time
            seat == [bookings[b] EXCEPT !.seat = "active", !.class = TRUE]
        IN  /\ OneEvent(bookings[b])
            /\ \/ bookings' = [bookings EXCEPT ![b] = Created(Left(seat, alone), t)]
               \/ /\ t \in Slots(bookings[b])
                  /\ bookings' = [bookings EXCEPT ![b] = Left(seat, alone)]
               \/ \E g \in Classes :
                    /\ t \in Slots(g)
                    /\ bookings' = With(Without(b), r, Taken(SeatIn(g), t))
               \/ \E c \in DOMAIN bookings \ {b} :
                    /\ t \in Slots(bookings[c])
                    /\ bookings' = With(Without(b), c, Taken(bookings[c], t))
    /\ Goto(r, "done")
    /\ UNCHANGED <<config, brief, ask, ctx, counted, before>>

\* updateSingleEvent and rebuildBooking write the events that are live and
\* delete those too many, or write a deleted one that the request names; the
\* dates of the group and the seat stay as they are.
Rewritten(g, t) ==
    {[g EXCEPT !.events = {t}, !.dead = @ \union gone] : gone \in SUBSET g.events}
      \union UNION {{[g EXCEPT !.events = live, !.dead = (@ \ {e}) \union {t}] :
                        live \in {g.events, {t}}} : e \in g.dead}

MoveInPlace(r) ==
    /\ pc[r] = "act" /\ ask[r].kind = "update"
    /\ \E b \in DOMAIN bookings :
        /\ Slots(bookings[b]) # {} /\ (~ask[r].class \/ ~OneEvent(bookings[b]))
        /\ \E row \in Rewritten(bookings[b], ask[r].time) :
            bookings' = [bookings EXCEPT ![b] = [row EXCEPT !.class = ask[r].class]]
    /\ Goto(r, "done")
    /\ UNCHANGED <<config, brief, ask, ctx, counted, before>>

\* cancelEventFromWeb: the seat in a class that others take part in, the class
\* with its last seat, or the seat and the group.
Cancel(r) ==
    /\ pc[r] = "act" /\ ask[r].kind = "cancel"
    /\ \E b \in DOMAIN bookings :
        /\ bookings[b].events # {}
        /\ bookings[b].seat = "active" /\ bookings[b].group = "active"
        /\ \/ /\ bookings[b].class
              /\ bookings' = [bookings EXCEPT ![b].seat = "cancelled"]
           \/ /\ bookings[b].class
              /\ bookings' = Without(b)
           \/ /\ ~bookings[b].class \/ ~OneEvent(bookings[b])
              /\ bookings' = [bookings EXCEPT ![b].seat = "cancelled", ![b].group = "cancelled"]
    /\ Goto(r, "done")
    /\ UNCHANGED <<config, brief, ask, ctx, counted, before>>

\* Another client's request, in a group where this one has a seat: a new event
\* in it, one of another group moved into it or out of it, its events rewritten,
\* or the group cancelled or gone with the last seat that its reader saw
Other(r) ==
    /\ pc[r] = "idle" /\ ask[r].kind = "other"
    /\ \E b \in DOMAIN bookings :
        LET g == bookings[b]
            t == ask[r].time
        IN  \/ /\ OneEvent(g)
               /\ \E row \in {[Created(g, t) EXCEPT !.class = TRUE],
                              [g EXCEPT !.events = @ \union {t}],
                              [g EXCEPT !.dead = @ \union {t}]} :
                      bookings' = [bookings EXCEPT ![b] = row]
            \/ /\ t \in Slots(g)
               /\ bookings' = [bookings EXCEPT ![b] = Taken(g, t)]
            \/ /\ Slots(g) # {}
               /\ \E row \in Rewritten(g, t), class \in BOOLEAN :
                      bookings' = [bookings EXCEPT ![b] = [row EXCEPT !.class = class]]
            \/ bookings' = [bookings EXCEPT ![b].group = "cancelled"]
            \/ bookings' = Without(b)
    /\ Goto(r, "done")
    /\ UNCHANGED <<config, brief, ask, ctx, counted, before>>

\* The owner sets other limits; nobody tells Redis.
Configure ==
    /\ config' \in Configs \ {config}
    /\ UNCHANGED <<brief, bookings, ask, pc, ctx, counted, before>>

\* A minute or an hour after a SET
Expire ==
    /\ brief # NoBrief
    /\ brief' = NoBrief
    /\ UNCHANGED <<config, bookings, ask, pc, ctx, counted, before>>

Next ==
    \/ \E r \in Requests :
        \/ Resolve(r) \/ Fetch(r) \/ Store(r) \/ Client(r)
        \/ CountDay(r) \/ CountConcurrent(r)
        \/ Refuse(r) \/ Add(r) \/ MoveToClass(r) \/ MoveInPlace(r) \/ Cancel(r)
        \/ Other(r)
    \/ Configure \/ Expire

Spec == Init /\ [][Next]_vars

-----------------------------------------------------------------------------
\* The bookings that the client really has in the span of a limit
Has(rows, limit, t) ==
    {b \in DOMAIN rows :
        /\ rows[b].seat = "active" /\ rows[b].group = "active"
        /\ \E e \in rows[b].events : Overlap(e, Span(limit, t))}

\* An event of the group lies outside the dates of the group.
Outside(row) ==
    \E e \in row.events : e.start < row.window.start \/ row.window.end < e.end

\* The dates of the group are not those of one event: it was moved in place, or
\* away, or the group spans several.
Misdated(row) == row.events # {row.window}

\* "máximo de reservas por día": when a booking is made, the client has fewer
\* than the limit in force, or else the limit was changed since it was cached,
\* or one of the bookings was made or moved there after they were counted, or
\* was overlooked because its event lay outside the dates of its group (it was
\* moved in place, or came with somebody's change of class).
LimitsHoldUnlessExplained ==
    [][\A r \in Requests : pc[r] = "act" /\ pc'[r] = "done" /\ ask[r].kind = "add" =>
        \A limit \in {"day", "concurrent"} :
            LET t == ask[r].time
                has == Has(bookings, limit, t)
                rows == before[r][limit]
            IN \/ ~Reached(Cardinality(has), config, limit)
               \/ ctx[r] # config
               \/ has \ Has(rows, limit, t) # {}
               \/ \E b \in has \ counted[r][limit] : Outside(rows[b])]_vars

\* "Has alcanzado el máximo": a client who is refused really has as many
\* bookings as the limit in force, or else the limit was changed since it was
\* cached, or one of those counted is a seat the client cancelled in a group
\* that lives on, or has no event there while the dates of its group are not
\* those of its event (which was moved in place or away with somebody's change
\* of class, or the dates were widened to events of several times), or went
\* after it was counted.
RefusalsAreExplained ==
    [][\A r \in Requests : pc[r] = "concurrent" /\ pc'[r] = "limited" =>
        \E limit \in {"day", "concurrent"} :
            LET t == ask[r].time
                rows == before'[r][limit]
            IN \/ Reached(Cardinality(Has(bookings, limit, t)), config, limit)
               \/ ctx[r] # config
               \/ \E b \in counted'[r][limit] :
                    \/ rows[b].seat = "cancelled" /\ rows[b].group = "active"
                    \/ Misdated(rows[b]) /\ b \notin Has(rows, limit, t)
                    \/ b \in Has(rows, limit, t) \ Has(bookings, limit, t)]_vars
=============================================================================
