--------------------------- MODULE DeletionProofs ---------------------------
(***************************************************************************)
(* Proofs about what clears the calendar and what is offered in it.  First *)
(* part: cascading deletions, for any number of handlers, bookings,        *)
(* participants, ids in a message and retries.  Second part: the starts    *)
(* offered for individual services, for any professionals, hours, events,  *)
(* clock and grid.                                                         *)
(***************************************************************************)
EXTENDS Deletion, Offers, FiniteSetTheorems, WellFoundedInduction, TLAPS

USE DeletionAssumption

IsFunction(f, S) == f = [x \in S |-> f[x]]

\* Bookings and participants are only ever soft-deleted.
IsChange(c) ==
    /\ c.deleted \subseteq Rows
    /\ c.removed \subseteq Events \union Hours
    /\ c.unlinked \subseteq Events

\* Every copy carries some of the ids of a message that was sent.
PartOf(p, b) == p.table = b.table /\ p.rel = b.rel /\ Ids(p) \subseteq Ids(b)

IsCopy(c) ==
    /\ c = [body |-> c.body, retries |-> c.retries]
    /\ IsBody(c.body)
    /\ \E b \in BagToSet(sent) : PartOf(c.body, b)

\* The labels of a script, or of what is left of it
Labels(script) == {script[i] : i \in DOMAIN script}

TypeInv ==
    /\ sent \in Sent
    /\ IsABag(queue) /\ IsABag(delayed)
    /\ IsChange(db)
    /\ pc \in [Handlers -> Label]
    /\ IsFunction(work, Handlers) /\ IsFunction(now, Handlers)
    /\ IsFunction(batches, Handlers) /\ IsFunction(todo, Handlers)
    /\ IsFunction(own, Handlers) /\ IsFunction(found, Handlers)
    /\ IsFunction(join, Joiners)
    /\ \A c \in BagToSet(queue) \union BagToSet(delayed) \union dead : IsCopy(c)
    /\ \A h \in Handlers : IsChange(own[h]) /\ found[h] \subseteq Groups

\* What a handler holds where it stands
HandlerInv(h) ==
    /\ pc[h] # "idle" => IsCopy(work[h]) /\ Valid(work[h].body)
    /\ pc[h] # "tx" => own[h] = NoChange /\ found[h] = {}
    /\ pc[h] \in {"publish", "tx"} =>
        /\ batches[h] \in Seq(Seq(Ids(work[h].body)))
        /\ batches[h] # <<>>
    /\ pc[h] = "tx" =>
        /\ todo[h] \in Seq(Labels(Script[work[h].body.table]))

BaseInv == TypeInv /\ \A h \in Handlers : HandlerInv(h)
-----------------------------------------------------------------------------
(* Bags, sequences and statements. *)

\* Adding a copy to a bag
LEMMA Put ==
    ASSUME NEW bag, IsABag(bag), NEW c
    PROVE  IsABag(bag (+) One(c)) /\ BagToSet(bag (+) One(c)) = BagToSet(bag) \union {c}
BY DEF IsABag, BagToSet, SetToBag, (+), One

\* Taking one copy from a bag
LEMMA Taken ==
    ASSUME NEW bag, IsABag(bag), NEW c
    PROVE  /\ IsABag(bag (-) One(c))
           /\ BagToSet(bag (-) One(c)) \subseteq BagToSet(bag)
           /\ BagToSet(bag) \subseteq BagToSet(bag (-) One(c)) \union {c}
BY DEF IsABag, BagToSet, SetToBag, (-), One

\* The labels of a sequence, of its head and of its tail
LEMMA SeqParts ==
    ASSUME NEW S, NEW s \in Seq(S)
    PROVE  /\ s \in Seq(Labels(s)) /\ Labels(s) \subseteq S
           /\ s # <<>> => /\ Head(s) \in Labels(s) /\ Tail(s) \in Seq(S)
                          /\ Len(Tail(s)) = Len(s) - 1
                          /\ Labels(s) = {Head(s)} \union Labels(Tail(s))
<1>1. Labels(s) \subseteq S
  BY DEF Labels
<1>2. s \in Seq(Labels(s))
  <2>1. Len(s) \in Nat /\ s \in [1..Len(s) -> Labels(s)]
    BY DEF Labels
  <2> QED
    BY <2>1
<1>3. ASSUME s # <<>>
      PROVE  /\ Head(s) = s[1] /\ Len(s) >= 1
             /\ Tail(s) \in Seq(S) /\ Len(Tail(s)) = Len(s) - 1
             /\ \A i \in 1..(Len(s) - 1) : Tail(s)[i] = s[i + 1]
  BY <1>3
<1>4. ASSUME s # <<>>
      PROVE  Labels(s) = {Head(s)} \union Labels(Tail(s))
  <2>1. /\ DOMAIN s = 1..Len(s) /\ DOMAIN Tail(s) = 1..(Len(s) - 1)
        /\ Len(s) \in Nat
    BY <1>3, <1>4
  <2>2. \A i \in DOMAIN s : i = 1 \/ i - 1 \in DOMAIN Tail(s)
    BY <2>1
  <2>3. ASSUME NEW i \in DOMAIN s
        PROVE  s[i] \in {Head(s)} \union Labels(Tail(s))
    <3>1. CASE i = 1
      BY <1>3, <1>4, <3>1
    <3>2. CASE i # 1
      <4>1. i - 1 \in DOMAIN Tail(s) /\ Tail(s)[i - 1] = s[i]
        BY <1>3, <1>4, <2>1, <3>2
      <4> QED
        BY <4>1 DEF Labels
    <3> QED
      BY <3>1, <3>2
  <2>4. ASSUME NEW i \in DOMAIN Tail(s)
        PROVE  i + 1 \in DOMAIN s /\ Tail(s)[i] = s[i + 1]
    BY <1>3, <1>4, <2>1
  <2>5. s[1] \in Labels(s)
    BY <1>3, <1>4, <2>1 DEF Labels
  <2>6. Labels(Tail(s)) \subseteq Labels(s)
    BY <2>4 DEF Labels
  <2> QED
    BY <1>3, <1>4, <2>3, <2>5, <2>6 DEF Labels
<1> QED
  BY <1>1, <1>2, <1>3, <1>4

\* The chunks of a list of ids are lists of some of them.
LEMMA ChunksType ==
    ASSUME NEW S, NEW s \in Seq(S), s # <<>>, NEW n \in Nat \ {0}
    PROVE  Chunks(s, n) \in Seq(Seq(S)) /\ Chunks(s, n) # <<>>
<1> DEFINE m == (Len(s) + n - 1) \div n
<1>1. Len(s) \in Nat /\ Len(s) >= 1
  OBVIOUS
<1>2. m \in Nat /\ m >= 1
  BY <1>1
<1>3. ASSUME NEW i \in 1..m
      PROVE  SubSeq(s, (i - 1) * n + 1, IF i * n < Len(s) THEN i * n ELSE Len(s)) \in Seq(S)
  <2>1. (i - 1) * n \in Nat /\ i * n \in Nat
    BY <1>2
  <2> DEFINE a == (i - 1) * n + 1
             b == IF i * n < Len(s) THEN i * n ELSE Len(s)
  <2>2. a \in Nat /\ a >= 1 /\ b \in Nat /\ b <= Len(s)
    BY <1>1, <2>1
  <2> HIDE DEF a, b
  <2>3. SubSeq(s, a, b) \in Seq(S)
    BY <1>1, <2>2
  <2> QED
    BY <2>3 DEF a, b
<1>4. Chunks(s, n) = [i \in 1..m |->
          SubSeq(s, (i - 1) * n + 1, IF i * n < Len(s) THEN i * n ELSE Len(s))]
  BY DEF Chunks
<1> HIDE DEF m
<1>5. Chunks(s, n) \in Seq(Seq(S)) /\ Len(Chunks(s, n)) = m
  BY <1>2, <1>3, <1>4
<1> QED
  BY <1>2, <1>5

\* The part of a copy that the first of the batches makes
LEMMA BatchIsCopy ==
    ASSUME NEW h \in Handlers, IsCopy(work[h]),
           batches[h] \in Seq(Seq(Ids(work[h].body))), batches[h] # <<>>
    PROVE  /\ IsCopy([work[h] EXCEPT !.body = Batch(h)])
           /\ PartOf(Batch(h), work[h].body)
           /\ IsBody(Batch(h)) /\ Batch(h).ids = Head(batches[h])
<1> DEFINE b == work[h].body
           s == Head(batches[h])
<1>1. s \in Seq(Ids(b))
  OBVIOUS
<1>2. s \in Seq(Labels(s)) /\ Labels(s) \subseteq Ids(b)
  BY <1>1, SeqParts
<1>3. /\ Batch(h) = [b EXCEPT !.ids = s]
      /\ b = [table |-> b.table, ids |-> b.ids, rel |-> b.rel]
  BY DEF Batch, IsCopy, IsBody
<1> HIDE DEF b, s
<1>4. Batch(h) = [table |-> b.table, ids |-> s, rel |-> b.rel]
  BY <1>3
<1>5. IsBody(Batch(h)) /\ Batch(h).ids = s /\ PartOf(Batch(h), b)
  <2>1. /\ Batch(h).table = b.table /\ Batch(h).rel = b.rel /\ Batch(h).ids = s
        /\ Batch(h) = [table |-> Batch(h).table, ids |-> Batch(h).ids,
                       rel |-> Batch(h).rel]
    BY <1>4
  <2>2. Ids(Batch(h)) = Labels(s)
    BY <2>1 DEF Ids, Labels
  <2> QED
    BY <1>2, <2>1, <2>2 DEF IsBody, PartOf, Ids, Labels
<1>6. \E x \in BagToSet(sent) : PartOf(b, x)
  BY DEF IsCopy, b
<1>7. \E x \in BagToSet(sent) : PartOf(Batch(h), x)
  BY <1>5, <1>6 DEF PartOf
<1>8. [work[h] EXCEPT !.body = Batch(h)] = [body |-> Batch(h), retries |-> work[h].retries]
  <2>1. PICK x, n : work[h] = [body |-> x, retries |-> n]
    BY DEF IsCopy
  <2> QED
    BY <2>1
<1> QED
  BY <1>5, <1>7, <1>8 DEF IsCopy, b, s

AllLabels ==
    {"hours", "groups", "events", "seats", "affected", "leave", "emptied", "close",
     "closeEvents", "removeOther", "unlink", "unlinkFuture", "removeHours",
     "removeFuture", "removeOtherThere", "removeEvents"}

\* Every script is made of the statements that Match knows.
LEMMA Scripts == \A t \in Tables : Script[t] \in Seq(AllLabels)
<1>1. Leaving \in Seq(AllLabels) /\ Cascade \in Seq(AllLabels)
  BY DEF Leaving, Cascade, AllLabels
<1>2. /\ <<"removeOther", "unlink", "hours">> \in Seq(AllLabels)
      /\ <<"unlinkFuture", "removeHours">> \in Seq(AllLabels)
      /\ <<"removeFuture", "removeHours">> \in Seq(AllLabels)
      /\ <<"removeOtherThere", "removeHours">> \in Seq(AllLabels)
      /\ <<"removeEvents", "removeHours">> \in Seq(AllLabels)
      /\ <<>> \in Seq(AllLabels)
  BY DEF AllLabels
<1>3. ASSUME NEW t \in Tables PROVE Script[t] \in Seq(AllLabels)
  <2>1. CASE t \in {"companies", "workspaces", "clients", "clientWorkspaces"}
    BY <1>1, <2>1 DEF Script
  <2>2. /\ Script["users"] = <<"removeOther", "unlink", "hours">>
        /\ Script["byWorkspace"] = <<"unlinkFuture", "removeHours">>
        /\ Script["byWorkspaceHard"] = <<"removeFuture", "removeHours">>
        /\ Script["byUser"] = <<"removeOtherThere", "removeHours">>
        /\ Script["usersEventDeleteDefinitive"] = <<"removeEvents", "removeHours">>
        /\ Script["calendarEvents"] = <<>>
    BY DEF Script
  <2> QED
    BY <1>2, <2>1, <2>2 DEF Tables, Script
<1> QED
  BY <1>3

\* What a statement matches, and does to it
LEMMA MatchType ==
    ASSUME NEW l \in AllLabels, NEW b, NEW view, NEW ended, NEW groups \in SUBSET Groups
    PROVE  /\ Match(l, b, view, ended, groups) \subseteq Rows
           /\ l \in Unlinks => Match(l, b, view, ended, groups) \subseteq Events
           /\ l \in Removes => Match(l, b, view, ended, groups) \subseteq Events \union Hours
           /\ l = "affected" => Match(l, b, view, ended, groups) \subseteq Seats
           /\ l = "emptied" => Match(l, b, view, ended, groups) \subseteq groups
<1>1. CASE l \in {"hours", "groups", "events", "seats", "affected", "leave"}
  BY <1>1 DEF Match, Rows, Unlinks, Removes
<1>2. CASE l \in {"emptied", "close", "closeEvents"}
  BY <1>2 DEF Match, Rows, Unlinks, Removes
<1>3. CASE l \in {"removeOther", "unlink", "unlinkFuture", "removeHours"}
  BY <1>3 DEF Match, Rows, Unlinks, Removes
<1>4. CASE l \in {"removeFuture", "removeOtherThere", "removeEvents"}
  BY <1>4 DEF Match, Rows, Unlinks, Removes
<1> QED
  BY <1>1, <1>2, <1>3, <1>4 DEF AllLabels

-----------------------------------------------------------------------------
(* Types, and what a handler holds. *)

HandlerStep(h) == Deliver(h) \/ Handle(h) \/ Fail(h)

OtherStep ==
    \/ DelayEnds \/ LockExpires \/ GroupEnds
    \/ \E s \in Joiners : PlanJoin(s) \/ Join(s)
    \/ UNCHANGED vars

\* A step is one of a handler, or leaves handlers and transactions alone.
LEMMA Steps ==
    ASSUME [Next]_vars
    PROVE  OtherStep \/ \E h \in Handlers : HandlerStep(h)
BY DEF Next, OtherStep, HandlerStep

\* The steps that are not a handler's
LEMMA Others ==
    ASSUME OtherStep, TypeInv
    PROVE  /\ UNCHANGED <<sent, processed, db, pc, work, local, raced, dead>>
           /\ IsFunction(join', Joiners) /\ Absent' \subseteq Absent
<1>1. CASE DelayEnds \/ LockExpires \/ GroupEnds
  BY <1>1 DEF DelayEnds, LockExpires, GroupEnds, redis, world, broker, TypeInv, Absent
<1>2. CASE \E s \in Joiners : PlanJoin(s) \/ Join(s)
  BY <1>2 DEF PlanJoin, Join, redis, world, broker, TypeInv, IsFunction, Absent
<1>3. CASE UNCHANGED vars
  BY <1>3 DEF vars, local, TypeInv, Absent
<1> QED
  BY <1>1, <1>2, <1>3 DEF OtherStep

\* A step of a handler leaves the state of the others alone.
LEMMA OwnState ==
    ASSUME TypeInv, NEW h \in Handlers, HandlerStep(h)
    PROVE  /\ sent' = sent /\ join' = join
           /\ pc' \in [Handlers -> Label]
           /\ IsFunction(work', Handlers) /\ IsFunction(now', Handlers)
           /\ IsFunction(batches', Handlers) /\ IsFunction(todo', Handlers)
           /\ IsFunction(own', Handlers) /\ IsFunction(found', Handlers)
           /\ \A k \in Handlers \ {h} :
                /\ pc'[k] = pc[k] /\ work'[k] = work[k] /\ now'[k] = now[k]
                /\ batches'[k] = batches[k] /\ todo'[k] = todo[k]
                /\ own'[k] = own[k] /\ found'[k] = found[k]
<1> USE DEF TypeInv, IsFunction
<1>1. CASE Deliver(h) \/ Check(h) \/ Acquire(h)
  BY <1>1 DEF Deliver, Check, Acquire, Goto, Leave, Label, world, local
<1>2. CASE Start(h) \/ PublishPart(h)
  BY <1>2 DEF Start, PublishPart, Goto, Label, world, local
<1>3. CASE Read(h) \/ Write(h)
  BY <1>3 DEF Read, Write, world, local
<1>4. CASE Commit(h)
  <2>1. pc' = pc \/ pc' = [pc EXCEPT ![h] = "mark"]
    BY <1>4 DEF Commit, Goto
  <2>2. pc' \in [Handlers -> Label]
        /\ \A k \in Handlers \ {h} : pc'[k] = pc[k]
    BY <2>1 DEF Label
  <2>3. todo' = todo \/ todo' = [todo EXCEPT ![h] = Script[work[h].body.table]]
    BY <1>4 DEF Commit
  <2>4. IsFunction(todo', Handlers) /\ \A k \in Handlers \ {h} : todo'[k] = todo[k]
    BY <2>3
  <2> QED
    BY <1>4, <2>2, <2>4 DEF Commit, world
<1>5. CASE Mark(h) \/ Fail(h)
  BY <1>5 DEF Mark, Fail, Goto, Forget, Label, world
<1>6. CASE Catch(h) \/ Release(h)
  BY <1>6 DEF Catch, Release, Leave, Goto, Label, world, local
<1> QED
  BY <1>1, <1>2, <1>3, <1>4, <1>5, <1>6 DEF HandlerStep, Handle

\* It holds at the start.
LEMMA BaseInit == Init => BaseInv
<1> SUFFICES ASSUME Init PROVE BaseInv
  OBVIOUS
<1>1. sent \in Sent /\ IsABag(sent) /\ \A b \in BagToSet(sent) : IsBody(b)
  BY DEF Init
<1>2. IsABag(queue) /\ \A c \in BagToSet(queue) : IsCopy(c)
  <2>1. \A b \in BagToSet(sent) : sent[b] \in {n \in Nat : n > 0}
    BY <1>1 DEF IsABag, BagToSet
  <2>2. /\ BagToSet(queue) = {[body |-> b, retries |-> 0] : b \in BagToSet(sent)}
        /\ queue = [c \in BagToSet(queue) |-> sent[c.body]]
    BY DEF Init, BagToSet
  <2>3. IsABag(queue)
    BY <2>1, <2>2 DEF IsABag, BagToSet
  <2>4. ASSUME NEW c \in BagToSet(queue)
        PROVE  IsCopy(c)
    <3>1. PICK b \in BagToSet(sent) : c = [body |-> b, retries |-> 0]
      BY <2>2
    <3> QED
      BY <1>1, <3>1 DEF IsCopy, PartOf
  <2> QED
    BY <2>3, <2>4
<1>3. IsABag(delayed) /\ BagToSet(delayed) = {} /\ dead = {}
  BY DEF Init, EmptyBag, SetToBag, IsABag, BagToSet
<1>4. IsChange(NoChange)
  BY DEF IsChange, NoChange
<1>5. TypeInv
  BY <1>1, <1>2, <1>3, <1>4 DEF Init, TypeInv, IsFunction, Label
<1> QED
  BY <1>5 DEF BaseInv, HandlerInv, Init

\* The union of two changes
LEMMA PlusType ==
    ASSUME NEW c, NEW d
    PROVE  /\ Plus(c, d).deleted = c.deleted \union d.deleted
           /\ Plus(c, d).removed = c.removed \union d.removed
           /\ Plus(c, d).unlinked = c.unlinked \union d.unlinked
           /\ IsChange(c) /\ IsChange(d) => IsChange(Plus(c, d))
BY DEF IsChange, Plus

\* The statement that a transaction is about to run
LEMMA NextStatement ==
    ASSUME BaseInv, NEW h \in Handlers, InTx(h)
    PROVE  /\ Head(todo[h]) \in AllLabels
           /\ Head(todo[h]) \in Labels(Script[work[h].body.table])
           /\ Tail(todo[h]) \in Seq(Labels(Script[work[h].body.table]))
           /\ Head(todo[h]) \in Labels(todo[h])
           /\ Labels(todo[h]) = {Head(todo[h])} \union Labels(Tail(todo[h]))
<1>1. /\ todo[h] \in Seq(Labels(Script[work[h].body.table])) /\ todo[h] # <<>>
      /\ work[h].body.table \in Tables
  BY DEF BaseInv, HandlerInv, InTx, Valid
<1>2. Labels(Script[work[h].body.table]) \subseteq AllLabels
  BY <1>1, Scripts, SeqParts
<1>3. /\ Head(todo[h]) \in Labels(todo[h])
      /\ Labels(todo[h]) \subseteq Labels(Script[work[h].body.table])
      /\ Tail(todo[h]) \in Seq(Labels(Script[work[h].body.table]))
      /\ Labels(todo[h]) = {Head(todo[h])} \union Labels(Tail(todo[h]))
  <2>1. PICK S, s : S = Labels(Script[work[h].body.table]) /\ s = todo[h]
    OBVIOUS
  <2>2. s \in Seq(S) /\ s # <<>>
    BY <1>1, <2>1
  <2>3. /\ Head(s) \in Labels(s) /\ Labels(s) \subseteq S /\ Tail(s) \in Seq(S)
        /\ Labels(s) = {Head(s)} \union Labels(Tail(s))
    BY <2>2, SeqParts
  <2> QED
    BY <2>1, <2>3
<1> QED
  BY <1>2, <1>3

\* The effect of a statement is a change.
LEMMA EffectType ==
    ASSUME NEW l \in AllLabels, NEW b, NEW view, NEW ended, NEW groups \in SUBSET Groups
    PROVE  IsChange(Effect(l, Match(l, b, view, ended, groups)))
BY MatchType DEF IsChange, Effect

\* Every copy that a handler puts in a queue is a copy of a message.
LEMMA BrokerStep ==
    ASSUME BaseInv, NEW h \in Handlers, HandlerStep(h)
    PROVE  /\ IsABag(queue') /\ IsABag(delayed')
           /\ \A c \in BagToSet(queue') \union BagToSet(delayed') \union dead' : IsCopy(c)
<1>1. /\ IsABag(queue) /\ IsABag(delayed)
      /\ \A c \in BagToSet(queue) \union BagToSet(delayed) \union dead : IsCopy(c)
      /\ pc[h] # "idle" => IsCopy(work[h])
  BY DEF BaseInv, TypeInv, HandlerInv
<1>2. CASE Deliver(h)
  <2>1. PICK c \in BagToSet(queue) : /\ queue' = queue (-) One(c) /\ delayed' = delayed
                                     /\ dead' \subseteq dead \union {c}
    BY <1>2 DEF Deliver
  <2> QED
    BY <1>1, <2>1, Taken
<1>3. CASE PublishPart(h)
  <2>1. IsCopy([work[h] EXCEPT !.body = Batch(h)])
    BY <1>3, BatchIsCopy DEF PublishPart, BaseInv, HandlerInv
  <2>2. /\ queue' = queue (+) One([work[h] EXCEPT !.body = Batch(h)])
        /\ delayed' = delayed /\ dead' = dead
    BY <1>3 DEF PublishPart
  <2> QED
    BY <1>1, <2>1, <2>2, Put
<1>4. CASE Catch(h)
  <2>1. IsCopy([work[h] EXCEPT !.retries = @ + 1])
    <3>1. PICK x, n : work[h] = [body |-> x, retries |-> n]
      BY <1>1, <1>4 DEF Catch, IsCopy
    <3>2. [work[h] EXCEPT !.retries = @ + 1] = [body |-> x, retries |-> n + 1]
      BY <3>1
    <3>3. IsBody(x) /\ \E b \in BagToSet(sent) : PartOf(x, b)
      BY <1>1, <1>4, <3>1 DEF Catch, IsCopy
    <3> QED
      BY <3>2, <3>3 DEF IsCopy
  <2>2. /\ queue' = queue
        /\ \/ delayed' = delayed /\ dead' = dead \union {work[h]}
           \/ delayed' = delayed (+) One([work[h] EXCEPT !.retries = @ + 1]) /\ dead' = dead
    BY <1>4 DEF Catch
  <2>3. pc[h] # "idle"
    BY <1>4 DEF Catch
  <2> QED
    BY <1>1, <2>1, <2>2, <2>3, Put
<1>5. CASE ~(Deliver(h) \/ PublishPart(h) \/ Catch(h))
  <2>1. CASE Check(h) \/ Acquire(h) \/ Start(h) \/ Read(h) \/ Write(h)
    BY <1>1, <2>1 DEF Check, Acquire, Start, Read, Write, broker
  <2>2. CASE Commit(h) \/ Mark(h) \/ Fail(h) \/ Release(h)
    BY <1>1, <2>2 DEF Commit, Mark, Fail, Release, broker
  <2> QED
    BY <1>5, <2>1, <2>2 DEF HandlerStep, Handle
<1> QED
  BY <1>2, <1>3, <1>4, <1>5

\* A handler and its transaction, and what it has committed
LEMMA TxStep ==
    ASSUME BaseInv, NEW h \in Handlers, HandlerStep(h)
    PROVE  /\ IsChange(db') /\ IsChange(own'[h])
           /\ found'[h] \subseteq Groups
           /\ \/ db' = db
              \/ Commit(h) /\ db' = Plus(db, own[h])
<1>1. /\ IsChange(db) /\ IsChange(own[h]) /\ found[h] \subseteq Groups
  BY DEF BaseInv, TypeInv
<1>2. IsChange(NoChange)
  BY DEF IsChange, NoChange
<1>3. CASE Deliver(h) \/ Check(h) \/ Acquire(h) \/ Start(h) \/ PublishPart(h)
  BY <1>1, <1>3 DEF Deliver, Check, Acquire, Start, PublishPart, local
<1>4. CASE Mark(h) \/ Fail(h)
  BY <1>1, <1>2, <1>4 DEF Mark, Fail, Forget, BaseInv, TypeInv, IsFunction
<1>5. CASE Catch(h) \/ Release(h)
  BY <1>1, <1>5 DEF Catch, Release, local
<1>6. CASE Commit(h)
  BY <1>1, <1>2, <1>6, PlusType DEF Commit, BaseInv, TypeInv, IsFunction
<1>7. CASE Read(h)
  <2>1. Matched(h) \subseteq IF Head(todo[h]) = "affected" THEN Seats ELSE found[h]
    BY <1>1, <1>7, NextStatement, MatchType DEF Read, Matched, Reads
  <2>2. \A s \in Seats : GroupOf(s) \in Groups
    BY DEF GroupOf
  <2>3. /\ own' = own /\ db' = db
        /\ found'[h] = IF Head(todo[h]) = "affected" THEN {GroupOf(s) : s \in Matched(h)}
                       ELSE Matched(h)
    BY <1>7 DEF Read, BaseInv, TypeInv, IsFunction
  <2> QED
    BY <1>1, <2>1, <2>2, <2>3
<1>8. CASE Write(h)
  <2>1. IsChange(Effect(Head(todo[h]), Matched(h)))
    BY <1>1, <1>8, NextStatement, EffectType DEF Write, Matched
  <2>2. /\ db' = db /\ found' = found
        /\ own'[h] = Plus(own[h], Effect(Head(todo[h]), Matched(h)))
    BY <1>8 DEF Write, BaseInv, TypeInv, IsFunction
  <2> QED
    BY <1>1, <2>1, <2>2, PlusType
<1> QED
  BY <1>3, <1>4, <1>5, <1>6, <1>7, <1>8 DEF HandlerStep, Handle

\* A handler keeps its own invariant.
LEMMA HandlerInvStep ==
    ASSUME BaseInv, NEW h \in Handlers, HandlerStep(h)
    PROVE  HandlerInv(h)'
<1>1. HandlerInv(h) /\ sent' = sent /\ \A c : IsCopy(c)' <=> IsCopy(c)
  BY OwnState DEF BaseInv, IsCopy
<1>2. CASE Deliver(h)
  <2>1. PICK c \in BagToSet(queue) :
            \/ UNCHANGED <<pc, work>>
            \/ Valid(c.body) /\ work' = [work EXCEPT ![h] = c] /\ pc'[h] = "check"
    BY <1>2 DEF Deliver, Goto, BaseInv, TypeInv
  <2>2. /\ IsCopy(c) /\ own' = own /\ pc[h] = "idle" /\ own[h] = NoChange
        /\ found' = found /\ found[h] = {}
    BY <1>1, <1>2 DEF Deliver, local, BaseInv, TypeInv, HandlerInv
  <2> QED
    BY <1>1, <2>1, <2>2 DEF HandlerInv, BaseInv, TypeInv, IsFunction
<1>3. CASE Check(h) \/ Acquire(h)
  BY <1>1, <1>3 DEF Check, Acquire, Goto, Leave, local, HandlerInv, BaseInv, TypeInv
<1>4. CASE Catch(h) \/ Release(h)
  BY <1>1, <1>4 DEF Catch, Release, Goto, Leave, local, HandlerInv, BaseInv, TypeInv
<1>5. CASE Mark(h) \/ Fail(h)
  BY <1>1, <1>5 DEF Mark, Fail, Forget, Goto, HandlerInv, BaseInv, TypeInv, IsFunction
<1>6. CASE Start(h)
  <2> DEFINE b == work[h].body
  <2>1. /\ IsCopy(work[h]) /\ Valid(b) /\ own[h] = NoChange /\ own' = own /\ work' = work
        /\ pc[h] = "start" /\ found[h] = {} /\ found' = found
    BY <1>1, <1>6 DEF Start, HandlerInv
  <2>2. b.ids \in Seq(Ids(b)) /\ b.ids # <<>> /\ b.table \in Tables
    BY <2>1 DEF IsCopy, IsBody, Valid, Ids
  <2>3. /\ Chunks(b.ids, MaxIds) \in Seq(Seq(Ids(b))) /\ Chunks(b.ids, MaxIds) # <<>>
        /\ Chunks(b.ids, Chunk) \in Seq(Seq(Ids(b))) /\ Chunks(b.ids, Chunk) # <<>>
    BY <2>2, ChunksType
  <2>4. Script[b.table] \in Seq(Labels(Script[b.table]))
    BY <2>2, Scripts, SeqParts
  <2>5. \/ pc'[h] = "publish" /\ batches'[h] = Chunks(b.ids, MaxIds)
        \/ pc'[h] = "tx" /\ batches'[h] = Chunks(b.ids, Chunk) /\ todo'[h] = Script[b.table]
        \/ pc'[h] = "mark"
    BY <1>6 DEF Start, Goto, BaseInv, TypeInv, IsFunction
  <2> HIDE DEF b
  <2> QED
    BY <1>1, <2>1, <2>3, <2>4, <2>5 DEF HandlerInv, b
<1>7. CASE PublishPart(h) \/ Commit(h)
  <2>1. /\ batches[h] \in Seq(Seq(Ids(work[h].body))) /\ batches[h] # <<>>
        /\ IsCopy(work[h]) /\ Valid(work[h].body)
    BY <1>1, <1>7 DEF PublishPart, Commit, HandlerInv
  <2>2. Len(batches[h]) \in Nat \ {0}
        /\ Tail(batches[h]) \in Seq(Seq(Ids(work[h].body)))
        /\ (Len(batches[h]) # 1 => Tail(batches[h]) # <<>>)
    <3>1. PICK S, s : S = Seq(Ids(work[h].body)) /\ s = batches[h]
      OBVIOUS
    <3>2. s \in Seq(S) /\ s # <<>>
      BY <2>1, <3>1
    <3>3. Len(s) \in Nat \ {0} /\ Tail(s) \in Seq(S) /\ (Len(s) # 1 => Tail(s) # <<>>)
      <4>1. Len(s) \in Nat /\ Len(s) # 0
        BY <3>2
      <4>2. Tail(s) \in Seq(S) /\ Len(Tail(s)) = Len(s) - 1
        BY <3>2, SeqParts
      <4> QED
        BY <4>1, <4>2
    <3> QED
      BY <3>1, <3>3
  <2>3. CASE PublishPart(h)
    <3>1. /\ work' = work /\ own' = own /\ found' = found /\ pc[h] = "publish"
          /\ batches'[h] = Tail(batches[h])
          /\ pc'[h] = IF Len(batches[h]) = 1 THEN "mark" ELSE "publish"
      BY <2>3 DEF PublishPart, Goto, BaseInv, TypeInv, IsFunction
    <3> QED
      BY <1>1, <2>1, <2>2, <3>1 DEF HandlerInv
  <2>4. CASE Commit(h)
    <3>1. /\ work' = work /\ own'[h] = NoChange /\ found'[h] = {} /\ pc[h] = "tx"
          /\ batches'[h] = Tail(batches[h])
          /\ \/ Len(batches[h]) > 1 /\ pc' = pc
                /\ todo'[h] = Script[work[h].body.table]
             \/ Len(batches[h]) = 1 /\ pc'[h] = "mark"
      BY <2>4 DEF Commit, Goto, BaseInv, TypeInv, IsFunction
    <3>2. Script[work[h].body.table] \in Seq(Labels(Script[work[h].body.table]))
      BY <2>1, Scripts, SeqParts DEF Valid
    <3> QED
      <4>1. CASE pc'[h] = "mark"
        BY <1>1, <2>1, <3>1, <4>1 DEF HandlerInv
      <4>2. CASE pc'[h] # "mark"
        <5>1. /\ pc'[h] = "tx" /\ todo'[h] = Script[work[h].body.table]
              /\ Len(batches[h]) > 1
          BY <3>1, <4>2
        <5>2. Tail(batches[h]) # <<>>
          <6>1. PICK n, u : n = Len(batches[h]) /\ u = Tail(batches[h])
            OBVIOUS
          <6>2. n \in Nat /\ (n # 1 => u # <<>>) /\ n > 1
            BY <2>2, <5>1, <6>1
          <6>3. u # <<>>
            BY <6>2
          <6> QED
            BY <6>1, <6>3
        <5> QED
          BY <1>1, <2>1, <2>2, <3>1, <3>2, <5>1, <5>2 DEF HandlerInv
      <4> QED
        BY <4>1, <4>2
  <2> QED
    BY <1>7, <2>3, <2>4
<1>8. CASE Read(h) \/ Write(h)
  <2>1. /\ work' = work /\ batches' = batches /\ pc' = pc /\ InTx(h)
        /\ todo'[h] \in {<<>>, Tail(todo[h])}
    BY <1>8 DEF Read, Write, BaseInv, TypeInv, IsFunction
  <2>2. todo'[h] \in Seq(Labels(Script[work[h].body.table]))
    <3>1. \A S : <<>> \in Seq(S)
      OBVIOUS
    <3>2. Tail(todo[h]) \in Seq(Labels(Script[work[h].body.table]))
      BY <2>1, NextStatement
    <3> QED
      BY <2>1, <3>1, <3>2
  <2> QED
    BY <1>1, <2>1, <2>2 DEF HandlerInv, InTx
<1> QED
  BY <1>2, <1>3, <1>4, <1>5, <1>6, <1>7, <1>8 DEF HandlerStep, Handle

\* BaseInv is inductive.
LEMMA BaseStep == BaseInv /\ [Next]_vars => BaseInv'
<1> SUFFICES ASSUME BaseInv, [Next]_vars
             PROVE  BaseInv'
  OBVIOUS
<1>1. CASE OtherStep
  <2>1. UNCHANGED <<sent, processed, db, pc, work, local, raced, dead>>
    BY <1>1, Others DEF BaseInv
  <2>2. \A c : IsCopy(c)' <=> IsCopy(c)
    BY <2>1 DEF IsCopy
  <2>3. \A h \in Handlers : HandlerInv(h)'
    BY <2>1, <2>2 DEF BaseInv, HandlerInv, local
  <2>4. /\ IsABag(queue') /\ IsABag(delayed')
        /\ \A c \in BagToSet(queue') \union BagToSet(delayed') : IsCopy(c)
    <3>1. CASE DelayEnds
      <4>1. PICK c \in BagToSet(delayed) :
                delayed' = delayed (-) One(c) /\ queue' = queue (+) One(c)
        BY <3>1 DEF DelayEnds
      <4> QED
        BY <4>1, Put, Taken DEF BaseInv, TypeInv
    <3>2. CASE UNCHANGED <<queue, delayed>>
      BY <3>2 DEF BaseInv, TypeInv
    <3>3. CASE ~DelayEnds
      BY <1>1, <3>2, <3>3 DEF OtherStep, LockExpires, GroupEnds, PlanJoin, Join, vars, broker
    <3> QED
      BY <3>1, <3>3
  <2> QED
    BY <1>1, <2>1, <2>2, <2>3, <2>4, Others DEF BaseInv, TypeInv, local
<1>2. ASSUME NEW h \in Handlers, HandlerStep(h)
      PROVE  BaseInv'
  <2>1. sent' = sent /\ \A c : IsCopy(c)' <=> IsCopy(c)
    BY <1>2, OwnState DEF BaseInv, IsCopy
  <2>2. \A k \in Handlers \ {h} : HandlerInv(k)' /\ IsChange(own'[k]) /\ found'[k] \subseteq Groups
    BY <1>2, <2>1, OwnState DEF BaseInv, HandlerInv, TypeInv
  <2>3. TypeInv'
    BY <1>2, <2>1, <2>2, OwnState, BrokerStep, TxStep DEF BaseInv, TypeInv
  <2> QED
    BY <1>2, <2>2, <2>3, HandlerInvStep DEF BaseInv
<1> QED
  BY <1>1, <1>2, Steps
-----------------------------------------------------------------------------
(* Bookings that are deleted, and bookings that lose their clients. *)

OfClients == {"clients", "clientWorkspaces"}
OfOwners == {"companies", "workspaces"}

\* What the transactions of clients and of owners have yet to run
OnScript(h) ==
    pc[h] = "tx" =>
        /\ work[h].body.table \in OfClients =>
             todo[h] \in {Leaving, <<"leave", "emptied", "close", "closeEvents">>,
                          <<"emptied", "close", "closeEvents">>,
                          <<"close", "closeEvents">>, <<"closeEvents">>, <<>>}
        /\ work[h].body.table \in OfOwners =>
             todo[h] \in {Cascade, <<"groups", "events", "seats">>,
                          <<"events", "seats">>, <<"seats">>, <<>>}

\* What the transaction of h sees
View(h) == Plus(db, own[h])

Owned(g) == \E b \in BagToSet(sent) : b.table \in OfOwners /\ Names(b, g, db)

Gone(g, view) == \A e \in Events : GroupOf(e) = g => e \in view.deleted \union view.removed

TogetherInv ==
    /\ \A g \in Groups \intersect db.deleted : Owned(g) \/ Gone(g, db)
    /\ \A h \in Handlers : \A g \in Groups \intersect own[h].deleted :
        \/ Owned(g) \/ Gone(g, View(h))
        \/ todo[h] = <<"closeEvents">> /\ g \in found[h]

\* A transaction of owners deletes the bookings before it looks for seats of those
\* that are left.
OwnersInv(h) ==
    /\ pc[h] = "tx" /\ work[h].body.table \in OfOwners
    /\ todo[h] \in {<<"events", "seats">>, <<"seats">>}
    => \A g \in Groups : Names(Batch(h), g, db) => g \in View(h).deleted

\* The transaction has read the bookings it takes seats from, and will delete those it
\* has found empty.
LeaversInv(h) ==
    /\ TakenBy(own[h]) # {} => work[h].body.table \in OfClients
    /\ pc[h] = "tx" /\ work[h].body.table \in OfClients =>
        /\ found[h] \intersect now[h] = {}
        /\ todo[h] \in {Leaving, <<"leave", "emptied", "close", "closeEvents">>} =>
             TakenBy(own[h]) = {}
        /\ \A g \in TakenBy(own[h]) \ (raced \union View(h).deleted) :
             /\ todo[h] = <<"emptied", "close", "closeEvents">> => g \in found[h]
             /\ todo[h] = <<"close", "closeEvents">> =>
                  g \in found[h] \/ ~EmptyIn(g, View(h))
             /\ todo[h] \in {<<"closeEvents">>, <<>>} => ~EmptyIn(g, View(h))

\* A booking that has lost a seat is deleted, or somebody is left in it.
LostInv ==
    /\ \A g \in TakenBy(db) \ (db.deleted \union raced) : ~EmptyIn(g, db)
    /\ \A h, k \in Handlers : h # k => TakenBy(own[h]) \intersect TakenBy(own[k]) \subseteq raced

TxInv ==
    /\ TogetherInv /\ LostInv
    /\ \A h \in Handlers : OnScript(h) /\ OwnersInv(h) /\ LeaversInv(h)

\* A transaction runs its script from start to end, or stops at a read.
LEMMA OnScriptStep ==
    ASSUME BaseInv, NEW h \in Handlers, OnScript(h), HandlerStep(h)
    PROVE  OnScript(h)'
<1>1. CASE Read(h) \/ Write(h)
  <2>1. /\ work' = work /\ pc' = pc /\ InTx(h)
        /\ todo'[h] \in {<<>>, Tail(todo[h])}
    BY <1>1 DEF Read, Write, BaseInv, TypeInv, IsFunction
  <2>2. /\ Tail(Leaving) = <<"leave", "emptied", "close", "closeEvents">>
        /\ Tail(<<"leave", "emptied", "close", "closeEvents">>) =
               <<"emptied", "close", "closeEvents">>
        /\ Tail(<<"emptied", "close", "closeEvents">>) = <<"close", "closeEvents">>
        /\ Tail(<<"close", "closeEvents">>) = <<"closeEvents">>
        /\ Tail(<<"closeEvents">>) = <<>>
    BY DEF Leaving
  <2>3. /\ Tail(Cascade) = <<"groups", "events", "seats">>
        /\ Tail(<<"groups", "events", "seats">>) = <<"events", "seats">>
        /\ Tail(<<"events", "seats">>) = <<"seats">>
        /\ Tail(<<"seats">>) = <<>>
    BY DEF Cascade
  <2>4. CASE work[h].body.table \in OfClients
    BY <2>1, <2>2, <2>4, Zenon DEF OnScript, InTx, OfClients, OfOwners
  <2>5. CASE work[h].body.table \in OfOwners
    BY <2>1, <2>3, <2>5, Zenon DEF OnScript, InTx, OfClients, OfOwners
  <2> QED
    BY <2>1, <2>4, <2>5 DEF OnScript
<1>2. CASE Start(h) \/ Commit(h)
  <2>1. /\ work' = work
        /\ pc'[h] = "tx" => todo'[h] = Script[work[h].body.table]
    BY <1>2 DEF Start, Commit, Goto, BaseInv, TypeInv, IsFunction
  <2>2. /\ Script["clients"] = Leaving /\ Script["clientWorkspaces"] = Leaving
        /\ Script["companies"] = Cascade /\ Script["workspaces"] = Cascade
    BY DEF Script
  <2> QED
    BY <2>1, <2>2 DEF OnScript, OfClients, OfOwners
<1>3. CASE Deliver(h) \/ Check(h) \/ Acquire(h) \/ PublishPart(h)
  BY <1>3 DEF Deliver, Check, Acquire, PublishPart, Goto, Leave, OnScript, BaseInv, TypeInv
<1>4. CASE Mark(h) \/ Fail(h) \/ Catch(h) \/ Release(h)
  BY <1>4 DEF Mark, Fail, Catch, Release, Goto, Leave, OnScript, BaseInv, TypeInv
<1> QED
  BY <1>1, <1>2, <1>3, <1>4 DEF HandlerStep, Handle

\* The statements of the other tables delete neither bookings nor participants.
Plain ==
    {"hours", "removeOther", "unlink", "unlinkFuture", "removeHours", "removeFuture",
     "removeOtherThere", "removeEvents"}

\* The scripts of the other tables are made of them.
LEMMA PlainScripts ==
    ASSUME NEW t \in Tables \ (OfClients \union OfOwners)
    PROVE  Labels(Script[t]) \subseteq Plain
<1>1. /\ Labels(<<"removeOther", "unlink", "hours">>) \subseteq Plain
      /\ Labels(<<"unlinkFuture", "removeHours">>) \subseteq Plain
      /\ Labels(<<"removeFuture", "removeHours">>) \subseteq Plain
      /\ Labels(<<"removeOtherThere", "removeHours">>) \subseteq Plain
      /\ Labels(<<"removeEvents", "removeHours">>) \subseteq Plain
      /\ Labels(<<>>) \subseteq Plain
  BY DEF Labels, Plain
<1>2. /\ Script["users"] = <<"removeOther", "unlink", "hours">>
      /\ Script["byWorkspace"] = <<"unlinkFuture", "removeHours">>
      /\ Script["byWorkspaceHard"] = <<"removeFuture", "removeHours">>
      /\ Script["byUser"] = <<"removeOtherThere", "removeHours">>
      /\ Script["usersEventDeleteDefinitive"] = <<"removeEvents", "removeHours">>
      /\ Script["calendarEvents"] = <<>>
  BY DEF Script
<1>3. t \in {"users", "byWorkspace", "byWorkspaceHard", "byUser",
             "usersEventDeleteDefinitive", "calendarEvents"}
  BY DEF Tables, Script, OfClients, OfOwners
<1> QED
  BY <1>1, <1>2, <1>3

\* The company or workspace of a row does not change, and is that of its booking.
LEMMA OwnerNames ==
    ASSUME NEW b, b.table \in OfOwners, NEW x, NEW v, NEW w
    PROVE  /\ Names(b, x, v) <=> Names(b, x, w)
           /\ x \in Events \union Seats => (Names(b, x, v) <=> Names(b, GroupOf(x), v))
           /\ \A p : PartOf(p, b) /\ Names(p, x, v) => Names(b, x, v)
<1>1. /\ b.table \notin DOMAIN RelationColumn /\ b.table \notin OfUsers
      /\ b.table \in DOMAIN IdColumn /\ IdColumn[b.table] \in {"company", "workspace"}
  BY DEF OfOwners, RelationColumn, OfUsers, IdColumn
<1>2. \A y, z : Names(b, y, z) <=> Attr[y][IdColumn[b.table]] \in Ids(b)
  BY <1>1 DEF Names
<1>3. x \in Events \union Seats => Attr[x][IdColumn[b.table]] = Attr[GroupOf(x)][IdColumn[b.table]]
  BY <1>1 DEF GroupOf
<1>4. ASSUME NEW p, PartOf(p, b), Names(p, x, v)
      PROVE  Names(b, x, v)
  BY <1>1, <1>4 DEF PartOf, Names
<1> QED
  BY <1>2, <1>3, <1>4

\* A statement sees its own transaction's changes.
LEMMA WriteShape ==
    ASSUME BaseInv, NEW h \in Handlers, Write(h)
    PROVE  /\ db' = db /\ found' = found /\ InTx(h) /\ work' = work /\ pc' = pc
           /\ now' = now /\ batches' = batches
           /\ todo'[h] = Tail(todo[h])
           /\ Matched(h) = Match(Head(todo[h]), Batch(h), View(h), now[h], found[h])
           /\ own'[h].deleted = own[h].deleted \union
                  (IF Head(todo[h]) \in Unlinks \union Removes THEN {} ELSE Matched(h))
           /\ own'[h].removed = own[h].removed \union
                  (IF Head(todo[h]) \in Removes THEN Matched(h) ELSE {})
<1>1. own'[h] = Plus(own[h], Effect(Head(todo[h]), Matched(h)))
  BY DEF Write, BaseInv, TypeInv, IsFunction
<1>2. /\ own'[h].deleted = own[h].deleted \union Effect(Head(todo[h]), Matched(h)).deleted
      /\ own'[h].removed = own[h].removed \union Effect(Head(todo[h]), Matched(h)).removed
  BY <1>1, PlusType
<1>3. /\ Effect(Head(todo[h]), Matched(h)).deleted =
             IF Head(todo[h]) \in Unlinks \union Removes THEN {} ELSE Matched(h)
      /\ Effect(Head(todo[h]), Matched(h)).removed =
             IF Head(todo[h]) \in Removes THEN Matched(h) ELSE {}
  BY DEF Effect
<1>4. /\ db' = db /\ found' = found /\ InTx(h) /\ work' = work /\ pc' = pc
      /\ now' = now /\ batches' = batches
      /\ todo'[h] = Tail(todo[h])
      /\ Matched(h) = Match(Head(todo[h]), Batch(h), View(h), now[h], found[h])
  BY DEF Write, Matched, View, BaseInv, TypeInv, IsFunction
<1> QED
  BY <1>2, <1>3, <1>4

\* The statements of clients, and what each leaves to run
LEMMA ClientStatement ==
    ASSUME NEW h \in Handlers, OnScript(h), InTx(h), work[h].body.table \in OfClients
    PROVE  \/ /\ todo[h] = Leaving /\ Head(todo[h]) = "affected"
              /\ Tail(todo[h]) = <<"leave", "emptied", "close", "closeEvents">>
           \/ /\ todo[h] = <<"leave", "emptied", "close", "closeEvents">>
              /\ Head(todo[h]) = "leave"
              /\ Tail(todo[h]) = <<"emptied", "close", "closeEvents">>
           \/ /\ todo[h] = <<"emptied", "close", "closeEvents">>
              /\ Head(todo[h]) = "emptied" /\ Tail(todo[h]) = <<"close", "closeEvents">>
           \/ /\ todo[h] = <<"close", "closeEvents">>
              /\ Head(todo[h]) = "close" /\ Tail(todo[h]) = <<"closeEvents">>
           \/ /\ todo[h] = <<"closeEvents">>
              /\ Head(todo[h]) = "closeEvents" /\ Tail(todo[h]) = <<>>
<1>1. todo[h] \in {Leaving, <<"leave", "emptied", "close", "closeEvents">>,
                   <<"emptied", "close", "closeEvents">>,
                   <<"close", "closeEvents">>, <<"closeEvents">>}
  BY DEF OnScript, InTx
<1>2. CASE todo[h] = Leaving
  BY <1>2 DEF Leaving
<1>3. CASE todo[h] = <<"leave", "emptied", "close", "closeEvents">>
  BY <1>3
<1>4. CASE todo[h] = <<"emptied", "close", "closeEvents">>
  BY <1>4
<1>5. CASE todo[h] = <<"close", "closeEvents">>
  BY <1>5
<1>6. CASE todo[h] = <<"closeEvents">>
  BY <1>6
<1> QED
  BY <1>1, <1>2, <1>3, <1>4, <1>5, <1>6

\* The statements of owners, and what each leaves to run
LEMMA OwnerStatement ==
    ASSUME NEW h \in Handlers, OnScript(h), InTx(h), work[h].body.table \in OfOwners
    PROVE  \/ /\ todo[h] = Cascade /\ Head(todo[h]) = "hours"
              /\ Tail(todo[h]) = <<"groups", "events", "seats">>
           \/ /\ todo[h] = <<"groups", "events", "seats">>
              /\ Head(todo[h]) = "groups" /\ Tail(todo[h]) = <<"events", "seats">>
           \/ /\ todo[h] = <<"events", "seats">>
              /\ Head(todo[h]) = "events" /\ Tail(todo[h]) = <<"seats">>
           \/ /\ todo[h] = <<"seats">>
              /\ Head(todo[h]) = "seats" /\ Tail(todo[h]) = <<>>
<1>1. todo[h] \in {Cascade, <<"groups", "events", "seats">>, <<"events", "seats">>,
                   <<"seats">>}
  BY DEF OnScript, InTx
<1>2. CASE todo[h] = Cascade
  BY <1>2 DEF Cascade
<1>3. CASE todo[h] = <<"groups", "events", "seats">>
  BY <1>3
<1>4. CASE todo[h] = <<"events", "seats">>
  BY <1>4
<1>5. CASE todo[h] = <<"seats">>
  BY <1>5
<1> QED
  BY <1>1, <1>2, <1>3, <1>4, <1>5

\* Which rows a statement deletes, when it deletes any
LEMMA Deletes ==
    ASSUME NEW l, NEW b, NEW view, NEW ended, NEW groups \in SUBSET Groups
    PROVE  /\ l = "hours" => Match(l, b, view, ended, groups) \subseteq Hours
           /\ l = "groups" => Match(l, b, view, ended, groups) =
                 {g \in Groups : ActiveIn(g, view) /\ Names(b, g, view)}
           /\ l = "events" => Match(l, b, view, ended, groups) \subseteq Events
           /\ l = "seats" => Match(l, b, view, ended, groups) \subseteq
                 {s \in Seats : Names(b, s, view) /\ ActiveIn(GroupOf(s), view)}
           /\ l \in {"leave", "affected"} => Match(l, b, view, ended, groups) =
                 {s \in Seats : /\ Names(b, s, view) /\ ActiveIn(s, view)
                                /\ ActiveIn(GroupOf(s), view) /\ GroupOf(s) \notin ended}
           /\ l = "emptied" => Match(l, b, view, ended, groups) =
                 {g \in groups : ActiveIn(g, view) /\ g \notin ended /\ EmptyIn(g, view)}
           /\ l = "close" => Match(l, b, view, ended, groups) =
                 {g \in groups : ActiveIn(g, view)}
           /\ l = "closeEvents" => Match(l, b, view, ended, groups) =
                 {e \in Events : GroupOf(e) \in groups /\ ActiveIn(e, view)}
<1>1. CASE l = "hours" \/ l = "groups" \/ l = "events"
  BY <1>1 DEF Match, ActiveIn
<1>2. CASE l = "seats" \/ l = "leave" \/ l = "affected"
  BY <1>2 DEF Match, ActiveIn
<1>3. CASE l = "emptied" \/ l = "close" \/ l = "closeEvents"
  BY <1>3 DEF Match
<1> QED
  BY <1>1, <1>2, <1>3

\* A booking, an event of it, is active unless it was deleted.
LEMMA ActiveRows ==
    ASSUME NEW view, IsChange(view)
    PROVE  /\ \A g \in Groups : ActiveIn(g, view) <=> g \notin view.deleted
           /\ \A e \in Events : ActiveIn(e, view) <=> e \notin view.deleted \union view.removed
           /\ \A s \in Seats : ActiveIn(s, view) <=> s \notin view.deleted \union Absent
BY DEF ActiveIn, IsChange, Absent

\* What the others see only grows when a handler steps.
LEMMA Grows ==
    ASSUME BaseInv, NEW h \in Handlers, HandlerStep(h), NEW k \in Handlers \ {h}
    PROVE  /\ db.deleted \subseteq db'.deleted /\ db.removed \subseteq db'.removed
           /\ View(k)'.deleted = db'.deleted \union own[k].deleted
           /\ View(k)'.removed = db'.removed \union own[k].removed
           /\ View(k).deleted = db.deleted \union own[k].deleted
           /\ View(k).removed = db.removed \union own[k].removed
<1>1. own'[k] = own[k]
  BY OwnState DEF BaseInv
<1>2. /\ View(k).deleted = db.deleted \union own[k].deleted
      /\ View(k).removed = db.removed \union own[k].removed
  BY PlusType DEF View
<1>3. /\ View(k)'.deleted = db'.deleted \union own'[k].deleted
      /\ View(k)'.removed = db'.removed \union own'[k].removed
  BY PlusType DEF View
<1>4. db.deleted \subseteq db'.deleted /\ db.removed \subseteq db'.removed
  BY TxStep, PlusType
<1> QED
  BY <1>1, <1>2, <1>3, <1>4

\* Only a write adds to what its transaction changes.
LEMMA OwnKept ==
    ASSUME BaseInv, NEW h \in Handlers, HandlerStep(h), ~Write(h)
    PROVE  (own'[h] = own[h] \/ own'[h] = NoChange) /\ raced' = raced
<1>1. CASE Deliver(h) \/ Check(h) \/ Acquire(h) \/ Start(h) \/ PublishPart(h) \/ Read(h)
  BY <1>1 DEF Deliver, Check, Acquire, Start, PublishPart, Read, local
<1>2. CASE Commit(h) \/ Mark(h) \/ Fail(h) \/ Catch(h) \/ Release(h)
  BY <1>2 DEF Commit, Mark, Fail, Catch, Release, Forget, local, BaseInv, TypeInv, IsFunction
<1> QED
  BY <1>1, <1>2 DEF HandlerStep, Handle

\* TogetherInv is kept.
LEMMA TogetherStep ==
    ASSUME BaseInv, TogetherInv, NEW h \in Handlers, OnScript(h), HandlerStep(h)
    PROVE  TogetherInv'
<1>1. \A g : Owned(g)' <=> Owned(g)
  BY OwnState, OwnerNames DEF Owned, BaseInv
<1>2. /\ db.deleted \subseteq db'.deleted /\ db.removed \subseteq db'.removed
      /\ \/ db' = db
         \/ Commit(h) /\ db' = View(h) /\ todo[h] = <<>>
  BY TxStep, PlusType DEF View, Commit
<1>3. \A g \in Groups \intersect db'.deleted : (Owned(g) \/ Gone(g, db))'
  <2>1. CASE db' = db
    BY <1>1, <2>1 DEF TogetherInv, Gone
  <2>2. CASE Commit(h) /\ db' = View(h) /\ todo[h] = <<>>
    <3>1. db'.deleted = db.deleted \union own[h].deleted
      BY <2>2, PlusType DEF View
    <3> QED
      BY <1>1, <1>2, <2>2, <3>1 DEF TogetherInv, Gone
  <2> QED
    BY <1>2, <2>1, <2>2
<1>4. ASSUME NEW k \in Handlers \ {h}, NEW g \in Groups \intersect own'[k].deleted
      PROVE  \/ Owned(g)' \/ Gone(g, View(k))'
             \/ todo'[k] = <<"closeEvents">> /\ g \in found'[k]
  <2>1. /\ own'[k] = own[k] /\ todo'[k] = todo[k] /\ found'[k] = found[k]
    BY OwnState DEF BaseInv
  <2>2. Gone(g, View(k)) => Gone(g, View(k))'
    BY Grows DEF Gone
  <2> QED
    BY <1>1, <1>4, <2>1, <2>2 DEF TogetherInv
<1>5. ASSUME NEW g \in Groups \intersect own'[h].deleted
      PROVE  \/ Owned(g)' \/ Gone(g, View(h))'
             \/ todo'[h] = <<"closeEvents">> /\ g \in found'[h]
  <2>1. CASE Write(h)
    <3>1. /\ View(h)'.deleted = db.deleted \union own'[h].deleted
          /\ View(h)'.removed = db.removed \union own'[h].removed
          /\ View(h).deleted = db.deleted \union own[h].deleted
          /\ View(h).removed = db.removed \union own[h].removed
          /\ IsChange(View(h))
      BY <2>1, WriteShape, PlusType DEF View, BaseInv, TypeInv
    <3>2. Gone(g, View(h)) => Gone(g, View(h))'
      BY <2>1, <3>1, WriteShape DEF Gone
    <3>3. CASE g \in own[h].deleted /\ todo[h] # <<"closeEvents">>
      BY <1>1, <3>2, <3>3 DEF TogetherInv
    <3>4. CASE g \notin own[h].deleted
      <4>1. g \in Matched(h) /\ Head(todo[h]) \notin Unlinks \union Removes
        BY <2>1, <3>4, WriteShape
      <4>2. CASE work[h].body.table \in OfClients
        <5>1. /\ Head(todo[h]) \in {"leave", "close", "closeEvents"}
              /\ Head(todo[h]) = "close" => Tail(todo[h]) = <<"closeEvents">>
          BY <2>1, <4>2, ClientStatement, WriteShape DEF Write, Reads
        <5>2. Head(todo[h]) = "close" /\ g \in found[h]
          BY <2>1, <4>1, <5>1, WriteShape, Deletes DEF BaseInv, TypeInv
        <5> QED
          BY <2>1, <5>1, <5>2, WriteShape
      <4>3. CASE work[h].body.table \in OfOwners
        <5>1. Head(todo[h]) \in {"hours", "groups", "events", "seats"}
          BY <2>1, <4>3, OwnerStatement, WriteShape
        <5>2. Names(Batch(h), g, View(h))
          BY <2>1, <4>1, <5>1, WriteShape, Deletes DEF BaseInv, TypeInv
        <5>3. Owned(g)
          <6>1. IsCopy(work[h]) /\ PartOf(Batch(h), work[h].body)
            BY <2>1, BatchIsCopy DEF Write, InTx, BaseInv, HandlerInv
          <6>2. PICK b \in BagToSet(sent) : PartOf(work[h].body, b)
            BY <6>1 DEF IsCopy
          <6>3. PartOf(Batch(h), b) /\ b.table \in OfOwners
            BY <4>3, <6>1, <6>2 DEF PartOf
          <6> QED
            BY <5>2, <6>3, OwnerNames DEF Owned
        <5> QED
          BY <1>1, <5>3
      <4>4. CASE work[h].body.table \notin OfClients \union OfOwners
        <5>1. Head(todo[h]) \in Plain
          BY <2>1, <4>4, NextStatement, PlainScripts, WriteShape
             DEF BaseInv, HandlerInv, InTx, Valid
        <5>2. Head(todo[h]) = "hours"
          BY <4>1, <5>1 DEF Plain, Unlinks, Removes
        <5> QED
          BY <2>1, <4>1, <5>2, WriteShape, Deletes DEF BaseInv, TypeInv
      <4> QED
        BY <4>2, <4>3, <4>4
    <3>5. CASE g \in own[h].deleted /\ todo[h] = <<"closeEvents">>
      <4>1. Head(todo[h]) = "closeEvents"
        BY <3>5
      <4>2. Matched(h) = {e \in Events : GroupOf(e) \in found[h] /\ ActiveIn(e, View(h))}
        BY <2>1, <4>1, WriteShape, Deletes DEF BaseInv, TypeInv
      <4>3. g \in found[h] => Gone(g, View(h))'
        BY <2>1, <3>1, <4>1, <4>2, WriteShape, ActiveRows DEF Gone, Unlinks, Removes
      <4> QED
        BY <1>1, <3>2, <3>5, <4>3 DEF TogetherInv
    <3> QED
      BY <3>3, <3>4, <3>5
  <2>2. CASE ~Write(h)
    <3>1. own'[h] = own[h] \/ own'[h] = NoChange
      BY <2>2, OwnKept
    <3>2. own'[h] = own[h] /\ g \in own[h].deleted /\ pc[h] = "tx"
      BY <1>5, <3>1 DEF NoChange, BaseInv, HandlerInv
    <3>3. CASE Read(h)
      <4>1. Owned(g) \/ Gone(g, View(h))
        BY <3>2, <3>3 DEF Read, Reads, TogetherInv
      <4> QED
        BY <1>1, <1>2, <3>2, <3>3, <4>1 DEF Read, View, Gone
    <3>4. CASE ~Read(h)
      <4>1. FALSE
        <5>1. Commit(h) \/ Fail(h)
          BY <2>2, <3>2, <3>4 DEF HandlerStep, Handle, Deliver, Check, Acquire, Start,
             PublishPart, Mark, Catch, Release
        <5> QED
          BY <1>5, <5>1 DEF Commit, Fail, Forget, NoChange, BaseInv, TypeInv, IsFunction
      <4> QED
        BY <4>1
    <3> QED
      BY <3>3, <3>4
  <2> QED
    BY <2>1, <2>2
<1> QED
  BY <1>3, <1>4, <1>5 DEF TogetherInv

\* A step that leaves a transaction at a statement is a read or a write of it, or
\* begins one.
LEMMA TxSteps ==
    ASSUME BaseInv, NEW h \in Handlers, HandlerStep(h), pc'[h] = "tx"
    PROVE  \/ Read(h) \/ Write(h)
           \/ /\ Start(h) \/ Commit(h)
              /\ work' = work /\ found'[h] = {} /\ own'[h] = NoChange /\ raced' = raced
              /\ todo'[h] = Script[work[h].body.table]
<1>1. CASE Deliver(h) \/ Check(h) \/ Acquire(h) \/ PublishPart(h)
  BY <1>1 DEF Deliver, Check, Acquire, PublishPart, Goto, Leave, BaseInv, TypeInv
<1>2. CASE Mark(h) \/ Fail(h) \/ Catch(h) \/ Release(h)
  BY <1>2 DEF Mark, Fail, Catch, Release, Goto, Leave, BaseInv, TypeInv
<1>3. CASE Start(h)
  BY <1>3 DEF Start, Goto, BaseInv, TypeInv, IsFunction, HandlerInv
<1>4. CASE Commit(h)
  BY <1>4 DEF Commit, Goto, BaseInv, TypeInv, IsFunction
<1> QED
  BY <1>1, <1>2, <1>3, <1>4 DEF HandlerStep, Handle

\* OwnersInv is kept by the steps of its own handler.
LEMMA OwnersStep ==
    ASSUME BaseInv, NEW h \in Handlers, OnScript(h), OwnersInv(h), HandlerStep(h)
    PROVE  OwnersInv(h)'
<1> SUFFICES ASSUME (pc[h] = "tx")', (work[h].body.table \in OfOwners)',
                    (todo[h] \in {<<"events", "seats">>, <<"seats">>})'
             PROVE  (\A g \in Groups : Names(Batch(h), g, db) => g \in View(h).deleted)'
  BY DEF OwnersInv
<1>1. Write(h) /\ work[h].body.table \in OfOwners
  <2>1. CASE Read(h)
    <3>1. work' = work /\ InTx(h) /\ Head(todo[h]) \in {"affected", "emptied"}
      BY <2>1 DEF Read, Reads
    <3> QED
      BY <3>1, OwnerStatement
  <2>2. CASE Write(h)
    BY <2>2, WriteShape
  <2>3. CASE todo'[h] = Script[work[h].body.table] /\ work' = work
    <3>1. todo'[h] = Cascade
      BY <2>3 DEF OfOwners, Script
    <3> QED
      BY <3>1 DEF Cascade
  <2> QED
    BY <2>1, <2>2, <2>3, TxSteps
<1>2. /\ Batch(h)' = Batch(h) /\ Batch(h).table \in OfOwners
      /\ IsChange(View(h))
      /\ View(h)'.deleted = View(h).deleted \union
             (IF Head(todo[h]) \in Unlinks \union Removes THEN {} ELSE Matched(h))
  <2>1. Batch(h).table \in OfOwners
    BY <1>1, BatchIsCopy, WriteShape DEF InTx, BaseInv, HandlerInv, PartOf
  <2>2. Batch(h)' = Batch(h)
    BY <1>1, WriteShape DEF Batch
  <2>3. IsChange(View(h)) /\ View(h).deleted = db.deleted \union own[h].deleted
    BY PlusType DEF View, BaseInv, TypeInv
  <2>4. View(h)'.deleted = db'.deleted \union own'[h].deleted
    BY PlusType DEF View
  <2> QED
    BY <1>1, <2>1, <2>2, <2>3, <2>4, WriteShape
<1>3. \A g \in Groups : Names(Batch(h), g, db') <=> Names(Batch(h), g, View(h))
  BY <1>2, OwnerNames
<1>4. ASSUME NEW g \in Groups, Names(Batch(h), g, db')
      PROVE  g \in View(h)'.deleted
  <2>1. CASE Head(todo[h]) = "groups"
    <3>1. Matched(h) = {x \in Groups : ActiveIn(x, View(h)) /\ Names(Batch(h), x, View(h))}
      BY <1>1, <2>1, WriteShape, Deletes DEF BaseInv, TypeInv
    <3>2. "groups" \notin Unlinks \union Removes
      BY DEF Unlinks, Removes
    <3>3. ActiveIn(g, View(h)) <=> g \notin View(h).deleted
      BY <1>2, ActiveRows
    <3> QED
      BY <1>2, <1>3, <1>4, <2>1, <3>1, <3>2, <3>3
  <2>2. CASE todo[h] \in {<<"events", "seats">>, <<"seats">>}
    <3>1. Names(Batch(h), g, db)
      BY <1>2, <1>4, OwnerNames
    <3> QED
      BY <1>1, <1>2, <2>2, <3>1, WriteShape DEF OwnersInv, InTx
  <2>3. CASE todo[h] = Cascade /\ todo'[h] = <<"groups", "events", "seats">>
    BY <2>3
  <2> QED
    BY <1>1, <2>1, <2>2, <2>3, OwnerStatement, WriteShape
<1> QED
  BY <1>2, <1>4

\* Only "leave" takes seats from bookings that a transaction has not deleted.
LEMMA TakenStep ==
    ASSUME BaseInv, NEW h \in Handlers, OnScript(h), OwnersInv(h), Write(h)
    PROVE  /\ TakenBy(own[h]) \subseteq TakenBy(own'[h])
           /\ Head(todo[h]) # "leave" => TakenBy(own'[h]) = TakenBy(own[h])
           /\ Head(todo[h]) = "leave" => work[h].body.table \in OfClients
           /\ raced \subseteq raced'
           /\ \A g \in TakenBy(own'[h]) \ TakenBy(own[h]) :
                /\ Head(todo[h]) = "leave" /\ g \notin found[h] => g \in raced'
                /\ \A k \in Handlers \ {h} : g \in TakenBy(own[k]) => g \in raced'
<1> DEFINE change == Effect(Head(todo[h]), Matched(h))
<1>1. own'[h].deleted = own[h].deleted \union change.deleted
  BY PlusType DEF Write, BaseInv, TypeInv, IsFunction
<1>2. TakenBy(own'[h]) = TakenBy(own[h]) \union TakenBy(change)
  BY <1>1 DEF TakenBy
<1>3. raced' = raced \union {g \in TakenBy(change) :
                \/ Head(todo[h]) = "leave" /\ g \notin found[h]
                \/ \E k \in Handlers \ {h} : g \in TakenBy(own[k])}
  BY DEF Write
<1>4. /\ Head(todo[h]) # "leave" => change.deleted \intersect Seats = {}
      /\ Head(todo[h]) = "leave" => work[h].body.table \in OfClients
  <2>1. /\ InTx(h) /\ found[h] \subseteq Groups /\ IsChange(View(h))
        /\ Matched(h) = Match(Head(todo[h]), Batch(h), View(h), now[h], found[h])
        /\ change.deleted = IF Head(todo[h]) \in Unlinks \union Removes THEN {} ELSE Matched(h)
    BY WriteShape, PlusType DEF BaseInv, TypeInv, View, Effect
  <2> HIDE DEF change
  <2>2. CASE work[h].body.table \in OfClients
    <3>1. Head(todo[h]) \in {"leave", "close", "closeEvents"}
      BY <2>1, <2>2, ClientStatement DEF Write, Reads
    <3>2. Head(todo[h]) # "leave" => Matched(h) \subseteq Groups \union Events
      BY <2>1, <3>1, Deletes
    <3> QED
      BY <2>1, <2>2, <3>2
  <2>3. CASE work[h].body.table \in OfOwners
    <3>1. \/ Head(todo[h]) \in {"hours", "groups", "events"}
          \/ Head(todo[h]) = "seats" /\ todo[h] = <<"seats">>
      BY <2>1, <2>3, OwnerStatement
    <3>2. CASE Head(todo[h]) \in {"hours", "groups", "events"}
      BY <2>1, <3>2, Deletes
    <3>3. CASE Head(todo[h]) = "seats" /\ todo[h] = <<"seats">>
      <4>1. Matched(h) \subseteq
                {s \in Seats : Names(Batch(h), s, View(h)) /\ ActiveIn(GroupOf(s), View(h))}
        BY <2>1, <3>3, Deletes
      <4>2. Batch(h).table \in OfOwners
        BY <2>1, <2>3, BatchIsCopy DEF InTx, BaseInv, HandlerInv, PartOf
      <4>3. ASSUME NEW s \in Matched(h) PROVE FALSE
        <5>1. s \in Seats /\ GroupOf(s) \in Groups
          BY <4>1, <4>3 DEF GroupOf
        <5>2. Names(Batch(h), GroupOf(s), View(h))
          BY <4>1, <4>2, <4>3, <5>1, OwnerNames
        <5>3. Names(Batch(h), GroupOf(s), db)
          BY <4>2, <5>2, OwnerNames
        <5>4. GroupOf(s) \in View(h).deleted
          BY <2>1, <2>3, <3>3, <5>1, <5>3 DEF OwnersInv, InTx
        <5> QED
          BY <2>1, <4>1, <4>3, <5>1, <5>4, ActiveRows
      <4> QED
        BY <2>1, <3>3, <4>3
    <3> QED
      BY <3>1, <3>2, <3>3
  <2>4. CASE work[h].body.table \notin OfClients \union OfOwners
    <3>1. Head(todo[h]) \in Plain
      BY <2>1, <2>4, NextStatement, PlainScripts DEF BaseInv, HandlerInv, InTx, Valid
    <3>2. Head(todo[h]) # "leave"
          /\ (Head(todo[h]) = "hours" \/ Head(todo[h]) \in Unlinks \union Removes)
      BY <3>1 DEF Plain, Unlinks, Removes
    <3>3. Head(todo[h]) = "hours" => Matched(h) \subseteq Hours
      BY <2>1, Deletes
    <3> QED
      BY <2>1, <3>2, <3>3
  <2> QED
    BY <2>2, <2>3, <2>4
<1>5. Head(todo[h]) # "leave" => TakenBy(change) = {}
  BY <1>4 DEF TakenBy
<1> HIDE DEF change
<1> QED
  BY <1>2, <1>3, <1>4, <1>5

\* Whoever took no seat from a booking deleted none of it.
LEMMA TakenSeats ==
    ASSUME NEW c, NEW s \in Seats, GroupOf(s) \notin TakenBy(c)
    PROVE  s \notin c.deleted
BY DEF TakenBy

\* LeaversInv is kept by the steps of its own handler.
LEMMA LeaversStep ==
    ASSUME BaseInv, NEW h \in Handlers, OnScript(h), OwnersInv(h), LeaversInv(h),
           HandlerStep(h)
    PROVE  LeaversInv(h)'
<1>1. TakenBy(own'[h]) # {} => work'[h].body.table \in OfClients
  <2>1. TakenBy(NoChange) = {}
    BY DEF TakenBy, NoChange
  <2>2. CASE Write(h)
    BY <2>2, TakenStep, WriteShape DEF LeaversInv
  <2>3. CASE ~Write(h) /\ TakenBy(own'[h]) # {}
    <3>1. own'[h] = own[h] /\ TakenBy(own[h]) # {} /\ pc[h] = "tx"
      BY <2>1, <2>3, OwnKept DEF BaseInv, HandlerInv
    <3>2. work' = work
      BY <3>1 DEF HandlerStep, Handle, Deliver, Check, Acquire, Start, PublishPart, Read,
         Write, Commit, Mark, Fail, Catch, Release, Leave, BaseInv, TypeInv
    <3> QED
      BY <3>1, <3>2 DEF LeaversInv
  <2> QED
    BY <2>2, <2>3
<1>2. ASSUME pc'[h] = "tx", work'[h].body.table \in OfClients
      PROVE  /\ found'[h] \intersect now'[h] = {}
             /\ todo'[h] \in {Leaving, <<"leave", "emptied", "close", "closeEvents">>} =>
                  TakenBy(own'[h]) = {}
             /\ \A g \in TakenBy(own'[h]) \ (raced' \union View(h)'.deleted) :
                  /\ todo'[h] = <<"emptied", "close", "closeEvents">> => g \in found'[h]
                  /\ todo'[h] = <<"close", "closeEvents">> =>
                       g \in found'[h] \/ ~EmptyIn(g, View(h))'
                  /\ todo'[h] \in {<<"closeEvents">>, <<>>} => ~EmptyIn(g, View(h))'
  <2>1. CASE /\ found'[h] = {} /\ own'[h] = NoChange
    BY <2>1 DEF TakenBy, NoChange
  <2>2. CASE Read(h) \/ Write(h)
    <3>1. /\ InTx(h) /\ work' = work /\ now' = now /\ db' = db /\ join' = join
          /\ work[h].body.table \in OfClients /\ Absent' \subseteq Absent
      BY <1>2, <2>2 DEF Read, Write, world, Absent
    <3>2. /\ found[h] \intersect now[h] = {} /\ found[h] \subseteq Groups
          /\ todo[h] \in {Leaving, <<"leave", "emptied", "close", "closeEvents">>} =>
               TakenBy(own[h]) = {}
          /\ \A g \in TakenBy(own[h]) \ (raced \union View(h).deleted) :
               /\ todo[h] = <<"emptied", "close", "closeEvents">> => g \in found[h]
               /\ todo[h] = <<"close", "closeEvents">> =>
                    g \in found[h] \/ ~EmptyIn(g, View(h))
               /\ todo[h] \in {<<"closeEvents">>, <<>>} => ~EmptyIn(g, View(h))
      BY <3>1 DEF LeaversInv, InTx, BaseInv, TypeInv
    <3>3. /\ IsChange(View(h)) /\ IsChange(View(h)')
          /\ View(h).deleted = db.deleted \union own[h].deleted
          /\ View(h)'.deleted = db'.deleted \union own'[h].deleted
      <4>1. IsChange(db') /\ IsChange(own'[h])
        BY TxStep
      <4> QED
        BY <4>1, PlusType DEF View, BaseInv, TypeInv
    <3>4. TakenBy(own[h]) \subseteq Groups
      BY DEF TakenBy, GroupOf
    <3>5. CASE Read(h)
      <4>1. /\ own' = own /\ raced' = raced /\ View(h)' = View(h)
            /\ Matched(h) = Match(Head(todo[h]), Batch(h), View(h), now[h], found[h])
            /\ Head(todo[h]) \in {"affected", "emptied"}
        BY <3>5 DEF Read, Reads, Matched, View
      <4>2. \A g : ~EmptyIn(g, View(h)) => ~EmptyIn(g, View(h))'
        BY <3>1, <3>3, <4>1 DEF EmptyIn, ActiveIn
      <4>3. CASE Head(todo[h]) = "affected"
        <5>1. /\ TakenBy(own'[h]) = {}
              /\ todo'[h] \in {<<>>, <<"leave", "emptied", "close", "closeEvents">>}
              /\ found'[h] = {GroupOf(s) : s \in Matched(h)}
          <6>1. todo[h] = Leaving /\ Tail(todo[h]) = <<"leave", "emptied", "close", "closeEvents">>
            BY <3>1, <4>3, ClientStatement
          <6> QED
            BY <3>2, <3>5, <4>1, <4>3, <6>1 DEF Read, BaseInv, TypeInv, IsFunction
        <5>2. \A s \in Matched(h) : GroupOf(s) \notin now[h]
          BY <3>2, <4>1, <4>3, Deletes
        <5> QED
          BY <3>1, <5>1, <5>2
      <4>4. CASE Head(todo[h]) = "emptied"
        <5>1. /\ todo[h] = <<"emptied", "close", "closeEvents">>
              /\ found'[h] = Matched(h)
              /\ todo'[h] = IF Matched(h) = {} THEN <<>> ELSE <<"close", "closeEvents">>
          <6>1. /\ todo[h] = <<"emptied", "close", "closeEvents">>
                /\ Tail(todo[h]) = <<"close", "closeEvents">>
            BY <3>1, <4>4, ClientStatement
          <6> QED
            BY <3>5, <4>4, <6>1 DEF Read, BaseInv, TypeInv, IsFunction
        <5>2. Matched(h) = {g \in found[h] : /\ ActiveIn(g, View(h)) /\ g \notin now[h]
                                             /\ EmptyIn(g, View(h))}
          BY <3>2, <4>1, <4>4, Deletes
        <5>3. ASSUME NEW g \in TakenBy(own'[h]) \ (raced' \union View(h)'.deleted)
              PROVE  g \in found'[h] \/ ~EmptyIn(g, View(h))'
          <6>1. /\ g \in TakenBy(own[h]) \ (raced \union View(h).deleted)
                /\ g \in found[h] /\ g \notin now[h]
            BY <3>2, <4>1, <5>1, <5>3
          <6>2. ActiveIn(g, View(h))
            BY <3>3, <3>4, <6>1, ActiveRows
          <6> QED
            BY <4>2, <5>1, <5>2, <6>1, <6>2
        <5>4. /\ todo'[h] \in {<<"close", "closeEvents">>, <<>>}
              /\ todo'[h] = <<>> => found'[h] = {}
          BY <5>1
        <5>5. /\ <<"close", "closeEvents">> # Leaving
              /\ <<"close", "closeEvents">> # <<"leave", "emptied", "close", "closeEvents">>
              /\ <<"close", "closeEvents">> # <<"emptied", "close", "closeEvents">>
              /\ <<"close", "closeEvents">> # <<"closeEvents">>
              /\ <<"close", "closeEvents">> # <<>>
          BY DEF Leaving
        <5>6. /\ <<>> # Leaving /\ <<>> # <<"leave", "emptied", "close", "closeEvents">>
              /\ <<>> # <<"emptied", "close", "closeEvents">>
          BY DEF Leaving
        <5>7. found'[h] \intersect now'[h] = {}
          BY <3>1, <5>1, <5>2
        <5> QED
          BY <5>3, <5>4, <5>5, <5>6, <5>7
      <4> QED
        BY <4>1, <4>3, <4>4
    <3>6. CASE Write(h)
      <4>1. /\ found' = found /\ todo'[h] = Tail(todo[h])
            /\ View(h).deleted \subseteq View(h)'.deleted
            /\ raced \subseteq raced'
        BY <3>3, <3>6, WriteShape, TakenStep
      <4>2. CASE Head(todo[h]) = "leave"
        <5>1. /\ todo'[h] = <<"emptied", "close", "closeEvents">> /\ TakenBy(own[h]) = {}
          BY <3>1, <3>2, <4>1, <4>2, ClientStatement
        <5>2. \A g \in TakenBy(own'[h]) \ raced' : g \in found'[h]
          BY <3>6, <4>1, <4>2, <5>1, TakenStep
        <5>3. /\ <<"emptied", "close", "closeEvents">> # Leaving
              /\ <<"emptied", "close", "closeEvents">> # <<"leave", "emptied", "close", "closeEvents">>
              /\ <<"emptied", "close", "closeEvents">> # <<"close", "closeEvents">>
              /\ <<"emptied", "close", "closeEvents">> # <<"closeEvents">>
              /\ <<"emptied", "close", "closeEvents">> # <<>>
          BY DEF Leaving
        <5> QED
          BY <3>1, <3>2, <4>1, <5>1, <5>2, <5>3
      <4>3. CASE Head(todo[h]) # "leave"
        <5>1. TakenBy(own'[h]) = TakenBy(own[h])
          BY <3>6, <4>3, TakenStep
        <5>2. \/ /\ todo[h] = <<"close", "closeEvents">> /\ Head(todo[h]) = "close"
                 /\ todo'[h] = <<"closeEvents">>
              \/ /\ todo[h] = <<"closeEvents">> /\ todo'[h] = <<>>
          BY <3>1, <3>6, <4>1, <4>3, ClientStatement DEF Write, Reads
        <5>3. ASSUME NEW g, ~EmptyIn(g, View(h)) PROVE ~EmptyIn(g, View(h))'
          <6>1. \A s \in Seats : s \in own'[h].deleted => s \in own[h].deleted
            <7>1. Matched(h) \subseteq Groups \union Events
              <8>1. Head(todo[h]) \in {"close", "closeEvents"}
                BY <5>2
              <8> QED
                BY <3>2, <3>6, <8>1, WriteShape, Deletes
            <7> QED
              BY <3>6, <7>1, WriteShape
          <6>2. \A s \in Seats : s \in View(h)'.deleted => s \in View(h).deleted
            BY <3>1, <3>3, <6>1
          <6>3. PICK s \in Seats : GroupOf(s) = g /\ ActiveIn(s, View(h))
            BY <5>3 DEF EmptyIn
          <6>4. s \notin View(h)'.deleted /\ s \notin View(h)'.removed /\ s \notin Absent'
            BY <3>1, <3>3, <6>2, <6>3 DEF ActiveIn, IsChange
          <6> QED
            BY <6>3, <6>4 DEF EmptyIn, ActiveIn
        <5>4. ASSUME NEW g \in TakenBy(own'[h]) \ (raced' \union View(h)'.deleted)
              PROVE  ~EmptyIn(g, View(h))'
          <6>1. g \in TakenBy(own[h]) \ (raced \union View(h).deleted) /\ g \in Groups
            BY <3>4, <4>1, <5>1, <5>4
          <6>2. CASE todo[h] = <<"closeEvents">>
            BY <3>2, <5>3, <6>1, <6>2
          <6>3. CASE todo[h] = <<"close", "closeEvents">> /\ Head(todo[h]) = "close"
            <7>1. Matched(h) = {x \in found[h] : ActiveIn(x, View(h))}
              BY <3>2, <3>6, <6>3, WriteShape, Deletes
            <7>2. own'[h].deleted = own[h].deleted \union Matched(h)
              BY <3>6, <6>3, WriteShape DEF Unlinks, Removes
            <7>3. ActiveIn(g, View(h))
              BY <3>3, <6>1, ActiveRows
            <7>4. g \notin found[h]
              BY <3>3, <5>4, <7>1, <7>2, <7>3
            <7> QED
              BY <3>2, <5>3, <6>1, <6>3, <7>4
          <6> QED
            BY <5>2, <6>2, <6>3
        <5>5. todo'[h] \in {<<"closeEvents">>, <<>>}
          BY <5>2
        <5>6. /\ <<"closeEvents">> # Leaving
              /\ <<"closeEvents">> # <<"leave", "emptied", "close", "closeEvents">>
              /\ <<"closeEvents">> # <<"emptied", "close", "closeEvents">>
              /\ <<"closeEvents">> # <<"close", "closeEvents">>
          BY DEF Leaving
        <5>7. /\ <<>> # Leaving /\ <<>> # <<"leave", "emptied", "close", "closeEvents">>
              /\ <<>> # <<"emptied", "close", "closeEvents">> /\ <<>> # <<"close", "closeEvents">>
          BY DEF Leaving
        <5> QED
          BY <3>1, <3>2, <4>1, <5>4, <5>5, <5>6, <5>7
      <4> QED
        BY <4>2, <4>3
    <3> QED
      BY <2>2, <3>5, <3>6
  <2> QED
    BY <1>2, <2>1, <2>2, TxSteps
<1> QED
  BY <1>1, <1>2 DEF LeaversInv

\* A commit leaves those in a booking alone that it took no seat from.
LEMMA Undisturbed ==
    ASSUME BaseInv, NEW h \in Handlers, HandlerStep(h), NEW k \in Handlers \ {h},
           NEW g, db' # db => g \notin TakenBy(own[h])
    PROVE  /\ ~EmptyIn(g, View(k)) => ~EmptyIn(g, View(k))'
           /\ ~EmptyIn(g, db) => ~EmptyIn(g, db)'
<1>1. /\ \/ db' = db
         \/ db'.deleted = db.deleted \union own[h].deleted
      /\ own'[k] = own[k] /\ Absent' = Absent /\ IsChange(db') /\ IsChange(own[k])
  BY TxStep, OwnState, PlusType DEF Absent, BaseInv, TypeInv
<1>2. \A s \in Seats : GroupOf(s) = g /\ s \in db'.deleted => s \in db.deleted
  BY <1>1, TakenSeats
<1>3. /\ View(k).deleted = db.deleted \union own[k].deleted
      /\ View(k)'.deleted = db'.deleted \union own[k].deleted
      /\ View(k)'.removed = db'.removed \union own[k].removed
  BY Grows
<1>4. \A s \in Seats : s \notin db'.removed /\ s \notin View(k)'.removed
  BY <1>1, <1>3 DEF IsChange
<1>5. \A s \in Seats : GroupOf(s) = g /\ s \in View(k)'.deleted => s \in View(k).deleted
  BY <1>2, <1>3
<1> QED
  BY <1>1, <1>2, <1>4, <1>5 DEF EmptyIn, ActiveIn

\* The step of another handler
LEMMA OtherHandler ==
    ASSUME BaseInv, LostInv, NEW h \in Handlers, HandlerStep(h), raced \subseteq raced',
           NEW k \in Handlers \ {h}, OnScript(k), OwnersInv(k), LeaversInv(k)
    PROVE  OnScript(k)' /\ OwnersInv(k)' /\ LeaversInv(k)'
<1>1. /\ pc'[k] = pc[k] /\ work'[k] = work[k] /\ now'[k] = now[k]
      /\ batches'[k] = batches[k] /\ todo'[k] = todo[k]
      /\ own'[k] = own[k] /\ found'[k] = found[k]
  BY OwnState DEF BaseInv
<1>2. OnScript(k)'
  BY <1>1 DEF OnScript
<1>3. View(k).deleted \subseteq View(k)'.deleted
  BY Grows
<1>4. OwnersInv(k)'
  <2>1. Batch(k)' = Batch(k)
    BY <1>1 DEF Batch
  <2>2. ASSUME pc[k] = "tx", work[k].body.table \in OfOwners, NEW g \in Groups
        PROVE  Names(Batch(k), g, db') <=> Names(Batch(k), g, db)
    <3>1. Batch(k).table \in OfOwners
      BY <2>2, BatchIsCopy DEF BaseInv, HandlerInv, PartOf
    <3> QED
      BY <3>1, OwnerNames
  <2> QED
    BY <1>1, <1>3, <2>1, <2>2 DEF OwnersInv
<1>5. LeaversInv(k)'
  <2>1. ASSUME NEW g \in TakenBy(own[k]) \ (raced' \union View(k)'.deleted)
        PROVE  /\ g \in TakenBy(own[k]) \ (raced \union View(k).deleted)
               /\ ~EmptyIn(g, View(k)) => ~EmptyIn(g, View(k))'
    <3>1. g \notin TakenBy(own[h])
      BY <2>1 DEF LostInv
    <3> QED
      BY <1>3, <2>1, <3>1, Undisturbed
  <2> QED
    BY <1>1, <2>1 DEF LeaversInv
<1> QED
  BY <1>2, <1>4, <1>5

\* LostInv is kept.
LEMMA LostStep ==
    ASSUME BaseInv, LostInv, NEW h \in Handlers, OnScript(h), OwnersInv(h), LeaversInv(h),
           HandlerStep(h), raced \subseteq raced'
    PROVE  LostInv'
<1>1. ASSUME NEW k \in Handlers, NEW e \in Handlers, k # e
      PROVE  (TakenBy(own[k]) \intersect TakenBy(own[e]) \subseteq raced)'
  <2>1. \A x \in Handlers \ {h} : own'[x] = own[x]
    BY OwnState DEF BaseInv
  <2>2. ASSUME NEW x \in Handlers \ {h}
        PROVE  TakenBy(own'[h]) \intersect TakenBy(own[x]) \subseteq raced'
    <3>1. TakenBy(own[h]) \intersect TakenBy(own[x]) \subseteq raced
      BY DEF LostInv
    <3>2. CASE Write(h)
      BY <3>1, <3>2, TakenStep
    <3>3. CASE ~Write(h)
      BY <3>1, <3>3, OwnKept DEF TakenBy, NoChange
    <3> QED
      BY <3>2, <3>3
  <2>3. TakenBy(own[k]) \intersect TakenBy(own[e]) \subseteq raced
    BY <1>1 DEF LostInv
  <2> QED
    BY <1>1, <2>1, <2>2, <2>3 DEF TakenBy
<1>2. ASSUME NEW g \in TakenBy(db') \ (db'.deleted \union raced')
      PROVE  ~EmptyIn(g, db)'
  <2>1. CASE db' # db /\ g \in TakenBy(own[h])
    <3>1. Commit(h) /\ db' = View(h) /\ Absent' = Absent
      BY <2>1, TxStep, OwnState DEF View, Absent, BaseInv
    <3>2. pc[h] = "tx" /\ todo[h] = <<>> /\ work[h].body.table \in OfClients
      BY <2>1, <3>1 DEF Commit, LeaversInv
    <3>3. ~EmptyIn(g, View(h))
      BY <1>2, <2>1, <3>1, <3>2 DEF LeaversInv
    <3> QED
      BY <3>1, <3>3 DEF EmptyIn, ActiveIn
  <2>2. CASE db' = db
    <3>1. Absent' = Absent
      BY OwnState DEF Absent, BaseInv
    <3> QED
      BY <1>2, <2>2, <3>1 DEF LostInv, EmptyIn, ActiveIn
  <2>3. CASE db' # db /\ g \notin TakenBy(own[h])
    <3>1. Commit(h) /\ Absent' = Absent /\ db'.deleted = db.deleted \union own[h].deleted
          /\ IsChange(db')
      BY <2>3, TxStep, OwnState, PlusType DEF Absent, BaseInv
    <3>2. g \in TakenBy(db) /\ ~EmptyIn(g, db)
      BY <1>2, <2>3, <3>1 DEF LostInv, TakenBy
    <3>3. \A s \in Seats : GroupOf(s) = g /\ s \in db'.deleted => s \in db.deleted
      BY <2>3, <3>1, TakenSeats
    <3>4. \A s \in Seats : s \notin db'.removed
      BY <3>1 DEF IsChange
    <3> QED
      BY <3>1, <3>2, <3>3, <3>4 DEF EmptyIn, ActiveIn
  <2> QED
    BY <2>1, <2>2, <2>3
<1> QED
  BY <1>1, <1>2 DEF LostInv

\* TxInv is inductive relative to BaseInv.
LEMMA TxInvStep == BaseInv /\ TxInv /\ [Next]_vars => TxInv'
<1> SUFFICES ASSUME BaseInv, TxInv, [Next]_vars
             PROVE  TxInv'
  OBVIOUS
<1>1. CASE OtherStep
  <2>1. /\ UNCHANGED <<sent, db, pc, work, now, batches, todo, own, found, raced>>
        /\ Absent' \subseteq Absent
    BY <1>1, Others DEF BaseInv, local
  <2>2. TogetherInv'
    BY <2>1 DEF TxInv, TogetherInv, Owned, Names, Gone, View
  <2>3. \A g, h : /\ ~EmptyIn(g, db) => ~EmptyIn(g, db)'
                  /\ ~EmptyIn(g, View(h)) => ~EmptyIn(g, View(h))'
    BY <2>1 DEF EmptyIn, ActiveIn, View
  <2>4. LostInv'
    BY <2>1, <2>3 DEF TxInv, LostInv
  <2>5. ASSUME NEW h \in Handlers PROVE OnScript(h)' /\ OwnersInv(h)' /\ LeaversInv(h)'
    <3>1. OnScript(h) /\ OwnersInv(h) /\ LeaversInv(h) /\ View(h)' = View(h) /\ Batch(h)' = Batch(h)
      BY <2>1 DEF TxInv, View, Batch
    <3>2. OnScript(h)' /\ OwnersInv(h)'
      BY <2>1, <3>1 DEF OnScript, OwnersInv, Names
    <3>3. LeaversInv(h)'
      BY <2>1, <2>3, <3>1 DEF LeaversInv
    <3> QED
      BY <3>2, <3>3
  <2> QED
    BY <2>2, <2>4, <2>5 DEF TxInv
<1>2. ASSUME NEW h \in Handlers, HandlerStep(h)
      PROVE  TxInv'
  <2>1. TogetherInv /\ LostInv /\ OnScript(h) /\ OwnersInv(h) /\ LeaversInv(h)
    BY DEF TxInv
  <2>2. raced \subseteq raced'
    BY <1>2, <2>1, TakenStep, OwnKept
  <2>3. \A k \in Handlers \ {h} : OnScript(k)' /\ OwnersInv(k)' /\ LeaversInv(k)'
    BY <1>2, <2>2, OtherHandler DEF TxInv
  <2>4. OnScript(h)' /\ OwnersInv(h)' /\ LeaversInv(h)'
    BY <1>2, <2>1, OnScriptStep, OwnersStep, LeaversStep
  <2>5. TogetherInv' /\ LostInv'
    BY <1>2, <2>1, <2>2, TogetherStep, LostStep
  <2> QED
    BY <2>3, <2>4, <2>5 DEF TxInv
<1> QED
  BY <1>1, <1>2, Steps

\* It holds at the start.
LEMMA TxInit == Init => TxInv
BY DEF Init, TxInv, TogetherInv, LostInv, OnScript, OwnersInv, LeaversInv, TakenBy, NoChange

-----------------------------------------------------------------------------
(* No id is lost. *)

\* A statement would still match the row x, whoever joins.
Still(l, b, x, view, ended) ==
    /\ x \in Rows \ Joiners
    /\ x \notin view.removed /\ Names(b, x, view)
    /\ l \notin {"unlink", "removeEvents", "removeHours"} => x \notin view.deleted
    /\ l \in {"events", "seats", "leave", "removeOtherThere", "unlinkFuture", "removeFuture"} =>
         GroupOf(x) \notin view.deleted \union view.removed
    /\ l \in {"leave", "unlinkFuture", "removeFuture"} => GroupOf(x) \notin ended
    /\ x \in CASE l \in {"hours", "removeHours"} -> Hours
               [] l = "groups" -> Groups
               [] l \in {"seats", "leave"} -> Seats
               [] l \in {"removeOther", "removeOtherThere"} -> Other
               [] l \in {"close", "closeEvents"} -> {}
               [] OTHER -> Events

\* Some statements find nothing to do.
Clear(labels, b, view, ended) ==
    \A l \in labels \ Reads : \A x \in Rows : ~Still(l, b, x, view, ended)

Single(b, id) == [table |-> b.table, ids |-> <<id>>, rel |-> b.rel]

\* Nothing is left to do for an id.
Done(b, id) == Clear(Labels(Script[b.table]), Single(b, id), db, past)

Carries(c, b, id) == c.body.table = b.table /\ c.body.rel = b.rel /\ id \in Ids(c.body)

Small(b) == Len(b.ids) <= MaxIds

\* A part with the id pends.
PartHeld(b, id) == \E c \in Pending : Carries(c, b, id) /\ Small(c.body)

\* What is left of a message once a handler is through with it
Settled(b) ==
    \A id \in Ids(b) : Done(b, id) \/ (~Small(b) /\ PartHeld(b, id))

Parts(h) == Labels(batches[h])

InParts(h, id) == \E s \in Parts(h) : id \in Labels(s)

\* How far a handler is with its copy
ProgressInv(h) ==
    LET b == work[h].body IN
    /\ pc[h] = "mark" => Settled(b)
    /\ pc[h] = "publish" =>
        /\ ~Small(b)
        /\ \A s \in Parts(h) : Len(s) <= MaxIds
        /\ \A id \in Ids(b) : Done(b, id) \/ PartHeld(b, id) \/ InParts(h, id)
    /\ pc[h] = "tx" =>
        /\ Small(b)
        /\ \A id \in Ids(b) : Done(b, id) \/ InParts(h, id)
        /\ now[h] \subseteq past
        /\ Clear(Labels(Script[b.table]) \ Labels(todo[h]), Batch(h), View(h), now[h])
    /\ pc[h] = "release" =>
        b \in processed \/ \E c \in BagToSet(delayed) \union dead : c.body = b

\* A lock was set by a handler that has yet to release it.
LockInv ==
    \A b \in locks : \E h \in Handlers :
        /\ work[h].body = b
        /\ pc[h] \in {"start", "publish", "tx", "mark", "catch", "release"}

\* NoIdLost, with Done for what remains
HeldInv ==
    \A b \in BagToSet(sent) : Valid(b) =>
        \A id \in Ids(b) : Done(b, id) \/ \E c \in Pending : Carries(c, b, id)

CoverInv ==
    /\ LockInv /\ HeldInv
    /\ \A b \in processed : Settled(b)
    /\ \A h \in Handlers : ProgressInv(h)

\* What a statement matches when it has read no booking, but for clients who may join
LEMMA MatchStill ==
    ASSUME NEW l \in AllLabels \ Reads, NEW b, NEW view, NEW ended, NEW groups, NEW x \in Rows
    PROVE  /\ Still(l, b, x, view, ended) => x \in Match(l, b, view, ended, groups)
           /\ x \in Match(l, b, view, ended, {}) => x \in Joiners \/ Still(l, b, x, view, ended)
<1> USE DEF Match, Still, ActiveIn
<1>1. /\ Absent \subseteq Joiners /\ Absent \subseteq Seats
      /\ \A y \in Events \union Seats : GroupOf(y) \in Groups
      /\ Rows = Groups \union Events \union Seats \union Hours
  BY DEF Absent, GroupOf, Rows
<1>2. CASE l = "hours" \/ l = "groups" \/ l = "events"
  BY <1>1, <1>2
<1>3. CASE l = "seats" \/ l = "leave"
  BY <1>1, <1>3
<1>4. CASE l = "close" \/ l = "closeEvents"
  BY <1>1, <1>4
<1>5. CASE l = "removeOther" \/ l = "removeOtherThere"
  BY <1>1, <1>5
<1>6. CASE l = "unlinkFuture" \/ l = "removeFuture"
  BY <1>1, <1>6
<1>7. CASE l = "unlink" \/ l = "removeEvents" \/ l = "removeHours"
  BY <1>1, <1>7
<1> QED
  BY <1>2, <1>3, <1>4, <1>5, <1>6, <1>7 DEF AllLabels, Reads

\* The view w has all the changes of v.
Within(v, w) ==
    /\ v.deleted \subseteq w.deleted /\ v.removed \subseteq w.removed
    /\ v.unlinked \subseteq w.unlinked

\* Statements that find nothing find nothing later, nor for fewer ids.
LEMMA StillLess ==
    ASSUME NEW labels, NEW b, NEW p, NEW v, NEW w, NEW e, NEW f,
           Within(v, w), e \subseteq f, PartOf(p, b), Clear(labels, b, v, e)
    PROVE  Clear(labels, p, w, f)
<1>1. \A x : Names(p, x, w) => Names(b, x, v)
  BY DEF Names, PartOf, Within
<1>2. ASSUME NEW l, NEW x, Still(l, p, x, w, f)
      PROVE  Still(l, b, x, v, e)
  BY <1>1, <1>2 DEF Still, Within
<1> QED
  BY <1>2 DEF Clear

\* A statement leaves nothing to do for itself.
LEMMA AfterEffect ==
    ASSUME NEW b, b.table \in Tables, NEW l \in Labels(Script[b.table]) \ Reads,
           NEW view, NEW w, NEW ended, NEW groups,
           Within(Plus(view, Effect(l, Match(l, b, view, ended, groups))), w), Within(view, w)
    PROVE  Clear({l}, b, w, ended)
<1> DEFINE matched == Match(l, b, view, ended, groups)
<1> SUFFICES ASSUME NEW x \in Rows, Still(l, b, x, w, ended)
             PROVE  FALSE
  BY DEF Clear
<1>1. l \in AllLabels \ Reads
  BY Scripts, SeqParts
<1>2. Still(l, b, x, view, ended)
  BY DEF Still, Within, Names
<1>3. x \in matched
  BY <1>1, <1>2, MatchStill
<1>4. /\ l \notin Unlinks \union Removes => x \in w.deleted
      /\ l \in Removes => x \in w.removed
      /\ l \in Unlinks => x \in w.unlinked
  BY <1>3, PlusType DEF Within, Effect, Unlinks, Removes
<1>5. l \in Unlinks => b.table \in OfUsers
  <2>1. /\ Leaving \in Seq(AllLabels \ Unlinks) /\ Cascade \in Seq(AllLabels \ Unlinks)
        /\ <<>> \in Seq(AllLabels \ Unlinks)
    BY DEF Leaving, Cascade, AllLabels, Unlinks
  <2>2. b.table \notin OfUsers => Script[b.table] \in {Leaving, Cascade, <<>>}
    BY DEF Tables, Script, OfUsers, RelationColumn
  <2>3. \A s \in Seq(AllLabels \ Unlinks) : Labels(s) \subseteq AllLabels \ Unlinks
    BY SeqParts
  <2> QED
    BY <2>1, <2>2, <2>3
<1>6. CASE l \in Unlinks
  BY <1>4, <1>5, <1>6 DEF Still, Names
<1>7. CASE l \in Removes
  BY <1>4, <1>7 DEF Still
<1>8. CASE l \notin Unlinks \union Removes
  BY <1>1, <1>4, <1>8 DEF Still, Unlinks, Removes
<1> QED
  BY <1>6, <1>7, <1>8

\* The chunk in which the i-th of m ids is
LEMMA DivChunk ==
    ASSUME NEW n \in Nat \ {0}, NEW m \in Nat, NEW i \in 1..m
    PROVE  LET k == ((i - 1) \div n) + 1 IN
           /\ k \in 1..((m + n - 1) \div n)
           /\ (k - 1) * n + 1 <= i /\ i <= k * n
<1> DEFINE r == (i - 1) \div n
           q == (m + n - 1) \div n
<1>1. /\ r \in Int /\ r * n <= i - 1 /\ i - 1 < (r + 1) * n
  OBVIOUS
<1>2. q \in Int /\ q * n <= m + n - 1 /\ m + n - 1 < (q + 1) * n
  OBVIOUS
<1>3. r >= 0
  <2>1. CASE r <= -1
    <3>1. (r + 1) * n <= 0
      BY <1>1, <2>1
    <3> QED
      BY <1>1, <3>1
  <2> QED
    BY <1>1, <2>1
<1>4. r + 1 <= q
  <2>1. CASE q <= r
    <3>1. q * n <= r * n
      BY <1>1, <1>2, <2>1
    <3>2. (q + 1) * n = q * n + n
      BY <1>2
    <3> QED
      BY <1>1, <1>2, <3>1, <3>2
  <2> QED
    BY <1>1, <1>2, <2>1
<1> QED
  BY <1>1, <1>2, <1>3, <1>4

\* Chunking loses nothing, and no chunk is too long.
LEMMA ChunksCover ==
    ASSUME NEW S, NEW s \in Seq(S), NEW n \in Nat \ {0}
    PROVE  /\ \A p \in Labels(Chunks(s, n)) : Len(p) <= n
           /\ \A id \in Labels(s) : \E p \in Labels(Chunks(s, n)) : id \in Labels(p)
<1> DEFINE m == Len(s)
           q == (m + n - 1) \div n
           Part(i) == SubSeq(s, (i - 1) * n + 1, IF i * n < m THEN i * n ELSE m)
<1>1. m \in Nat /\ q \in Int /\ Chunks(s, n) = [i \in 1..q |-> Part(i)]
  BY DEF Chunks
<1>2. Labels(Chunks(s, n)) = {Part(i) : i \in 1..q}
  <2>1. DOMAIN Chunks(s, n) = 1..q /\ \A i \in 1..q : Chunks(s, n)[i] = Part(i)
    BY <1>1
  <2> HIDE DEF q, m, Part
  <2>2. PICK c : c = Chunks(s, n)
    OBVIOUS
  <2>3. DOMAIN c = 1..q /\ \A i \in 1..q : c[i] = Part(i)
    BY <2>1, <2>2
  <2>4. Labels(c) = {Part(i) : i \in 1..q}
    BY <2>3 DEF Labels
  <2> QED
    BY <2>2, <2>4
<1>3. ASSUME NEW i \in 1..q
      PROVE  Len(Part(i)) <= n
  <2> DEFINE a == (i - 1) * n + 1
             b == IF i * n < m THEN i * n ELSE m
  <2>1. i * n = (i - 1) * n + n /\ (i - 1) * n \in Nat /\ i * n \in Nat
    <3>1. PICK z \in Nat : i = z + 1
      <4>1. PICK y : y = q /\ y \in Int
        BY <1>1
      <4>2. i \in 1..y
        BY <4>1
      <4>3. i - 1 \in Nat /\ i = (i - 1) + 1
        BY <4>1, <4>2
      <4> QED
        BY <4>3
    <3>2. z * n \in Nat /\ (z + 1) * n = z * n + n
      OBVIOUS
    <3> QED
      BY <3>1, <3>2
  <2>2. a \in Nat /\ b \in Nat /\ a >= 1 /\ b <= m /\ b - a + 1 <= n
    BY <1>1, <2>1
  <2> HIDE DEF a, b, m
  <2>3. Len(SubSeq(s, a, b)) <= n
    <3>1. CASE a <= b
      BY <1>1, <2>2, <3>1 DEF m
    <3>2. CASE a > b
      BY <1>1, <2>2, <3>2 DEF m
    <3> QED
      BY <2>2, <3>1, <3>2
  <2> QED
    BY <2>3 DEF a, b
<1>4. ASSUME NEW i \in 1..m
      PROVE  \E k \in 1..q : s[i] \in Labels(Part(k))
  <2> DEFINE k == ((i - 1) \div n) + 1
             a == (k - 1) * n + 1
             b == IF k * n < m THEN k * n ELSE m
  <2>1. k \in 1..q /\ a <= i /\ i <= k * n
    BY <1>1, DivChunk
  <2>2. (k - 1) * n \in Nat /\ k * n \in Nat
    BY <1>1, <2>1
  <2>3. a \in Nat /\ a >= 1 /\ b \in Nat /\ i <= b /\ b <= m
    BY <1>1, <2>1, <2>2
  <2>4. Part(k) = SubSeq(s, a, b)
    OBVIOUS
  <2> HIDE DEF a, b, m, k, q, Part
  <2>5. i - a + 1 \in DOMAIN SubSeq(s, a, b) /\ SubSeq(s, a, b)[i - a + 1] = s[i]
    BY <1>1, <2>1, <2>3 DEF m
  <2>6. s[i] \in Labels(Part(k))
    BY <2>4, <2>5 DEF Labels
  <2> QED
    BY <2>1, <2>6
<1>5. \A id \in Labels(s) : \E i \in 1..m : id = s[i]
  BY <1>1 DEF Labels
<1>6. \A i \in 1..q : Part(i) \in Labels(Chunks(s, n))
  BY <1>2
<1> HIDE DEF m, q, Part
<1>7. \A p \in Labels(Chunks(s, n)) : Len(p) <= n
  BY <1>2, <1>3
<1>8. \A id \in Labels(s) : \E p \in Labels(Chunks(s, n)) : id \in Labels(p)
  BY <1>4, <1>5, <1>6
<1> QED
  BY <1>7, <1>8

\* What is committed, and what has ended, only grows.
LEMMA WorldGrows ==
    ASSUME BaseInv, [Next]_vars
    PROVE  /\ Within(db, db') /\ past \subseteq past' /\ sent' = sent
           /\ processed \subseteq processed'
<1>1. CASE OtherStep
  <2>1. db' = db /\ sent' = sent /\ processed' = processed
    BY <1>1, Others DEF BaseInv
  <2>2. past \subseteq past'
    BY <1>1 DEF OtherStep, DelayEnds, LockExpires, GroupEnds, PlanJoin, Join, world, vars
  <2> QED
    BY <2>1, <2>2 DEF Within
<1>2. ASSUME NEW h \in Handlers, HandlerStep(h)
      PROVE  /\ Within(db, db') /\ past \subseteq past' /\ sent' = sent
             /\ processed \subseteq processed'
  <2>1. db' = db \/ db' = Plus(db, own[h])
    BY <1>2, TxStep
  <2>2. Within(db, db')
    BY <2>1, PlusType DEF Within
  <2>3. past' = past /\ sent' = sent /\ processed \subseteq processed'
    <3>1. CASE Deliver(h) \/ Check(h) \/ Acquire(h) \/ Start(h) \/ PublishPart(h) \/ Read(h)
      BY <3>1 DEF Deliver, Check, Acquire, Start, PublishPart, Read, world, redis
    <3>2. CASE Write(h) \/ Commit(h) \/ Mark(h) \/ Fail(h) \/ Catch(h) \/ Release(h)
      BY <3>2 DEF Write, Commit, Mark, Fail, Catch, Release, world, redis
    <3> QED
      BY <1>2, <3>1, <3>2 DEF HandlerStep, Handle
  <2> QED
    BY <2>2, <2>3
<1> QED
  BY <1>1, <1>2, Steps

\* What is done stays so.
LEMMA DoneStays ==
    ASSUME BaseInv, [Next]_vars, NEW b, NEW id, Done(b, id)
    PROVE  Done(b, id)'
<1>1. PartOf(Single(b, id), Single(b, id))
  BY DEF PartOf
<1> QED
  BY <1>1, WorldGrows, StillLess DEF Done

\* A copy in the retry queue stays there while a handler of its body has yet to end.
LEMMA DelayedStays ==
    ASSUME BaseInv, [Next]_vars, NEW c \in BagToSet(delayed) \union dead,
           NEW h \in Handlers, pc[h] = "release", work[h].body = c.body
    PROVE  c \in BagToSet(delayed') \union dead'
<1>1. CASE OtherStep
  <2>1. CASE DelayEnds
    <3>1. PICK d \in BagToSet(delayed) :
              /\ \A k \in Handlers : ~(pc[k] = "release" /\ work[k].body = d.body)
              /\ delayed' = delayed (-) One(d) /\ dead' = dead
      BY <2>1 DEF DelayEnds
    <3>2. d # c
      BY <3>1
    <3> QED
      BY <3>1, <3>2, Taken DEF BaseInv, TypeInv
  <2>2. CASE ~DelayEnds
    BY <1>1, <2>2 DEF OtherStep, LockExpires, GroupEnds, PlanJoin, Join, vars, broker
  <2> QED
    BY <2>1, <2>2
<1>2. ASSUME NEW k \in Handlers, HandlerStep(k)
      PROVE  c \in BagToSet(delayed') \union dead'
  <2>1. CASE Deliver(k) \/ PublishPart(k)
    BY <2>1 DEF Deliver, PublishPart
  <2>2. CASE Catch(k)
    BY <2>2, Put DEF Catch, BaseInv, TypeInv
  <2>3. CASE ~(Deliver(k) \/ PublishPart(k) \/ Catch(k))
    BY <1>2, <2>3 DEF HandlerStep, Handle, Check, Acquire, Start, Read, Write, Commit, Mark,
       Fail, Release, broker
  <2> QED
    BY <2>1, <2>2, <2>3
<1> QED
  BY <1>1, <1>2, Steps

\* A copy that no longer pends is of a body that was processed, or pends elsewhere.
LEMMA CopyStays ==
    ASSUME BaseInv, CoverInv, [Next]_vars, NEW c \in Pending
    PROVE  c.body \in processed' \/ \E d \in Pending' : d.body = c.body
<1> DEFINE At(k) == pc[k] \notin {"idle", "release"}
<1>0. \/ c \in BagToSet(queue) \/ c \in BagToSet(delayed) \/ c \in dead
      \/ \E k \in Handlers : At(k) /\ c = work[k]
  BY DEF Pending
<1>1. CASE OtherStep
  <2>1. UNCHANGED <<pc, work, dead>>
    BY <1>1, Others DEF BaseInv
  <2>2. BagToSet(queue) \union BagToSet(delayed) \subseteq BagToSet(queue') \union BagToSet(delayed')
    <3>1. CASE DelayEnds
      <4>1. PICK d \in BagToSet(delayed) :
                delayed' = delayed (-) One(d) /\ queue' = queue (+) One(d)
        BY <3>1 DEF DelayEnds
      <4> QED
        BY <4>1, Put, Taken DEF BaseInv, TypeInv
    <3>2. CASE ~DelayEnds
      BY <1>1, <3>2 DEF OtherStep, LockExpires, GroupEnds, PlanJoin, Join, vars, broker
    <3> QED
      BY <3>1, <3>2
  <2>3. c \in Pending'
    BY <1>0, <2>1, <2>2 DEF Pending
  <2> QED
    BY <2>3
<1>2. ASSUME NEW h \in Handlers, HandlerStep(h)
      PROVE  c.body \in processed' \/ \E d \in Pending' : d.body = c.body
  <2>1. \A k \in Handlers \ {h} : pc'[k] = pc[k] /\ work'[k] = work[k]
    BY <1>2, OwnState DEF BaseInv
  <2>2. CASE c \in BagToSet(queue) \union BagToSet(delayed) \union dead /\ ~Deliver(h)
    <3>1. CASE PublishPart(h) \/ Catch(h)
      BY <2>2, <3>1, Put DEF PublishPart, Catch, Pending, BaseInv, TypeInv
    <3>2. CASE ~(PublishPart(h) \/ Catch(h))
      <4>1. queue' = queue /\ delayed' = delayed /\ dead' = dead
        BY <1>2, <2>2, <3>2 DEF HandlerStep, Handle, Check, Acquire, Start, Read, Write, Commit,
           Mark, Fail, Release, broker
      <4> QED
        BY <2>2, <4>1 DEF Pending
    <3> QED
      BY <3>1, <3>2
  <2>3. CASE Deliver(h)
    <3>1. PICK d \in BagToSet(queue) :
              /\ queue' = queue (-) One(d) /\ delayed' = delayed /\ dead \subseteq dead'
              /\ \/ d \in dead'
                 \/ work'[h] = d /\ pc'[h] = "check"
      BY <2>3 DEF Deliver, Goto, BaseInv, TypeInv, IsFunction
    <3>2. d \in Pending'
      BY <3>1 DEF Pending
    <3>3. c \notin BagToSet(queue) => c \in Pending'
      <4>1. pc[h] = "idle"
        BY <2>3 DEF Deliver
      <4> QED
        BY <1>0, <2>1, <3>1, <4>1 DEF Pending
    <3>4. c \in BagToSet(queue) => c = d \/ c \in BagToSet(queue')
      BY <3>1, Taken DEF BaseInv, TypeInv
    <3> QED
      BY <3>2, <3>3, <3>4 DEF Pending
  <2>4. ASSUME NEW k \in Handlers \ {h}, At(k), c = work[k]
        PROVE  c \in Pending'
    BY <2>1, <2>4 DEF Pending
  <2>5. CASE At(h) /\ c = work[h] /\ ~Deliver(h)
    <3>1. CASE pc'[h] \notin {"idle", "release"} /\ work'[h] = work[h]
      BY <2>5, <3>1 DEF Pending
    <3>2. CASE Check(h) \/ Mark(h)
      BY <2>5, <3>1, <3>2 DEF Check, Mark, Goto, redis, BaseInv, TypeInv
    <3>3. CASE Acquire(h) /\ c.body \in locks
      <4>1. PICK k \in Handlers :
                /\ work[k].body = c.body
                /\ pc[k] \in {"start", "publish", "tx", "mark", "catch", "release"}
        BY <3>3 DEF CoverInv, LockInv
      <4>2. k # h
        BY <3>3, <4>1 DEF Acquire
      <4>3. CASE pc[k] # "release"
        <5>1. work[k] \in Pending'
          BY <2>1, <4>1, <4>2, <4>3 DEF Pending
        <5> QED
          BY <4>1, <5>1
      <4>4. CASE pc[k] = "release"
        <5>1. /\ delayed' = delayed /\ dead' = dead /\ processed' = processed
          BY <3>3 DEF Acquire, broker
        <5>2. c.body \in processed \/ \E d \in BagToSet(delayed) \union dead : d.body = c.body
          BY <4>1, <4>4 DEF CoverInv, ProgressInv
        <5> QED
          BY <5>1, <5>2 DEF Pending
      <4> QED
        BY <4>3, <4>4
    <3>4. CASE Acquire(h) /\ c.body \notin locks
      BY <2>5, <3>1, <3>4 DEF Acquire, Goto, BaseInv, TypeInv
    <3>5. CASE Catch(h)
      <4>1. \/ c \in dead'
            \/ delayed' = delayed (+) One([c EXCEPT !.retries = @ + 1])
        BY <2>5, <3>5 DEF Catch
      <4>2. [c EXCEPT !.retries = @ + 1].body = c.body
        <5>1. IsCopy(c)
          BY <2>5 DEF BaseInv, HandlerInv
        <5>2. PICK x, n : c = [body |-> x, retries |-> n]
          BY <5>1 DEF IsCopy
        <5> QED
          BY <5>2
      <4>3. \/ c \in Pending'
            \/ [c EXCEPT !.retries = @ + 1] \in Pending'
        BY <4>1, Put DEF Pending, BaseInv, TypeInv
      <4> QED
        BY <4>2, <4>3
    <3>6. CASE Start(h) \/ PublishPart(h) \/ Commit(h) \/ Fail(h)
      <4>1. pc'[h] \notin {"idle", "release"} /\ work' = work
        BY <3>6 DEF Start, PublishPart, Commit, Fail, Goto, BaseInv, TypeInv
      <4> QED
        BY <3>1, <4>1
    <3>7. CASE Read(h) \/ Write(h)
      <4>1. pc' = pc /\ work' = work
        BY <3>7 DEF Read, Write
      <4> QED
        BY <2>5, <3>1, <4>1
    <3>8. CASE Release(h)
      BY <2>5, <3>8 DEF Release
    <3> QED
      BY <1>2, <2>5, <3>2, <3>3, <3>4, <3>5, <3>6, <3>7, <3>8 DEF HandlerStep, Handle
  <2> QED
    BY <1>0, <2>2, <2>3, <2>4, <2>5
<1> QED
  BY <1>1, <1>2, Steps

\* Only a handler at its mark adds to the bodies processed.
LEMMA MarkShape ==
    ASSUME BaseInv, [Next]_vars
    PROVE  \A b \in processed' : \/ b \in processed
                                 \/ \E h \in Handlers : pc[h] = "mark" /\ b = work[h].body
<1>1. CASE OtherStep
  BY <1>1, Others DEF BaseInv
<1>2. ASSUME NEW h \in Handlers, HandlerStep(h)
      PROVE  processed' = processed
             \/ (pc[h] = "mark" /\ processed' = processed \union {work[h].body})
  <2>1. CASE Deliver(h) \/ Check(h) \/ Acquire(h) \/ Start(h) \/ PublishPart(h) \/ Read(h)
    BY <2>1 DEF Deliver, Check, Acquire, Start, PublishPart, Read, redis
  <2>2. CASE Write(h) \/ Commit(h) \/ Mark(h) \/ Fail(h) \/ Catch(h) \/ Release(h)
    BY <2>2 DEF Write, Commit, Mark, Fail, Catch, Release, redis
  <2> QED
    BY <1>2, <2>1, <2>2 DEF HandlerStep, Handle
<1> QED
  BY <1>1, <1>2, Steps

\* A body that is not too long, once processed, has nothing left to do.
LEMMA SmallDone ==
    ASSUME BaseInv, CoverInv, [Next]_vars, NEW b \in processed', Small(b), NEW id \in Ids(b)
    PROVE  Done(b, id)'
<1>1. Settled(b)
  <2>1. CASE b \in processed
    BY <2>1 DEF CoverInv
  <2>2. ASSUME NEW h \in Handlers, pc[h] = "mark", b = work[h].body
        PROVE  Settled(b)
    BY <2>2 DEF CoverInv, ProgressInv
  <2> QED
    BY <2>1, <2>2, MarkShape
<1>2. Done(b, id)
  BY <1>1 DEF Settled
<1> QED
  BY <1>2, DoneStays

\* A part pends until its ids have nothing left to do.
LEMMA PartStays ==
    ASSUME BaseInv, CoverInv, [Next]_vars, NEW b, NEW id, PartHeld(b, id)
    PROVE  PartHeld(b, id)' \/ Done(b, id)'
<1>1. PICK c \in Pending : Carries(c, b, id) /\ Small(c.body)
  BY DEF PartHeld
<1>2. CASE c.body \in processed'
  <2>1. Done(c.body, id)'
    BY <1>1, <1>2, SmallDone DEF Carries
  <2>2. Single(c.body, id) = Single(b, id) /\ c.body.table = b.table
    BY <1>1 DEF Carries, Single
  <2> QED
    BY <2>1, <2>2 DEF Done
<1>3. ASSUME NEW d \in Pending', d.body = c.body
      PROVE  PartHeld(b, id)'
  BY <1>1, <1>3 DEF PartHeld, Carries, Small
<1> QED
  BY <1>2, <1>3, CopyStays

\* What is settled stays so, and so is every body processed.
LEMMA SettledStep ==
    ASSUME BaseInv, CoverInv, [Next]_vars
    PROVE  /\ \A b : Settled(b) => Settled(b)'
           /\ \A b \in processed' : Settled(b)'
<1>1. ASSUME NEW b, Settled(b)
      PROVE  Settled(b)'
  <2>1. ASSUME NEW id \in Ids(b)
        PROVE  Done(b, id)' \/ (~Small(b) /\ PartHeld(b, id)')
    BY <1>1, <2>1, DoneStays, PartStays DEF Settled
  <2> QED
    BY <2>1 DEF Settled
<1>2. ASSUME NEW b \in processed' PROVE Settled(b)
  <2>1. CASE b \in processed
    BY <2>1 DEF CoverInv
  <2>2. ASSUME NEW h \in Handlers, pc[h] = "mark", b = work[h].body
        PROVE  Settled(b)
    BY <2>2 DEF CoverInv, ProgressInv
  <2> QED
    BY <2>1, <2>2, MarkShape
<1> QED
  BY <1>1, <1>2

\* Every id of a message pends until it is done.
LEMMA HeldStep ==
    ASSUME BaseInv, CoverInv, [Next]_vars
    PROVE  HeldInv'
<1> SUFFICES ASSUME NEW b \in BagToSet(sent'), Valid(b), NEW id \in Ids(b)
             PROVE  Done(b, id)' \/ \E c \in Pending' : Carries(c, b, id)
  BY DEF HeldInv, Carries
<1>1. b \in BagToSet(sent)
  BY WorldGrows
<1>2. ASSUME NEW c \in Pending, Carries(c, b, id)
      PROVE  Done(b, id)' \/ \E d \in Pending' : Carries(d, b, id)
  <2>1. CASE c.body \in processed'
    <3>1. Settled(c.body)'
      BY <2>1, SettledStep
    <3>2. Done(c.body, id)' \/ PartHeld(c.body, id)'
      BY <1>2, <3>1 DEF Settled, Carries
    <3>3. CASE Done(c.body, id)'
      <4>1. Single(c.body, id) = Single(b, id) /\ c.body.table = b.table
        BY <1>2 DEF Carries, Single
      <4> QED
        BY <3>3, <4>1 DEF Done
    <3>4. CASE PartHeld(c.body, id)'
      BY <1>2, <3>4 DEF PartHeld, Carries
    <3> QED
      BY <3>2, <3>3, <3>4
  <2>2. ASSUME NEW d \in Pending', d.body = c.body
        PROVE  Carries(d, b, id)
    BY <1>2, <2>2 DEF Carries
  <2> QED
    BY <2>1, <2>2, CopyStays
<1> QED
  BY <1>1, <1>2, DoneStays DEF CoverInv, HeldInv

\* What the ids of a message have left to do is what NoIdLost says.
LEMMA DoneIsEnough ==
    ASSUME NEW b, IsBody(b), b.table \in Tables, NEW id
    PROVE  /\ Single(b, id) = [b EXCEPT !.ids = <<id>>]
           /\ Done(b, id) => Remaining([b EXCEPT !.ids = <<id>>]) \subseteq Joiners
<1> DEFINE p == Single(b, id)
<1>1. p = [b EXCEPT !.ids = <<id>>] /\ p.table = b.table
  <2>1. PICK x, y, z : b = [table |-> x, ids |-> y, rel |-> z]
    BY DEF IsBody
  <2> QED
    BY <2>1 DEF Single
<1>2. Labels(Script[b.table]) \subseteq AllLabels
  BY Scripts, SeqParts
<1>3. Remaining(p) = UNION {Match(l, p, db, past, {}) : l \in Labels(Script[b.table]) \ Reads}
  BY <1>1 DEF Remaining, Labels
<1>4. \A l \in Labels(Script[b.table]) \ Reads : Match(l, p, db, past, {}) \subseteq Rows
  BY <1>2, MatchType
<1> HIDE DEF p
<1>5. ASSUME Done(b, id)
      PROVE  Remaining(p) \subseteq Joiners
  <2>1. ASSUME NEW l \in Labels(Script[b.table]) \ Reads, NEW x \in Match(l, p, db, past, {})
        PROVE  x \in Joiners
    <3>1. x \in Rows /\ l \in AllLabels \ Reads
      BY <1>2, <1>4, <2>1
    <3>2. ~Still(l, p, x, db, past)
      BY <1>5, <3>1 DEF Done, Clear, p
    <3> QED
      BY <2>1, <3>1, <3>2, MatchStill
  <2> QED
    BY <1>3, <2>1
<1> QED
  BY <1>1, <1>5 DEF p

\* That is NoIdLost.
LEMMA HeldIsEnough == BaseInv /\ HeldInv => NoIdLost
<1> SUFFICES ASSUME BaseInv, HeldInv, NEW b \in BagToSet(sent), Valid(b), NEW i \in DOMAIN b.ids
             PROVE  \/ \E c \in Pending : Carries(c, b, b.ids[i])
                    \/ Remaining([b EXCEPT !.ids = <<b.ids[i]>>]) \subseteq Joiners
  BY DEF NoIdLost, Carries
<1>1. IsBody(b) /\ b.table \in Tables /\ b.ids[i] \in Ids(b)
  BY DEF BaseInv, TypeInv, Valid, Ids
<1>2. Done(b, b.ids[i]) \/ \E c \in Pending : Carries(c, b, b.ids[i])
  BY <1>1 DEF HeldInv
<1> QED
  BY <1>1, <1>2, DoneIsEnough

\* LockInv is kept.
LEMMA LockStep ==
    ASSUME BaseInv, LockInv, [Next]_vars
    PROVE  LockInv'
<1> DEFINE Kept(k) == pc[k] \in {"start", "publish", "tx", "mark", "catch", "release"}
<1>1. CASE OtherStep
  <2>1. pc' = pc /\ work' = work
    BY <1>1, Others DEF BaseInv
  <2>2. locks' \subseteq locks
    BY <1>1 DEF OtherStep, DelayEnds, LockExpires, GroupEnds, PlanJoin, Join, redis, vars
  <2> QED
    BY <2>1, <2>2 DEF LockInv
<1>2. ASSUME NEW h \in Handlers, HandlerStep(h)
      PROVE  LockInv'
  <2>1. \A k \in Handlers \ {h} : pc'[k] = pc[k] /\ work'[k] = work[k]
    BY <1>2, OwnState DEF BaseInv
  <2>2. CASE Deliver(h) \/ Check(h)
    <3>1. ~Kept(h) /\ locks' = locks
      BY <2>2 DEF Deliver, Check, redis
    <3> QED
      BY <2>1, <3>1 DEF LockInv
  <2>3. CASE Acquire(h)
    <3>1. \/ locks' = locks
          \/ locks' = locks \union {work[h].body} /\ work' = work /\ Kept(h)'
      BY <2>3 DEF Acquire, Goto, BaseInv, TypeInv
    <3>2. ~Kept(h)
      BY <2>3 DEF Acquire
    <3> QED
      BY <2>1, <3>1, <3>2 DEF LockInv
  <2>4. CASE Release(h)
    <3>1. locks' = locks \ {work[h].body}
      BY <2>4 DEF Release
    <3> QED
      BY <2>1, <3>1 DEF LockInv
  <2>5. CASE ~(Deliver(h) \/ Check(h) \/ Acquire(h) \/ Release(h))
    <3>1. work' = work /\ locks' = locks /\ Kept(h)'
      <4>1. CASE Start(h) \/ PublishPart(h) \/ Commit(h)
        BY <4>1 DEF Start, PublishPart, Commit, Goto, redis, BaseInv, TypeInv
      <4>2. CASE Read(h) \/ Write(h)
        BY <4>2 DEF Read, Write, InTx, redis
      <4>3. CASE Mark(h) \/ Fail(h) \/ Catch(h)
        BY <4>3 DEF Mark, Fail, Catch, Goto, redis, BaseInv, TypeInv
      <4> QED
        BY <1>2, <2>5, <4>1, <4>2, <4>3 DEF HandlerStep, Handle
    <3> QED
      BY <2>1, <3>1 DEF LockInv
  <2> QED
    BY <2>2, <2>3, <2>4, <2>5
<1> QED
  BY <1>1, <1>2, Steps

\* Other handlers, and what happens around them, take nothing from its progress.
LEMMA ProgressStays ==
    ASSUME BaseInv, CoverInv, [Next]_vars, NEW k \in Handlers,
           pc'[k] = pc[k], work'[k] = work[k], now'[k] = now[k], batches'[k] = batches[k],
           todo'[k] = todo[k], own'[k] = own[k]
    PROVE  ProgressInv(k)'
<1> DEFINE b == work[k].body
<1>1. pc[k] = "mark" => Settled(b)'
  BY SettledStep DEF CoverInv, ProgressInv
<1>2. pc[k] = "release" => b \in processed' \/ \E c \in BagToSet(delayed') \union dead' : c.body = b
  BY WorldGrows, DelayedStays DEF CoverInv, ProgressInv
<1>3. \A id : InParts(k, id)' <=> InParts(k, id)
  BY DEF InParts, Parts
<1>4. \A id : Done(b, id) \/ PartHeld(b, id) => Done(b, id)' \/ PartHeld(b, id)'
  BY DoneStays, PartStays
<1>5. \A id : Done(b, id) => Done(b, id)'
  BY DoneStays
<1>6. pc[k] = "tx" =>
        /\ now[k] \subseteq past'
        /\ Clear(Labels(Script[b.table]) \ Labels(todo[k]), Batch(k), View(k)', now[k])
  <2>1. Within(View(k), View(k)')
    <3>1. Within(db, db')
      BY WorldGrows
    <3> QED
      BY <3>1, PlusType DEF View, Within, Plus
  <2>2. PartOf(Batch(k), Batch(k))
    BY DEF PartOf
  <2> QED
    BY <2>1, <2>2, WorldGrows, StillLess DEF CoverInv, ProgressInv
<1>7. Parts(k)' = Parts(k) /\ Batch(k)' = Batch(k) /\ b' = b
  BY DEF Parts, Batch
<1> QED
  BY <1>1, <1>2, <1>3, <1>4, <1>5, <1>6, <1>7 DEF CoverInv, ProgressInv

\* The first of the parts, and the others
LEMMA PartsSplit ==
    ASSUME BaseInv, NEW h \in Handlers, pc[h] \in {"publish", "tx"}
    PROVE  /\ Parts(h) = {Head(batches[h])} \union Labels(Tail(batches[h]))
           /\ Len(batches[h]) = 1 => Labels(Tail(batches[h])) = {}
           /\ Batch(h).ids = Head(batches[h]) /\ Ids(Batch(h)) = Labels(Head(batches[h]))
           /\ Batch(h).table = work[h].body.table /\ Batch(h).rel = work[h].body.rel
           /\ PartOf(Batch(h), work[h].body)
<1>1. /\ batches[h] \in Seq(Seq(Ids(work[h].body))) /\ batches[h] # <<>>
      /\ IsCopy(work[h])
  BY DEF BaseInv, HandlerInv
<1>2. PartOf(Batch(h), work[h].body) /\ Batch(h).ids = Head(batches[h])
  BY <1>1, BatchIsCopy
<1>3. /\ Parts(h) = {Head(batches[h])} \union Labels(Tail(batches[h]))
      /\ Len(batches[h]) = 1 => Labels(Tail(batches[h])) = {}
  <2>1. PICK S, s : S = Seq(Ids(work[h].body)) /\ s = batches[h]
    OBVIOUS
  <2>2. s \in Seq(S) /\ s # <<>>
    BY <1>1, <2>1
  <2>3. /\ Labels(s) = {Head(s)} \union Labels(Tail(s)) /\ Tail(s) \in Seq(S)
        /\ Len(Tail(s)) = Len(s) - 1
    BY <2>2, SeqParts
  <2>4. Len(s) = 1 => Labels(Tail(s)) = {}
    <3>1. PICK u : u = Tail(s)
      OBVIOUS
    <3>2. u \in Seq(S) /\ (Len(s) = 1 => Len(u) = 0)
      BY <2>3, <3>1
    <3>3. Len(u) = 0 => DOMAIN u = {}
      BY <3>2
    <3>4. Len(u) = 0 => Labels(u) = {}
      BY <3>3 DEF Labels
    <3> QED
      BY <3>1, <3>2, <3>4
  <2> QED
    BY <2>1, <2>3, <2>4 DEF Parts
<1> QED
  BY <1>2, <1>3 DEF PartOf, Ids, Labels

\* Splitting and chunking lose no id.
LEMMA ProgressStart ==
    ASSUME BaseInv, CoverInv, [Next]_vars, NEW h \in Handlers, Start(h)
    PROVE  ProgressInv(h)'
<1> DEFINE b == work[h].body
<1>1. IsBody(b) /\ Valid(b) /\ work' = work /\ past' = past
  BY DEF Start, BaseInv, HandlerInv, IsCopy, world
<1>2. b.ids \in Seq(Ids(b)) /\ Len(b.ids) \in Nat /\ Labels(b.ids) = Ids(b)
  BY <1>1 DEF IsBody, Ids, Labels
<1>3. \/ /\ pc'[h] = "publish" /\ batches'[h] = Chunks(b.ids, MaxIds) /\ Len(b.ids) > MaxIds
      \/ /\ pc'[h] = "tx" /\ batches'[h] = Chunks(b.ids, Chunk) /\ Len(b.ids) <= MaxIds
         /\ todo'[h] = Script[b.table] /\ now'[h] = past
      \/ /\ pc'[h] = "mark" /\ Script[b.table] = <<>>
  BY DEF Start, Goto, BaseInv, TypeInv, IsFunction
<1> HIDE DEF b
<1>4. CASE /\ pc'[h] = "publish" /\ batches'[h] = Chunks(b.ids, MaxIds) /\ Len(b.ids) > MaxIds
  <2>1. ~Small(b)
    BY <1>2, <1>4 DEF Small
  <2>2. /\ \A s \in Parts(h)' : Len(s) <= MaxIds
        /\ \A id \in Ids(b) : InParts(h, id)'
    BY <1>2, <1>4, ChunksCover DEF Parts, InParts
  <2> QED
    BY <1>1, <1>4, <2>1, <2>2 DEF ProgressInv, b
<1>5. CASE /\ pc'[h] = "tx" /\ batches'[h] = Chunks(b.ids, Chunk) /\ Len(b.ids) <= MaxIds
           /\ todo'[h] = Script[b.table] /\ now'[h] = past
  <2>1. \A id \in Ids(b) : InParts(h, id)'
    BY <1>2, <1>5, ChunksCover DEF Parts, InParts
  <2>2. Clear(Labels(Script[b.table]) \ Labels(todo'[h]), Batch(h)', View(h)', now'[h])
    BY <1>5 DEF Clear
  <2> QED
    BY <1>1, <1>5, <2>1, <2>2 DEF ProgressInv, b, Small
<1>6. CASE pc'[h] = "mark" /\ Script[b.table] = <<>>
  <2>1. Labels(Script[b'.table]) = {}
    BY <1>1, <1>6 DEF Labels, b
  <2>2. \A id : Done(b, id)'
    BY <2>1 DEF Done, Clear
  <2>3. Settled(b)'
    BY <2>2 DEF Settled
  <2> QED
    BY <1>1, <1>6, <2>3 DEF ProgressInv, b
<1> QED
  BY <1>3, <1>4, <1>5, <1>6

\* An id of a part published pends with the part.
LEMMA ProgressPublish ==
    ASSUME BaseInv, CoverInv, [Next]_vars, NEW h \in Handlers, PublishPart(h)
    PROVE  ProgressInv(h)'
<1> DEFINE b == work[h].body
           c == [work[h] EXCEPT !.body = Batch(h)]
<1>1. /\ work' = work /\ pc[h] = "publish" /\ queue' = queue (+) One(c)
      /\ batches'[h] = Tail(batches[h])
      /\ pc'[h] = IF Len(batches[h]) = 1 THEN "mark" ELSE "publish"
  BY DEF PublishPart, Goto, BaseInv, TypeInv, IsFunction
<1>2. /\ ~Small(b) /\ \A s \in Parts(h) : Len(s) <= MaxIds
      /\ \A id \in Ids(b) : Done(b, id) \/ PartHeld(b, id) \/ InParts(h, id)
  BY <1>1 DEF CoverInv, ProgressInv
<1>3. /\ Parts(h) = {Head(batches[h])} \union Parts(h)'
      /\ Len(batches[h]) = 1 => Parts(h)' = {}
  BY <1>1, PartsSplit DEF Parts
<1>4. c.body = Batch(h) /\ c \in Pending'
  <2>0. pc[h] # "idle" => IsCopy(work[h])
    BY DEF BaseInv, HandlerInv
  <2>1. PICK x, n : work[h] = [body |-> x, retries |-> n]
    BY <1>1, <2>0 DEF IsCopy
  <2>2. PICK y : y = Batch(h)
    OBVIOUS
  <2>3. c = [body |-> y, retries |-> n]
    BY <2>1, <2>2
  <2>4. c.body = Batch(h)
    BY <2>2, <2>3
  <2> QED
    BY <1>1, <2>4, Put DEF Pending, BaseInv, TypeInv
<1> HIDE DEF c
<1>5. ASSUME NEW id \in Labels(Head(batches[h]))
      PROVE  PartHeld(b, id)'
  <2>1. Carries(c, b, id)
    BY <1>1, <1>4, <1>5, PartsSplit DEF Carries
  <2>2. Small(c.body)
    BY <1>1, <1>2, <1>3, <1>4, PartsSplit DEF Small
  <2>3. b' = b
    BY <1>1
  <2> QED
    BY <1>4, <2>1, <2>2, <2>3 DEF PartHeld, Carries, Small
<1>6. \A id \in Ids(b) : Done(b, id)' \/ PartHeld(b, id)' \/ InParts(h, id)'
  <2>1. ASSUME NEW id \in Ids(b)
        PROVE  Done(b, id)' \/ PartHeld(b, id)' \/ InParts(h, id)'
    <3>1. CASE Done(b, id) \/ PartHeld(b, id)
      <4>1. PICK y : y = b
        OBVIOUS
      <4>2. Done(y, id)' \/ PartHeld(y, id)'
        BY <3>1, <4>1, DoneStays, PartStays
      <4>3. y = b'
        BY <1>1, <4>1
      <4> QED
        BY <4>2, <4>3
    <3>2. CASE InParts(h, id)
      BY <1>3, <1>5, <3>2 DEF InParts
    <3> QED
      BY <1>2, <3>1, <3>2
  <2> QED
    BY <2>1
<1>7. CASE Len(batches[h]) # 1
  BY <1>1, <1>2, <1>3, <1>6, <1>7 DEF ProgressInv
<1>8. CASE Len(batches[h]) = 1
  <2>1. \A id : ~InParts(h, id)'
    BY <1>3, <1>8 DEF InParts
  <2>2. Settled(b)'
    BY <1>1, <1>2, <1>6, <2>1 DEF Settled
  <2> QED
    BY <1>1, <1>8, <2>2 DEF ProgressInv
<1> QED
  BY <1>7, <1>8

\* Statements that find nothing, together
LEMMA ClearUnion ==
    ASSUME NEW A, NEW B, NEW C, NEW b, NEW view, NEW ended, C \subseteq A \union B,
           Clear(A, b, view, ended), Clear(B, b, view, ended)
    PROVE  Clear(C, b, view, ended)
BY DEF Clear

\* A statement that has run, or that a read has made useless, finds nothing more.
LEMMA ClearStep ==
    ASSUME BaseInv, CoverInv, NEW h \in Handlers, OnScript(h), [Next]_vars, Read(h) \/ Write(h)
    PROVE  Clear(Labels(Script[work[h].body.table]) \ Labels(todo'[h]), Batch(h), View(h)', now[h])
<1> DEFINE S == Labels(Script[work[h].body.table])
           l == Head(todo[h])
<1>1. /\ InTx(h) /\ Clear(S \ Labels(todo[h]), Batch(h), View(h), now[h])
      /\ found[h] \subseteq Groups /\ Valid(work[h].body)
  BY DEF Read, Write, InTx, CoverInv, ProgressInv, BaseInv, TypeInv, HandlerInv
<1>2. /\ Labels(todo[h]) = {l} \union Labels(Tail(todo[h])) /\ l \in S /\ l \in AllLabels
      /\ Tail(todo[h]) \in Seq(S)
  BY <1>1, NextStatement
<1>3. S \ Labels(Tail(todo[h])) \subseteq (S \ Labels(todo[h])) \union {l}
  BY <1>2
<1>4. Batch(h).table = work[h].body.table
  BY <1>1, PartsSplit DEF InTx
<1>5. PartOf(Batch(h), Batch(h))
  BY DEF PartOf
<1>6. CASE Write(h)
  <2>1. /\ todo'[h] = Tail(todo[h]) /\ db' = db /\ l \notin Reads
        /\ own'[h] = Plus(own[h], Effect(l, Matched(h)))
        /\ Matched(h) = Match(l, Batch(h), View(h), now[h], found[h])
    BY <1>6 DEF Write, Matched, View, BaseInv, TypeInv, IsFunction
  <2>2. /\ View(h)' = Plus(db, Plus(own[h], Effect(l, Matched(h)))) /\ View(h) = Plus(db, own[h])
    BY <2>1 DEF View
  <2>3. Within(Plus(View(h), Effect(l, Matched(h))), View(h)') /\ Within(View(h), View(h)')
    BY <2>2, PlusType DEF Within
  <2>4. Clear({l}, Batch(h), View(h)', now[h])
    BY <1>1, <1>2, <1>4, <2>1, <2>3, AfterEffect DEF Valid
  <2>5. Clear(S \ Labels(todo[h]), Batch(h), View(h)', now[h])
    BY <1>1, <1>5, <2>3, StillLess
  <2> QED
    BY <1>3, <2>1, <2>4, <2>5, ClearUnion
<1>7. CASE Read(h)
  <2>1. /\ l \in Reads /\ View(h)' = View(h)
        /\ Matched(h) = Match(l, Batch(h), View(h), now[h], found[h])
        /\ todo'[h] = Tail(todo[h]) \/ (todo'[h] = <<>> /\ Matched(h) = {})
    <3>1. l \in Reads /\ View(h)' = View(h)
      BY <1>7 DEF Read, View
    <3>2. Matched(h) = Match(l, Batch(h), View(h), now[h], found[h])
      BY DEF Matched, View
    <3>3. PICK matched, groups :
              /\ matched = Matched(h)
              /\ groups = IF Head(todo[h]) = "affected" THEN {GroupOf(s) : s \in matched} ELSE matched
              /\ todo' = [todo EXCEPT ![h] = IF groups = {} THEN <<>> ELSE Tail(@)]
      BY <1>7 DEF Read
    <3>4. groups = {} => matched = {}
      <4> SUFFICES ASSUME NEW s \in matched PROVE groups # {}
        OBVIOUS
      <4>1. groups = {GroupOf(x) : x \in matched} \/ groups = matched
        BY <3>3
      <4>2. CASE groups = matched
        BY <4>2
      <4>3. CASE groups = {GroupOf(x) : x \in matched}
        <5>1. GroupOf(s) \in groups
          BY <4>3
        <5> QED
          BY <5>1
      <4> QED
        BY <4>1, <4>2, <4>3
    <3>5. todo'[h] = IF groups = {} THEN <<>> ELSE Tail(todo[h])
      BY <3>3 DEF BaseInv, TypeInv, IsFunction
    <3> QED
      BY <3>1, <3>2, <3>3, <3>4, <3>5
  <2>2. Clear({l}, Batch(h), View(h), now[h])
    BY <2>1 DEF Clear
  <2>3. CASE todo'[h] = Tail(todo[h])
    BY <1>1, <1>3, <2>1, <2>2, <2>3, ClearUnion
  <2>4. CASE todo'[h] = <<>> /\ Matched(h) = {}
    <3>1. work[h].body.table \in OfClients
      <4>1. l \in {"affected", "emptied"}
        BY <2>1 DEF Reads
      <4>2. CASE work[h].body.table \in OfOwners
        BY <1>1, <4>1, <4>2, OwnerStatement
      <4>3. CASE work[h].body.table \notin OfClients \union OfOwners
        <5>1. l \in Plain
          BY <1>1, <1>2, <4>3, PlainScripts DEF Valid
        <5> QED
          BY <4>1, <5>1 DEF Plain
      <4> QED
        BY <4>2, <4>3
    <3>2. S \subseteq {"affected", "leave", "emptied", "close", "closeEvents"}
      <4>1. Script[work[h].body.table] = Leaving
        BY <3>1 DEF OfClients, Script
      <4>2. Leaving \in Seq({"affected", "leave", "emptied", "close", "closeEvents"})
        BY DEF Leaving
      <4> QED
        BY <4>1, <4>2, SeqParts
    <3>3. Clear({"affected", "emptied", "close", "closeEvents"}, Batch(h), View(h), now[h])
      BY DEF Clear, Reads, Still
    <3>4. Clear({"leave"}, Batch(h), View(h), now[h])
      <4>1. CASE l = "affected"
        <5>1. Match("leave", Batch(h), View(h), now[h], found[h]) = {}
          <6> DEFINE matched == {s \in Seats : /\ Names(Batch(h), s, View(h)) /\ ActiveIn(s, View(h))
                                            /\ ActiveIn(GroupOf(s), View(h))
                                            /\ GroupOf(s) \notin now[h]}
          <6>1. Match("leave", Batch(h), View(h), now[h], found[h]) = matched
            BY <1>1, Deletes
          <6>2. Match("affected", Batch(h), View(h), now[h], found[h]) = matched
            BY <1>1, Deletes
          <6> QED
            BY <2>1, <2>4, <4>1, <6>1, <6>2
        <5>2. "leave" \in AllLabels \ Reads
          BY DEF AllLabels, Reads
        <5> QED
          BY <5>1, <5>2, MatchStill DEF Clear
      <4>2. CASE l = "emptied"
        <5>1. todo[h] = <<"emptied", "close", "closeEvents">>
          BY <1>1, <3>1, <4>2, ClientStatement
        <5>2. todo[h] \in Seq({"emptied", "close", "closeEvents"})
          BY <5>1
        <5>3. "leave" \notin Labels(todo[h])
          BY <5>2, SeqParts
        <5>4. "leave" \in S
          BY <3>1 DEF OfClients, Script, Leaving, Labels
        <5> QED
          BY <1>1, <5>3, <5>4 DEF Clear
      <4> QED
        BY <2>1, <4>1, <4>2 DEF Reads
    <3> QED
      BY <2>1, <3>2, <3>3, <3>4, ClearUnion
  <2> QED
    BY <2>1, <2>3, <2>4
<1> QED
  BY <1>6, <1>7

\* A statement takes the transaction on.
LEMMA ProgressStatement ==
    ASSUME BaseInv, CoverInv, NEW h \in Handlers, OnScript(h), [Next]_vars, Read(h) \/ Write(h)
    PROVE  ProgressInv(h)'
<1>1. /\ pc' = pc /\ work' = work /\ batches' = batches /\ now' = now /\ pc[h] = "tx"
      /\ past' = past
  BY DEF Read, Write, InTx, world
<1>2. /\ Small(work[h].body) /\ now[h] \subseteq past
      /\ \A id \in Ids(work[h].body) : Done(work[h].body, id) \/ InParts(h, id)
  BY <1>1 DEF CoverInv, ProgressInv
<1>3. Batch(h)' = Batch(h) /\ Parts(h)' = Parts(h)
  BY <1>1 DEF Batch, Parts
<1>4. \A id \in Ids(work[h].body) : Done(work[h].body, id)' \/ InParts(h, id)'
  <2>1. PICK y : y = work[h].body
    OBVIOUS
  <2>2. \A id \in Ids(y) : Done(y, id)' \/ InParts(h, id)
    BY <1>2, <2>1, DoneStays
  <2>3. y = work'[h].body
    BY <1>1, <2>1
  <2> QED
    BY <1>3, <2>1, <2>2, <2>3 DEF InParts
<1>5. Clear(Labels(Script[work[h].body.table]) \ Labels(todo'[h]), Batch(h), View(h)', now[h])
  BY ClearStep
<1> QED
  BY <1>1, <1>2, <1>3, <1>4, <1>5 DEF ProgressInv

\* The ids of a chunk committed are done.
LEMMA ProgressCommit ==
    ASSUME BaseInv, CoverInv, NEW h \in Handlers, [Next]_vars, Commit(h)
    PROVE  ProgressInv(h)'
<1>1. /\ work' = work /\ now' = now /\ pc[h] = "tx" /\ todo[h] = <<>> /\ past' = past
      /\ db' = View(h) /\ batches'[h] = Tail(batches[h])
      /\ \/ Len(batches[h]) > 1 /\ pc' = pc /\ todo'[h] = Script[work[h].body.table]
         \/ Len(batches[h]) = 1 /\ pc'[h] = "mark"
  BY DEF Commit, View, Goto, world, BaseInv, TypeInv, IsFunction
<1>2. /\ Small(work[h].body) /\ now[h] \subseteq past
      /\ \A id \in Ids(work[h].body) : Done(work[h].body, id) \/ InParts(h, id)
      /\ Clear(Labels(Script[work[h].body.table]) \ Labels(todo[h]), Batch(h), View(h), now[h])
  BY <1>1 DEF CoverInv, ProgressInv
<1>3. PICK y : y = work[h].body /\ y = work'[h].body
  BY <1>1
<1>4. /\ Parts(h) = {Head(batches[h])} \union Parts(h)'
      /\ Len(batches[h]) = 1 => Parts(h)' = {}
      /\ Ids(Batch(h)) = Labels(Head(batches[h]))
      /\ Batch(h).table = y.table /\ Batch(h).rel = y.rel
  BY <1>1, <1>3, PartsSplit DEF Parts
<1>5. ASSUME NEW id \in Labels(Head(batches[h]))
      PROVE  Done(y, id)'
  <2>1. Labels(todo[h]) = {}
    BY <1>1 DEF Labels
  <2>2. Clear(Labels(Script[y.table]), Batch(h), View(h), now[h])
    BY <1>2, <1>3, <2>1 DEF Clear
  <2>3. PartOf(Single(y, id), Batch(h))
    BY <1>4, <1>5 DEF PartOf, Single, Ids
  <2>4. Within(View(h), db') /\ now[h] \subseteq past'
    BY <1>1, <1>2 DEF Within
  <2>5. Clear(Labels(Script[y.table]), Single(y, id), db', past')
    BY <2>2, <2>3, <2>4, StillLess
  <2> QED
    BY <2>5 DEF Done
<1>6. \A id \in Ids(y) : Done(y, id)' \/ InParts(h, id)'
  <2>1. ASSUME NEW id \in Ids(y)
        PROVE  Done(y, id)' \/ InParts(h, id)'
    <3>1. CASE Done(y, id)
      BY <3>1, DoneStays
    <3>2. CASE InParts(h, id)
      BY <1>4, <1>5, <3>2 DEF InParts
    <3> QED
      BY <1>2, <1>3, <3>1, <3>2
  <2> QED
    BY <2>1
<1>7. CASE Len(batches[h]) > 1 /\ pc' = pc /\ todo'[h] = Script[work[h].body.table]
  <2>1. Clear(Labels(Script[y.table]) \ Labels(todo'[h]), Batch(h)', View(h)', now'[h])
    BY <1>3, <1>7 DEF Clear
  <2> QED
    BY <1>1, <1>2, <1>3, <1>6, <1>7, <2>1 DEF ProgressInv
<1>8. CASE Len(batches[h]) = 1 /\ pc'[h] = "mark"
  <2>1. \A id : ~InParts(h, id)'
    BY <1>4, <1>8 DEF InParts
  <2>2. Settled(y)'
    BY <1>6, <2>1 DEF Settled
  <2> QED
    BY <1>3, <1>8, <2>2 DEF ProgressInv
<1> QED
  BY <1>1, <1>7, <1>8

\* The steps before and after the work
LEMMA ProgressEnd ==
    ASSUME BaseInv, CoverInv, NEW h \in Handlers, [Next]_vars,
           Deliver(h) \/ Check(h) \/ Acquire(h) \/ Mark(h) \/ Fail(h) \/ Catch(h) \/ Release(h)
    PROVE  ProgressInv(h)'
<1>1. CASE Deliver(h) \/ Check(h) \/ Acquire(h) \/ Fail(h) \/ Release(h)
  <2>1. pc'[h] \in {"idle", "check", "acquire", "start", "catch"}
    BY <1>1 DEF Deliver, Check, Acquire, Fail, Release, Goto, Leave, BaseInv, TypeInv
  <2> QED
    BY <2>1 DEF ProgressInv
<1>2. CASE Mark(h)
  <2>1. pc'[h] = "release" /\ work' = work /\ work[h].body \in processed'
    BY <1>2 DEF Mark, Goto, BaseInv, TypeInv
  <2> QED
    BY <2>1 DEF ProgressInv
<1>3. CASE Catch(h)
  <2>1. pc'[h] = "release" /\ work' = work
    BY <1>3 DEF Catch, Goto, BaseInv, TypeInv
  <2>2. PICK x, n : work[h] = [body |-> x, retries |-> n]
    BY <1>3 DEF Catch, BaseInv, HandlerInv, IsCopy
  <2>3. [work[h] EXCEPT !.retries = @ + 1].body = x /\ work[h].body = x
    BY <2>2
  <2>4. \/ work[h] \in dead'
        \/ [work[h] EXCEPT !.retries = @ + 1] \in BagToSet(delayed')
    BY <1>3, Put DEF Catch, BaseInv, TypeInv
  <2>5. \E c \in BagToSet(delayed') \union dead' : c.body = x
    BY <2>3, <2>4
  <2> QED
    BY <2>1, <2>3, <2>5 DEF ProgressInv
<1> QED
  BY <1>1, <1>2, <1>3

\* CoverInv is inductive relative to BaseInv and TxInv.
LEMMA CoverStep == BaseInv /\ TxInv /\ CoverInv /\ [Next]_vars => CoverInv'
<1> SUFFICES ASSUME BaseInv, TxInv, CoverInv, [Next]_vars
             PROVE  CoverInv'
  OBVIOUS
<1>1. LockInv' /\ HeldInv' /\ \A b \in processed' : Settled(b)'
  BY LockStep, HeldStep, SettledStep DEF CoverInv
<1>2. ASSUME NEW k \in Handlers
      PROVE  ProgressInv(k)'
  <2>1. CASE OtherStep
    BY <2>1, Others, ProgressStays DEF BaseInv, local
  <2>2. ASSUME NEW h \in Handlers, HandlerStep(h)
        PROVE  ProgressInv(k)'
    <3>1. CASE k # h
      BY <2>2, <3>1, OwnState, ProgressStays DEF BaseInv
    <3>2. CASE k = h
      <4>1. OnScript(h)
        BY DEF TxInv
      <4> QED
        BY <2>2, <3>2, <4>1, ProgressStart, ProgressPublish, ProgressStatement, ProgressCommit,
           ProgressEnd DEF HandlerStep, Handle
    <3> QED
      BY <3>1, <3>2
  <2> QED
    BY <2>1, <2>2, Steps
<1> QED
  BY <1>1, <1>2 DEF CoverInv

\* It holds at the start.
LEMMA CoverInit == Init => CoverInv
<1> SUFFICES ASSUME Init PROVE CoverInv
  OBVIOUS
<1>1. HeldInv
  <2>1. ASSUME NEW b \in BagToSet(sent), NEW id \in Ids(b)
        PROVE  \E c \in Pending : Carries(c, b, id)
    <3> DEFINE c == [body |-> b, retries |-> 0]
    <3>1. c \in BagToSet(queue)
      BY DEF Init, BagToSet
    <3> QED
      BY <2>1, <3>1 DEF Pending, Carries
  <2> QED
    BY <2>1 DEF HeldInv
<1>2. LockInv /\ processed = {} /\ \A h \in Handlers : ProgressInv(h)
  BY DEF Init, LockInv, ProgressInv
<1> QED
  BY <1>1, <1>2 DEF CoverInv

-----------------------------------------------------------------------------
(* The theorems. *)

\* A booking that was deleted because its clients were is deleted with its events,
\* however many transactions fail, time out or run beside one another, and whichever
\* chunks of a message have been committed.
THEOREM BookingsGoTogether == Spec => []DeletedTogether
<1>1. TxInv => DeletedTogether
  BY DEF TxInv, TogetherInv, DeletedTogether, Owned, Gone, OfOwners
<1> QED
  BY <1>1, BaseInit, BaseStep, TxInit, TxInvStep, PTL DEF Spec

\* A booking that has lost a client and has none left is deleted, unless two open
\* transactions each took a seat of it, or one took a seat that a client had taken
\* since the transaction read which bookings it affects.
THEOREM StrandedByRaceOnly == Spec => []StrandedOnlyByRace
<1>1. TxInv => StrandedOnlyByRace
  BY DEF TxInv, LostInv, TakenBy, StrandedOnlyByRace
<1> QED
  BY <1>1, BaseInit, BaseStep, TxInit, TxInvStep, PTL DEF Spec

\* No id of a message is forgotten, however large messages are split, retried, delivered
\* twice or taken for duplicates in flight, and although locks expire.
THEOREM NothingIsForgotten == Spec => []NoIdLost
<1>1. BaseInv /\ CoverInv => NoIdLost
  BY HeldIsEnough DEF CoverInv
<1> QED
  BY <1>1, BaseInit, BaseStep, TxInit, TxInvStep, CoverInit, CoverStep, PTL DEF Spec

-----------------------------------------------------------------------------
(***************************************************************************)
(* Second part, about Availability.  It uses nothing of the first: a       *)
(* deletion reaches the starts offered only through the status of a row.   *)
(***************************************************************************)
HIDE DeletionAssumption

CONSTANTS PlatformRows, MaxRows, MaxWithdrawn, MaxNow

Avail == INSTANCE Availability

-----------------------------------------------------------------------------
(***************************************************************************)
(* What is offered for individual services: Offers, for any professionals, *)
(* hours, events and grid.                                                 *)
(***************************************************************************)

\* A set of numbers has a least one: what holds the induction on places.
LEMMA LeastNumber ==
    ASSUME NEW T, T \subseteq Nat, T # {}
    PROVE  \E x \in T : \A y \in T : x <= y
<1>1. PICK R : R = OpToRel(<, Nat) OBVIOUS
<1>2. IsWellFoundedOn(R, Nat) BY <1>1, NatLessThanWellFounded
<1>3. PICK x \in T : \A y \in T : ~ (<<y, x>> \in R) BY <1>2, WFMin
<1>4. ASSUME NEW y \in T, ~(x <= y) PROVE FALSE
  <2>1. x \in Nat /\ y \in Nat /\ y < x BY <1>4
  <2>2. PICK p : p = <<y, x>> OBVIOUS
  <2>3. p \in Nat \X Nat /\ p[1] = y /\ p[2] = x BY <2>1, <2>2
  <2>4. p[1] < p[2] BY <2>1, <2>3
  <2>5. R = {ss \in Nat \X Nat : ss[1] < ss[2]} BY <1>1 DEF OpToRel
  <2>6. p \in R BY <2>3, <2>4, <2>5
  <2> QED BY <1>3, <2>2, <2>6
<1> QED BY <1>4

LEMMA TheGreater ==
    ASSUME NEW a \in Int, NEW b \in Int
    PROVE  Max({a, b}) = IF a >= b THEN a ELSE b
<1>1. PICK c \in {a, b} : c = IF a >= b THEN a ELSE b OBVIOUS
<1>2. \A y \in {a, b} : c >= y BY <1>1
<1>3. ASSUME NEW d \in {a, b}, \A y \in {a, b} : d >= y PROVE d = c BY <1>1, <1>3
<1> QED BY <1>1, <1>2, <1>3 DEF Max

LEMMA TheLesser ==
    ASSUME NEW a \in Int, NEW b \in Int
    PROVE  Min({a, b}) = IF a <= b THEN a ELSE b
<1>1. PICK c \in {a, b} : c = IF a <= b THEN a ELSE b OBVIOUS
<1>2. \A y \in {a, b} : c <= y BY <1>1
<1>3. ASSUME NEW d \in {a, b}, \A y \in {a, b} : d <= y PROVE d = c BY <1>1, <1>3
<1> QED BY <1>1, <1>2, <1>3 DEF Min

-----------------------------------------------------------------------------
(* Sorted windows *)

Windows == [start : Int, end : Int]

\* Two windows are ordered, one way or the other.
LEMMA BeforeIsTotal ==
    ASSUME NEW v \in Windows, NEW w \in Windows, v # w
    PROVE  Before(v, w) \/ Before(w, v)
<1>1. v = [start |-> v.start, end |-> v.end] /\ w = [start |-> w.start, end |-> w.end]
  BY DEF Windows
<1>2. v.start # w.start \/ v.end # w.end BY <1>1
<1>3. v.start \in Int /\ v.end \in Int /\ w.start \in Int /\ w.end \in Int BY DEF Windows
<1> QED BY <1>2, <1>3 DEF Before

LEMMA BeforeIsAnOrder ==
    /\ \A v \in Windows : ~Before(v, v)
    /\ \A v, w, x \in Windows : Before(v, w) /\ Before(w, x) => Before(v, x)
<1>1. \A v \in Windows : v.start \in Int /\ v.end \in Int BY DEF Windows
<1>2. ASSUME NEW v \in Windows PROVE ~Before(v, v) BY <1>1 DEF Before
<1>3. ASSUME NEW v \in Windows, NEW w \in Windows, NEW x \in Windows,
             Before(v, w), Before(w, x)
      PROVE  Before(v, x)
  BY <1>1, <1>3 DEF Before
<1> QED BY <1>2, <1>3

Place(S, w) == Cardinality({v \in S : Before(v, w)})

\* A window's place is the number of those before it: distinct places below the
\* number of windows.
LEMMA Places ==
    ASSUME NEW S, S \subseteq Windows, IsFiniteSet(S)
    PROVE  /\ Cardinality(S) \in Nat
           /\ \A w \in S : Place(S, w) \in 0..(Cardinality(S) - 1)
           /\ \A v, w \in S : Before(v, w) => Place(S, v) < Place(S, w)
           /\ \A v, w \in S : Place(S, v) = Place(S, w) => v = w
<1> DEFINE P(w) == {v \in S : Before(v, w)}
<1>1. \A w \in S : IsFiniteSet(P(w)) /\ Cardinality(P(w)) \in Nat
  <2>1. ASSUME NEW w \in S PROVE IsFiniteSet(P(w)) /\ Cardinality(P(w)) \in Nat
    <3>1. P(w) \in SUBSET S OBVIOUS
    <3>2. IsFiniteSet(P(w)) BY <3>1, FS_Subset
    <3> HIDE DEF P
    <3> QED BY <3>2, FS_CardinalityType
  <2> QED BY <2>1
<1>2. PICK n \in Nat : n = Cardinality(S) BY FS_CardinalityType
<1>3. ASSUME NEW w \in S PROVE Cardinality(P(w)) < n
  <2>1. P(w) \in SUBSET S OBVIOUS
  <2>2. w \notin P(w) BY BeforeIsAnOrder
  <2>3. P(w) # S BY <2>2
  <2> HIDE DEF P
  <2>4. Cardinality(P(w)) <= n /\ Cardinality(P(w)) # n BY <1>2, <2>1, <2>3, FS_Subset
  <2> QED BY <1>1, <2>4
<1>4. ASSUME NEW v \in S, NEW w \in S, Before(v, w)
      PROVE  Cardinality(P(v)) < Cardinality(P(w))
  <2>1. P(v) \in SUBSET P(w) BY <1>4, BeforeIsAnOrder
  <2>2. v \in P(w) /\ v \notin P(v) BY <1>4, BeforeIsAnOrder
  <2>3. P(v) # P(w) BY <2>2
  <2>4. IsFiniteSet(P(w)) /\ Cardinality(P(w)) \in Nat /\ Cardinality(P(v)) \in Nat BY <1>1
  <2> HIDE DEF P
  <2>5. Cardinality(P(v)) <= Cardinality(P(w)) /\ Cardinality(P(v)) # Cardinality(P(w))
    BY <2>1, <2>3, <2>4, FS_Subset
  <2> QED BY <2>4, <2>5
<1>5. \A w \in S : Place(S, w) = Cardinality(P(w)) BY DEF Place
<1> HIDE DEF P
<1>6. \A w \in S : Place(S, w) \in 0..(n - 1) BY <1>1, <1>2, <1>3, <1>5
<1>7. \A v, w \in S : Before(v, w) => Place(S, v) < Place(S, w) BY <1>4, <1>5
<1>8. ASSUME NEW v \in S, NEW w \in S, Place(S, v) = Place(S, w), v # w PROVE FALSE
  <2>1. Before(v, w) \/ Before(w, v) BY <1>8, BeforeIsTotal
  <2>2. Place(S, v) < Place(S, w) \/ Place(S, w) < Place(S, v) BY <1>7, <2>1
  <2> QED BY <1>6, <1>8, <2>2
<1> QED BY <1>2, <1>6, <1>7, <1>8

\* Sorted lists each window once, by its start.
LEMMA SortedFacts ==
    ASSUME NEW S, S \subseteq Windows, IsFiniteSet(S)
    PROVE  /\ Cardinality(S) \in Nat /\ Len(Sorted(S)) = Cardinality(S)
           /\ \A i \in 1..Cardinality(S) : Sorted(S)[i] \in S
           /\ \A w \in S : \E i \in 1..Cardinality(S) : Sorted(S)[i] = w
           /\ \A i, j \in 1..Cardinality(S) :
                i < j => Sorted(S)[i].start <= Sorted(S)[j].start
<1>1. PICK n \in Nat : n = Cardinality(S) BY FS_CardinalityType
<1>2. PICK place : place = [w \in S |-> Place(S, w)] OBVIOUS
<1>3. /\ IsFiniteSet(0..(n - 1)) /\ Cardinality(0..(n - 1)) = n
  <2>1. /\ IsFiniteSet(0..(n - 1))
        /\ Cardinality(0..(n - 1)) = IF 0 > n - 1 THEN 0 ELSE (n - 1) - 0 + 1
    BY FS_Interval
  <2> QED BY <2>1
<1>4. \A w \in S : place[w] \in 0..(n - 1) BY <1>1, <1>2, Places
<1>5. place \in Injection(S, 0..(n - 1))
  <2>1. \A v, w \in S : place[v] = place[w] => v = w BY <1>2, Places
  <2>2. place \in [S -> 0..(n - 1)] /\ DOMAIN place = S BY <1>2, <1>4
  <2> QED BY <2>1, <2>2 DEF Injection, IsInjective
<1>6. place \in Surjection(S, 0..(n - 1)) BY <1>1, <1>3, <1>5, FS_Injection
<1>7. PICK list : list = Sorted(S) OBVIOUS
<1>8. ASSUME NEW i \in 1..n PROVE list[i] \in S /\ place[list[i]] = i - 1
  <2>1. PICK w \in S : place[w] = i - 1 BY <1>6 DEF Surjection
  <2>2. list[i] = CHOOSE v \in S : Place(S, v) = i - 1 BY <1>1, <1>7 DEF Sorted, Place
  <2>3. Place(S, w) = i - 1 BY <1>2, <2>1
  <2>4. list[i] \in S /\ Place(S, list[i]) = i - 1 BY <2>2, <2>3
  <2> QED BY <1>2, <2>4
<1>9. Len(list) = n
  <2>1. list = [i \in 1..n |-> CHOOSE w \in S : Cardinality({v \in S : Before(v, w)}) = i - 1]
    BY <1>1, <1>7 DEF Sorted
  <2> QED BY <2>1
<1>10. ASSUME NEW w \in S PROVE \E i \in 1..n : list[i] = w
  <2>1. place[w] + 1 \in 1..n BY <1>4
  <2>2. place[list[place[w] + 1]] = place[w] /\ list[place[w] + 1] \in S BY <1>4, <1>8, <2>1
  <2>3. list[place[w] + 1] = w BY <1>2, <2>2, Places
  <2> QED BY <2>1, <2>3
<1>11. ASSUME NEW i \in 1..n, NEW j \in 1..n, i < j PROVE list[i].start <= list[j].start
  <2>1. list[i] \in S /\ list[j] \in S /\ place[list[i]] < place[list[j]] BY <1>8, <1>11
  <2>2. Place(S, list[i]) < Place(S, list[j]) BY <1>2, <2>1
  <2>3. list[i] # list[j] BY <1>4, <2>1
  <2>4. ~Before(list[j], list[i]) BY <1>2, <1>4, <2>1, <2>2, Places
  <2>5. Before(list[i], list[j]) BY <2>1, <2>3, <2>4, BeforeIsTotal
  <2>6. list[i].start \in Int /\ list[j].start \in Int BY <2>1 DEF Windows
  <2> QED BY <2>5, <2>6 DEF Before
<1> QED BY <1>1, <1>7, <1>8, <1>9, <1>10, <1>11

-----------------------------------------------------------------------------
(* Merged windows *)

\* The recursion over the sorted windows defines the merge.
LEMMA JoinsDefined ==
    ASSUME NEW list, Len(list) \in Nat
    PROVE  \A i \in 1..Len(list) :
             Joins(list)[i] = IF i = 1 THEN [done |-> {}, last |-> list[1]]
                              ELSE Joined(Joins(list)[i - 1], list[i])
<1> DEFINE Defines(g, n) ==
             g = [i \in 1..n |-> IF i = 1 THEN [done |-> {}, last |-> list[1]]
                                 ELSE Joined(g[i - 1], list[i])]
           Bad == {n \in Nat : ~\E g : Defines(g, n)}
<1>1. Bad = {}
  <2> SUFFICES ASSUME Bad # {} PROVE FALSE OBVIOUS
  <2>1. PICK n \in Bad : \A m \in Bad : n <= m BY LeastNumber
  <2>2. n \in Nat /\ ~\E g : Defines(g, n) OBVIOUS
  <2>3. n # 0
    <3> SUFFICES ASSUME n = 0 PROVE FALSE OBVIOUS
    <3>1. PICK g : g = [i \in {} |-> list] OBVIOUS
    <3>2. 1..0 = {} OBVIOUS
    <3>3. g = [i \in 1..0 |-> IF i = 1 THEN [done |-> {}, last |-> list[1]]
                              ELSE Joined(g[i - 1], list[i])]
      BY <3>1, <3>2
    <3> QED BY <2>2, <3>3
  <2>4. n - 1 \in Nat /\ ~(n <= n - 1) BY <2>2, <2>3
  <2>5. PICK g : Defines(g, n - 1)
    <3>1. n - 1 \notin Bad BY <2>1, <2>4
    <3> QED BY <2>4, <3>1
  <2>6. PICK h : h = [i \in 1..n |-> IF i = 1 THEN [done |-> {}, last |-> list[1]]
                                     ELSE Joined(g[i - 1], list[i])]
    OBVIOUS
  <2>7. ASSUME NEW k \in 1..(n - 1) PROVE h[k] = g[k]
    <3>1. g[k] = IF k = 1 THEN [done |-> {}, last |-> list[1]] ELSE Joined(g[k - 1], list[k])
      BY <2>5
    <3>2. k \in 1..n BY <2>2
    <3> QED BY <2>6, <3>1, <3>2
  <2>8. \A i \in 1..n : i # 1 => i - 1 \in 1..(n - 1) BY <2>2
  <2>9. \A i \in 1..n : i # 1 => h[i - 1] = g[i - 1] BY <2>7, <2>8
  <2>10. h = [i \in 1..n |-> IF i = 1 THEN [done |-> {}, last |-> list[1]]
                             ELSE Joined(h[i - 1], list[i])]
    BY <2>6, <2>9
  <2> QED BY <2>2, <2>10
<1>2. PICK g : Defines(g, Len(list))
  <2>1. Len(list) \in Nat OBVIOUS
  <2>2. Len(list) \notin Bad BY <1>1
  <2> QED BY <2>1, <2>2
<1>3. Defines(Joins(list), Len(list)) BY <1>2 DEF Joins
<1> QED BY <1>3

Proper == {w \in Windows : w.start < w.end}

During(x, w) == w.start <= x /\ x < w.end

Apart(v, w) == v.end < w.start \/ w.end < v.start

\* What has been merged of the first n windows of a list: windows that cover the
\* same time, apart from one another; only the last may still grow.
Merging(out, list, n) ==
    LET all == out.done \union {out.last}
    IN  /\ all \subseteq Proper
        /\ \A w \in all, x \in Int : During(x, w) => \E k \in 1..n : During(x, list[k])
        /\ \A k \in 1..n : \E w \in all : w.start <= list[k].start /\ list[k].end <= w.end
        /\ \A w \in out.done : w.end < out.last.start
        /\ \A v, w \in out.done : v # w => Apart(v, w)
        /\ out.last.start <= list[n].start

LEMMA MergingStarts ==
    ASSUME NEW list, list[1] \in Proper
    PROVE  Merging([done |-> {}, last |-> list[1]], list, 1)
<1>1. PICK w \in Proper : w = list[1] OBVIOUS
<1>2. PICK out : out = [done |-> {}, last |-> w] OBVIOUS
<1>3. out.done = {} /\ out.last = w BY <1>2
<1>4. w.start \in Int /\ w.end \in Int BY DEF Proper, Windows
<1>5. 1..1 = {1} OBVIOUS
<1>7. out.done \union {out.last} = {w} BY <1>3
<1>8. Merging(out, list, 1)
  <2>1. \A k \in 1..1 : list[k] = w BY <1>1, <1>5
  <2>2. 1 \in 1..1 OBVIOUS
  <2> QED BY <1>1, <1>3, <1>4, <1>7, <2>1, <2>2 DEF Merging
<1> QED BY <1>1, <1>2, <1>8

LEMMA MergingGoesOn ==
    ASSUME NEW list, NEW out, NEW n \in Nat \ {0}, Merging(out, list, n),
           \A k \in 1..(n + 1) : list[k] \in Proper, list[n].start <= list[n + 1].start
    PROVE  Merging(Joined(out, list[n + 1]), list, n + 1)
<1>1. PICK w \in Proper : w = list[n + 1] OBVIOUS
<1>2. w.start \in Int /\ w.end \in Int /\ w.start < w.end BY DEF Proper, Windows
<1>3. PICK last : last = out.last OBVIOUS
<1>4. last \in Proper BY <1>3 DEF Merging
<1>5. last.start \in Int /\ last.end \in Int /\ last.start < last.end BY <1>4 DEF Proper, Windows
<1>6. last.start <= w.start
  <2>1. last.start <= list[n].start BY <1>3 DEF Merging
  <2>2. list[n].start \in Int BY DEF Proper, Windows
  <2> QED BY <1>1, <1>2, <1>5, <2>1, <2>2
<1>7. \A k \in 1..(n + 1) : k \in 1..n \/ k = n + 1 OBVIOUS
<1>8. \A k \in 1..n : k \in 1..(n + 1) OBVIOUS
<1>9. n + 1 \in 1..(n + 1) OBVIOUS
<1>10. CASE w.start <= last.end
  <2>1. PICK m : m = [start |-> last.start, end |-> Max({last.end, w.end})] OBVIOUS
  <2>2. PICK new : new = [done |-> out.done, last |-> m] OBVIOUS
  <2>3. Joined(out, w) = new BY <1>3, <1>10, <2>1, <2>2 DEF Joined
  <2>4. /\ m.start = last.start /\ m.end = (IF last.end >= w.end THEN last.end ELSE w.end)
        /\ m \in Proper
    <3>1. Max({last.end, w.end}) = IF last.end >= w.end THEN last.end ELSE w.end
      BY <1>2, <1>5, TheGreater
    <3>2. m.start \in Int /\ m.end \in Int /\ m.start < m.end BY <1>2, <1>5, <2>1, <3>1
    <3> QED BY <2>1, <3>1, <3>2 DEF Proper, Windows
  <2>5. new.done = out.done /\ new.last = m BY <2>2
  <2>6. out.done \subseteq Proper BY DEF Merging
  <2>7. ASSUME NEW v \in out.done \union {m}, NEW x \in Int, During(x, v)
        PROVE  \E k \in 1..(n + 1) : During(x, list[k])
    <3>1. v \in out.done \/ During(x, last) \/ During(x, w)
      BY <1>2, <1>5, <1>10, <2>4, <2>7 DEF During
    <3>2. v \in out.done \/ During(x, last) => \E k \in 1..n : During(x, list[k])
      BY <1>3, <2>7 DEF Merging
    <3> QED BY <1>1, <1>8, <1>9, <3>1, <3>2
  <2>8. ASSUME NEW k \in 1..(n + 1)
        PROVE  \E v \in out.done \union {m} : v.start <= list[k].start /\ list[k].end <= v.end
    <3>1. CASE k = n + 1
      <4>1. m.start <= w.start /\ w.end <= m.end BY <1>2, <1>5, <1>6, <2>4
      <4> QED BY <1>1, <3>1, <4>1
    <3>2. CASE k \in 1..n
      <4>1. PICK v \in out.done \union {last} : v.start <= list[k].start /\ list[k].end <= v.end
        BY <1>3, <3>2 DEF Merging
      <4>2. CASE v \in out.done BY <4>1, <4>2
      <4>3. CASE v = last
        <5>1. list[k].start \in Int /\ list[k].end \in Int BY <1>8, <3>2 DEF Proper, Windows
        <5>2. m.start <= list[k].start /\ list[k].end <= m.end
          BY <1>2, <1>5, <2>4, <4>1, <4>3, <5>1
        <5> QED BY <5>2
      <4> QED BY <4>1, <4>2, <4>3
    <3> QED BY <1>7, <3>1, <3>2
  <2>9. \A v \in out.done : v.end < m.start BY <1>3, <2>4 DEF Merging
  <2>10. \A v, x \in out.done : v # x => Apart(v, x) BY DEF Merging
  <2>11. m.start <= list[n + 1].start BY <1>1, <1>6, <2>4
  <2>12. Merging(new, list, n + 1)
    BY <2>4, <2>5, <2>6, <2>7, <2>8, <2>9, <2>10, <2>11 DEF Merging
  <2> QED BY <1>1, <2>3, <2>12
<1>11. CASE ~(w.start <= last.end)
  <2>1. PICK new : new = [done |-> out.done \union {last}, last |-> w] OBVIOUS
  <2>2. Joined(out, w) = new BY <1>3, <1>11, <2>1 DEF Joined
  <2>3. new.done = out.done \union {last} /\ new.last = w BY <2>1
  <2>4. out.done \subseteq Proper BY DEF Merging
  <2>6. ASSUME NEW v \in (out.done \union {last}) \union {w}, NEW x \in Int, During(x, v)
        PROVE  \E k \in 1..(n + 1) : During(x, list[k])
    <3>1. v \in out.done \union {last} => \E k \in 1..n : During(x, list[k])
      BY <1>3, <2>6 DEF Merging
    <3> QED BY <1>1, <1>8, <1>9, <2>6, <3>1
  <2>7. ASSUME NEW k \in 1..(n + 1)
        PROVE  \E v \in (out.done \union {last}) \union {w} :
                 v.start <= list[k].start /\ list[k].end <= v.end
    <3>1. CASE k = n + 1 BY <1>1, <1>2, <3>1
    <3>2. CASE k \in 1..n BY <1>3, <3>2 DEF Merging
    <3> QED BY <1>7, <3>1, <3>2
  <2>8. \A v \in out.done : v.end < last.start BY <1>3 DEF Merging
  <2>9. \A v \in out.done : v.start \in Int /\ v.end \in Int BY <2>4 DEF Proper, Windows
  <2>10. \A v \in out.done \union {last} : v.end < w.start
    <3>1. last.end < w.start BY <1>2, <1>5, <1>11
    <3>2. ASSUME NEW v \in out.done PROVE v.end < w.start
      BY <1>2, <1>5, <2>8, <2>9, <3>1
    <3> QED BY <3>1, <3>2
  <2>11. \A v, x \in out.done : v # x => Apart(v, x) BY DEF Merging
  <2>12. \A v, x \in out.done \union {last} : v # x => Apart(v, x) BY <2>8, <2>11 DEF Apart
  <2>13. w.start <= list[n + 1].start BY <1>1, <1>2
  <2>14. Merging(new, list, n + 1)
    BY <1>4, <2>3, <2>4, <2>6, <2>7, <2>10, <2>12, <2>13 DEF Merging
  <2> QED BY <1>1, <2>2, <2>14
<1> QED BY <1>1, <1>10, <1>11

\* Merging keeps the time that is covered, and makes one window of what touches.
LEMMA MergeFacts ==
    ASSUME NEW S, S \subseteq Proper, IsFiniteSet(S)
    PROVE  /\ MergeTouching(S) \subseteq Proper
           /\ \A w \in MergeTouching(S), x \in Int : During(x, w) => \E v \in S : During(x, v)
           /\ \A a, b \in Int :
                a < b /\ (\A x \in a..(b - 1) : \E v \in S : During(x, v)) =>
                  \E w \in MergeTouching(S) : w.start <= a /\ b <= w.end
<1>1. CASE S = {}
  <2>1. MergeTouching(S) = {} BY <1>1 DEF MergeTouching
  <2>2. ASSUME NEW a \in Int, NEW b \in Int, a < b,
               \A x \in a..(b - 1) : \E v \in S : During(x, v)
        PROVE  FALSE
    <3>1. a \in a..(b - 1) BY <2>2
    <3> QED BY <1>1, <2>2, <3>1
  <2> QED BY <2>1, <2>2
<1>2. CASE S # {}
  <2>0. S \subseteq Windows BY DEF Proper
  <2>1. PICK n \in Nat : n = Cardinality(S) BY FS_CardinalityType
  <2>2. n # 0 BY <1>2, <2>1, FS_EmptySet
  <2>3. PICK list : list = Sorted(S) OBVIOUS
  <2>4. /\ Len(list) = n /\ \A i \in 1..n : list[i] \in S
        /\ \A w \in S : \E i \in 1..n : list[i] = w
        /\ \A i, j \in 1..n : i < j => list[i].start <= list[j].start
    BY <2>0, <2>1, <2>3, SortedFacts
  <2>5. PICK out : out = Joins(list) OBVIOUS
  <2>6. \A i \in 1..n : out[i] = IF i = 1 THEN [done |-> {}, last |-> list[1]]
                                 ELSE Joined(out[i - 1], list[i])
    <3>1. Len(list) = n BY <2>4
    <3> QED BY <2>5, <3>1, JoinsDefined
  <2>7. \A i \in 1..n : Merging(out[i], list, i)
    <3> DEFINE Bad == {i \in 1..n : ~Merging(out[i], list, i)}
    <3> SUFFICES ASSUME Bad # {} PROVE FALSE OBVIOUS
    <3>0. Bad \subseteq Nat OBVIOUS
    <3>1. PICK i \in Bad : \A k \in Bad : i <= k BY <3>0, LeastNumber
    <3>2. i \in 1..n /\ ~Merging(out[i], list, i) OBVIOUS
    <3>3. i # 1
      <4> SUFFICES ASSUME i = 1 PROVE FALSE OBVIOUS
      <4>1. list[1] \in Proper BY <2>4, <3>2
      <4>2. out[1] = [done |-> {}, last |-> list[1]] BY <2>6, <3>2
      <4> QED BY <3>2, <4>1, <4>2, MergingStarts
    <3>4. i - 1 \in 1..n /\ i - 1 \in Nat \ {0} /\ ~(i <= i - 1) /\ i - 1 < i BY <3>2, <3>3
    <3>5. Merging(out[i - 1], list, i - 1) BY <3>1, <3>4
    <3>6. PICK m \in Nat \ {0} : m = i - 1 BY <3>4
    <3>7. m + 1 = i BY <3>2, <3>6
    <3>8. \A k \in 1..(m + 1) : list[k] \in Proper BY <2>4, <3>2, <3>7
    <3>9. list[m].start <= list[m + 1].start BY <2>4, <3>2, <3>4, <3>6, <3>7
    <3>10. PICK old : old = out[m] OBVIOUS
    <3>11. Merging(old, list, m) BY <3>5, <3>6, <3>10
    <3>12. Merging(Joined(old, list[m + 1]), list, m + 1) BY <3>8, <3>9, <3>11, MergingGoesOn
    <3>13. out[i] = Joined(old, list[m + 1]) BY <2>6, <3>2, <3>3, <3>6, <3>7, <3>10
    <3> QED BY <3>2, <3>7, <3>12, <3>13
  <2>8. PICK last : last = out[n] OBVIOUS
  <2>9. Merging(last, list, n) BY <2>1, <2>2, <2>7, <2>8
  <2>10. PICK all : all = last.done \union {last.last} OBVIOUS
  <2>11. MergeTouching(S) = all BY <1>2, <2>3, <2>4, <2>5, <2>8, <2>10 DEF MergeTouching
  <2>12. all \subseteq Proper BY <2>9, <2>10 DEF Merging
  <2>13. ASSUME NEW w \in all, NEW x \in Int, During(x, w) PROVE \E v \in S : During(x, v)
    <3>1. \E k \in 1..n : During(x, list[k]) BY <2>9, <2>10, <2>13 DEF Merging
    <3> QED BY <2>4, <3>1
  <2>14. \A v, w \in all : v # w => Apart(v, w)
    <3>1. /\ \A w \in last.done : w.end < last.last.start
          /\ \A v, w \in last.done : v # w => Apart(v, w)
      BY <2>9 DEF Merging
    <3> QED BY <2>10, <3>1 DEF Apart
  <2>15. \A v \in S : \E w \in all : w.start <= v.start /\ v.end <= w.end
    <3>1. \A k \in 1..n : \E w \in all : w.start <= list[k].start /\ list[k].end <= w.end
      BY <2>9, <2>10 DEF Merging
    <3> QED BY <2>4, <3>1
  <2>16. \A v \in S \union all : v.start \in Int /\ v.end \in Int /\ v.start < v.end
    BY <2>12 DEF Proper, Windows
  <2>17. ASSUME NEW x \in Int, NEW v \in S, During(x, v) PROVE \E w \in all : During(x, w)
    <3>1. PICK w \in all : w.start <= v.start /\ v.end <= w.end BY <2>15
    <3>2. During(x, w) BY <2>16, <2>17, <3>1 DEF During
    <3> QED BY <3>2
  <2>18. ASSUME NEW a \in Int, NEW b \in Int, a < b,
                \A x \in a..(b - 1) : \E v \in S : During(x, v)
         PROVE  \E w \in all : w.start <= a /\ b <= w.end
    <3>1. a \in a..(b - 1) BY <2>18
    <3>2. PICK w \in all : During(a, w) BY <2>17, <2>18, <3>1
    <3>3. w.start <= a /\ a < w.end BY <3>2 DEF During
    <3>4. ASSUME ~(b <= w.end) PROVE FALSE
      <4>1. w.end \in a..(b - 1) BY <2>16, <2>18, <3>3, <3>4
      <4>2. PICK v \in all : During(w.end, v) BY <2>17, <2>18, <4>1
      <4>3. v.start <= w.end /\ w.end < v.end BY <4>2 DEF During
      <4>4. v # w BY <2>16, <4>3
      <4>5. Apart(v, w) BY <2>14, <4>4
      <4> QED BY <2>16, <4>3, <4>5 DEF Apart
    <3> QED BY <3>3, <3>4
  <2> QED BY <2>11, <2>12, <2>13, <2>18
<1> QED BY <1>1, <1>2

-----------------------------------------------------------------------------
(* Free windows *)

\* The recursion over the busy times defines what they leave.
LEMMA CutsDefined ==
    ASSUME NEW start, NEW list, Len(list) \in Nat
    PROVE  \A i \in 0..Len(list) :
             Cuts(start, list)[i] = IF i = 0 THEN [free |-> {}, cur |-> start]
                                    ELSE Cut(Cuts(start, list)[i - 1], list[i])
<1> DEFINE Defines(g, n) ==
             g = [i \in 0..n |-> IF i = 0 THEN [free |-> {}, cur |-> start]
                                 ELSE Cut(g[i - 1], list[i])]
           Bad == {n \in Nat : ~\E g : Defines(g, n)}
<1>1. Bad = {}
  <2> SUFFICES ASSUME Bad # {} PROVE FALSE OBVIOUS
  <2>1. PICK n \in Bad : \A m \in Bad : n <= m BY LeastNumber
  <2>2. n \in Nat /\ ~\E g : Defines(g, n) OBVIOUS
  <2>3. n # 0
    <3> SUFFICES ASSUME n = 0 PROVE FALSE OBVIOUS
    <3>1. PICK g : g = [i \in {0} |-> [free |-> {}, cur |-> start]] OBVIOUS
    <3>2. 0..0 = {0} OBVIOUS
    <3>3. g = [i \in 0..0 |-> IF i = 0 THEN [free |-> {}, cur |-> start]
                              ELSE Cut(g[i - 1], list[i])]
      BY <3>1, <3>2
    <3> QED BY <2>2, <3>3
  <2>4. n - 1 \in Nat /\ ~(n <= n - 1) BY <2>2, <2>3
  <2>5. PICK g : Defines(g, n - 1)
    <3>1. n - 1 \notin Bad BY <2>1, <2>4
    <3> QED BY <2>4, <3>1
  <2>6. PICK h : h = [i \in 0..n |-> IF i = 0 THEN [free |-> {}, cur |-> start]
                                     ELSE Cut(g[i - 1], list[i])]
    OBVIOUS
  <2>7. ASSUME NEW k \in 0..(n - 1) PROVE h[k] = g[k]
    <3>1. g[k] = IF k = 0 THEN [free |-> {}, cur |-> start] ELSE Cut(g[k - 1], list[k])
      BY <2>5
    <3>2. k \in 0..n BY <2>2
    <3> QED BY <2>6, <3>1, <3>2
  <2>8. \A i \in 0..n : i # 0 => i - 1 \in 0..(n - 1) BY <2>2
  <2>9. \A i \in 0..n : i # 0 => h[i - 1] = g[i - 1] BY <2>7, <2>8
  <2>10. h = [i \in 0..n |-> IF i = 0 THEN [free |-> {}, cur |-> start]
                             ELSE Cut(h[i - 1], list[i])]
    BY <2>6, <2>9
  <2> QED BY <2>2, <2>10
<1>2. PICK g : Defines(g, Len(list))
  <2>1. Len(list) \in Nat OBVIOUS
  <2>2. Len(list) \notin Bad BY <1>1
  <2> QED BY <2>1, <2>2
<1>3. Defines(Cuts(start, list), Len(list)) BY <1>2 DEF Cuts
<1> QED BY <1>3

LEMMA GapFacts ==
    ASSUME NEW a \in Int, NEW b \in Int
    PROVE  /\ Gap(a, b) \subseteq Proper /\ IsFiniteSet(Gap(a, b))
           /\ \A w \in Gap(a, b) : w.start = a /\ w.end = b
           /\ \A x \in Int : a <= x /\ x < b => \E w \in Gap(a, b) : During(x, w)
<1>1. PICK w : w = [start |-> a, end |-> b] OBVIOUS
<1>2. w \in Windows /\ w.start = a /\ w.end = b BY <1>1 DEF Windows
<1>3. IsFiniteSet({w}) /\ IsFiniteSet({}) BY FS_Singleton, FS_EmptySet
<1>4. Gap(a, b) = IF a < b THEN {w} ELSE {} BY <1>1 DEF Gap
<1>5. CASE a < b
  <2>1. Gap(a, b) = {w} BY <1>4, <1>5
  <2>2. w \in Proper BY <1>2, <1>5 DEF Proper
  <2> QED BY <1>2, <1>3, <2>1, <2>2 DEF During
<1>6. CASE ~(a < b)
  <2>1. Gap(a, b) = {} BY <1>4, <1>6
  <2> QED BY <1>3, <1>6, <2>1
<1> QED BY <1>5, <1>6

\* What the first n busy times of a list leave free, up to where the next free
\* time can begin
Cutting(acc, start, list, n) ==
    /\ acc.cur \in Int /\ start <= acc.cur
    /\ acc.free \subseteq Proper /\ IsFiniteSet(acc.free)
    /\ \A w \in acc.free : /\ start <= w.start
                           /\ \E k \in 1..n : w.end <= list[k].start
    /\ \A w \in acc.free, k \in 1..n, x \in Int : During(x, w) => ~During(x, list[k])
    /\ \A k \in 1..n : list[k].end <= acc.cur
    /\ \A x \in Int : start <= x /\ x < acc.cur =>
         \/ \E w \in acc.free : During(x, w)
         \/ \E k \in 1..n : During(x, list[k])

LEMMA CuttingStarts ==
    ASSUME NEW start \in Int, NEW list
    PROVE  Cutting([free |-> {}, cur |-> start], start, list, 0)
<1>1. PICK acc : acc = [free |-> {}, cur |-> start] OBVIOUS
<1>2. acc.free = {} /\ acc.cur = start BY <1>1
<1>3. IsFiniteSet(acc.free) BY <1>2, FS_EmptySet
<1>4. 1..0 = {} OBVIOUS
<1>5. Cutting(acc, start, list, 0) BY <1>2, <1>3, <1>4 DEF Cutting
<1> QED BY <1>1, <1>5

LEMMA CuttingGoesOn ==
    ASSUME NEW list, NEW acc, NEW n \in Nat, NEW start \in Int, Cutting(acc, start, list, n),
           \A k \in 1..(n + 1) : list[k] \in Proper,
           \A k \in 1..n : list[k].start <= list[n + 1].start
    PROVE  Cutting(Cut(acc, list[n + 1]), start, list, n + 1)
<1>1. PICK b \in Proper : b = list[n + 1] OBVIOUS
<1>2. b.start \in Int /\ b.end \in Int /\ b.start < b.end BY DEF Proper, Windows
<1>3. PICK cur \in Int : cur = acc.cur BY DEF Cutting
<1>4. PICK gap : gap = Gap(cur, b.start) OBVIOUS
<1>5. /\ gap \subseteq Proper /\ IsFiniteSet(gap)
      /\ \A w \in gap : w.start = cur /\ w.end = b.start
      /\ \A x \in Int : cur <= x /\ x < b.start => \E w \in gap : During(x, w)
  BY <1>2, <1>4, GapFacts
<1>6. PICK new : new = Cut(acc, b) OBVIOUS
<1>7. new.free = acc.free \union gap /\ new.cur = IF cur >= b.end THEN cur ELSE b.end
  <2>1. Max({cur, b.end}) = IF cur >= b.end THEN cur ELSE b.end BY <1>2, TheGreater
  <2> QED BY <1>3, <1>4, <1>6, <2>1 DEF Cut
<1>8. \A k \in 1..(n + 1) : k \in 1..n \/ k = n + 1 OBVIOUS
<1>9. \A k \in 1..n : k \in 1..(n + 1) OBVIOUS
<1>10. n + 1 \in 1..(n + 1) OBVIOUS
<1>11. \A k \in 1..(n + 1) : list[k].start \in Int /\ list[k].end \in Int BY DEF Proper, Windows
<1>12. acc.free \subseteq Proper /\ IsFiniteSet(acc.free) /\ start <= cur
  BY <1>3 DEF Cutting
<1>13. \A w \in acc.free \union gap : w.start \in Int /\ w.end \in Int
  BY <1>5, <1>12 DEF Proper, Windows
<1>14. IsFiniteSet(new.free) /\ new.free \subseteq Proper
  <2>1. IsFiniteSet(acc.free \union gap) BY <1>5, <1>12, FS_Union
  <2> QED BY <1>5, <1>7, <1>12, <2>1
<1>15. new.cur \in Int /\ start <= new.cur BY <1>2, <1>7, <1>12
<1>16. ASSUME NEW w \in new.free
       PROVE  start <= w.start /\ \E k \in 1..(n + 1) : w.end <= list[k].start
  <2>1. CASE w \in acc.free
    <3>1. start <= w.start /\ \E k \in 1..n : w.end <= list[k].start BY <2>1 DEF Cutting
    <3> QED BY <1>9, <3>1
  <2>2. CASE w \in gap
    <3>1. start <= w.start BY <1>5, <1>12, <2>2
    <3>2. w.end <= list[n + 1].start BY <1>1, <1>2, <1>5, <2>2
    <3> QED BY <1>10, <3>1, <3>2
  <2> QED BY <1>7, <2>1, <2>2
<1>17. ASSUME NEW w \in new.free, NEW k \in 1..(n + 1), NEW x \in Int,
              During(x, w), During(x, list[k])
       PROVE  FALSE
  <2>1. CASE w \in acc.free /\ k \in 1..n BY <1>17, <2>1 DEF Cutting
  <2>2. CASE w \in acc.free /\ k = n + 1
    <3>1. PICK j \in 1..n : w.end <= list[j].start BY <2>2 DEF Cutting
    <3>2. list[j].start <= b.start /\ list[j].start \in Int BY <1>1, <1>9, <1>11
    <3> QED BY <1>1, <1>2, <1>13, <1>17, <2>2, <3>1, <3>2 DEF During
  <2>3. CASE w \in gap /\ k \in 1..n
    <3>1. list[k].end <= cur BY <1>3, <2>3 DEF Cutting
    <3> QED BY <1>5, <1>11, <1>17, <2>3, <3>1 DEF During
  <2>4. CASE w \in gap /\ k = n + 1 BY <1>1, <1>2, <1>5, <1>17, <2>4 DEF During
  <2> QED BY <1>7, <1>8, <2>1, <2>2, <2>3, <2>4
<1>18. ASSUME NEW k \in 1..(n + 1) PROVE list[k].end <= new.cur
  <2>1. CASE k \in 1..n
    <3>1. list[k].end <= cur BY <1>3, <2>1 DEF Cutting
    <3> QED BY <1>2, <1>7, <1>11, <3>1
  <2>2. CASE k = n + 1 BY <1>1, <1>2, <1>7, <2>2
  <2> QED BY <1>8, <2>1, <2>2
<1>19. ASSUME NEW x \in Int, start <= x, x < new.cur
       PROVE  (\E w \in new.free : During(x, w)) \/ \E k \in 1..(n + 1) : During(x, list[k])
  <2>1. x < cur \/ (cur <= x /\ x < b.start) \/ (b.start <= x /\ x < b.end)
    BY <1>2, <1>7, <1>19
  <2>2. CASE x < cur
    <3>1. (\E w \in acc.free : During(x, w)) \/ \E k \in 1..n : During(x, list[k])
      BY <1>3, <1>19, <2>2 DEF Cutting
    <3> QED BY <1>7, <1>9, <3>1
  <2>3. CASE cur <= x /\ x < b.start BY <1>5, <1>7, <2>3
  <2>4. CASE b.start <= x /\ x < b.end
    <3>1. During(x, list[n + 1]) BY <1>1, <2>4 DEF During
    <3> QED BY <1>10, <3>1
  <2> QED BY <2>1, <2>2, <2>3, <2>4
<1>20. Cutting(new, start, list, n + 1)
  BY <1>14, <1>15, <1>16, <1>17, <1>18, <1>19 DEF Cutting
<1> QED BY <1>1, <1>6, <1>20

\* The busy time within a shift
LEMMA ClippedFacts ==
    ASSUME NEW shift \in Proper, NEW busy, IsFiniteSet(busy),
           \A b \in busy : b.start \in Int /\ b.end \in Int
    PROVE  /\ Clipped(shift, busy) \subseteq Proper /\ IsFiniteSet(Clipped(shift, busy))
           /\ \A c \in Clipped(shift, busy) : shift.start <= c.start /\ c.end <= shift.end
           /\ \A x \in Int : During(x, shift) =>
                ((\E c \in Clipped(shift, busy) : During(x, c)) <=> \E b \in busy : During(x, b))
<1> DEFINE Clip(b) == [start |-> Max({b.start, shift.start}), end |-> Min({b.end, shift.end})]
<1>1. shift.start \in Int /\ shift.end \in Int /\ shift.start < shift.end BY DEF Proper, Windows
<1>2. PICK clip : clip = [b \in busy |-> Clip(b)] OBVIOUS
<1>3. ASSUME NEW b \in busy
      PROVE  /\ clip[b] \in Windows
             /\ clip[b].start = IF b.start >= shift.start THEN b.start ELSE shift.start
             /\ clip[b].end = IF b.end <= shift.end THEN b.end ELSE shift.end
  <2>1. b.start \in Int /\ b.end \in Int OBVIOUS
  <2>2. /\ Max({b.start, shift.start}) = IF b.start >= shift.start THEN b.start ELSE shift.start
        /\ Min({b.end, shift.end}) = IF b.end <= shift.end THEN b.end ELSE shift.end
    BY <1>1, <2>1, TheGreater, TheLesser
  <2>3. clip[b] = Clip(b) BY <1>2
  <2>4. /\ clip[b].start = Max({b.start, shift.start})
        /\ clip[b].end = Min({b.end, shift.end})
        /\ clip[b] = [start |-> clip[b].start, end |-> clip[b].end]
    BY <2>3
  <2>5. clip[b].start \in Int /\ clip[b].end \in Int BY <1>1, <2>1, <2>2, <2>4
  <2>6. clip[b] \in Windows BY <2>4, <2>5 DEF Windows
  <2> QED BY <2>2, <2>4, <2>6
<1>4. PICK images : images = {clip[b] : b \in busy} OBVIOUS
<1>5. IsFiniteSet(images)
  <2>1. clip \in Surjection(busy, images) BY <1>2, <1>4 DEF Surjection
  <2> QED BY <2>1, FS_Surjection
<1>6. PICK clipped : clipped = {c \in images : c.start < c.end} OBVIOUS
<1>7. Clipped(shift, busy) = clipped
  <2>1. images = {Clip(b) : b \in busy} BY <1>2, <1>4
  <2> QED BY <1>6, <2>1 DEF Clipped
<1>8. clipped \in SUBSET images BY <1>6
<1>9. IsFiniteSet(clipped) BY <1>5, <1>8, FS_Subset
<1>10. clipped \subseteq Proper BY <1>3, <1>4, <1>6 DEF Proper
<1>11. ASSUME NEW c \in clipped PROVE shift.start <= c.start /\ c.end <= shift.end
  <2>1. PICK b \in busy : c = clip[b] BY <1>4, <1>6
  <2> QED BY <1>1, <1>3, <2>1
<1>12. ASSUME NEW x \in Int, During(x, shift), NEW b \in busy, During(x, b)
       PROVE  \E c \in clipped : During(x, c)
  <2>1. b.start \in Int /\ b.end \in Int OBVIOUS
  <2>2. clip[b].start <= x /\ x < clip[b].end BY <1>1, <1>3, <1>12, <2>1 DEF During
  <2>3. clip[b].start \in Int /\ clip[b].end \in Int BY <1>3 DEF Windows
  <2>4. clip[b] \in clipped BY <1>4, <1>6, <2>2, <2>3
  <2> QED BY <2>2, <2>4 DEF During
<1>13. ASSUME NEW x \in Int, During(x, shift), NEW c \in clipped, During(x, c)
       PROVE  \E b \in busy : During(x, b)
  <2>1. PICK b \in busy : c = clip[b] BY <1>4, <1>6
  <2>2. b.start \in Int /\ b.end \in Int OBVIOUS
  <2>3. During(x, b) BY <1>1, <1>3, <1>13, <2>1, <2>2 DEF During
  <2> QED BY <2>3
<1> QED BY <1>7, <1>9, <1>10, <1>11, <1>12, <1>13

\* What is subtracted from a shift is its busy time, and nothing else.
LEMMA SubtractFacts ==
    ASSUME NEW shift \in Proper, NEW busy, IsFiniteSet(busy),
           \A b \in busy : b.start \in Int /\ b.end \in Int
    PROVE  /\ SubtractBusy(shift, busy) \subseteq Proper
           /\ IsFiniteSet(SubtractBusy(shift, busy))
           /\ \A w \in SubtractBusy(shift, busy), x \in Int :
                During(x, w) => During(x, shift) /\ \A b \in busy : ~During(x, b)
           /\ \A x \in Int : During(x, shift) /\ (\A b \in busy : ~During(x, b)) =>
                \E w \in SubtractBusy(shift, busy) : During(x, w)
<1>1. PICK start \in Int, end \in Int : start = shift.start /\ end = shift.end /\ start < end
  BY DEF Proper, Windows
<1>2. PICK S : S = Clipped(shift, busy) OBVIOUS
<1>3. /\ S \subseteq Proper /\ IsFiniteSet(S)
      /\ \A c \in S : start <= c.start /\ c.end <= end
      /\ \A x \in Int : During(x, shift) =>
           ((\E c \in S : During(x, c)) <=> \E b \in busy : During(x, b))
  BY <1>1, <1>2, ClippedFacts
<1>4. S \subseteq Windows BY <1>3 DEF Proper
<1>5. PICK n \in Nat : n = Cardinality(S) BY <1>3, FS_CardinalityType
<1>6. PICK list : list = Sorted(S) OBVIOUS
<1>7. /\ Len(list) = n /\ \A i \in 1..n : list[i] \in S
      /\ \A w \in S : \E i \in 1..n : list[i] = w
      /\ \A i, j \in 1..n : i < j => list[i].start <= list[j].start
  BY <1>3, <1>4, <1>5, <1>6, SortedFacts
<1>8. PICK acc : acc = Cuts(start, list) OBVIOUS
<1>9. \A i \in 0..n : acc[i] = IF i = 0 THEN [free |-> {}, cur |-> start]
                               ELSE Cut(acc[i - 1], list[i])
  <2>1. Len(list) = n BY <1>7
  <2> QED BY <1>8, <2>1, CutsDefined
<1>10. \A i \in 0..n : Cutting(acc[i], start, list, i)
  <2> DEFINE Bad == {i \in 0..n : ~Cutting(acc[i], start, list, i)}
  <2> SUFFICES ASSUME Bad # {} PROVE FALSE OBVIOUS
  <2>0. Bad \subseteq Nat OBVIOUS
  <2>1. PICK i \in Bad : \A k \in Bad : i <= k BY <2>0, LeastNumber
  <2>2. i \in 0..n /\ ~Cutting(acc[i], start, list, i) OBVIOUS
  <2>3. i # 0
    <3> SUFFICES ASSUME i = 0 PROVE FALSE OBVIOUS
    <3>1. acc[0] = [free |-> {}, cur |-> start] BY <1>9, <2>2
    <3> QED BY <2>2, <3>1, CuttingStarts
  <2>4. i - 1 \in 0..n /\ i - 1 \in Nat /\ ~(i <= i - 1) BY <2>2, <2>3
  <2>5. Cutting(acc[i - 1], start, list, i - 1) BY <2>1, <2>4
  <2>6. PICK m \in Nat : m = i - 1 BY <2>4
  <2>7. m + 1 = i BY <2>2, <2>6
  <2>8. \A k \in 1..(m + 1) : list[k] \in Proper BY <1>3, <1>7, <2>2, <2>7
  <2>9. \A k \in 1..m : list[k].start <= list[m + 1].start
    <3>1. \A k \in 1..m : k \in 1..n /\ m + 1 \in 1..n /\ k < m + 1 BY <2>2, <2>7
    <3> QED BY <1>7, <3>1
  <2>10. PICK old : old = acc[m] OBVIOUS
  <2>11. Cutting(old, start, list, m) BY <2>5, <2>6, <2>10
  <2>12. Cutting(Cut(old, list[m + 1]), start, list, m + 1)
    BY <2>8, <2>9, <2>11, CuttingGoesOn
  <2>13. acc[i] = Cut(old, list[m + 1]) BY <1>9, <2>2, <2>3, <2>6, <2>7, <2>10
  <2> QED BY <2>2, <2>7, <2>12, <2>13
<1>11. PICK all : all = acc[n] OBVIOUS
<1>12. Cutting(all, start, list, n) BY <1>5, <1>10, <1>11
<1>13. PICK cur \in Int : cur = all.cur /\ start <= cur BY <1>12 DEF Cutting
<1>14. PICK gap : gap = Gap(cur, end) OBVIOUS
<1>15. /\ gap \subseteq Proper /\ IsFiniteSet(gap)
       /\ \A w \in gap : w.start = cur /\ w.end = end
       /\ \A x \in Int : cur <= x /\ x < end => \E w \in gap : During(x, w)
  BY <1>14, GapFacts
<1>16. PICK R : R = all.free \union gap OBVIOUS
<1>17. SubtractBusy(shift, busy) = R
  <2>1. Len(list) = n BY <1>7
  <2> QED BY <1>1, <1>2, <1>6, <1>8, <1>11, <1>13, <1>14, <1>16, <2>1 DEF SubtractBusy
<1>18. all.free \subseteq Proper /\ IsFiniteSet(all.free) BY <1>12 DEF Cutting
<1>19. R \subseteq Proper /\ IsFiniteSet(R)
  <2>1. IsFiniteSet(all.free \union gap) BY <1>15, <1>18, FS_Union
  <2> QED BY <1>15, <1>16, <1>18, <2>1
<1>20. \A w \in R \union S : w.start \in Int /\ w.end \in Int BY <1>3, <1>19 DEF Proper, Windows
<1>21. \A x \in Int : During(x, shift) <=> start <= x /\ x < end BY <1>1 DEF During
<1>22. ASSUME NEW w \in R, NEW x \in Int, During(x, w)
       PROVE  During(x, shift) /\ \A c \in S : ~During(x, c)
  <2>1. CASE w \in all.free
    <3>1. start <= w.start /\ \E k \in 1..n : w.end <= list[k].start BY <1>12, <2>1 DEF Cutting
    <3>2. PICK c \in S : w.end <= c.start BY <1>7, <3>1
    <3>3. c.start < c.end /\ c.end <= end BY <1>3 DEF Proper
    <3>4. start <= x /\ x < end BY <1>20, <1>22, <3>1, <3>2, <3>3 DEF During
    <3>5. \A k \in 1..n : ~During(x, list[k]) BY <1>12, <1>22, <2>1 DEF Cutting
    <3> QED BY <1>7, <1>21, <3>4, <3>5
  <2>2. CASE w \in gap
    <3>1. cur <= x /\ x < end BY <1>15, <1>22, <2>2 DEF During
    <3>2. start <= x BY <1>13, <3>1
    <3>3. \A k \in 1..n : list[k].end <= cur BY <1>12, <1>13 DEF Cutting
    <3>4. \A c \in S : c.end <= cur BY <1>7, <3>3
    <3>5. \A c \in S : ~During(x, c) BY <1>20, <3>1, <3>4 DEF During
    <3> QED BY <1>21, <3>1, <3>2, <3>5
  <2> QED BY <1>16, <2>1, <2>2
<1>23. ASSUME NEW x \in Int, During(x, shift), \A c \in S : ~During(x, c)
       PROVE  \E w \in R : During(x, w)
  <2>1. start <= x /\ x < end BY <1>21, <1>23
  <2>2. CASE x < cur
    <3>1. (\E w \in all.free : During(x, w)) \/ \E k \in 1..n : During(x, list[k])
      BY <1>12, <1>13, <2>1, <2>2 DEF Cutting
    <3> QED BY <1>7, <1>16, <1>23, <3>1
  <2>3. CASE cur <= x BY <1>15, <1>16, <2>1, <2>3
  <2> QED BY <1>13, <2>2, <2>3
<1> QED BY <1>3, <1>17, <1>19, <1>22, <1>23

-----------------------------------------------------------------------------
(* The free time of a professional *)

\* All that the proof needs to know of a state
OffersInv ==
    /\ scene \in Scenes /\ clock \in Nat
    /\ IsFiniteSet(rows) /\ \A r \in rows : r.start \in Int /\ r.end \in Int

LEMMA DivFacts ==
    ASSUME NEW a \in Int, NEW b \in Nat \ {0}
    PROVE  /\ a = b * (a \div b) + (a % b)
           /\ a % b \in Int /\ 0 <= a % b /\ a % b < b /\ a \div b \in Int
  OBVIOUS

\* A moment at work, with nothing else to do
OpenAt(u, day, fallback, x) ==
    /\ \E w \in Shifts(u, day, fallback) : During(x, w)
    /\ \A r \in BusyOf(u, day, day) : ~During(x, r)

Late(day, step, x) == Today(day) => RoundedNow(step) <= x

LEMMA RoundedFacts ==
    ASSUME clock \in Nat, NEW step \in Nat \ {0}
    PROVE  RoundedNow(step) \in Int /\ clock <= RoundedNow(step)
<1>1. clock \in Int /\ Hour \in Nat \ {0} BY OffersAssumption
<1>2. clock % Hour \in Int BY <1>1, DivFacts
<1>3. PICK rest \in Int : rest = (clock % Hour) % step /\ rest < step BY <1>2, DivFacts
<1> QED BY <1>1, <1>3 DEF RoundedNow

LEMMA NotBeforeFacts ==
    ASSUME clock \in Nat, NEW step \in Nat \ {0}, NEW t \in Int, NEW day
    PROVE  /\ NotBefore(t, day, step) \in Int
           /\ \A x \in Int : NotBefore(t, day, step) <= x <=> t <= x /\ Late(day, step, x)
<1>1. PICK moment \in Int : moment = RoundedNow(step) BY RoundedFacts
<1>2. Max({t, moment}) = IF t >= moment THEN t ELSE moment BY TheGreater
<1> QED BY <1>1, <1>2 DEF NotBefore, Late

LEMMA DailyWindows ==
    ASSUME NEW a \in Int, NEW b \in Int
    PROVE  IsFiniteSet([start : a..b, end : a..b])
<1>1. PICK pairs : pairs = (a..b) \X (a..b) OBVIOUS
<1>2. IsFiniteSet(pairs)
  <2>1. IsFiniteSet(a..b) BY FS_Interval
  <2> QED BY <1>1, <2>1, FS_Product
<1>3. PICK f : f = [p \in pairs |-> [start |-> p[1], end |-> p[2]]] OBVIOUS
<1>4. f \in Surjection(pairs, [start : a..b, end : a..b])
  <2>1. f \in [pairs -> [start : a..b, end : a..b]] BY <1>1, <1>3
  <2>2. ASSUME NEW w \in [start : a..b, end : a..b] PROVE \E p \in pairs : f[p] = w
    <3>1. PICK p : p = <<w.start, w.end>> OBVIOUS
    <3>2. p \in pairs /\ p[1] = w.start /\ p[2] = w.end BY <1>1, <3>1
    <3>3. w = [start |-> w.start, end |-> w.end] OBVIOUS
    <3>4. f[p] = w BY <1>3, <3>2, <3>3
    <3> QED BY <3>2, <3>4
  <2> QED BY <2>1, <2>2 DEF Surjection
<1> QED BY <1>2, <1>4, FS_Surjection

LEMMA DayFacts ==
    ASSUME NEW day \in Calendar
    PROVE  /\ day \in Nat /\ DayStart(day) \in Nat /\ DayEnd(day) \in Nat
           /\ DayEnd(day) = DayStart(day) + DayLength /\ DayStart(day) < DayEnd(day)
<1>1. Days \in Nat /\ DayLength \in Nat \ {0} BY OffersAssumption
<1>2. day \in Nat BY <1>1 DEF Calendar
<1> QED BY <1>1, <1>2 DEF DayStart, DayEnd

\* The shifts of a day are finitely many windows of that day.
LEMMA ShiftFacts ==
    ASSUME scene \in Scenes, NEW u \in Users, NEW day \in Calendar, NEW fallback
    PROVE  /\ IsFiniteSet(Shifts(u, day, fallback))
           /\ \A w \in Shifts(u, day, fallback) :
                /\ w = [start |-> w.start, end |-> w.end]
                /\ w.start \in Int /\ w.end \in Int
                /\ DayStart(day) <= w.start /\ w.end <= DayEnd(day)
<1>1. PICK a \in Int, b \in Int : a = DayStart(day) /\ b = DayEnd(day) BY DayFacts
<1>2. PICK all : all = [start : a..b, end : a..b] OBVIOUS
<1>3. DailyHours(scene) BY OffersAssumption
<1>4. /\ scene.business[day] \in SUBSET all
      /\ {scene.worker[u][day], scene.temporary[u][day]} \subseteq (SUBSET all) \union {None}
  BY <1>1, <1>2, <1>3 DEF DailyHours
<1>5. Shifts(u, day, fallback) \in SUBSET all BY <1>4 DEF Shifts
<1>6. IsFiniteSet(Shifts(u, day, fallback)) BY <1>2, <1>5, DailyWindows, FS_Subset
<1> QED BY <1>1, <1>2, <1>5, <1>6

\* The free windows of a day: the professional is free in them, and they are as
\* long as can be.
LEMMA FreeWindowsFacts ==
    ASSUME OffersInv, NEW u \in Users, NEW day \in Calendar, NEW step \in Nat \ {0}, NEW fallback
    PROVE  /\ FreeWindows(u, day, step, fallback) \subseteq Proper
           /\ \A w \in FreeWindows(u, day, step, fallback), x \in Int :
                During(x, w) => OpenAt(u, day, fallback, x)
           /\ \A a, b \in Int :
                a < b /\ (\A x \in a..(b - 1) : OpenAt(u, day, fallback, x) /\ Late(day, step, x)) =>
                  \E w \in FreeWindows(u, day, step, fallback) : w.start <= a /\ b <= w.end
<1>1. PICK busy : busy = BusyOf(u, day, day) OBVIOUS
<1>2. IsFiniteSet(busy) /\ \A r \in busy : r.start \in Int /\ r.end \in Int
  <2>1. busy \in SUBSET rows BY <1>1 DEF BusyOf
  <2> QED BY <2>1, FS_Subset DEF OffersInv
<1>3. PICK shifts : shifts = Shifts(u, day, fallback) OBVIOUS
<1>4. /\ IsFiniteSet(shifts)
      /\ \A w \in shifts : /\ w = [start |-> w.start, end |-> w.end]
                           /\ w.start \in Int /\ w.end \in Int
  BY <1>3, ShiftFacts DEF OffersInv
<1>5. clock \in Nat BY DEF OffersInv
<1>6. PICK chosen : chosen = {s \in shifts : NotBefore(s.start, day, step) < s.end} OBVIOUS
<1>7. chosen \in SUBSET shifts BY <1>6
<1>8. IsFiniteSet(chosen) BY <1>4, <1>7, FS_Subset
<1>9. PICK rest : rest = [s \in chosen |-> [s EXCEPT !.start = NotBefore(s.start, day, step)]]
  OBVIOUS
<1>10. ASSUME NEW s \in chosen
       PROVE  /\ rest[s] \in Proper
              /\ \A x \in Int : During(x, rest[s]) <=> During(x, s) /\ Late(day, step, x)
  <2>1. s = [start |-> s.start, end |-> s.end] /\ s.start \in Int /\ s.end \in Int
    BY <1>4, <1>7
  <2>2. PICK t \in Int : t = NotBefore(s.start, day, step) BY <1>5, <2>1, NotBeforeFacts
  <2>3. rest[s] = [start |-> t, end |-> s.end] BY <1>9, <2>1, <2>2
  <2>4. rest[s].start = t /\ rest[s].end = s.end BY <2>3
  <2>5. t < s.end BY <1>6, <2>2
  <2>6. rest[s] \in Proper BY <2>1, <2>3, <2>4, <2>5 DEF Proper, Windows
  <2>7. \A x \in Int : t <= x <=> s.start <= x /\ Late(day, step, x)
    BY <1>5, <2>1, <2>2, NotBeforeFacts
  <2> QED BY <2>4, <2>6, <2>7 DEF During
<1>11. PICK free : free = [s \in chosen |-> SubtractBusy(rest[s], busy)] OBVIOUS
<1>12. ASSUME NEW s \in chosen
       PROVE  /\ free[s] \subseteq Proper /\ IsFiniteSet(free[s])
              /\ \A w \in free[s], x \in Int :
                   During(x, w) => During(x, rest[s]) /\ \A b \in busy : ~During(x, b)
              /\ \A x \in Int : During(x, rest[s]) /\ (\A b \in busy : ~During(x, b)) =>
                   \E w \in free[s] : During(x, w)
  <2>1. PICK shift \in Proper : shift = rest[s] BY <1>10
  <2>2. free[s] = SubtractBusy(shift, busy) BY <1>11, <2>1
  <2> QED BY <1>2, <2>1, <2>2, SubtractFacts
<1>13. PICK pieces : pieces = {free[s] : s \in chosen} OBVIOUS
<1>14. IsFiniteSet(pieces)
  <2>1. free \in Surjection(chosen, pieces) BY <1>11, <1>13 DEF Surjection
  <2> QED BY <1>8, <2>1, FS_Surjection
<1>15. PICK S : S = UNION pieces OBVIOUS
<1>16. S \subseteq Proper /\ IsFiniteSet(S)
  <2>1. \A p \in pieces : p \subseteq Proper /\ IsFiniteSet(p) BY <1>12, <1>13
  <2>2. IsFiniteSet(UNION pieces) BY <1>14, <2>1, FS_UNION
  <2> QED BY <1>15, <2>1, <2>2
<1>17. FreeWindows(u, day, step, fallback) = MergeTouching(S)
  <2>1. pieces = {SubtractBusy([s EXCEPT !.start = NotBefore(s.start, day, step)], busy) :
                    s \in chosen}
    BY <1>9, <1>11, <1>13
  <2> QED BY <1>1, <1>3, <1>6, <1>15, <2>1 DEF FreeWindows
<1>18. ASSUME NEW x \in Int
       PROVE  (\E w \in S : During(x, w)) <=>
                OpenAt(u, day, fallback, x) /\ Late(day, step, x)
  <2>1. ASSUME NEW w \in S, During(x, w)
        PROVE  OpenAt(u, day, fallback, x) /\ Late(day, step, x)
    <3>1. PICK s \in chosen : w \in free[s] BY <1>13, <1>15
    <3>2. During(x, rest[s]) /\ \A b \in busy : ~During(x, b) BY <1>12, <2>1, <3>1
    <3>3. During(x, s) /\ Late(day, step, x) /\ s \in shifts BY <1>7, <1>10, <3>2
    <3> QED BY <1>1, <1>3, <3>2, <3>3 DEF OpenAt
  <2>2. ASSUME OpenAt(u, day, fallback, x), Late(day, step, x)
        PROVE  \E w \in S : During(x, w)
    <3>1. PICK s \in shifts : During(x, s) BY <1>3, <2>2 DEF OpenAt
    <3>2. \A b \in busy : ~During(x, b) BY <1>1, <2>2 DEF OpenAt
    <3>3. s.start \in Int /\ s.end \in Int /\ s.start <= x /\ x < s.end
      BY <1>4, <3>1 DEF During
    <3>4. NotBefore(s.start, day, step) \in Int /\ NotBefore(s.start, day, step) <= x
      BY <1>5, <2>2, <3>3, NotBeforeFacts
    <3>5. s \in chosen BY <1>6, <3>3, <3>4
    <3>6. During(x, rest[s]) BY <1>10, <2>2, <3>1, <3>5
    <3>7. PICK w \in free[s] : During(x, w) BY <1>12, <3>2, <3>5, <3>6
    <3> QED BY <1>13, <1>15, <3>5, <3>7
  <2> QED BY <2>1, <2>2
<1>19. PICK merged : merged = MergeTouching(S) OBVIOUS
<1>20. /\ merged \subseteq Proper
       /\ \A w \in merged, x \in Int : During(x, w) => \E v \in S : During(x, v)
       /\ \A a, b \in Int : a < b /\ (\A x \in a..(b - 1) : \E v \in S : During(x, v)) =>
            \E w \in merged : w.start <= a /\ b <= w.end
  BY <1>16, <1>19, MergeFacts
<1>21. ASSUME NEW a \in Int, NEW b \in Int, a < b,
              \A x \in a..(b - 1) : OpenAt(u, day, fallback, x) /\ Late(day, step, x)
       PROVE  \E w \in merged : w.start <= a /\ b <= w.end
  <2>1. \A x \in a..(b - 1) : \E v \in S : During(x, v) BY <1>18, <1>21
  <2> QED BY <1>20, <1>21, <2>1
<1> QED BY <1>17, <1>18, <1>19, <1>20, <1>21

-----------------------------------------------------------------------------
(* Grids *)

LEMMA SmallMultiple ==
    ASSUME NEW k \in Int, NEW b \in Nat \ {0}, k * b < b, -b < k * b
    PROVE  k = 0
<1>1. k >= 1 => k * b >= b OBVIOUS
<1>2. k <= -1 => k * b <= -b OBVIOUS
<1> QED BY <1>1, <1>2

\* Quotient and remainder are unique.
LEMMA RestIsUnique ==
    ASSUME NEW b \in Nat \ {0}, NEW p \in Int, NEW s \in Int, NEW q \in Int, NEW r \in Int,
           b * p + s = b * q + r, 0 <= r, r < b, 0 <= s, s < b
    PROVE  p = q /\ r = s
<1>1. PICK k \in Int : k = p - q OBVIOUS
<1>2. b * k = b * p - b * q BY <1>1
<1>3. k * b = b * k BY <1>1
<1>4. k * b = r - s BY <1>2, <1>3
<1>5. k = 0 BY <1>4, SmallMultiple
<1> QED BY <1>1, <1>5

LEMMA DivUnique ==
    ASSUME NEW a \in Int, NEW b \in Nat \ {0}, NEW q \in Int, NEW r \in Int,
           a = b * q + r, 0 <= r, r < b
    PROVE  a % b = r /\ a \div b = q
<1>1. PICK p, s : s = a % b /\ p = a \div b OBVIOUS
<1>2. p \in Int /\ s \in Int /\ a = b * p + s /\ 0 <= s /\ s < b BY <1>1, DivFacts
<1>3. p = q /\ r = s BY <1>2, RestIsUnique
<1> QED BY <1>1, <1>3

Divides(b, a) == \E q \in Int : a = b * q

LEMMA Multiples ==
    ASSUME NEW a \in Int, NEW b \in Nat \ {0}
    PROVE  a % b = 0 <=> Divides(b, a)
<1>1. PICK p, s : s = a % b /\ p = a \div b OBVIOUS
<1>2. p \in Int /\ s \in Int /\ a = b * p + s /\ 0 <= s /\ s < b BY <1>1, DivFacts
<1>3. ASSUME s = 0 PROVE Divides(b, a)
  <2>1. a = b * p BY <1>2, <1>3
  <2> QED BY <1>2, <2>1 DEF Divides
<1>4. ASSUME NEW q \in Int, a = b * q PROVE s = 0
  <2>1. b * p + s = b * q + 0 BY <1>2, <1>4
  <2> QED BY <1>2, <2>1, RestIsUnique
<1> QED BY <1>1, <1>3, <1>4 DEF Divides

LEMMA MultiplesAdd ==
    ASSUME NEW a \in Int, NEW c \in Int, NEW b \in Int, Divides(b, a)
    PROVE  Divides(b, a + c) <=> Divides(b, c)
<1>1. PICK p \in Int : a = b * p BY DEF Divides
<1>2. ASSUME Divides(b, c) PROVE Divides(b, a + c)
  <2>1. PICK q \in Int : c = b * q BY <1>2 DEF Divides
  <2>2. PICK k \in Int : k = p + q OBVIOUS
  <2>3. a + c = b * k BY <1>1, <2>1, <2>2
  <2> QED BY <2>3 DEF Divides
<1>3. ASSUME Divides(b, a + c) PROVE Divides(b, c)
  <2>1. PICK q \in Int : a + c = b * q BY <1>3 DEF Divides
  <2>2. PICK k \in Int : k = q - p OBVIOUS
  <2>3. c = b * k BY <1>1, <2>1, <2>2
  <2> QED BY <2>3 DEF Divides
<1> QED BY <1>2, <1>3

LEMMA MultiplesCompose ==
    ASSUME NEW a \in Int, NEW c \in Int, NEW b \in Int, Divides(b, a), Divides(a, c)
    PROVE  Divides(b, c)
<1>1. PICK p \in Int, q \in Int : a = b * p /\ c = a * q BY DEF Divides
<1>2. PICK k \in Int : k = p * q OBVIOUS
<1>3. c = b * k BY <1>1, <1>2
<1> QED BY <1>3 DEF Divides

\* Rounding up gives the next multiple.
RoundUp(a, b) == IF a % b = 0 THEN a ELSE a + b - (a % b)

LEMMA NextMultiple ==
    ASSUME NEW a \in Int, NEW b \in Nat \ {0}
    PROVE  /\ RoundUp(a, b) \in Int /\ a <= RoundUp(a, b) /\ Divides(b, RoundUp(a, b))
           /\ \A t \in Int : Divides(b, t) /\ a <= t => RoundUp(a, b) <= t
<1>1. PICK q, r : r = a % b /\ q = a \div b OBVIOUS
<1>2. q \in Int /\ r \in Int /\ a = b * q + r /\ 0 <= r /\ r < b BY <1>1, DivFacts
<1>3. PICK up \in Int : up = (IF r = 0 THEN a ELSE a + b - r) /\ up = RoundUp(a, b)
  <2>1. RoundUp(a, b) = IF r = 0 THEN a ELSE a + b - r BY <1>1 DEF RoundUp
  <2> QED BY <1>2, <2>1
<1>4. a <= up BY <1>2, <1>3
<1>5. Divides(b, up)
  <2>1. CASE r = 0
    <3>1. up = b * q BY <1>2, <1>3, <2>1
    <3> QED BY <1>2, <3>1 DEF Divides
  <2>2. CASE r # 0
    <3>1. PICK k \in Int : k = q + 1 BY <1>2
    <3>2. b * k = b * q + b BY <1>2, <3>1
    <3>3. up = b * k BY <1>2, <1>3, <2>2, <3>2
    <3> QED BY <3>3 DEF Divides
  <2> QED BY <2>1, <2>2
<1>6. ASSUME NEW t \in Int, Divides(b, t), a <= t PROVE up <= t
  <2>1. PICK p \in Int : t = b * p BY <1>6 DEF Divides
  <2>2. CASE r = 0 BY <1>3, <1>6, <2>2
  <2>3. CASE r # 0
    <3>1. PICK k \in Int : k = p - q BY <1>2
    <3>2. k * b = b * p - b * q BY <1>2, <3>1
    <3>3. k * b = t - a + r BY <1>2, <2>1, <3>2
    <3>4. k >= 1
      <4> SUFFICES ASSUME k <= 0 PROVE FALSE OBVIOUS
      <4>1. k * b <= 0 OBVIOUS
      <4> QED BY <1>2, <1>6, <2>3, <3>3, <4>1
    <3>5. k * b >= b BY <3>4
    <3> QED BY <1>2, <1>3, <2>3, <3>3, <3>5
  <2> QED BY <2>2, <2>3
<1> QED BY <1>3, <1>4, <1>5, <1>6

\* The starts on the grid of a day, between two moments
LEMMA GridFacts ==
    ASSUME NEW from \in Int, NEW last \in Int, NEW step \in Nat \ {0}, NEW day \in Calendar
    PROVE  \A t : t \in Grid(from, last, step, day) <=>
                    /\ t \in Int /\ from <= t /\ DayStart(day) <= t /\ t <= last
                    /\ (t - DayStart(day)) % step = 0
<1>1. PICK zero \in Int : zero = DayStart(day) BY DayFacts
<1>2. PICK m \in Int : m = Max({from, zero}) /\ m = IF from >= zero THEN from ELSE zero
  BY TheGreater
<1>3. PICK a \in Int : a = m - zero OBVIOUS
<1>4. PICK up \in Int : up = RoundUp(a, step) BY NextMultiple
<1>5. a <= up /\ Divides(step, up) /\ \A t \in Int : Divides(step, t) /\ a <= t => up <= t
  BY <1>4, NextMultiple
<1>6. PICK first \in Int : first = AlignCeil(m, step, day) /\ first = up + zero
  <2>1. PICK r \in Int : r = a % step BY DivFacts
  <2>2. AlignCeil(m, step, day) = IF r = 0 THEN m ELSE m + step - r
    BY <1>1, <1>3, <2>1 DEF AlignCeil
  <2>3. up = IF r = 0 THEN a ELSE a + step - r BY <1>4, <2>1 DEF RoundUp
  <2> QED BY <1>3, <2>2, <2>3
<1>7. Grid(from, last, step, day) = {t \in first..last : (t - first) % step = 0}
  BY <1>1, <1>2, <1>6 DEF Grid
<1>8. ASSUME NEW t \in Int
      PROVE  (t - first) % step = 0 <=> (t - zero) % step = 0
  <2>1. PICK c \in Int : c = t - first OBVIOUS
  <2>2. t - zero = up + c BY <1>6, <2>1
  <2>3. Divides(step, up + c) <=> Divides(step, c) BY <1>5, MultiplesAdd
  <2>4. Divides(step, c) <=> c % step = 0 BY Multiples
  <2>5. Divides(step, up + c) <=> (up + c) % step = 0 BY Multiples
  <2> QED BY <2>1, <2>2, <2>3, <2>4, <2>5
<1>9. ASSUME NEW t \in Int, (t - zero) % step = 0
      PROVE  first <= t <=> from <= t /\ zero <= t
  <2>1. PICK c \in Int : c = t - zero OBVIOUS
  <2>2. c % step = 0 BY <1>9, <2>1
  <2>3. Divides(step, c) BY <2>2, Multiples
  <2>4. a <= c => up <= c BY <1>5, <2>3
  <2>5. a <= c <=> from <= t /\ zero <= t BY <1>2, <1>3, <2>1
  <2>6. first <= t <=> up <= c BY <1>6, <2>1
  <2>7. a <= up BY <1>5
  <2>8. up <= c => a <= c BY <2>7
  <2> QED BY <2>4, <2>5, <2>6, <2>8
<1>10. ASSUME NEW t \in Int
       PROVE  t \in Grid(from, last, step, day) <=>
                from <= t /\ zero <= t /\ t <= last /\ (t - zero) % step = 0
  <2>1. PICK on : on = ((t - zero) % step = 0) OBVIOUS
  <2>2. t \in Grid(from, last, step, day) <=> first <= t /\ t <= last /\ (t - first) % step = 0
    BY <1>7
  <2> QED BY <1>8, <1>9, <2>2
<1>11. Grid(from, last, step, day) \subseteq Int BY <1>7
<1> QED BY <1>1, <1>10, <1>11

\* A grid whose step divides the hour does not skip the rounded clock.
LEMMA RoundedOnGrid ==
    ASSUME clock \in Nat, NEW step \in Nat \ {0}, Hour % step = 0, NEW day \in Calendar,
           NEW t \in Int, (t - DayStart(day)) % step = 0, clock <= t
    PROVE  RoundedNow(step) <= t
<1>1. PICK hour \in Nat \ {0}, length \in Nat \ {0}, moment \in Int :
        hour = Hour /\ length = DayLength /\ moment = clock
  BY OffersAssumption
<1>2. hour % step = 0 /\ length % hour = 0 BY <1>1, OffersAssumption
<1>3. Divides(step, hour) /\ Divides(hour, length)
  <2>1. Divides(step, hour) BY <1>2, Multiples
  <2>2. Divides(hour, length) BY <1>2, Multiples
  <2> QED BY <2>1, <2>2
<1>4. PICK zero \in Int : zero = DayStart(day) BY DayFacts
<1>5. zero = day * length /\ day \in Int BY <1>1, <1>4, DayFacts DEF DayStart
<1>6. Divides(step, zero)
  <2>1. zero = length * day BY <1>5
  <2>2. Divides(length, zero) BY <1>5, <2>1 DEF Divides
  <2>3. Divides(step, length) BY <1>3, MultiplesCompose
  <2> QED BY <2>2, <2>3, MultiplesCompose
<1>7. Divides(step, t)
  <2>1. PICK c \in Int : c = t - zero OBVIOUS
  <2>2. c % step = 0 BY <1>4, <2>1
  <2>3. Divides(step, c) BY <2>2, Multiples
  <2>4. Divides(step, zero + c) BY <1>6, <2>3, MultiplesAdd
  <2>5. zero + c = t BY <2>1
  <2> QED BY <2>4, <2>5
<1>8. PICK h, q : h = moment % hour /\ q = moment \div hour OBVIOUS
<1>9. h \in Int /\ q \in Int /\ moment = hour * q + h BY <1>8, DivFacts
<1>10. h % step = moment % step
  <2>1. PICK k \in Int : hour = step * k BY <1>3 DEF Divides
  <2>2. PICK r, p : r = h % step /\ p = h \div step OBVIOUS
  <2>3. r \in Int /\ p \in Int /\ h = step * p + r /\ 0 <= r /\ r < step
    BY <1>9, <2>2, DivFacts
  <2>4. PICK l \in Int : l = k * q + p BY <1>9, <2>3
  <2>5. hour * q = step * (k * q) BY <1>9, <2>1
  <2>6. step * l = step * (k * q) + step * p BY <1>9, <2>3, <2>4
  <2>7. moment = step * l + r BY <1>9, <2>3, <2>5, <2>6
  <2>8. moment % step = r BY <2>3, <2>7, DivUnique
  <2> QED BY <2>2, <2>8
<1>11. RoundedNow(step) = RoundUp(moment, step) BY <1>1, <1>8, <1>10 DEF RoundedNow, RoundUp
<1>12. RoundUp(moment, step) <= t BY <1>1, <1>7, NextMultiple
<1> QED BY <1>11, <1>12

\* The moments between two midnights are of one day.
LEMMA DayOfFacts ==
    ASSUME NEW day \in Calendar, NEW t \in Int, DayStart(day) <= t, t < DayEnd(day)
    PROVE  DayOf(t) = day
<1>1. PICK length \in Nat \ {0} : length = DayLength BY OffersAssumption
<1>2. PICK zero \in Int : zero = DayStart(day) BY DayFacts
<1>3. PICK r \in Int : r = t - zero OBVIOUS
<1>4. day \in Int /\ DayEnd(day) = zero + length BY <1>1, <1>2, DayFacts
<1>5. zero = length * day BY <1>1, <1>2, <1>4 DEF DayStart
<1>6. t = length * day + r /\ 0 <= r /\ r < length BY <1>2, <1>3, <1>4, <1>5
<1>7. t \div length = day BY <1>4, <1>6, DivUnique
<1> QED BY <1>1, <1>7 DEF DayOf

-----------------------------------------------------------------------------
(* Bookings of several services *)

LEMMA AskFacts ==
    ASSUME NEW ask \in Asks
    PROVE  /\ Len(ask) \in Nat \ {0} /\ DOMAIN ask = 1..Len(ask)
           /\ \A i \in 1..Len(ask) : /\ ask[i].service \in Services
                                     /\ ask[i].staff \in Users \union {Anyone}
                                     /\ Duration[ask[i].service] \in Nat \ {0}
<1>1. ask \in Seq(Attendee) /\ ask # <<>> BY OffersAssumption
<1>2. PICK n \in Nat : n = Len(ask) /\ DOMAIN ask = 1..n BY <1>1
<1>3. n # 0 BY <1>1, <1>2
<1>4. \A i \in 1..n : ask[i] \in Attendee BY <1>1, <1>2
<1>5. \A i \in 1..n : ask[i].service \in Services /\ ask[i].staff \in Users \union {Anyone}
  BY <1>4 DEF Attendee
<1>6. \A i \in 1..n : Duration[ask[i].service] \in Nat \ {0} BY <1>5, OffersAssumption
<1> QED BY <1>2, <1>3, <1>5, <1>6

\* The recursion over the services defines when each begins.
LEMMA DelaysDefined ==
    ASSUME NEW ask, Len(ask) \in Nat
    PROVE  \A i \in 1..(Len(ask) + 1) :
             Delay(ask, i) = IF i = 1 THEN 0
                             ELSE Delay(ask, i - 1) + Duration[ask[i - 1].service]
<1> DEFINE Defines(g, n) ==
             g = [i \in 1..n |-> IF i = 1 THEN 0 ELSE g[i - 1] + Duration[ask[i - 1].service]]
           Bad == {n \in Nat : ~\E g : Defines(g, n)}
<1>1. Bad = {}
  <2> SUFFICES ASSUME Bad # {} PROVE FALSE OBVIOUS
  <2>1. PICK n \in Bad : \A m \in Bad : n <= m BY LeastNumber
  <2>2. n \in Nat /\ ~\E g : Defines(g, n) OBVIOUS
  <2>3. n # 0
    <3> SUFFICES ASSUME n = 0 PROVE FALSE OBVIOUS
    <3>1. PICK g : g = [i \in {} |-> 0] OBVIOUS
    <3>2. 1..0 = {} OBVIOUS
    <3>3. g = [i \in 1..0 |-> IF i = 1 THEN 0 ELSE g[i - 1] + Duration[ask[i - 1].service]]
      BY <3>1, <3>2
    <3> QED BY <2>2, <3>3
  <2>4. n - 1 \in Nat /\ ~(n <= n - 1) BY <2>2, <2>3
  <2>5. PICK g : Defines(g, n - 1)
    <3>1. n - 1 \notin Bad BY <2>1, <2>4
    <3> QED BY <2>4, <3>1
  <2>6. PICK h : h = [i \in 1..n |-> IF i = 1 THEN 0
                                     ELSE g[i - 1] + Duration[ask[i - 1].service]]
    OBVIOUS
  <2>7. ASSUME NEW k \in 1..(n - 1) PROVE h[k] = g[k]
    <3>1. g[k] = IF k = 1 THEN 0 ELSE g[k - 1] + Duration[ask[k - 1].service] BY <2>5
    <3>2. k \in 1..n BY <2>2
    <3> QED BY <2>6, <3>1, <3>2
  <2>8. \A i \in 1..n : i # 1 => i - 1 \in 1..(n - 1) BY <2>2
  <2>9. \A i \in 1..n : i # 1 => h[i - 1] = g[i - 1] BY <2>7, <2>8
  <2>10. h = [i \in 1..n |-> IF i = 1 THEN 0 ELSE h[i - 1] + Duration[ask[i - 1].service]]
    BY <2>6, <2>9
  <2> QED BY <2>2, <2>10
<1>2. PICK g : Defines(g, Len(ask) + 1)
  <2>1. Len(ask) + 1 \in Nat OBVIOUS
  <2>2. Len(ask) + 1 \notin Bad BY <1>1
  <2> QED BY <2>1, <2>2
<1>3. Defines(Delays(ask), Len(ask) + 1) BY <1>2 DEF Delays
<1> QED BY <1>3 DEF Delay

\* The services of a booking follow one another.
LEMMA DelayFacts ==
    ASSUME NEW ask \in Asks
    PROVE  /\ Delay(ask, 1) = 0
           /\ \A i \in 1..Len(ask) :
                /\ Delay(ask, i) \in Nat /\ Delay(ask, i + 1) \in Nat
                /\ Delay(ask, i + 1) = Delay(ask, i) + Duration[ask[i].service]
           /\ Total(ask) = Delay(ask, Len(ask) + 1) /\ Total(ask) \in Nat \ {0}
<1>1. PICK n \in Nat \ {0} : n = Len(ask) BY AskFacts
<1>2. PICK d : d = [i \in 1..(n + 1) |-> Delay(ask, i)] OBVIOUS
<1>3. PICK l : l = [i \in 1..n |-> Duration[ask[i].service]] OBVIOUS
<1>4. \A i \in 1..n : l[i] \in Nat \ {0} BY <1>1, <1>3, AskFacts
<1>5. \A i \in 1..(n + 1) : d[i] = IF i = 1 THEN 0 ELSE d[i - 1] + l[i - 1]
  <2>1. \A i \in 1..(n + 1) :
          d[i] = IF i = 1 THEN 0 ELSE Delay(ask, i - 1) + Duration[ask[i - 1].service]
    BY <1>1, <1>2, DelaysDefined
  <2>2. \A i \in 1..(n + 1) : i # 1 => i - 1 \in 1..n /\ i - 1 \in 1..(n + 1) OBVIOUS
  <2> QED BY <1>2, <1>3, <2>1, <2>2
<1>6. \A i \in 1..(n + 1) : d[i] \in Nat
  <2> DEFINE Bad == {i \in 1..(n + 1) : d[i] \notin Nat}
  <2> SUFFICES ASSUME Bad # {} PROVE FALSE OBVIOUS
  <2>0. Bad \subseteq Nat OBVIOUS
  <2>1. PICK i \in Bad : \A k \in Bad : i <= k BY <2>0, LeastNumber
  <2>2. i \in 1..(n + 1) /\ d[i] \notin Nat OBVIOUS
  <2>3. i # 1 BY <1>5, <2>2
  <2>4. i - 1 \in 1..(n + 1) /\ i - 1 \in 1..n /\ ~(i <= i - 1) BY <2>2, <2>3
  <2>5. d[i - 1] \in Nat BY <2>1, <2>4
  <2>6. l[i - 1] \in Nat BY <1>4, <2>4
  <2>7. d[i] = d[i - 1] + l[i - 1] BY <1>5, <2>2, <2>3
  <2> QED BY <2>2, <2>5, <2>6, <2>7
<1>7. ASSUME NEW i \in 1..n PROVE d[i + 1] = d[i] + l[i]
  <2>1. i + 1 \in 1..(n + 1) /\ i + 1 # 1 /\ (i + 1) - 1 = i OBVIOUS
  <2> QED BY <1>5, <2>1
<1>8. \A i \in 1..n : i \in 1..(n + 1) /\ i + 1 \in 1..(n + 1) OBVIOUS
<1>9. 1 \in 1..(n + 1) /\ n \in 1..n /\ n + 1 \in 1..(n + 1) OBVIOUS
<1>10. d[1] = 0 BY <1>5, <1>9
<1>11. d[n + 1] \in Nat \ {0}
  <2>1. d[n + 1] = d[n] + l[n] /\ d[n] \in Nat /\ l[n] \in Nat \ {0}
    BY <1>4, <1>6, <1>7, <1>8, <1>9
  <2> QED BY <2>1
<1>12. \A i \in 1..(n + 1) : Delay(ask, i) = d[i] BY <1>2
<1>13. \A i \in 1..n : Duration[ask[i].service] = l[i] BY <1>3
<1>14. Total(ask) = d[n + 1] BY <1>1, <1>9, <1>12 DEF Total
<1>15. Delay(ask, 1) = 0 BY <1>9, <1>10, <1>12
<1>16. ASSUME NEW i \in 1..n
       PROVE  /\ Delay(ask, i) \in Nat /\ Delay(ask, i + 1) \in Nat
              /\ Delay(ask, i + 1) = Delay(ask, i) + Duration[ask[i].service]
  <2>1. Delay(ask, i) = d[i] /\ Delay(ask, i + 1) = d[i + 1] BY <1>8, <1>12
  <2>2. d[i] \in Nat /\ d[i + 1] \in Nat BY <1>6, <1>8
  <2> QED BY <1>7, <1>13, <2>1, <2>2
<1>17. Total(ask) = Delay(ask, n + 1) /\ Total(ask) \in Nat \ {0}
  BY <1>9, <1>11, <1>12, <1>14
<1> QED BY <1>1, <1>15, <1>16, <1>17

-----------------------------------------------------------------------------
(* What is offered *)

\* A window fits a service exactly where the professional works freely.
LEMMA FittingWindows ==
    ASSUME OffersInv, NEW u \in Users, NEW day \in Calendar, NEW step \in Nat \ {0},
           NEW a \in Int, NEW b \in Int, a < b
    PROVE  LET windows == FreeWindows(u, day, step, scene.fallback)
           IN  /\ (\E w \in windows : w.start <= a /\ b <= w.end) => WorksFreely(u, day, a, b)
               /\ WorksFreely(u, day, a, b) /\ Late(day, step, a) =>
                    \E w \in windows : w.start <= a /\ b <= w.end
               /\ \A w \in windows : /\ w.start \in Int /\ w.end \in Int
                                     /\ w.start < w.end /\ w.end <= DayEnd(day)
<1>1. PICK windows : windows = FreeWindows(u, day, step, scene.fallback) OBVIOUS
<1>2. PICK fallback : fallback = scene.fallback OBVIOUS
<1>3. /\ windows \subseteq Proper
      /\ \A w \in windows, x \in Int : During(x, w) => OpenAt(u, day, fallback, x)
      /\ (\A x \in a..(b - 1) : OpenAt(u, day, fallback, x) /\ Late(day, step, x)) =>
           \E w \in windows : w.start <= a /\ b <= w.end
  BY <1>1, <1>2, FreeWindowsFacts
<1>4. WorksFreely(u, day, a, b) <=> \A x \in a..(b - 1) : OpenAt(u, day, fallback, x)
  BY <1>2 DEF WorksFreely, OpenAt, During
<1>5. ASSUME NEW w \in windows, w.start <= a, b <= w.end PROVE WorksFreely(u, day, a, b)
  <2>1. w.start \in Int /\ w.end \in Int BY <1>3 DEF Proper, Windows
  <2>2. \A x \in a..(b - 1) : During(x, w) BY <1>5, <2>1 DEF During
  <2> QED BY <1>3, <1>4, <2>2
<1>6. ASSUME Late(day, step, a) PROVE \A x \in a..(b - 1) : Late(day, step, x)
  <2>1. clock \in Nat BY DEF OffersInv
  <2>2. RoundedNow(step) \in Int BY <2>1, RoundedFacts
  <2> QED BY <1>6, <2>2 DEF Late
<1>7. ASSUME NEW w \in windows
      PROVE  w.start \in Int /\ w.end \in Int /\ w.start < w.end /\ w.end <= DayEnd(day)
  <2>1. w.start \in Int /\ w.end \in Int /\ w.start < w.end BY <1>3 DEF Proper, Windows
  <2>2. PICK x \in Int : x = w.end - 1 /\ During(x, w) BY <2>1 DEF During
  <2>3. OpenAt(u, day, fallback, x) BY <1>3, <2>2
  <2>4. PICK s \in Shifts(u, day, fallback) : During(x, s) BY <2>3 DEF OpenAt
  <2>5. s.end \in Int /\ s.end <= DayEnd(day) BY ShiftFacts DEF OffersInv
  <2>6. DayEnd(day) \in Int /\ x < s.end BY <2>4, DayFacts DEF During
  <2> QED BY <2>1, <2>2, <2>5, <2>6
<1> QED BY <1>1, <1>3, <1>4, <1>5, <1>6, <1>7

LEMMA SceneFacts ==
    ASSUME OffersInv, NEW ask \in Asks
    PROVE  /\ Step(ask) \in Nat \ {0}
           /\ Earliest \in Nat /\ clock <= Earliest /\ LatestDay \in Int /\ DayOf(clock) \in Int
           /\ \A s : OfferEligible(ask, s) \subseteq Users
<1>1. scene \in Scene BY OffersAssumption DEF OffersInv
<1>2. /\ scene.step \in Nat \ {0} /\ scene.lead \in Nat /\ scene.advance \in Nat
      /\ scene.allowed \subseteq Users
  BY <1>1 DEF Scene
<1>3. clock \in Nat BY DEF OffersInv
<1>4. Step(ask) \in Nat \ {0} BY <1>2, DelayFacts DEF Step
<1>5. Earliest \in Nat /\ clock <= Earliest BY <1>2, <1>3 DEF Earliest
<1>6. DayOf(clock) \in Int
  <2>1. DayLength \in Nat \ {0} BY OffersAssumption
  <2> QED BY <1>3, <2>1, DivFacts DEF DayOf
<1>7. LatestDay \in Int BY <1>2, <1>6 DEF LatestDay
<1>8. \A s : OfferEligible(ask, s) \subseteq Users BY <1>2 DEF OfferEligible
<1> QED BY <1>4, <1>5, <1>6, <1>7, <1>8

\* The starts of one service are those that are due, from the rounded clock on.
LEMMA SingleExact ==
    ASSUME OffersInv, NEW ask \in Asks, ~IsMulti(ask), Individual(ask), NEW day \in Calendar
    PROVE  /\ SingleStarts(ask, day, None) \subseteq Due(ask, day)
           /\ \A t \in Due(ask, day) :
                Late(day, Step(ask), t) => t \in SingleStarts(ask, day, None)
<1>1. Len(ask) = 1 /\ DOMAIN ask = {1}
  <2>1. Len(ask) \in Nat \ {0} /\ DOMAIN ask = 1..Len(ask) BY AskFacts
  <2>2. Len(ask) = 1 BY <2>1 DEF IsMulti
  <2>3. 1..1 = {1} OBVIOUS
  <2> QED BY <2>1, <2>2, <2>3
<1>2. PICK s : s = ask[1].service OBVIOUS
<1>3. ~IsClass(s) BY <1>1, <1>2 DEF Individual, ServicesOf
<1>4. PICK length \in Nat \ {0} : length = Duration[s] BY <1>1, <1>2, AskFacts
<1>5. Delay(ask, 1) = 0 /\ Delay(ask, 1 + 1) = length
  <2>1. 1 \in 1..Len(ask) BY <1>1
  <2>2. Delay(ask, 1) = 0 /\ Delay(ask, 1 + 1) = Delay(ask, 1) + Duration[ask[1].service]
    BY <2>1, DelayFacts
  <2> QED BY <1>2, <1>4, <2>2
<1>6. PICK step \in Nat \ {0} : step = Step(ask) BY SceneFacts
<1>7. PICK eligible : eligible = OfferEligible(ask, s) OBVIOUS
<1>8. eligible \subseteq Users BY <1>7, SceneFacts
<1>9. PICK windows : windows = [u \in eligible |-> FreeWindows(u, day, step, scene.fallback)]
  OBVIOUS
<1>10. ASSUME NEW t
       PROVE  t \in SingleStarts(ask, day, None) <=>
                \E u \in eligible : \E w \in windows[u] :
                   t \in Grid(w.start, w.end - length, step, day) /\ InBookingWindow(t)
  BY <1>2, <1>3, <1>4, <1>6, <1>7, <1>9 DEF SingleStarts
<1>11. PICK first \in Int, end \in Int : first = DayStart(day) /\ end = DayEnd(day) BY DayFacts
<1>12. ASSUME NEW u \in eligible, NEW w \in windows[u]
       PROVE  /\ w.start \in Int /\ w.end \in Int /\ w.end <= end
              /\ \A t : t \in Grid(w.start, w.end - length, step, day) <=>
                   /\ t \in Int /\ w.start <= t /\ first <= t /\ t <= w.end - length
                   /\ (t - first) % step = 0
  <2>1. w \in FreeWindows(u, day, step, scene.fallback) /\ u \in Users BY <1>8, <1>9
  <2>2. 0 \in Int /\ 1 \in Int /\ 0 < 1 OBVIOUS
  <2>3. w.start \in Int /\ w.end \in Int /\ w.end <= end BY <1>11, <2>1, <2>2, FittingWindows
  <2>4. PICK last \in Int : last = w.end - length BY <2>3
  <2> QED BY <1>11, <2>3, <2>4, GridFacts
<1>13. ASSUME NEW t \in Int, NEW u \in eligible
       PROVE  /\ (\E w \in windows[u] : w.start <= t /\ t <= w.end - length) =>
                   WorksFreely(u, day, t, t + length)
              /\ WorksFreely(u, day, t, t + length) /\ Late(day, step, t) =>
                   \E w \in windows[u] : w.start <= t /\ t <= w.end - length
  <2>1. PICK b \in Int : b = t + length OBVIOUS
  <2>2. t < b /\ u \in Users /\ windows[u] = FreeWindows(u, day, step, scene.fallback)
    BY <1>8, <1>9, <2>1
  <2>3. /\ (\E w \in windows[u] : w.start <= t /\ b <= w.end) => WorksFreely(u, day, t, b)
        /\ WorksFreely(u, day, t, b) /\ Late(day, step, t) =>
             \E w \in windows[u] : w.start <= t /\ b <= w.end
    BY <2>2, FittingWindows
  <2>4. \A w \in windows[u] : b <= w.end <=> t <= w.end - length BY <1>12, <2>1
  <2> QED BY <2>1, <2>3, <2>4
<1>14. ASSUME NEW t \in Int
       PROVE  t \in Due(ask, day) <=>
                /\ first <= t /\ t < end /\ (t - first) % step = 0 /\ InBookingWindow(t)
                /\ \E u \in eligible : WorksFreely(u, day, t, t + length)
  <2>1. t + Delay(ask, 1) = t /\ t + Delay(ask, 1 + 1) = t + length BY <1>5
  <2>2. t \in first..(end - 1) <=> first <= t /\ t < end OBVIOUS
  <2> QED BY <1>1, <1>2, <1>6, <1>7, <1>11, <2>1, <2>2 DEF Due
<1>15. ASSUME NEW t \in SingleStarts(ask, day, None) PROVE t \in Due(ask, day)
  <2>1. PICK u \in eligible : \E w \in windows[u] :
          t \in Grid(w.start, w.end - length, step, day) /\ InBookingWindow(t)
    BY <1>10
  <2>2. PICK w \in windows[u] : t \in Grid(w.start, w.end - length, step, day) BY <2>1
  <2>3. /\ t \in Int /\ w.start <= t /\ first <= t /\ t <= w.end - length
        /\ (t - first) % step = 0 /\ w.end \in Int /\ w.end <= end
    BY <1>12, <2>2
  <2>4. WorksFreely(u, day, t, t + length) BY <1>13, <2>2, <2>3
  <2>5. t < end BY <2>3
  <2> QED BY <1>14, <2>1, <2>3, <2>4, <2>5
<1>16. ASSUME NEW t \in Due(ask, day), Late(day, step, t) PROVE t \in SingleStarts(ask, day, None)
  <2>1. t \in Int BY <1>11 DEF Due
  <2>2. PICK u \in eligible : WorksFreely(u, day, t, t + length) BY <1>14, <2>1
  <2>3. PICK w \in windows[u] : w.start <= t /\ t <= w.end - length BY <1>13, <1>16, <2>1, <2>2
  <2>4. first <= t /\ (t - first) % step = 0 /\ InBookingWindow(t) BY <1>14, <2>1
  <2>5. t \in Grid(w.start, w.end - length, step, day) BY <1>12, <2>1, <2>3, <2>4
  <2> QED BY <1>10, <2>4, <2>5
<1> QED BY <1>6, <1>15, <1>16

\* Time in which one of some professionals is free
LEMMA FreeTimeFacts ==
    ASSUME NEW users, NEW day, NEW step, NEW fallback
    PROVE  LET free == FreeTime(users, day, step, fallback)
           IN  /\ \A f \in free : /\ f.user \in users
                                  /\ \E w \in FreeWindows(f.user, day, step, fallback) :
                                       f.start = w.start /\ f.end = w.end
               /\ \A u \in users : \A w \in FreeWindows(u, day, step, fallback) :
                    \E f \in free : f.user = u /\ f.start = w.start /\ f.end = w.end
<1>1. PICK free : free = FreeTime(users, day, step, fallback) OBVIOUS
<1>2. PICK windows : windows = [u \in users |-> FreeWindows(u, day, step, fallback)] OBVIOUS
<1>3. free = UNION {{[user |-> u, start |-> w.start, end |-> w.end] : w \in windows[u]} :
                      u \in users}
  BY <1>1, <1>2 DEF FreeTime
<1>4. ASSUME NEW f \in free
      PROVE  f.user \in users /\ \E w \in windows[f.user] : f.start = w.start /\ f.end = w.end
  <2>1. PICK u \in users : \E w \in windows[u] : f = [user |-> u, start |-> w.start, end |-> w.end]
    BY <1>3
  <2>2. PICK w \in windows[u] : f = [user |-> u, start |-> w.start, end |-> w.end] BY <2>1
  <2>3. f.user = u /\ f.start = w.start /\ f.end = w.end BY <2>2
  <2> QED BY <2>2, <2>3
<1>5. ASSUME NEW u \in users, NEW w \in windows[u]
      PROVE  \E f \in free : f.user = u /\ f.start = w.start /\ f.end = w.end
  <2>1. PICK f : f = [user |-> u, start |-> w.start, end |-> w.end] OBVIOUS
  <2>2. f \in free BY <1>3, <2>1
  <2>3. f.user = u /\ f.start = w.start /\ f.end = w.end BY <2>1
  <2> QED BY <2>2, <2>3
<1>6. \A u \in users : windows[u] = FreeWindows(u, day, step, fallback) BY <1>2
<1> QED BY <1>1, <1>4, <1>5, <1>6

\* The services of a booking can be assigned when each can be, one by one.
LEMMA AssignmentFacts ==
    ASSUME NEW ask \in Asks, NEW t, NEW eligible, NEW free
    PROVE  Assignments(ask, t, eligible, free) # {} <=>
             \E user \in [1..Len(ask) -> Users] : \A i \in 1..Len(ask) :
               /\ user[i] \in eligible[ask[i].service]
               /\ Fits(free, user[i], t + Delay(ask, i), t + Delay(ask, i + 1))
<1> DEFINE Plan(user) ==
             [i \in 1..Len(ask) |->
                [user |-> user[i], service |-> ask[i].service,
                 start |-> t + Delay(ask, i), end |-> t + Delay(ask, i + 1)]]
           Good(p) == \A i \in 1..Len(ask) : /\ p[i].user \in eligible[p[i].service]
                                             /\ Fits(free, p[i].user, p[i].start, p[i].end)
           Fine(user) == \A i \in 1..Len(ask) :
             /\ user[i] \in eligible[ask[i].service]
             /\ Fits(free, user[i], t + Delay(ask, i), t + Delay(ask, i + 1))
<1>1. DOMAIN ask = 1..Len(ask) BY AskFacts
<1>2. Assignments(ask, t, eligible, free) =
        {p \in {Plan(user) : user \in [1..Len(ask) -> Users]} : Good(p)}
  BY <1>1 DEF Assignments
<1>3. ASSUME NEW user PROVE Good(Plan(user)) <=> Fine(user)
  <2>1. ASSUME NEW i \in 1..Len(ask)
        PROVE  /\ Plan(user)[i].user = user[i] /\ Plan(user)[i].service = ask[i].service
               /\ Plan(user)[i].start = t + Delay(ask, i)
               /\ Plan(user)[i].end = t + Delay(ask, i + 1)
    OBVIOUS
  <2> HIDE DEF Plan
  <2> QED BY <2>1
<1> HIDE DEF Good, Plan
<1>4. Assignments(ask, t, eligible, free) # {} <=>
        \E user \in [1..Len(ask) -> Users] : Good(Plan(user))
  BY <1>2
<1> QED BY <1>3, <1>4

\* The starts of several services are those that are due, from the rounded clock
\* on, of a booking that ends before midnight.
LEMMA MultiExact ==
    ASSUME OffersInv, NEW ask \in Asks, NEW day \in Calendar
    PROVE  /\ MultiStarts(ask, day) \subseteq Due(ask, day)
           /\ \A t \in Due(ask, day) :
                Late(day, Step(ask), t) /\ t + Total(ask) < DayEnd(day) =>
                  t \in MultiStarts(ask, day)
<1>1. PICK n \in Nat \ {0} : n = Len(ask) /\ DOMAIN ask = 1..n BY AskFacts
<1>2. PICK s : s = [i \in 1..n |-> ask[i].service] OBVIOUS
<1>3. PICK length : length = [i \in 1..n |-> Duration[s[i]]] OBVIOUS
<1>4. \A i \in 1..n : length[i] \in Nat \ {0} BY <1>1, <1>2, <1>3, AskFacts
<1>5. PICK d : d = [i \in 1..(n + 1) |-> Delay(ask, i)] OBVIOUS
<1>6. \A i \in 1..n : i \in 1..(n + 1) /\ i + 1 \in 1..(n + 1) OBVIOUS
<1>7. d[1] = 0 /\ \A i \in 1..n : d[i] \in Nat /\ d[i + 1] \in Nat /\ d[i + 1] = d[i] + length[i]
  <2>1. 1 \in 1..(n + 1) OBVIOUS
  <2>2. d[1] = 0 BY <1>5, <2>1, DelayFacts
  <2> QED BY <1>1, <1>2, <1>3, <1>5, <1>6, <2>2, DelayFacts
<1>8. PICK total \in Nat \ {0} : total = Total(ask) BY DelayFacts
<1>9. PICK step \in Nat \ {0} : step = Step(ask) BY SceneFacts
<1>10. PICK eligible : eligible = [x \in ServicesOf(ask) |-> OfferEligible(ask, x)] OBVIOUS
<1>11. PICK users : users = AllOfferEligible(ask) OBVIOUS
<1>12. ServicesOf(ask) = {s[i] : i \in 1..n} BY <1>1, <1>2 DEF ServicesOf
<1>13. /\ users \subseteq Users
       /\ \A i \in 1..n : /\ eligible[s[i]] = OfferEligible(ask, s[i])
                          /\ eligible[s[i]] \subseteq users
  <2>1. \A x : OfferEligible(ask, x) \subseteq Users BY SceneFacts
  <2>2. users \subseteq Users BY <1>11, <2>1 DEF AllOfferEligible
  <2>3. \A i \in 1..n : s[i] \in ServicesOf(ask) BY <1>12
  <2>4. \A i \in 1..n : eligible[s[i]] = OfferEligible(ask, s[i]) BY <1>10, <2>3
  <2>5. \A i \in 1..n : OfferEligible(ask, s[i]) \subseteq users BY <1>11, <2>3 DEF AllOfferEligible
  <2> QED BY <2>2, <2>4, <2>5
<1>14. PICK windows : windows = [u \in users |-> FreeWindows(u, day, step, scene.fallback)]
  OBVIOUS
<1>15. PICK free : free = FreeTime(users, day, step, scene.fallback) OBVIOUS
<1>16. /\ \A f \in free : f.user \in users /\ \E w \in windows[f.user] :
                            f.start = w.start /\ f.end = w.end
       /\ \A u \in users : \A w \in windows[u] :
            \E f \in free : f.user = u /\ f.start = w.start /\ f.end = w.end
  BY <1>14, <1>15, FreeTimeFacts
<1>17. ASSUME NEW u \in users, NEW a \in Int, NEW b \in Int, a < b
       PROVE  /\ Fits(free, u, a, b) <=> \E w \in windows[u] : w.start <= a /\ b <= w.end
              /\ Fits(free, u, a, b) => WorksFreely(u, day, a, b)
              /\ WorksFreely(u, day, a, b) /\ Late(day, step, a) => Fits(free, u, a, b)
  <2>1. u \in Users /\ windows[u] = FreeWindows(u, day, step, scene.fallback) BY <1>13, <1>14
  <2>2. /\ (\E w \in windows[u] : w.start <= a /\ b <= w.end) => WorksFreely(u, day, a, b)
        /\ WorksFreely(u, day, a, b) /\ Late(day, step, a) =>
             \E w \in windows[u] : w.start <= a /\ b <= w.end
        /\ \A w \in windows[u] : w.start \in Int /\ w.end \in Int
    BY <1>17, <2>1, FittingWindows
  <2>3. \A w \in windows[u] : (a >= w.start <=> w.start <= a) BY <2>2
  <2>4. Fits(free, u, a, b) <=> \E w \in windows[u] : w.start <= a /\ b <= w.end
    <3>1. ASSUME Fits(free, u, a, b) PROVE \E w \in windows[u] : w.start <= a /\ b <= w.end
      <4>1. PICK f \in free : f.user = u /\ a >= f.start /\ b <= f.end BY <3>1 DEF Fits
      <4>2. PICK w \in windows[u] : f.start = w.start /\ f.end = w.end BY <1>16, <4>1
      <4> QED BY <2>3, <4>1, <4>2
    <3>2. ASSUME NEW w \in windows[u], w.start <= a, b <= w.end PROVE Fits(free, u, a, b)
      <4>1. PICK f \in free : f.user = u /\ f.start = w.start /\ f.end = w.end BY <1>16
      <4> QED BY <2>3, <3>2, <4>1 DEF Fits
    <3> QED BY <3>1, <3>2
  <2> QED BY <2>2, <2>4
<1>18. PICK first \in Int, end \in Int : first = DayStart(day) /\ end = DayEnd(day) BY DayFacts
<1>19. \A f \in free : f.start \in Int /\ f.end \in Int
  <2>1. ASSUME NEW f \in free PROVE f.start \in Int /\ f.end \in Int
    <3>1. PICK u \in users : u = f.user BY <1>16
    <3>2. PICK w \in windows[u] : f.start = w.start /\ f.end = w.end BY <1>16, <3>1
    <3>3. u \in Users /\ w \in FreeWindows(u, day, step, scene.fallback) BY <1>13, <1>14
    <3>4. 0 \in Int /\ 1 \in Int /\ 0 < 1 OBVIOUS
    <3>5. w.start \in Int /\ w.end \in Int BY <3>3, <3>4, FittingWindows
    <3> QED BY <3>2, <3>5
  <2> QED BY <2>1
<1>20. PICK last \in Int : last = end - total OBVIOUS
<1>21. PICK candidates :
         candidates = UNION {Grid(w.start, Min({w.end, last - 1}), step, day) :
                               w \in {w \in free : /\ w.user \in eligible[s[1]]
                                                   /\ w.start < Min({w.end, last})}}
  OBVIOUS
<1>22. 1 \in 1..n /\ s[1] = ask[1].service BY <1>2
<1>23. MultiStarts(ask, day) =
         IF ~EachFitsAlone(ask, eligible, free) THEN {}
         ELSE {t \in candidates : InBookingWindow(t) /\ Assignments(ask, t, eligible, free) # {}}
  BY <1>8, <1>9, <1>10, <1>11, <1>15, <1>18, <1>20, <1>21, <1>22 DEF MultiStarts
<1>24. ASSUME NEW w \in free, NEW t
       PROVE  t \in Grid(w.start, Min({w.end, last - 1}), step, day) <=>
                /\ t \in Int /\ w.start <= t /\ first <= t /\ t <= w.end /\ t <= last - 1
                /\ (t - first) % step = 0
  <2>1. PICK e \in Int, l \in Int : e = w.end /\ l = last - 1 BY <1>19
  <2>2. PICK m \in Int : m = Min({e, l}) /\ m = IF e <= l THEN e ELSE l BY TheLesser
  <2>3. t \in Grid(w.start, m, step, day) <=>
          /\ t \in Int /\ w.start <= t /\ first <= t /\ t <= m /\ (t - first) % step = 0
    BY <1>18, <1>19, GridFacts
  <2>4. ASSUME NEW x \in Int PROVE x <= m <=> x <= e /\ x <= l BY <2>2
  <2> QED BY <2>1, <2>2, <2>3, <2>4
<1>25. ASSUME NEW t \in Int
       PROVE  t \in Due(ask, day) <=>
                /\ first <= t /\ t < end /\ (t - first) % step = 0 /\ InBookingWindow(t)
                /\ \A i \in 1..n : \E u \in eligible[s[i]] :
                     WorksFreely(u, day, t + d[i], t + d[i + 1])
  <2>1. t \in first..(end - 1) <=> first <= t /\ t < end OBVIOUS
  <2>2. \A i \in 1..n : /\ Delay(ask, i) = d[i] /\ Delay(ask, i + 1) = d[i + 1]
                        /\ eligible[s[i]] = OfferEligible(ask, ask[i].service)
    BY <1>2, <1>5, <1>6, <1>13
  <2> QED BY <1>1, <1>9, <1>18, <2>1, <2>2 DEF Due
<1>26. ASSUME NEW t \in Int
       PROVE  Assignments(ask, t, eligible, free) # {} <=>
                \E user \in [1..n -> Users] : \A i \in 1..n :
                  user[i] \in eligible[s[i]] /\ Fits(free, user[i], t + d[i], t + d[i + 1])
  <2>1. \A i \in 1..n : /\ Delay(ask, i) = d[i] /\ Delay(ask, i + 1) = d[i + 1]
                        /\ ask[i].service = s[i]
    BY <1>2, <1>5, <1>6
  <2>2. Assignments(ask, t, eligible, free) # {} <=>
          \E user \in [1..n -> Users] : \A i \in 1..n :
            /\ user[i] \in eligible[ask[i].service]
            /\ Fits(free, user[i], t + Delay(ask, i), t + Delay(ask, i + 1))
    BY <1>1, AssignmentFacts
  <2> QED BY <2>1, <2>2
<1>27. ASSUME NEW t \in Int, NEW i \in 1..n
       PROVE  /\ t + d[i] \in Int /\ t + d[i + 1] \in Int /\ t + d[i] < t + d[i + 1]
              /\ t <= t + d[i] /\ (t + d[i + 1]) - (t + d[i]) = length[i]
  <2>1. PICK a \in Nat, b \in Nat, c \in Nat \ {0} :
          a = d[i] /\ b = d[i + 1] /\ c = length[i] /\ b = a + c
    BY <1>4, <1>7
  <2> QED BY <2>1
<1>28. ASSUME NEW t \in MultiStarts(ask, day) PROVE t \in Due(ask, day)
  <2>1. /\ t \in candidates /\ InBookingWindow(t) /\ Assignments(ask, t, eligible, free) # {}
    BY <1>23
  <2>2. PICK w \in free : t \in Grid(w.start, Min({w.end, last - 1}), step, day) BY <1>21, <2>1
  <2>3. t \in Int /\ first <= t /\ t <= last - 1 /\ (t - first) % step = 0 BY <1>24, <2>2
  <2>4. t < end BY <1>20, <2>3
  <2>5. PICK user \in [1..n -> Users] : \A i \in 1..n :
          user[i] \in eligible[s[i]] /\ Fits(free, user[i], t + d[i], t + d[i + 1])
    BY <1>26, <2>1, <2>3
  <2>6. ASSUME NEW i \in 1..n
        PROVE  \E u \in eligible[s[i]] : WorksFreely(u, day, t + d[i], t + d[i + 1])
    <3>1. PICK u \in users : u = user[i] BY <1>13, <2>5
    <3>2. u \in eligible[s[i]] /\ Fits(free, u, t + d[i], t + d[i + 1]) BY <2>5, <3>1
    <3>3. WorksFreely(u, day, t + d[i], t + d[i + 1]) BY <1>17, <1>27, <2>3, <3>2
    <3> QED BY <3>2, <3>3
  <2> QED BY <1>25, <2>1, <2>3, <2>4, <2>6
<1>29. ASSUME NEW t \in Due(ask, day), Late(day, step, t), t + total < end
       PROVE  t \in MultiStarts(ask, day)
  <2>1. t \in Int BY <1>18 DEF Due
  <2>2. /\ first <= t /\ (t - first) % step = 0 /\ InBookingWindow(t)
        /\ \A i \in 1..n : \E u \in eligible[s[i]] :
             WorksFreely(u, day, t + d[i], t + d[i + 1])
    BY <1>25, <2>1
  <2>3. PICK user : user = [i \in 1..n |-> CHOOSE u \in eligible[s[i]] :
                              WorksFreely(u, day, t + d[i], t + d[i + 1])]
    OBVIOUS
  <2>4. ASSUME NEW i \in 1..n
        PROVE  /\ user[i] \in eligible[s[i]] /\ user[i] \in users
               /\ Fits(free, user[i], t + d[i], t + d[i + 1])
    <3>1. user[i] \in eligible[s[i]] /\ WorksFreely(user[i], day, t + d[i], t + d[i + 1])
      BY <2>2, <2>3
    <3>2. PICK u \in users : u = user[i] BY <1>13, <3>1
    <3>3. Late(day, step, t + d[i])
      <4>1. RoundedNow(step) \in Int BY RoundedFacts DEF OffersInv
      <4>2. t + d[i] \in Int /\ t <= t + d[i] BY <1>27, <2>1
      <4> QED BY <1>29, <2>1, <4>1, <4>2 DEF Late
    <3>4. Fits(free, u, t + d[i], t + d[i + 1]) BY <1>17, <1>27, <2>1, <3>1, <3>2, <3>3
    <3> QED BY <3>1, <3>2, <3>4
  <2>5. user \in [1..n -> Users] BY <1>13, <2>3, <2>4
  <2>6. Assignments(ask, t, eligible, free) # {} BY <1>26, <2>1, <2>4, <2>5
  <2>7. ASSUME NEW i \in 1..n
        PROVE  \E f \in free : /\ f.user \in eligible[s[i]] /\ f.start <= t + d[i]
                               /\ t + d[i + 1] <= f.end
    <3>1. PICK f \in free : /\ f.user = user[i] /\ t + d[i] >= f.start
                            /\ t + d[i + 1] <= f.end
      BY <2>4 DEF Fits
    <3>2. f.start <= t + d[i] BY <1>19, <1>27, <2>1, <3>1
    <3> QED BY <2>4, <3>1, <3>2
  <2>8. EachFitsAlone(ask, eligible, free)
    <3>1. ASSUME NEW i \in 1..n
          PROVE  \E f \in free : f.user \in eligible[s[i]] /\ f.end - f.start >= Duration[s[i]]
      <4>1. PICK f \in free : /\ f.user \in eligible[s[i]] /\ f.start <= t + d[i]
                              /\ t + d[i + 1] <= f.end
        BY <2>7
      <4>2. PICK a \in Int, b \in Int, l \in Int :
              a = t + d[i] /\ b = t + d[i + 1] /\ l = length[i] /\ b - a = l
        BY <1>4, <1>27, <2>1
      <4>3. f.start \in Int /\ f.end \in Int /\ l = Duration[s[i]] BY <1>3, <1>19, <4>2
      <4>4. f.end - f.start >= l BY <4>1, <4>2, <4>3
      <4> QED BY <4>1, <4>3, <4>4
    <3> QED BY <1>12, <3>1 DEF EachFitsAlone
  <2>9. PICK f \in free : /\ f.user \in eligible[s[1]] /\ f.start <= t + d[1]
                          /\ t + d[1 + 1] <= f.end
    BY <1>22, <2>7
  <2>10. /\ f.start \in Int /\ f.end \in Int /\ f.start <= t /\ t < f.end
    <3>1. PICK i \in 1..n : i = 1 BY <1>22
    <3>2. PICK a, b : a = t + d[i] /\ b = t + d[i + 1] OBVIOUS
    <3>3. a \in Int /\ b \in Int /\ a < b BY <1>27, <2>1, <3>2
    <3>4. a = t BY <1>7, <2>1, <3>1, <3>2
    <3>5. f.start <= a /\ b <= f.end BY <2>9, <3>1, <3>2
    <3>6. f.start \in Int /\ f.end \in Int BY <1>19
    <3> QED BY <3>3, <3>4, <3>5, <3>6
  <2>11. t < last /\ t <= last - 1 BY <1>20, <1>29, <2>1
  <2>12. f.start < Min({f.end, last})
    <3>1. Min({f.end, last}) = IF f.end <= last THEN f.end ELSE last BY <2>10, TheLesser
    <3> QED BY <2>1, <2>10, <2>11, <3>1
  <2>13. t \in Grid(f.start, Min({f.end, last - 1}), step, day)
    <3>1. t <= f.end BY <2>1, <2>10
    <3> QED BY <1>24, <2>1, <2>2, <2>10, <2>11, <3>1
  <2>14. t \in candidates BY <1>21, <2>9, <2>12, <2>13
  <2> QED BY <1>23, <2>2, <2>6, <2>8, <2>14
<1> QED BY <1>8, <1>9, <1>18, <1>28, <1>29

\* In every state whose rows have times, the starts offered are the ones defined.
LEMMA OffersExact == OffersInv => OffersAreExact
<1> SUFFICES ASSUME OffersInv, NEW ask \in Asks, Individual(ask), NEW day \in Calendar
             PROVE  LET offered == TimeSlots(ask, day, None)
                    IN /\ offered \subseteq Due(ask, day)
                       /\ (DayOf(clock) <= day /\ Hour % Step(ask) = 0) =>
                            {t \in Due(ask, day) : t + Total(ask) < DayEnd(day)} \subseteq offered
  BY DEF OffersAreExact
<1>1. PICK starts : starts = IF IsMulti(ask) THEN MultiStarts(ask, day)
                             ELSE SingleStarts(ask, day, None)
  OBVIOUS
<1>2. PICK offered : offered = TimeSlots(ask, day, None) OBVIOUS
<1>3. ~Combines(ask) BY DEF Combines, Individual
<1>4. offered = IF day < DayOf(clock) \/ OutOfWindow(day) THEN {} ELSE starts
  BY <1>1, <1>2, <1>3 DEF TimeSlots
<1>5. starts \subseteq Due(ask, day) BY <1>1, SingleExact, MultiExact
<1>6. ASSUME NEW t \in Due(ask, day), t + Total(ask) < DayEnd(day), DayOf(clock) <= day,
             Hour % Step(ask) = 0
      PROVE  t \in offered
  <2>1. PICK first \in Int, end \in Int, step \in Nat \ {0} :
          first = DayStart(day) /\ end = DayEnd(day) /\ step = Step(ask)
    BY DayFacts, SceneFacts
  <2>2. /\ t \in Int /\ first <= t /\ t < end /\ (t - first) % step = 0 /\ InBookingWindow(t)
    BY <2>1 DEF Due
  <2>3. /\ Earliest \in Int /\ clock <= Earliest /\ LatestDay \in Int /\ DayOf(clock) \in Int
        /\ day \in Int /\ clock \in Int
    BY SceneFacts, DayFacts DEF OffersInv
  <2>4. Earliest <= t /\ DayOf(t) <= LatestDay BY <2>2, <2>3 DEF InBookingWindow
  <2>5. DayOf(t) = day BY <2>1, <2>2, DayOfFacts
  <2>6. ~OutOfWindow(day)
    <3>1. ~(day > LatestDay) BY <2>3, <2>4, <2>5
    <3>2. ~(end <= Earliest) BY <2>1, <2>2, <2>3, <2>4
    <3> QED BY <2>1, <3>1, <3>2 DEF OutOfWindow
  <2>7. ~(day < DayOf(clock)) BY <1>6, <2>3
  <2>8. clock <= t BY <2>2, <2>3, <2>4
  <2>9. RoundedNow(step) <= t
    <3>1. clock \in Nat BY DEF OffersInv
    <3> QED BY <1>6, <2>1, <2>2, <2>8, <3>1, RoundedOnGrid
  <2>10. Late(day, Step(ask), t) BY <2>1, <2>9 DEF Late
  <2>11. t \in starts BY <1>1, <1>6, <2>10, SingleExact, MultiExact
  <2> QED BY <1>4, <2>6, <2>7, <2>11
<1> QED BY <1>2, <1>4, <1>5, <1>6

-----------------------------------------------------------------------------
(* The rows of every history *)

IsRow(r) ==
    /\ r = [user |-> r.user, service |-> r.service, start |-> r.start, end |-> r.end,
            status |-> r.status, clients |-> r.clients]
    /\ r.start \in Int /\ r.end \in Int

HistoryInv == OffersInv /\ \A r \in rows : IsRow(r)

\* A plan is a finite list of segments that have times.
LEMMA PlansHaveTimes ==
    ASSUME NEW ask \in Asks, NEW client, NEW t \in Int, NEW free,
           NEW plan \in Avail!Plans(ask, client, t, free)
    PROVE  /\ IsFiniteSet(DOMAIN plan)
           /\ \A i \in DOMAIN plan : plan[i].start \in Int /\ plan[i].end \in Int
<1>1. PICK total \in Nat : total = Avail!Total(ask)
  <2>1. Avail!Total(ask) = Total(ask)
    BY DEF Avail!Total, Total, Avail!Delay, Delay, Avail!Delays, Delays
  <2> QED BY <2>1, DelayFacts
<1>2. ASSUME NEW u, plan = <<Avail!SegmentOf(ask, u, t)>>
      PROVE  /\ IsFiniteSet(DOMAIN plan)
             /\ \A i \in DOMAIN plan : plan[i].start \in Int /\ plan[i].end \in Int
  <2>1. PICK segment : segment = Avail!SegmentOf(ask, u, t) OBVIOUS
  <2>2. segment.start = t /\ segment.end = t + total BY <1>1, <2>1 DEF Avail!SegmentOf
  <2>3. DOMAIN plan = {1} /\ plan[1] = segment BY <1>2, <2>1
  <2>4. IsFiniteSet({1}) BY FS_Singleton
  <2> QED BY <1>1, <2>2, <2>3, <2>4
<1>3. CASE plan \in Avail!Picked(ask, t, free)
  <2>1. \E u : plan = <<Avail!SegmentOf(ask, u, t)>> BY <1>3 DEF Avail!Picked
  <2> QED BY <1>2, <2>1
<1>4. CASE plan \in Avail!ClassPlans(ask, client, t, free)
  <2>1. \E u : plan = <<Avail!SegmentOf(ask, u, t)>>
    BY <1>4 DEF Avail!ClassPlans, Avail!Picked
  <2> QED BY <1>2, <2>1
<1>5. CASE plan \in Avail!MultiPlans(ask, t, free)
  <2>1. plan \in Avail!Assignments(ask, t, Avail!BookingEligible(ask), free)
    BY <1>5 DEF Avail!MultiPlans
  <2>2. PICK user : plan = [i \in DOMAIN ask |->
                             [user |-> user[i], service |-> ask[i].service,
                              start |-> t + Avail!Delay(ask, i),
                              end |-> t + Avail!Delay(ask, i + 1)]]
    BY <2>1 DEF Avail!Assignments
  <2>3. DOMAIN plan = 1..Len(ask) /\ Len(ask) \in Nat BY <2>2, AskFacts
  <2>4. IsFiniteSet(DOMAIN plan) BY <2>3, FS_Interval
  <2>5. ASSUME NEW i \in 1..Len(ask) PROVE plan[i].start \in Int /\ plan[i].end \in Int
    <3>1. Avail!Delay(ask, i) = Delay(ask, i) /\ Avail!Delay(ask, i + 1) = Delay(ask, i + 1)
      BY DEF Avail!Delay, Delay, Avail!Delays, Delays
    <3>2. Delay(ask, i) \in Nat /\ Delay(ask, i + 1) \in Nat BY DelayFacts
    <3>3. plan[i].start = t + Avail!Delay(ask, i) /\ plan[i].end = t + Avail!Delay(ask, i + 1)
      BY <2>2, <2>3
    <3> QED BY <3>1, <3>2, <3>3
  <2> QED BY <2>3, <2>4, <2>5
<1> QED BY <1>3, <1>4, <1>5 DEF Avail!Plans

LEMMA BookKeepsRows ==
    ASSUME HistoryInv, NEW day \in Calendar, Avail!Book(day)
    PROVE  HistoryInv'
<1>0. PICK ask \in Asks, client \in Clients, t \in DayStart(day)..(DayEnd(day) - 1) :
        \E free : \E plan \in Avail!Plans(ask, client, t, free) :
           \E hits \in Avail!Finds(plan) : rows' = Avail!Booked(plan, hits, client)
  BY DEF Avail!Book, Avail!DayStart, Avail!DayEnd, DayStart, DayEnd
<1>1. PICK free, plan, hits :
        /\ plan \in Avail!Plans(ask, client, t, free)
        /\ rows' = Avail!Booked(plan, hits, client)
  BY <1>0
<1>2. t \in Int BY DayFacts
<1>3. /\ IsFiniteSet(DOMAIN plan)
      /\ \A i \in DOMAIN plan : plan[i].start \in Int /\ plan[i].end \in Int
  BY <1>1, <1>2, PlansHaveTimes
<1>4. PICK joined, new :
        /\ new = {i \in DOMAIN plan : Avail!SameSlot(plan[i]) = {}}
        /\ joined = {hits[i] : i \in DOMAIN plan \ new}
  OBVIOUS
<1>5. PICK f : f = [r \in rows |-> IF r \in joined
                                   THEN [r EXCEPT !.clients = @ \union {client}] ELSE r]
  OBVIOUS
<1>6. PICK g : g = [i \in new |-> [user |-> plan[i].user, service |-> plan[i].service,
                                   start |-> plan[i].start, end |-> plan[i].end,
                                   status |-> "live", clients |-> {client}]]
  OBVIOUS
<1>7. PICK kept, added : kept = {f[r] : r \in rows} /\ added = {g[i] : i \in new} OBVIOUS
<1>8. rows' = kept \union added
  BY <1>1, <1>4, <1>5, <1>6, <1>7 DEF Avail!Booked
<1>9. IsFiniteSet(rows) /\ \A r \in rows : IsRow(r) BY DEF HistoryInv, OffersInv
<1>10. IsFiniteSet(kept)
  <2>1. f \in Surjection(rows, kept) BY <1>5, <1>7 DEF Surjection
  <2> QED BY <1>9, <2>1, FS_Surjection
<1>11. IsFiniteSet(added)
  <2>1. g \in Surjection(new, added) BY <1>6, <1>7 DEF Surjection
  <2>2. new \in SUBSET DOMAIN plan BY <1>4
  <2>3. IsFiniteSet(new) BY <1>3, <2>2, FS_Subset
  <2> QED BY <2>1, <2>3, FS_Surjection
<1>12. IsFiniteSet(kept \union added) BY <1>10, <1>11, FS_Union
<1>13. ASSUME NEW r \in rows PROVE IsRow(f[r])
  <2>1. CASE r \notin joined BY <1>5, <1>9, <2>1
  <2>2. CASE r \in joined
    <3>1. f[r] = [r EXCEPT !.clients = r.clients \union {client}] BY <1>5, <2>2
    <3>2. r = [user |-> r.user, service |-> r.service, start |-> r.start, end |-> r.end,
               status |-> r.status, clients |-> r.clients]
          /\ r.start \in Int /\ r.end \in Int
      BY <1>9 DEF IsRow
    <3>3. PICK c : c = r.clients \union {client} OBVIOUS
    <3>4. f[r] = [user |-> r.user, service |-> r.service, start |-> r.start, end |-> r.end,
                  status |-> r.status, clients |-> c]
      BY <3>1, <3>2, <3>3
    <3> QED BY <3>2, <3>4 DEF IsRow
  <2> QED BY <2>1, <2>2
<1>14. ASSUME NEW i \in new PROVE IsRow(g[i])
  <2>1. i \in DOMAIN plan BY <1>4
  <2> QED BY <1>3, <1>6, <2>1 DEF IsRow
<1>15. \A r \in kept \union added : IsRow(r) BY <1>7, <1>13, <1>14
<1>16. scene' = scene /\ clock' = clock BY DEF Avail!Book
<1>17. \A r \in rows' : r.start \in Int /\ r.end \in Int BY <1>8, <1>15 DEF IsRow
<1>18. OffersInv' BY <1>8, <1>12, <1>16, <1>17 DEF HistoryInv, OffersInv
<1>19. \A r \in rows' : IsRow(r) BY <1>8, <1>15
<1> QED BY <1>18, <1>19 DEF HistoryInv, IsRow

LEMMA HistoryStep ==
    ASSUME Avail!AvailabilityAssumption, HistoryInv, [Avail!Next]_(Avail!vars)
    PROVE  HistoryInv'
<1>1. CASE \E day \in Avail!Calendar : Avail!Book(day)
  <2>1. Avail!Calendar = Calendar BY DEF Avail!Calendar, Calendar
  <2> QED BY <1>1, <2>1, BookKeepsRows
<1>2. ASSUME rows' = rows, scene' = scene, clock' \in Nat PROVE HistoryInv'
  BY <1>2 DEF HistoryInv, OffersInv, IsRow
<1>3. CASE Avail!Tick
  <2>1. clock' \in Nat BY <1>3 DEF Avail!Tick, HistoryInv, OffersInv
  <2> QED BY <1>2, <1>3, <2>1 DEF Avail!Tick
<1>4. CASE UNCHANGED Avail!vars
  BY <1>2, <1>4 DEF Avail!vars, HistoryInv, OffersInv
<1>5. ASSUME NEW s, IsFiniteSet(s), \A r \in s : IsRow(r), rows' = s,
             scene' = scene, clock' = clock
      PROVE  HistoryInv'
  BY <1>5 DEF HistoryInv, OffersInv, IsRow
<1>6. IsFiniteSet(rows) /\ \A r \in rows : IsRow(r) BY DEF HistoryInv, OffersInv
<1>7. CASE Avail!Enter
  <2>1. PICK r \in PlatformRows : rows' = rows \union {r} BY <1>7 DEF Avail!Enter
  <2>2. r \in Avail!Row BY DEF Avail!AvailabilityAssumption
  <2>3. IsRow(r) BY <2>2 DEF Avail!Row, IsRow
  <2>4. IsFiniteSet(rows \union {r}) BY <1>6, FS_AddElement
  <2>5. \A x \in rows \union {r} : IsRow(x) BY <1>6, <2>3
  <2>6. scene' = scene /\ clock' = clock BY <1>7 DEF Avail!Enter
  <2> QED BY <1>5, <2>1, <2>4, <2>5, <2>6
<1>8. CASE Avail!Withdraw
  <2>0. PICK r \in rows : \E s : rows' = (rows \ {r}) \union {[r EXCEPT !.status = s]}
    BY <1>8 DEF Avail!Withdraw
  <2>1. PICK s : rows' = (rows \ {r}) \union {[r EXCEPT !.status = s]} BY <2>0
  <2>2. PICK x : x = [r EXCEPT !.status = s] OBVIOUS
  <2>3. IsRow(x)
    <3>1. r = [user |-> r.user, service |-> r.service, start |-> r.start, end |-> r.end,
               status |-> r.status, clients |-> r.clients]
          /\ r.start \in Int /\ r.end \in Int
      BY <1>6 DEF IsRow
    <3>2. x = [user |-> r.user, service |-> r.service, start |-> r.start, end |-> r.end,
               status |-> s, clients |-> r.clients]
      BY <2>2, <3>1
    <3> QED BY <3>1, <3>2 DEF IsRow
  <2>4. PICK all : all = (rows \ {r}) \union {x} OBVIOUS
  <2>5. IsFiniteSet(all)
    <3>1. IsFiniteSet(rows \ {r}) BY <1>6, FS_RemoveElement
    <3> QED BY <2>4, <3>1, FS_AddElement
  <2>6. \A y \in all : IsRow(y) BY <1>6, <2>3, <2>4
  <2>7. scene' = scene /\ clock' = clock BY <1>8 DEF Avail!Withdraw
  <2> QED BY <1>5, <2>1, <2>2, <2>4, <2>5, <2>6, <2>7
<1> QED BY <1>1, <1>3, <1>4, <1>7, <1>8 DEF Avail!Next

\* What is offered for individual services is what is due, point by point, for any
\* hours, events, grid and clock: the subtraction of busy times, the merge of
\* windows, the alignment to the grid and the assignment one after the other
\* neither offer a start that is not due nor, but for the exceptions stated, leave
\* one out.
THEOREM OfferedIsDue == Avail!AvailabilityAssumption => (Avail!Spec => []OffersAreExact)
<1> SUFFICES ASSUME Avail!AvailabilityAssumption PROVE Avail!Spec => []OffersAreExact
  OBVIOUS
<1>1. Avail!Init => HistoryInv
  <2> SUFFICES ASSUME Avail!Init PROVE HistoryInv OBVIOUS
  <2>1. scene \in Scenes /\ clock = 0 /\ rows = {} BY DEF Avail!Init
  <2>2. IsFiniteSet(rows) BY <2>1, FS_EmptySet
  <2> QED BY <2>1, <2>2 DEF HistoryInv, OffersInv
<1>2. HistoryInv /\ [Avail!Next]_(Avail!vars) => HistoryInv' BY HistoryStep
<1>3. HistoryInv => OffersAreExact BY OffersExact DEF HistoryInv
<1> QED BY <1>1, <1>2, <1>3, PTL DEF Avail!Spec
=============================================================================
