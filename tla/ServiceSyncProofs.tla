------------------------- MODULE ServiceSyncProofs -------------------------
(***************************************************************************)
(* Proofs about ServiceSync, for any number of handlers, processes,        *)
(* message bodies and retries and for every combination of faults that a   *)
(* theorem does not exclude by name; and, in the second part, about        *)
(* PlatformEdits.                                                          *)
(***************************************************************************)
EXTENDS ServiceSync, EditPromises, SequenceTheorems, FiniteSetTheorems, TLAPS

USE SyncAssumption

-----------------------------------------------------------------------------
\* What moving one copy of the log does: the log keeps its length, every
\* other copy its record, and the moved copy everything but its place.
LEMMA MovedLog ==
    ASSUME log \in Seq(Message), NEW i \in DOMAIN log, NEW place \in Place
    PROVE  /\ Moved(i, place) \in Seq(Message)
           /\ DOMAIN Moved(i, place) = DOMAIN log
           /\ \A j \in DOMAIN log :
                /\ Moved(i, place)[j].content = log[j].content
                /\ Moved(i, place)[j].retries = log[j].retries
                /\ Moved(i, place)[j].at = IF j = i THEN place ELSE log[j].at
<1> DEFINE m == [log[i] EXCEPT !.at = place]
<1>1. i \in 1..Len(log) /\ log[i] \in Message
  BY ElementOfSeq, LenProperties
<1>2. m \in Message /\ m.content = log[i].content /\ m.retries = log[i].retries
      /\ m.at = place
  BY <1>1 DEF Message
<1>3. Moved(i, place) = [log EXCEPT ![i] = m]
  BY DEF Moved
<1>4. Moved(i, place) \in Seq(Message) /\ Len(Moved(i, place)) = Len(log)
  BY <1>1, <1>2, <1>3, ExceptSeq
<1>5. DOMAIN Moved(i, place) = DOMAIN log
  BY <1>4
<1> QED
  BY <1>2, <1>3, <1>4, <1>5

\* What putting a new copy on a queue does: it becomes the last of the log.
LEMMA AppendedLog ==
    ASSUME NEW l \in Seq(Message), NEW m \in Message
    PROVE  /\ Append(l, m) \in Seq(Message)
           /\ DOMAIN l \subseteq DOMAIN Append(l, m)
           /\ Len(l) + 1 \in DOMAIN Append(l, m)
           /\ Append(l, m)[Len(l) + 1] = m
           /\ \A j \in DOMAIN l : Append(l, m)[j] = l[j]
           /\ \A j \in DOMAIN Append(l, m) : j \in DOMAIN l \/ j = Len(l) + 1
<1>1. Append(l, m) \in Seq(Message) /\ Len(Append(l, m)) = Len(l) + 1
      /\ Append(l, m)[Len(l) + 1] = m
      /\ \A j \in 1..Len(l) : Append(l, m)[j] = l[j]
  BY AppendProperties
<1>2. DOMAIN l = 1..Len(l) /\ DOMAIN Append(l, m) = 1..(Len(l) + 1)
      /\ Len(l) \in Nat
  BY <1>1, LenProperties
<1> QED
  BY <1>1, <1>2

-----------------------------------------------------------------------------
\* What a step of one handler may assume of the copy it handles.
LEMMA CurrentCopy ==
    ASSUME TypeOK, NEW h \in Handlers, pc[h] # "idle"
    PROVE  /\ cur[h] \in DOMAIN log
           /\ log[cur[h]] \in Message
           /\ Body(h) \in Contents
<1>1. cur[h] \in 1..Len(log) /\ log \in Seq(Message)
  BY LenProperties DEF TypeOK
<1>2. log[cur[h]] \in Message
  BY <1>1, ElementOfSeq
<1> QED
  BY <1>1, <1>2, LenProperties DEF Body, Message

\* The part of the type invariant that a step of a handler touches.
HandlerTypes ==
    /\ log \in Seq(Message)
    /\ pc \in [Handlers -> Label]
    /\ cur \in [Handlers -> Nat]
    /\ \A h \in Handlers : pc[h] # "idle" => cur[h] \in DOMAIN log

LEMMA MovedTypes ==
    ASSUME TypeOK, NEW h \in Handlers, pc[h] # "idle",
           NEW place \in Place, NEW label \in Label \ {"idle"},
           \/ Settle(h, place)
           \/ log' = Moved(cur[h], place) /\ Goto(h, label) /\ UNCHANGED cur
    PROVE  HandlerTypes'
<1>1. /\ Moved(cur[h], place) \in Seq(Message)
      /\ DOMAIN Moved(cur[h], place) = DOMAIN log
  BY CurrentCopy, MovedLog DEF TypeOK
<1>2. CASE Settle(h, place)
  BY <1>1, <1>2 DEF TypeOK, Settle, HandlerTypes, Label
<1>3. CASE log' = Moved(cur[h], place) /\ Goto(h, label) /\ UNCHANGED cur
  BY <1>1, <1>3 DEF TypeOK, Goto, HandlerTypes, Label
<1> QED
  BY <1>2, <1>3

\* A new copy at the end of the log leaves every handler's copy in place.
LEMMA AppendedTypes ==
    ASSUME TypeOK, NEW l \in Seq(Message), DOMAIN l = DOMAIN log,
           NEW m \in Message, log' = Append(l, m), UNCHANGED cur,
           \/ UNCHANGED pc
           \/ \E h \in Handlers, label \in Label : pc[h] # "idle" /\ Goto(h, label)
    PROVE  HandlerTypes'
<1>1. log' \in Seq(Message) /\ DOMAIN log \subseteq DOMAIN log'
  BY AppendedLog
<1> QED
  BY <1>1 DEF TypeOK, Goto, HandlerTypes

\* Every variable keeps its type, the retry count of a message its bound
\* MAX_RETRIES, and every running handler a message of the log.
THEOREM TypeCorrect == Spec => []TypeOK
<1>1. Init => TypeOK
  BY EmptySeq DEF Init, TypeOK, Label
<1>2. TypeOK /\ [Next]_vars => TypeOK'
  <2> SUFFICES ASSUME TypeOK, [Next]_vars PROVE TypeOK'
    OBVIOUS
  <2> USE DEF redis, db, environment
  <2>1. ASSUME NEW c \in Contents, Publish(c) PROVE TypeOK'
    <3> DEFINE m == [content |-> c, retries |-> 0, at |-> "queue"]
    <3>1. m \in Message
      BY DEF Message, Place
    <3>2. HandlerTypes'
      BY <2>1, <3>1, AppendedTypes DEF Publish, TypeOK
    <3> QED
      BY <2>1, <3>2 DEF Publish, Spend, TypeOK, HandlerTypes, Bounded
  <2>2. ASSUME NEW c \in Contents, LockExpires(c) PROVE TypeOK'
    BY <2>2 DEF LockExpires, TypeOK
  <2>3. ASSUME NEW c \in Contents, ProcessedExpires(c) PROVE TypeOK'
    BY <2>3 DEF ProcessedExpires, TypeOK
  <2>4. ASSUME NEW h \in Handlers, Deliver(h) PROVE TypeOK'
    <3>1. PICK i \in At("queue") :
            \/ log' = Moved(i, "dlq") /\ UNCHANGED <<pc, cur>>
            \/ /\ log' = Moved(i, "handling")
               /\ Goto(h, "check") \/ Goto(h, "unparsed")
               /\ cur' = [cur EXCEPT ![h] = i]
      BY <2>4 DEF Deliver
    <3>2. i \in DOMAIN log /\ i \in Nat
      BY LenProperties DEF At, TypeOK
    <3>3. /\ log' \in Seq(Message)
          /\ DOMAIN log' = DOMAIN log
      BY <3>1, <3>2, MovedLog DEF Place, TypeOK
    <3>4. CASE UNCHANGED <<pc, cur>>
      BY <2>4, <3>3, <3>4 DEF Deliver, TypeOK
    <3>5. CASE /\ Goto(h, "check") \/ Goto(h, "unparsed")
               /\ cur' = [cur EXCEPT ![h] = i]
      <4>1. pc' \in [Handlers -> Label]
        BY <3>5 DEF Goto, TypeOK, Label
      <4>2. cur' \in [Handlers -> Nat]
        BY <3>2, <3>5 DEF TypeOK
      <4>3. \A g \in Handlers : pc'[g] # "idle" => cur'[g] \in DOMAIN log'
        BY <3>2, <3>3, <3>5 DEF Goto, TypeOK
      <4> QED
        BY <2>4, <3>3, <4>1, <4>2, <4>3 DEF Deliver, TypeOK
    <3> QED
      BY <3>1, <3>4, <3>5
  <2>5. ASSUME NEW h \in Handlers, Check(h) PROVE TypeOK'
    <3>1. CASE Settle(h, "gone")
      BY <2>5, <3>1, MovedTypes DEF Check, TypeOK, HandlerTypes, Place, Label
    <3>2. CASE Goto(h, "acquire") /\ UNCHANGED <<log, cur>>
      BY <2>5, <3>2 DEF Check, Goto, TypeOK, Label
    <3> QED
      BY <2>5, <3>1, <3>2 DEF Check
  <2>6. ASSUME NEW h \in Handlers, Acquire(h) PROVE TypeOK'
    <3>1. CASE Settle(h, "gone") /\ UNCHANGED locks
      BY <2>6, <3>1, MovedTypes DEF Acquire, TypeOK, HandlerTypes, Place, Label
    <3>2. CASE /\ locks' = IF RedisEnabled THEN locks \union {Body(h)} ELSE locks
               /\ Goto(h, "apply") /\ UNCHANGED <<log, cur>>
      BY <2>6, <3>2, CurrentCopy DEF Acquire, Goto, TypeOK, Label
    <3> QED
      BY <2>6, <3>1, <3>2 DEF Acquire
  <2>7. ASSUME NEW h \in Handlers, ThrowOutsideTry(h) PROVE TypeOK'
    BY <2>7, MovedTypes DEF ThrowOutsideTry, TypeOK, HandlerTypes, Place, Label
  <2>8. ASSUME NEW h \in Handlers, Apply(h) PROVE TypeOK'
    BY <2>8, CurrentCopy DEF Apply, Goto, TypeOK, Label
  <2>9. ASSUME NEW h \in Handlers, Mark(h) PROVE TypeOK'
    BY <2>9, CurrentCopy DEF Mark, Goto, TypeOK, Label
  <2>10. ASSUME NEW h \in Handlers, Throw(h) PROVE TypeOK'
    BY <2>10 DEF Throw, Goto, TypeOK, Label
  <2>11. ASSUME NEW h \in Handlers, Ack(h) PROVE TypeOK'
    BY <2>11, MovedTypes DEF Ack, SettleInTry, TypeOK, HandlerTypes, Place, Label
  <2>12. ASSUME NEW h \in Handlers, Catch(h) PROVE TypeOK'
    <3>1. CASE SettleInTry(h, "dlq")
      BY <2>12, <3>1, MovedTypes
      DEF Catch, SettleInTry, TypeOK, HandlerTypes, Place, Label
    <3> DEFINE m == [content |-> Body(h), retries |-> log[cur[h]].retries + 1,
                     at |-> "retry"]
    <3>2. CASE /\ RetriesLeft(h) /\ log' = Append(log, m)
               /\ Goto(h, "ackRetry") /\ UNCHANGED cur
      <4>1. m \in Message
        BY <2>12, <3>2, CurrentCopy DEF Catch, RetriesLeft, Message, Place
      <4>2. HandlerTypes'
        BY <2>12, <3>2, <4>1, AppendedTypes DEF Catch, TypeOK, Label
      <4> QED
        BY <2>12, <4>2 DEF Catch, TypeOK, HandlerTypes
    <3> QED
      BY <2>12, <3>1, <3>2 DEF Catch
  <2>13. ASSUME NEW h \in Handlers, AckRetry(h) PROVE TypeOK'
    BY <2>13, MovedTypes DEF AckRetry, SettleInTry, TypeOK, HandlerTypes, Place, Label
  <2>14. ASSUME NEW h \in Handlers, Release(h) PROVE TypeOK'
    BY <2>14 DEF Release, Goto, TypeOK, Label
  <2>15. ASSUME RetryDelayEnds PROVE TypeOK'
    <3>1. PICK i \in At("retry") :
            log' = Append(Moved(i, "gone"), [log[i] EXCEPT !.at = "queue"])
      BY <2>15 DEF RetryDelayEnds
    <3>2. i \in DOMAIN log /\ log[i] \in Message
      BY ElementOfSeq, LenProperties DEF At, TypeOK
    <3>3. [log[i] EXCEPT !.at = "queue"] \in Message
      BY <3>2 DEF Message, Place
    <3> DEFINE again == [log[i] EXCEPT !.at = "queue"]
    <3>4. /\ Moved(i, "gone") \in Seq(Message)
          /\ DOMAIN Moved(i, "gone") = DOMAIN log
      BY <3>2, MovedLog DEF TypeOK, Place
    <3>5. /\ log' = Append(Moved(i, "gone"), again) /\ again \in Message
          /\ pc' = pc /\ cur' = cur
      BY <2>15, <3>1, <3>3 DEF RetryDelayEnds
    <3> HIDE DEF again
    <3>6. HandlerTypes'
      BY <3>4, <3>5, AppendedTypes
    <3> QED
      BY <2>15, <3>6 DEF RetryDelayEnds, TypeOK, HandlerTypes
  <2>16. ASSUME RegisterDeadLetter PROVE TypeOK'
    <3>1. PICK i \in At("dlq"), place \in {"PENDING", "gone"} : log' = Moved(i, place)
      BY <2>16 DEF RegisterDeadLetter
    <3>2. log' \in Seq(Message) /\ DOMAIN log' = DOMAIN log
      BY <3>1, MovedLog DEF At, TypeOK, Place, RowStatus
    <3> QED
      BY <2>16, <3>2 DEF RegisterDeadLetter, TypeOK
  <2>17. ASSUME NEW i \in DOMAIN log, ReplayMessage(i) PROVE TypeOK'
    <3> DEFINE again == [content |-> log[i].content, retries |-> 0, at |-> "queue"]
    <3>1. again \in Message
      <4>1. log[i] \in Message
        BY ElementOfSeq, LenProperties DEF TypeOK
      <4> QED
        BY <4>1 DEF Message, Place
    <3>2. ASSUME NEW place \in RowStatus
          PROVE  /\ Moved(i, place) \in Seq(Message)
                 /\ DOMAIN Moved(i, place) = DOMAIN log
      BY MovedLog DEF TypeOK, Place
    <3>3. PICK place \in RowStatus :
            log' = Append(Moved(i, place), again) \/ log' = Moved(i, place)
      BY <2>17 DEF ReplayMessage, RowStatus
    <3>4. HandlerTypes'
      <4>1. CASE log' = Append(Moved(i, place), again)
        BY <2>17, <3>1, <3>2, <4>1, AppendedTypes DEF ReplayMessage
      <4>2. CASE log' = Moved(i, place)
        BY <2>17, <3>2, <4>2 DEF ReplayMessage, HandlerTypes, TypeOK
      <4> QED
        BY <3>3, <4>1, <4>2
    <3> QED
      BY <2>17, <3>4 DEF ReplayMessage, Spend, TypeOK, HandlerTypes, Bounded
  <2>18. ASSUME NEW p \in Instances, Stop(p) \/ Exit(p) PROVE TypeOK'
    <3>1. PICK U \in SUBSET DOMAIN log :
            log' = [i \in DOMAIN log |->
                      IF i \in U THEN [log[i] EXCEPT !.at = "queue"] ELSE log[i]]
      BY <2>18 DEF Stop, Exit, Down, At
    <3>2. DOMAIN log = 1..Len(log) /\ Len(log) \in Nat
          /\ \A i \in DOMAIN log : log[i] \in Message
      BY ElementOfSeq, LenProperties DEF TypeOK
    <3>3. ASSUME NEW i \in DOMAIN log PROVE [log[i] EXCEPT !.at = "queue"] \in Message
      BY <3>2 DEF Message, Place
    <3>4. log' \in Seq(Message) /\ DOMAIN log' = DOMAIN log
      BY <3>1, <3>2, <3>3, IsASeq
    <3>5. \A h \in Handlers : \/ pc'[h] = "idle" /\ cur'[h] = 0
                              \/ pc'[h] = pc[h] /\ cur'[h] = cur[h]
      BY <2>18 DEF Stop, Exit, Down, TypeOK
    <3>6. /\ pc' = [h \in Handlers |-> pc'[h]]
          /\ cur' = [h \in Handlers |-> cur'[h]]
      BY <2>18 DEF Stop, Exit, Down
    <3>7. /\ pc' \in [Handlers -> Label] /\ cur' \in [Handlers -> Nat]
          /\ \A h \in Handlers : pc'[h] # "idle" => cur'[h] \in DOMAIN log'
      <4>1. \A h \in Handlers : pc'[h] \in Label
        BY <3>5 DEF TypeOK, Label
      <4>2. pc' \in [Handlers -> Label]
        BY <3>6, <4>1
      <4>3. \A h \in Handlers : cur'[h] \in Nat
        BY <3>5 DEF TypeOK
      <4>4. cur' \in [Handlers -> Nat]
        BY <3>6, <4>3
      <4>5. \A h \in Handlers : pc'[h] # "idle" => cur'[h] \in DOMAIN log'
        BY <3>4, <3>5 DEF TypeOK
      <4> QED
        BY <4>2, <4>4, <4>5
    <3>8. budget' \in [Bounded -> Nat]
      BY <2>18 DEF Stop, Exit, Spend, TypeOK, Bounded
    <3> QED
      BY <2>18, <3>4, <3>7, <3>8 DEF Stop, Exit, TypeOK
  <2>19. CASE UNCHANGED vars
    BY <2>19 DEF vars, TypeOK
  <2> QED
    BY <2>1, <2>2, <2>3, <2>4, <2>5, <2>6, <2>7, <2>8, <2>9, <2>10, <2>11,
       <2>12, <2>13, <2>14, <2>15, <2>16, <2>17, <2>18, <2>19
    DEF Next, HandlerStep
<1> QED
  BY <1>1, <1>2, PTL DEF Spec

-----------------------------------------------------------------------------
\* No step changes the body of a copy that is in the log.
LogKept == \A i \in DOMAIN log : i \in DOMAIN log' /\ log'[i].content = log[i].content

LEMMA MovedKept ==
    ASSUME TypeOK, NEW i \in DOMAIN log, NEW place \in Place, log' = Moved(i, place)
    PROVE  LogKept
BY MovedLog DEF LogKept, TypeOK

LEMMA AppendedKept ==
    ASSUME TypeOK, NEW i \in DOMAIN log, NEW place \in Place, NEW m \in Message,
           log' = Append(log, m) \/ log' = Append(Moved(i, place), m)
    PROVE  LogKept
<1>1. CASE log' = Append(log, m)
  BY <1>1, AppendedLog DEF LogKept, TypeOK
<1>2. CASE log' = Append(Moved(i, place), m)
  BY <1>2, AppendedLog, MovedLog DEF LogKept, TypeOK
<1> QED
  BY <1>1, <1>2

LEMMA BodiesKept ==
    ASSUME TypeOK, [Next]_vars
    PROVE  LogKept
<1>1. ASSUME NEW c \in Contents, Publish(c) PROVE LogKept
  <2> DEFINE m == [content |-> c, retries |-> 0, at |-> "queue"]
  <2>1. m \in Message
    BY DEF Message, Place
  <2> QED
    BY <1>1, <2>1, AppendedLog DEF Publish, LogKept, TypeOK
<1>2. ASSUME NEW h \in Handlers, NEW place \in Place, pc[h] # "idle",
             Settle(h, place) \/ SettleInTry(h, place)
      PROVE  LogKept
  BY <1>2, CurrentCopy, MovedKept DEF Settle, SettleInTry
<1>3. ASSUME NEW h \in Handlers, Deliver(h) PROVE LogKept
  <2>1. PICK i \in At("queue"), place \in {"dlq", "handling"} : log' = Moved(i, place)
    BY <1>3 DEF Deliver
  <2> QED
    BY <2>1, MovedKept DEF At, Place
<1>4. ASSUME NEW h \in Handlers, HandlerStep(h) PROVE LogKept
  <2>1. CASE UNCHANGED log
    BY <2>1 DEF LogKept
  <2>2. CASE Catch(h)
    <3> DEFINE m == [content |-> Body(h), retries |-> log[cur[h]].retries + 1,
                     at |-> "retry"]
    <3>1. CASE RetriesLeft(h) /\ log' = Append(log, m)
      <4>1. m \in Message /\ cur[h] \in DOMAIN log
        BY <2>2, <3>1, CurrentCopy DEF Catch, RetriesLeft, Message, Place
      <4> QED
        BY <3>1, <4>1, AppendedKept DEF Place
    <3> QED
      BY <1>2, <2>2, <3>1 DEF Catch, Place
  <2>3. CASE Check(h) \/ Acquire(h) \/ ThrowOutsideTry(h) \/ Ack(h) \/ AckRetry(h)
    BY <1>2, <2>1, <2>3 DEF Check, Acquire, ThrowOutsideTry, Ack, AckRetry, Place
  <2> QED
    BY <1>4, <2>1, <2>2, <2>3 DEF HandlerStep, Apply, Mark, Throw, Release
<1>5. ASSUME RetryDelayEnds PROVE LogKept
  <2>1. PICK i \in At("retry") :
          log' = Append(Moved(i, "gone"), [log[i] EXCEPT !.at = "queue"])
    BY <1>5 DEF RetryDelayEnds
  <2>2. i \in DOMAIN log /\ log[i] \in Message
    BY ElementOfSeq, LenProperties DEF At, TypeOK
  <2>3. [log[i] EXCEPT !.at = "queue"] \in Message
    BY <2>2 DEF Message, Place
  <2> QED
    BY <2>1, <2>2, <2>3, AppendedKept DEF Place
<1>6. ASSUME RegisterDeadLetter PROVE LogKept
  <2>1. PICK i \in At("dlq"), place \in {"PENDING", "gone"} : log' = Moved(i, place)
    BY <1>6 DEF RegisterDeadLetter
  <2> QED
    BY <2>1, MovedKept DEF At, Place, RowStatus
<1>7. ASSUME NEW i \in DOMAIN log, ReplayMessage(i) PROVE LogKept
  <2> DEFINE again == [content |-> log[i].content, retries |-> 0, at |-> "queue"]
  <2>1. log[i] \in Message
    BY ElementOfSeq, LenProperties DEF TypeOK
  <2>2. again \in Message
    BY <2>1 DEF Message, Place
  <2>3. PICK place \in RowStatus :
          log' = Append(Moved(i, place), again) \/ log' = Moved(i, place)
    BY <1>7 DEF ReplayMessage, RowStatus
  <2> QED
    BY <2>2, <2>3, MovedKept, AppendedKept DEF Place
<1>8. ASSUME NEW p \in Instances, Stop(p) \/ Exit(p) PROVE LogKept
  <2>1. PICK U \in SUBSET DOMAIN log :
          log' = [i \in DOMAIN log |->
                    IF i \in U THEN [log[i] EXCEPT !.at = "queue"] ELSE log[i]]
    BY <1>8 DEF Stop, Exit, Down, At
  <2>2. \A i \in DOMAIN log : log[i] \in Message
    BY ElementOfSeq, LenProperties DEF TypeOK
  <2>3. \A i \in DOMAIN log :
          [log[i] EXCEPT !.at = "queue"].content = log[i].content
    BY <2>2 DEF Message
  <2> QED
    BY <2>1, <2>3 DEF LogKept
<1>9. CASE UNCHANGED log
  BY <1>9 DEF LogKept
<1> QED
  BY <1>1, <1>3, <1>4, <1>5, <1>6, <1>7, <1>8, <1>9
  DEF Next, vars, LockExpires, ProcessedExpires

\* A handler that stays on its copy keeps its body.
LEMMA BodyKept ==
    ASSUME TypeOK, [Next]_vars, NEW h \in Handlers, pc[h] # "idle", cur'[h] = cur[h]
    PROVE  Body(h)' = Body(h)
BY BodiesKept DEF TypeOK, LogKept, Body

\* A step of one handler leaves the others where they are.
LEMMA OthersStay ==
    ASSUME TypeOK, NEW h \in Handlers, Deliver(h) \/ HandlerStep(h),
           NEW g \in Handlers, g # h
    PROVE  pc'[g] = pc[g] /\ cur'[g] = cur[g]
BY DEF TypeOK, Deliver, HandlerStep, Check, Acquire, ThrowOutsideTry, Apply, Mark,
       Throw, Ack, Catch, AckRetry, Release, Settle, SettleInTry, Goto

\* Where the handler that takes a step may be after it.
LEMMA HandlerMoves ==
    ASSUME TypeOK, NEW h \in Handlers, HandlerStep(h)
    PROVE  /\ pc[h] # "idle"
           /\ pc'[h] # "idle" => cur'[h] = cur[h]
           /\ pc'[h] \in Critical =>
                \/ Acquire(h) /\ pc'[h] = "apply"
                \/ pc[h] \in Critical
           /\ pc'[h] = "mark" => Apply(h)
           /\ pc'[h] = "ack" => Mark(h)
BY DEF TypeOK, HandlerStep, Check, Acquire, ThrowOutsideTry, Apply, Mark, Critical,
       Throw, Ack, Catch, AckRetry, Release, Settle, SettleInTry, Goto

-----------------------------------------------------------------------------
\* ProcessedWasApplied is inductive together with what is known of a handler
\* between the commit and the ack.
ProcessedInv ==
    /\ ProcessedWasApplied
    /\ \A h \in Handlers : pc[h] \in {"mark", "ack"} => Body(h) \in applied

LEMMA ProcessedStep ==
    ASSUME TypeOK, ProcessedInv, [Next]_vars
    PROVE  ProcessedInv'
<1> USE DEF redis, db, environment
<1>1. ASSUME UNCHANGED <<processed, applied>>,
             \A g \in Handlers : pc'[g] \in {"mark", "ack"} =>
                                    pc[g] = pc'[g] /\ cur'[g] = cur[g]
      PROVE  ProcessedInv'
  BY <1>1, BodyKept DEF ProcessedInv, ProcessedWasApplied
<1>2. ASSUME NEW h \in Handlers, Deliver(h) PROVE ProcessedInv'
  <2>1. pc'[h] \in {"idle", "check", "unparsed"}
    BY <1>2 DEF Deliver, Goto, TypeOK
  <2> QED
    BY <1>1, <1>2, <2>1, OthersStay DEF Deliver
<1>3. ASSUME NEW h \in Handlers, HandlerStep(h) PROVE ProcessedInv'
  <2>1. CASE Apply(h)
    <3>1. applied' = applied \union {Body(h)} /\ UNCHANGED processed
      BY <2>1 DEF Apply
    <3>2. ASSUME NEW g \in Handlers, pc'[g] \in {"mark", "ack"}
          PROVE  Body(g)' \in applied'
      <4>1. CASE g = h
        BY <1>3, <2>1, <3>1, <4>1, <3>2, BodyKept, HandlerMoves DEF Apply
      <4>2. CASE g # h
        BY <1>3, <3>1, <3>2, <4>2, BodyKept, OthersStay DEF ProcessedInv
      <4> QED
        BY <4>1, <4>2
    <3> QED
      BY <3>1, <3>2 DEF ProcessedInv, ProcessedWasApplied
  <2>2. CASE Mark(h)
    <3>1. /\ processed' \subseteq processed \union {Body(h)}
          /\ UNCHANGED applied /\ pc[h] = "mark"
      BY <2>2 DEF Mark
    <3>2. ASSUME NEW g \in Handlers, pc'[g] \in {"mark", "ack"}
          PROVE  Body(g)' \in applied'
      <4>1. CASE g = h
        BY <1>3, <3>1, <3>2, <4>1, BodyKept, HandlerMoves DEF ProcessedInv
      <4>2. CASE g # h
        BY <1>3, <3>1, <3>2, <4>2, BodyKept, OthersStay DEF ProcessedInv
      <4> QED
        BY <4>1, <4>2
    <3> QED
      BY <3>1, <3>2 DEF ProcessedInv, ProcessedWasApplied
  <2>3. CASE ~Apply(h) /\ ~Mark(h)
    <3>1. UNCHANGED <<processed, applied>>
      BY <1>3, <2>3 DEF HandlerStep, Check, Acquire, ThrowOutsideTry, Throw, Ack,
                        Catch, AckRetry, Release
    <3>2. pc'[h] \notin {"mark", "ack"}
      BY <1>3, <2>3, HandlerMoves
    <3> QED
      BY <1>1, <1>3, <3>1, <3>2, OthersStay
  <2> QED
    BY <2>1, <2>2, <2>3
<1>4. ASSUME NEW c \in Contents, ProcessedExpires(c) PROVE ProcessedInv'
  <2>1. processed' \subseteq processed /\ UNCHANGED <<applied, pc, cur>>
    BY <1>4 DEF ProcessedExpires
  <2> QED
    BY <2>1, BodyKept DEF ProcessedInv, ProcessedWasApplied
<1>5. ASSUME NEW p \in Instances, Stop(p) \/ Exit(p) PROVE ProcessedInv'
  BY <1>1, <1>5 DEF Stop, Exit, Down
<1>6. CASE UNCHANGED <<processed, applied, pc, cur>>
  BY <1>1, <1>6
<1> QED
  BY <1>2, <1>3, <1>4, <1>5, <1>6
  DEF Next, vars, Publish, LockExpires, RetryDelayEnds, RegisterDeadLetter, ReplayMessage

\* A processed mark always stands for a committed update, whatever fails:
\* crashes, expired locks and marks, Redis and broker errors, replays.
THEOREM ProcessedMarksAreHonest == Spec => []ProcessedWasApplied
<1>1. Init => ProcessedInv
  BY DEF Init, ProcessedInv, ProcessedWasApplied
<1>2. ProcessedInv => ProcessedWasApplied
  BY DEF ProcessedInv
<1> QED
  BY <1>1, <1>2, ProcessedStep, TypeCorrect, PTL DEF Spec

-----------------------------------------------------------------------------
\* Mutual exclusion is inductive once every handler in the protected block
\* is known to have its lock key in Redis.
LockInv ==
    /\ MutualExclusion
    /\ \A h \in Handlers : pc[h] \in Critical => Body(h) \in locks

LEMMA LockStep ==
    ASSUME RedisEnabled, "expire" \notin Faults, TypeOK, LockInv, [Next]_vars
    PROVE  LockInv'
<1> USE DEF redis, db, environment
<1>1. ASSUME locks \subseteq locks',
             \A g \in Handlers : pc'[g] \in Critical =>
                                    pc[g] \in Critical /\ cur'[g] = cur[g]
      PROVE  LockInv'
  <2>1. \A g \in Handlers : pc'[g] \in Critical =>
            pc[g] \in Critical /\ Body(g)' = Body(g)
    BY <1>1, BodyKept DEF Critical
  <2> QED
    BY <1>1, <2>1 DEF LockInv, MutualExclusion
<1>2. ASSUME NEW h \in Handlers, Deliver(h) PROVE LockInv'
  <2>1. pc'[h] \notin Critical /\ UNCHANGED locks
    BY <1>2 DEF Deliver, Goto, TypeOK, Critical
  <2> QED
    BY <1>1, <1>2, <2>1, OthersStay
<1>3. ASSUME NEW h \in Handlers, HandlerStep(h) PROVE LockInv'
  <2>1. CASE Acquire(h)
    <3>1. CASE pc'[h] = "apply"
      <4>1. Body(h) \notin locks /\ locks' = locks \union {Body(h)}
        BY <2>1, <3>1 DEF Acquire, Settle, Goto, TypeOK
      <4>2. Body(h)' = Body(h)
        BY <1>3, <3>1, BodyKept, HandlerMoves
      <4>3. \A g \in Handlers \ {h} : pc'[g] \in Critical =>
                pc[g] \in Critical /\ Body(g)' = Body(g)
        BY <1>3, BodyKept, OthersStay DEF Critical
      <4> QED
        BY <4>1, <4>2, <4>3 DEF LockInv, MutualExclusion
    <3>2. CASE pc'[h] # "apply"
      <4>1. pc'[h] = "idle" /\ UNCHANGED locks
        BY <2>1, <3>2 DEF Acquire, Settle, Goto, TypeOK
      <4> QED
        BY <1>1, <1>3, <4>1, OthersStay DEF Critical
    <3> QED
      BY <3>1, <3>2
  <2>2. CASE Release(h)
    <3>1. locks \ {Body(h)} \subseteq locks' /\ pc'[h] = "idle" /\ pc[h] = "release"
      BY <2>2 DEF Release, Goto, TypeOK
    <3>2. \A g \in Handlers : pc'[g] \in Critical =>
              g # h /\ pc[g] \in Critical /\ Body(g)' = Body(g)
      BY <1>3, <3>1, BodyKept, OthersStay DEF Critical
    <3>3. \A g \in Handlers : pc'[g] \in Critical => Body(g) # Body(h)
      BY <3>1, <3>2 DEF LockInv, MutualExclusion, Critical
    <3> QED
      BY <3>1, <3>2, <3>3 DEF LockInv, MutualExclusion
  <2>3. CASE ~Acquire(h) /\ ~Release(h)
    <3>1. UNCHANGED locks
      BY <1>3, <2>3 DEF HandlerStep, Check, ThrowOutsideTry, Apply, Mark, Throw, Ack,
                        Catch, AckRetry
    <3>2. pc'[h] \in Critical => pc[h] \in Critical /\ cur'[h] = cur[h]
      BY <1>3, <2>3, HandlerMoves DEF Critical
    <3> QED
      BY <1>1, <1>3, <3>1, <3>2, OthersStay
  <2> QED
    BY <2>1, <2>2, <2>3
<1>4. ASSUME NEW c \in Contents, LockExpires(c) PROVE LockInv'
  <2>1. locks' = locks \ {c} /\ ~InFlight(c) /\ UNCHANGED <<pc, cur>>
    BY <1>4 DEF LockExpires, May
  <2>2. \A g \in Handlers : pc'[g] \in Critical =>
            pc[g] \in Critical /\ Body(g)' = Body(g)
    BY <2>1, BodyKept DEF Critical
  <2> QED
    BY <2>1, <2>2 DEF LockInv, MutualExclusion, InFlight
<1>5. ASSUME NEW p \in Instances, Stop(p) \/ Exit(p) PROVE LockInv'
  <2>1. /\ UNCHANGED locks
        /\ \A g \in Handlers : pc'[g] = "idle" \/ (pc'[g] = pc[g] /\ cur'[g] = cur[g])
    BY <1>5 DEF Stop, Exit, Down
  <2> QED
    BY <1>1, <2>1 DEF Critical
<1>6. CASE UNCHANGED <<locks, pc, cur>>
  BY <1>1, <1>6
<1> QED
  BY <1>2, <1>3, <1>4, <1>5, <1>6
  DEF Next, vars, Publish, ProcessedExpires, RetryDelayEnds, RegisterDeadLetter,
      ReplayMessage

\* With Redis on, and as long as no handler outlives the TTL of its lock, two
\* handlers never work on the same body at once: crashes, failing releases
\* and locks deleted by key do not break it.
THEOREM LocksExclude ==
    ASSUME RedisEnabled, "expire" \notin Faults
    PROVE  Spec => []MutualExclusion
<1>1. Init => LockInv
  BY DEF Init, LockInv, MutualExclusion, Critical
<1>2. LockInv => MutualExclusion
  BY DEF LockInv
<1>3. TypeOK /\ LockInv /\ [Next]_vars => LockInv'
  BY LockStep
<1> QED
  BY <1>1, <1>2, <1>3, TypeCorrect, PTL DEF Spec

-----------------------------------------------------------------------------
\* The faults that can lose a message: a lock that outlives its handler, a
\* dead letter that is not recorded, a retry that overtakes the release; and a
\* body that is not JSON, which stops every process it meets.
Lossless ==
    /\ {"release", "persist", "crash", "slow"} \intersect Faults = {}
    /\ Unparsable = {}

\* The handlers whose message is no longer theirs to settle.
Settled == {"idle", "release"}

\* A handler that has not settled its copy is the only one to handle it.
HeldInv ==
    /\ \A h \in Handlers : pc[h] \notin Settled => log[cur[h]].at = "handling"
    /\ \A g, h \in Handlers :
         g # h /\ pc[g] \notin Settled /\ pc[h] \notin Settled => cur[g] # cur[h]

\* Where the copies are that the step of a handler does not move.
StaysAt(i) == i \in DOMAIN log' /\ log'[i].at = log[i].at

LEMMA HandlerLog ==
    ASSUME TypeOK, NEW h \in Handlers, HandlerStep(h)
    PROVE  /\ \A i \in DOMAIN log : i # cur[h] => StaysAt(i)
           /\ pc'[h] \notin Settled => StaysAt(cur[h]) /\ pc[h] \notin Settled
<1>1. ASSUME NEW place \in Place, log' = Moved(cur[h], place), pc[h] # "idle"
      PROVE  \A i \in DOMAIN log : i # cur[h] => StaysAt(i)
  BY <1>1, CurrentCopy, MovedLog DEF StaysAt, TypeOK
<1>2. cur[h] \in DOMAIN log
  BY CurrentCopy, HandlerMoves
<1>3. CASE UNCHANGED log
  <2>1. pc'[h] \notin Settled => pc[h] \notin Settled
    BY DEF HandlerStep, Check, Acquire, ThrowOutsideTry, Apply, Mark, Throw, Ack, Catch,
           AckRetry, Release, Goto, Settled, TypeOK
  <2> QED
    BY <1>2, <1>3, <2>1 DEF StaysAt
<1>4. CASE Catch(h)
  <2> DEFINE m == [content |-> Body(h), retries |-> log[cur[h]].retries + 1,
                   at |-> "retry"]
  <2>1. CASE RetriesLeft(h) /\ log' = Append(log, m)
    <3>1. m \in Message
      BY <1>4, <2>1, CurrentCopy DEF Catch, RetriesLeft, Message, Place
    <3>2. \A i \in DOMAIN log : StaysAt(i)
      BY <2>1, <3>1, AppendedLog DEF StaysAt, TypeOK
    <3> QED
      BY <1>2, <1>4, <3>2 DEF Catch, Settled
  <2>2. CASE SettleInTry(h, "dlq")
    <3>1. pc'[h] = "release" /\ log' = Moved(cur[h], "dlq") /\ pc[h] # "idle"
      BY <1>4, <2>2 DEF Catch, SettleInTry, Goto, TypeOK
    <3> QED
      BY <1>1, <3>1 DEF Place, Settled
  <2> QED
    BY <1>4, <2>1, <2>2 DEF Catch
<1>5. CASE /\ Check(h) \/ Acquire(h) \/ ThrowOutsideTry(h) \/ Ack(h) \/ AckRetry(h)
           /\ ~UNCHANGED log
  <2>1. /\ pc'[h] \in Settled /\ pc[h] # "idle"
        /\ \E place \in {"gone", "dlq"} : log' = Moved(cur[h], place)
    BY <1>5 DEF Check, Acquire, ThrowOutsideTry, Ack, AckRetry, Settle, SettleInTry,
                Goto, Settled, TypeOK
  <2> QED
    BY <1>1, <2>1 DEF Place
<1> QED
  BY <1>3, <1>4, <1>5 DEF HandlerStep, Apply, Mark, Throw, Release

\* Every step but a handler's own and a stop leaves what is being handled.
LEMMA HandlingStays ==
    ASSUME TypeOK, NEW i \in DOMAIN log, log[i].at = "handling",
           \/ \E c \in Contents : Publish(c)
           \/ \E h \in Handlers : Deliver(h)
           \/ RetryDelayEnds \/ RegisterDeadLetter
           \/ \E j \in DOMAIN log : ReplayMessage(j)
           \/ UNCHANGED log
    PROVE  StaysAt(i)
<1>1. \A j \in DOMAIN log : log[j] \in Message
  BY ElementOfSeq, LenProperties DEF TypeOK
<1>2. ASSUME NEW j \in DOMAIN log, log[j].at # "handling", NEW place \in Place,
             NEW m \in Message,
             log' = Moved(j, place) \/ log' = Append(Moved(j, place), m)
      PROVE  StaysAt(i)
  <2>1. /\ Moved(j, place) \in Seq(Message)
        /\ i \in DOMAIN Moved(j, place)
        /\ Moved(j, place)[i].at = log[i].at
    <3>1. i # j
      BY <1>2
    <3> QED
      BY <1>2, <3>1, MovedLog DEF TypeOK
  <2>2. CASE log' = Moved(j, place)
    BY <2>1, <2>2 DEF StaysAt
  <2>3. CASE log' = Append(Moved(j, place), m)
    BY <2>1, <2>3, AppendedLog DEF StaysAt
  <2> QED
    BY <1>2, <2>2, <2>3
<1>3. ASSUME NEW c \in Contents, Publish(c) PROVE StaysAt(i)
  <2> DEFINE m == [content |-> c, retries |-> 0, at |-> "queue"]
  <2>1. m \in Message
    BY DEF Message, Place
  <2> QED
    BY <1>3, <2>1, AppendedLog DEF Publish, StaysAt, TypeOK
<1>4. ASSUME NEW h \in Handlers, Deliver(h) PROVE StaysAt(i)
  <2>1. PICK j \in At("queue"), place \in {"dlq", "handling"} : log' = Moved(j, place)
    BY <1>4 DEF Deliver
  <2> QED
    BY <1>1, <1>2, <2>1 DEF At, Place
<1>5. ASSUME RetryDelayEnds PROVE StaysAt(i)
  <2>1. PICK j \in At("retry") :
          log' = Append(Moved(j, "gone"), [log[j] EXCEPT !.at = "queue"])
    BY <1>5 DEF RetryDelayEnds
  <2>2. [log[j] EXCEPT !.at = "queue"] \in Message
    BY <1>1 DEF At, Message, Place
  <2> QED
    BY <1>2, <2>1, <2>2 DEF At, Place
<1>6. ASSUME RegisterDeadLetter PROVE StaysAt(i)
  <2>1. PICK j \in At("dlq"), place \in {"PENDING", "gone"} : log' = Moved(j, place)
    BY <1>6 DEF RegisterDeadLetter
  <2> QED
    BY <1>1, <1>2, <2>1 DEF At, Place, RowStatus
<1>7. ASSUME NEW j \in DOMAIN log, ReplayMessage(j) PROVE StaysAt(i)
  <2> DEFINE again == [content |-> log[j].content, retries |-> 0, at |-> "queue"]
  <2>1. again \in Message
    BY <1>1 DEF Message, Place
  <2>2. PICK place \in RowStatus :
          log' = Append(Moved(j, place), again) \/ log' = Moved(j, place)
    BY <1>7 DEF ReplayMessage, RowStatus
  <2> QED
    BY <1>2, <1>7, <2>1, <2>2 DEF ReplayMessage, Place, RowStatus
<1> QED
  BY <1>3, <1>4, <1>5, <1>6, <1>7 DEF StaysAt

LEMMA HeldStep ==
    ASSUME \A p \in Instances : ~(Stop(p) \/ Exit(p)), TypeOK, HeldInv, [Next]_vars
    PROVE  HeldInv'
<1> USE DEF redis, db, environment
<1>1. ASSUME \A g \in Handlers : pc'[g] \notin Settled =>
                /\ pc[g] \notin Settled /\ cur'[g] = cur[g] /\ StaysAt(cur[g])
      PROVE  HeldInv'
  BY <1>1 DEF HeldInv, StaysAt
<1>2. ASSUME NEW h \in Handlers, Deliver(h) PROVE HeldInv'
  <2>1. \A g \in Handlers : pc[g] \notin Settled =>
            /\ cur[g] \in DOMAIN log /\ log[cur[g]].at = "handling" /\ StaysAt(cur[g])
    BY <1>2, CurrentCopy, HandlingStays DEF HeldInv, Settled
  <2>2. CASE UNCHANGED <<pc, cur>>
    BY <1>1, <2>1, <2>2
  <2>3. CASE ~UNCHANGED <<pc, cur>>
    <3>1. PICK i \in At("queue") :
            /\ log' = Moved(i, "handling")
            /\ Goto(h, "check") \/ Goto(h, "unparsed")
            /\ cur' = [cur EXCEPT ![h] = i]
      BY <1>2, <2>3 DEF Deliver
    <3>2. log'[i].at = "handling" /\ cur'[h] = i /\ log[i].at = "queue"
      BY <3>1, MovedLog DEF At, Place, TypeOK
    <3>3. \A g \in Handlers \ {h} : pc'[g] \notin Settled =>
              /\ pc[g] \notin Settled /\ cur'[g] = cur[g] /\ cur[g] # i
              /\ log'[cur[g]].at = "handling"
      BY <1>2, <2>1, <3>2, OthersStay DEF StaysAt
    <3> QED
      BY <3>2, <3>3 DEF HeldInv
  <2> QED
    BY <2>2, <2>3
<1>3. ASSUME NEW h \in Handlers, HandlerStep(h) PROVE HeldInv'
  <2>1. pc[h] \notin Settled \/ pc'[h] = "idle"
    BY <1>3 DEF HandlerStep, Check, Acquire, ThrowOutsideTry, Apply, Mark, Throw, Ack,
                Catch, AckRetry, Release, Settled, Goto, TypeOK
  <2>2. ASSUME NEW g \in Handlers \ {h}, pc'[g] \notin Settled
        PROVE  pc[g] \notin Settled /\ cur'[g] = cur[g] /\ StaysAt(cur[g])
    <3>1. pc[g] = pc'[g] /\ cur'[g] = cur[g]
      BY <1>3, OthersStay
    <3>2. cur[g] \in DOMAIN log
      BY <2>2, <3>1, CurrentCopy DEF Settled
    <3>3. CASE pc[h] \notin Settled
      BY <1>3, <2>2, <3>1, <3>2, <3>3, HandlerLog DEF HeldInv
    <3>4. CASE pc[h] \in Settled
      <4>1. Release(h)
        BY <1>3, <3>4 DEF HandlerStep, Check, Acquire, ThrowOutsideTry, Apply, Mark,
                          Throw, Ack, Catch, AckRetry, Settled
      <4> QED
        BY <2>2, <3>1, <3>2, <4>1 DEF Release, StaysAt
    <3> QED
      BY <3>3, <3>4
  <2>3. pc'[h] \notin Settled =>
          pc[h] \notin Settled /\ cur'[h] = cur[h] /\ StaysAt(cur[h])
    BY <1>3, HandlerLog, HandlerMoves DEF Settled
  <2> QED
    BY <1>1, <2>2, <2>3
<1>4. ASSUME UNCHANGED <<pc, cur>>,
             \/ \E c \in Contents : Publish(c)
             \/ RetryDelayEnds \/ RegisterDeadLetter
             \/ \E j \in DOMAIN log : ReplayMessage(j)
             \/ UNCHANGED log
      PROVE  HeldInv'
  <2>1. \A g \in Handlers : pc[g] \notin Settled => StaysAt(cur[g])
    BY <1>4, CurrentCopy, HandlingStays DEF HeldInv, Settled
  <2> QED
    BY <1>1, <1>4, <2>1
<1> QED
  BY <1>2, <1>3, <1>4
  DEF Next, vars, Publish, LockExpires, ProcessedExpires, RetryDelayEnds,
      RegisterDeadLetter, ReplayMessage

LEMMA NoStop == Lossless => \A p \in Instances : ~(Stop(p) \/ Exit(p))
BY DEF Lossless, Stop, Exit, May

-----------------------------------------------------------------------------
\* A lock key always has a handler at work behind it.
LiveLocks == \A c \in locks : InFlight(c)

LEMMA LiveLocksStep ==
    ASSUME Lossless, TypeOK, LiveLocks, [Next]_vars
    PROVE  LiveLocks'
<1> USE DEF redis, db, environment
<1>1. ASSUME locks' \subseteq locks,
             \A g \in Handlers : pc[g] \in Critical =>
                                    pc'[g] = pc[g] /\ cur'[g] = cur[g]
      PROVE  LiveLocks'
  BY <1>1, BodyKept DEF LiveLocks, InFlight, Critical
<1>2. ASSUME NEW h \in Handlers, Deliver(h) PROVE LiveLocks'
  <2>1. pc[h] \notin Critical /\ UNCHANGED locks
    BY <1>2 DEF Deliver, Critical
  <2> QED
    BY <1>1, <1>2, <2>1, OthersStay
<1>3. ASSUME NEW h \in Handlers, HandlerStep(h) PROVE LiveLocks'
  <2> SUFFICES ASSUME NEW c \in locks' PROVE InFlight(c)'
    BY DEF LiveLocks
  <2>1. CASE c \in locks
    <3>1. PICK g \in Handlers : pc[g] \in Critical /\ Body(g) = c
      BY <2>1 DEF LiveLocks, InFlight
    <3>2. CASE g = h
      <4>1. ~Release(h)
        BY <3>1, <3>2 DEF Release, May, Lossless
      <4>2. pc'[h] \in Critical /\ cur'[h] = cur[h]
        BY <1>3, <3>1, <3>2, <4>1
        DEF HandlerStep, Check, Acquire, ThrowOutsideTry, Apply, Mark, Throw, Ack, Catch,
            AckRetry, SettleInTry, Goto, TypeOK, Critical
      <4> QED
        BY <3>1, <3>2, <4>2, BodyKept DEF InFlight, Critical
    <3>3. CASE g # h
      BY <1>3, <3>1, <3>3, BodyKept, OthersStay DEF InFlight, Critical
    <3> QED
      BY <3>2, <3>3
  <2>2. CASE c \notin locks
    <3>1. Acquire(h) /\ c = Body(h) /\ Goto(h, "apply") /\ UNCHANGED cur
      BY <1>3, <2>2 DEF HandlerStep, Check, Acquire, ThrowOutsideTry, Apply, Mark, Throw,
                        Ack, Catch, AckRetry, Release
    <3>2. pc'[h] = "apply" /\ Body(h)' = c
      BY <1>3, <3>1, BodyKept, HandlerMoves DEF Goto, TypeOK
    <3> QED
      BY <3>2 DEF InFlight, Critical
  <2> QED
    BY <2>1, <2>2
<1>4. CASE locks' \subseteq locks /\ UNCHANGED <<pc, cur>>
  BY <1>1, <1>4
<1>5. \A p \in Instances : ~(Stop(p) \/ Exit(p))
  BY DEF Lossless, Stop, Exit, May
<1> QED
  BY <1>2, <1>3, <1>4, <1>5
  DEF Next, vars, Publish, LockExpires, ProcessedExpires, RetryDelayEnds,
      RegisterDeadLetter, ReplayMessage

-----------------------------------------------------------------------------
\* The copies that wait for the retry delay, the dead-letter consumer or an
\* operator, and so for nobody that handles a message now.
Waiting == {"retry", "dlq", "PENDING", "REPLAY_FAILED"}

Parked(c) == \E i \in DOMAIN log : log[i].content = c /\ log[i].at \in Waiting

\* What a handler that gave up its message leaves behind it.
DoneInv ==
    \A h \in Handlers :
        /\ pc[h] = "ackRetry" => Parked(Body(h))
        /\ pc[h] = "release" => Body(h) \in applied \/ Parked(Body(h))

\* A parked copy stays parked as long as a handler has yet to release the
\* lock on its body.
LEMMA ParkedStays ==
    ASSUME Lossless, TypeOK, HeldInv, [Next]_vars,
           NEW g \in Handlers, pc[g] \in {"ackRetry", "release"},
           NEW c, c = Body(g), Parked(c)
    PROVE  Parked(c)'
<1> USE DEF redis, db, environment
<1>1. PICK i \in DOMAIN log : log[i].content = c /\ log[i].at \in Waiting
  BY DEF Parked
<1>2. \A j \in DOMAIN log : log[j] \in Message
  BY ElementOfSeq, LenProperties DEF TypeOK
<1>3. i \in DOMAIN log' /\ log'[i].content = c
  BY <1>1, BodiesKept DEF LogKept
<1>4. StaysAt(i) => Parked(c)'
  BY <1>1, <1>3 DEF StaysAt, Parked
<1>5. ASSUME NEW j \in DOMAIN log, j # i, NEW place \in Place, NEW m \in Message,
             log' = Moved(j, place) \/ log' = Append(Moved(j, place), m)
      PROVE  StaysAt(i)
  <2>1. /\ Moved(j, place) \in Seq(Message)
        /\ i \in DOMAIN Moved(j, place)
        /\ Moved(j, place)[i].at = log[i].at
    BY <1>5, MovedLog DEF TypeOK
  <2>2. CASE log' = Moved(j, place)
    BY <2>1, <2>2 DEF StaysAt
  <2>3. CASE log' = Append(Moved(j, place), m)
    BY <2>1, <2>3, AppendedLog DEF StaysAt
  <2> QED
    BY <1>5, <2>2, <2>3
<1>6. ~Released(c)
  BY DEF Released, Lossless, May
<1>7. ASSUME NEW d \in Contents, Publish(d) PROVE StaysAt(i)
  <2> DEFINE m == [content |-> d, retries |-> 0, at |-> "queue"]
  <2>1. m \in Message
    BY DEF Message, Place
  <2> QED
    BY <1>7, <2>1, AppendedLog DEF Publish, StaysAt, TypeOK
<1>8. ASSUME NEW h \in Handlers, Deliver(h) PROVE StaysAt(i)
  <2>1. PICK j \in At("queue"), place \in {"dlq", "handling"} : log' = Moved(j, place)
    BY <1>8 DEF Deliver
  <2>2. j # i /\ j \in DOMAIN log
    BY <1>1, <2>1 DEF At, Waiting
  <2> QED
    BY <1>2, <1>5, <2>1, <2>2 DEF Place
<1>9. ASSUME NEW h \in Handlers, HandlerStep(h) PROVE StaysAt(i)
  <2>1. CASE pc[h] \notin Settled
    BY <1>1, <1>9, <2>1, HandlerLog DEF HeldInv, Waiting
  <2>2. CASE pc[h] \in Settled
    <3>1. Release(h)
      BY <1>9, <2>2 DEF HandlerStep, Check, Acquire, ThrowOutsideTry, Apply, Mark, Throw,
                        Ack, Catch, AckRetry, Settled
    <3> QED
      BY <3>1 DEF Release, StaysAt
  <2> QED
    BY <2>1, <2>2
<1>10. ASSUME RetryDelayEnds PROVE StaysAt(i)
  <2>1. PICK j \in At("retry") :
          /\ Released(log[j].content)
          /\ log' = Append(Moved(j, "gone"), [log[j] EXCEPT !.at = "queue"])
    BY <1>10 DEF RetryDelayEnds
  <2>2. j # i /\ j \in DOMAIN log
    BY <1>1, <1>6, <2>1 DEF At
  <2>3. [log[j] EXCEPT !.at = "queue"] \in Message
    BY <1>2, <2>2 DEF Message, Place
  <2> QED
    BY <1>5, <2>1, <2>2, <2>3 DEF Place
<1>11. ASSUME RegisterDeadLetter PROVE Parked(c)'
  <2>1. PICK j \in At("dlq") : log' = Moved(j, "PENDING")
    BY <1>11 DEF RegisterDeadLetter, May, Lossless
  <2>2. j \in DOMAIN log /\ log'[i].at = IF i = j THEN "PENDING" ELSE log[i].at
    BY <2>1, MovedLog DEF At, Place, RowStatus, TypeOK
  <2> QED
    BY <1>1, <1>3, <2>2 DEF Parked, Waiting
<1>12. ASSUME NEW j \in DOMAIN log, ReplayMessage(j) PROVE StaysAt(i)
  <2> DEFINE again == [content |-> log[j].content, retries |-> 0, at |-> "queue"]
  <2>1. again \in Message
    BY <1>2 DEF Message, Place
  <2>2. PICK place \in RowStatus :
          log' = Append(Moved(j, place), again) \/ log' = Moved(j, place)
    BY <1>12 DEF ReplayMessage, RowStatus
  <2>3. j # i
    BY <1>1, <1>6, <1>12 DEF ReplayMessage
  <2> QED
    BY <1>5, <2>1, <2>2, <2>3 DEF Place
<1>13. CASE UNCHANGED log
  BY <1>1, <1>4, <1>13 DEF StaysAt
<1>14. \A p \in Instances : ~(Stop(p) \/ Exit(p))
  BY DEF Lossless, Stop, Exit, May
<1> QED
  BY <1>4, <1>7, <1>8, <1>9, <1>10, <1>11, <1>12, <1>13, <1>14
  DEF Next, vars, LockExpires, ProcessedExpires

LEMMA DoneStep ==
    ASSUME Lossless, TypeOK, HeldInv, ProcessedInv, DoneInv, [Next]_vars
    PROVE  DoneInv'
<1> USE DEF redis, db, environment
<1>1. applied \subseteq applied'
  BY DEF Next, vars, Publish, LockExpires, ProcessedExpires, RetryDelayEnds,
         RegisterDeadLetter, ReplayMessage, Stop, Exit, Deliver, HandlerStep, Check,
         Acquire,
         ThrowOutsideTry, Apply, Mark, Throw, Ack, Catch, AckRetry, Release
<1>2. ASSUME NEW g \in Handlers, pc'[g] = pc[g], cur'[g] = cur[g]
      PROVE  /\ pc'[g] = "ackRetry" => Parked(Body(g))'
             /\ pc'[g] = "release" => (Body(g) \in applied \/ Parked(Body(g)))'
  <2>0. PICK c : c = Body(g)
    OBVIOUS
  <2>1. CASE pc[g] \in {"ackRetry", "release"}
    <3>1. Body(g)' = c
      BY <1>2, <2>0, <2>1, BodyKept
    <3>2. Parked(c) => Parked(c)'
      BY <2>0, <2>1, ParkedStays
    <3>3. Parked(Body(g))' <=> Parked(c)'
      BY <3>1 DEF Parked
    <3>4. (pc[g] = "ackRetry" => Parked(c)) /\ (pc[g] = "release" => c \in applied \/ Parked(c))
      BY <2>0 DEF DoneInv
    <3> QED
      BY <1>1, <1>2, <3>1, <3>2, <3>3, <3>4
  <2> QED
    BY <1>2, <2>1
<1>3. ASSUME NEW h \in Handlers, HandlerStep(h), pc'[h] \in {"ackRetry", "release"}
      PROVE  /\ pc'[h] = "ackRetry" => Parked(Body(h))'
             /\ pc'[h] = "release" => (Body(h) \in applied \/ Parked(Body(h)))'
  <2>0. PICK c : c = Body(h)
    OBVIOUS
  <2>1. Body(h)' = c /\ cur[h] \in DOMAIN log
    BY <1>3, <2>0, BodyKept, HandlerMoves, CurrentCopy
  <2>2. Parked(Body(h))' <=> Parked(c)'
    BY <2>1 DEF Parked
  <2>3. CASE Catch(h)
    <3> DEFINE m == [content |-> c, retries |-> log[cur[h]].retries + 1,
                     at |-> "retry"]
    <3>1. CASE RetriesLeft(h) /\ log' = Append(log, m)
      <4>1. m \in Message
        BY <2>0, <2>3, <3>1, CurrentCopy DEF Catch, RetriesLeft, Message, Place
      <4>2. Len(log) + 1 \in DOMAIN log' /\ log'[Len(log) + 1] = m
        BY <3>1, <4>1, AppendedLog DEF TypeOK
      <4>3. log'[Len(log) + 1].content = c /\ log'[Len(log) + 1].at = "retry"
        BY <4>2
      <4>4. Parked(c)'
        BY <4>2, <4>3 DEF Parked, Waiting
      <4> QED
        BY <2>2, <4>4
    <3>2. CASE SettleInTry(h, "dlq")
      <4>1. /\ cur[h] \in DOMAIN log' /\ log'[cur[h]].at = "dlq"
            /\ log'[cur[h]].content = c
        BY <2>0, <2>1, <3>2, MovedLog DEF SettleInTry, Body, Place, TypeOK
      <4>2. Parked(c)'
        BY <4>1 DEF Parked, Waiting
      <4> QED
        BY <2>2, <4>2
    <3> QED
      BY <2>0, <2>3, <3>1, <3>2 DEF Catch
  <2>4. CASE AckRetry(h)
    <3>1. pc[h] = "ackRetry" /\ Parked(c)
      BY <2>0, <2>4 DEF AckRetry, DoneInv
    <3>2. Parked(c)'
      BY <2>0, <3>1, ParkedStays
    <3> QED
      BY <2>2, <3>2
  <2>5. CASE Ack(h)
    <3>1. c \in applied /\ pc'[h] = "release" /\ pc'[h] # "ackRetry"
      BY <2>0, <2>5 DEF Ack, SettleInTry, Goto, TypeOK, ProcessedInv
    <3> QED
      BY <1>1, <2>1, <3>1
  <2> QED
    BY <1>3, <2>3, <2>4, <2>5
    DEF HandlerStep, Check, Acquire, ThrowOutsideTry, Apply, Mark, Throw, Release,
        Settle, Goto, TypeOK
<1>4. ASSUME NEW h \in Handlers, Deliver(h) \/ HandlerStep(h) PROVE DoneInv'
  <2>1. Deliver(h) => pc'[h] \notin {"ackRetry", "release"}
    BY DEF Deliver, Goto, TypeOK
  <2> QED
    BY <1>2, <1>3, <1>4, <2>1, OthersStay DEF DoneInv
<1>5. CASE UNCHANGED <<pc, cur>>
  BY <1>2, <1>5 DEF DoneInv
<1>6. \A p \in Instances : ~(Stop(p) \/ Exit(p))
  BY DEF Lossless, Stop, Exit, May
<1> QED
  BY <1>4, <1>5, <1>6
  DEF Next, vars, Publish, LockExpires, ProcessedExpires, RetryDelayEnds,
      RegisterDeadLetter, ReplayMessage

-----------------------------------------------------------------------------
\* The inductive invariant behind NoSilentLoss.
LossInv ==
    /\ ProcessedInv
    /\ HeldInv
    /\ LiveLocks
    /\ DoneInv
    /\ NoSilentLoss

\* An update is safe if it was applied or has a copy that is tracked.
Safe(c) ==
    \/ c \in applied
    \/ \E j \in DOMAIN log : log[j].content = c /\ Tracked(j)

\* The handler that acknowledges its copy for good leaves its update safe
\* elsewhere: this is where the three other invariants are needed.
LEMMA SafeElsewhere ==
    ASSUME TypeOK, LossInv, NEW h \in Handlers,
           \/ Check(h) /\ Body(h) \in processed
           \/ Acquire(h) /\ Body(h) \in locks
           \/ Ack(h) \/ AckRetry(h)
    PROVE  \/ Body(h) \in applied
           \/ \E j \in DOMAIN log :
                j # cur[h] /\ log[j].content = Body(h) /\ Tracked(j)
<1>1. pc[h] \notin Settled /\ log[cur[h]].at = "handling"
  BY DEF Check, Acquire, Ack, AckRetry, Settled, LossInv, HeldInv
<1>2. Parked(Body(h)) =>
        \E j \in DOMAIN log : j # cur[h] /\ log[j].content = Body(h) /\ Tracked(j)
  BY <1>1 DEF Parked, Waiting, Tracked
<1>3. CASE Body(h) \in processed \/ Ack(h)
  BY <1>3 DEF Ack, LossInv, ProcessedInv, ProcessedWasApplied
<1>4. CASE Acquire(h) /\ Body(h) \in locks
  <2>1. PICK g \in Handlers : pc[g] \in Critical /\ Body(g) = Body(h)
    BY <1>4 DEF LossInv, LiveLocks, InFlight
  <2>2. g # h
    BY <1>4, <2>1 DEF Acquire, Critical
  <2>3. CASE pc[g] = "release"
    BY <1>2, <2>1, <2>3 DEF LossInv, DoneInv
  <2>4. CASE pc[g] # "release"
    <3>1. pc[g] \notin Settled /\ pc[g] # "idle"
      BY <2>1, <2>4 DEF Settled, Critical
    <3>2. cur[g] \in DOMAIN log /\ log[cur[g]].at = "handling" /\ cur[g] # cur[h]
      BY <1>1, <2>2, <3>1, CurrentCopy DEF LossInv, HeldInv
    <3> QED
      BY <2>1, <3>2 DEF Body, Tracked
  <2> QED
    BY <2>3, <2>4
<1>5. CASE AckRetry(h)
  BY <1>2, <1>5 DEF AckRetry, LossInv, DoneInv
<1> QED
  BY <1>3, <1>4, <1>5

\* An update that is safe stays safe.
LEMMA SafeStays ==
    ASSUME Lossless, TypeOK, LossInv, [Next]_vars, NEW c, Safe(c)
    PROVE  Safe(c)'
<1> USE DEF redis, db, environment
<1>1. \A j \in DOMAIN log : log[j] \in Message
  BY ElementOfSeq, LenProperties DEF TypeOK
<1>2. applied \subseteq applied'
  BY DEF Next, vars, Publish, LockExpires, ProcessedExpires, RetryDelayEnds,
         RegisterDeadLetter, ReplayMessage, Stop, Exit, Deliver, HandlerStep, Check,
         Acquire,
         ThrowOutsideTry, Apply, Mark, Throw, Ack, Catch, AckRetry, Release
<1>3. SUFFICES ASSUME NEW j \in DOMAIN log, log[j].content = c, Tracked(j)
               PROVE  Safe(c)'
  BY <1>2 DEF Safe
<1>4. j \in DOMAIN log' /\ log'[j].content = c
  BY <1>3, BodiesKept DEF LogKept
<1>5. log'[j].at \notin {"gone", "REPLAYED"} => Safe(c)'
  BY <1>4 DEF Safe, Tracked
<1>6. StaysAt(j) => Safe(c)'
  BY <1>3, <1>5 DEF StaysAt, Tracked
<1>7. ASSUME NEW i \in DOMAIN log, NEW place \in Place \ {"gone", "REPLAYED"},
             log' = Moved(i, place)
      PROVE  Safe(c)'
  <2>1. log'[j].at = IF i = j THEN place ELSE log[j].at
    BY <1>7, MovedLog DEF TypeOK
  <2> QED
    BY <1>3, <1>5, <2>1 DEF Tracked
<1>8. ASSUME NEW i \in DOMAIN log, NEW place \in Place, NEW m \in Message,
             m.content = log[i].content, m.at = "queue",
             log' = Append(Moved(i, place), m)
      PROVE  Safe(c)'
  <2>1. /\ Moved(i, place) \in Seq(Message)
        /\ j \in DOMAIN Moved(i, place)
        /\ Moved(i, place)[j].at = IF i = j THEN place ELSE log[j].at
    BY <1>8, MovedLog DEF TypeOK
  <2>2. CASE i = j
    <3>1. \E k \in DOMAIN log' : log'[k] = m
      BY <1>8, <2>1, AppendedLog
    <3>2. m.content = c
      BY <1>3, <1>8, <2>2
    <3> QED
      BY <1>8, <3>1, <3>2 DEF Safe, Tracked
  <2>3. CASE i # j
    BY <1>6, <1>8, <2>1, <2>3, AppendedLog DEF StaysAt
  <2> QED
    BY <2>2, <2>3
<1>9. ASSUME NEW d \in Contents, Publish(d) PROVE Safe(c)'
  <2> DEFINE m == [content |-> d, retries |-> 0, at |-> "queue"]
  <2>1. m \in Message
    BY DEF Message, Place
  <2> QED
    BY <1>6, <1>9, <2>1, AppendedLog DEF Publish, StaysAt, TypeOK
<1>10. ASSUME NEW h \in Handlers, Deliver(h) PROVE Safe(c)'
  <2>1. PICK i \in At("queue"), place \in {"dlq", "handling"} : log' = Moved(i, place)
    BY <1>10 DEF Deliver
  <2> QED
    BY <1>7, <2>1 DEF At, Place
<1>11. ASSUME NEW h \in Handlers, HandlerStep(h) PROVE Safe(c)'
  <2>1. CASE j # cur[h] \/ UNCHANGED log
    BY <1>6, <1>11, <2>1, HandlerLog DEF StaysAt
  <2>2. CASE j = cur[h] /\ ~UNCHANGED log
    <3>1. c = Body(h) /\ pc[h] # "idle"
      BY <1>3, <1>11, <2>2, HandlerMoves DEF Body
    <3>2. ASSUME log' = Moved(cur[h], "dlq") PROVE Safe(c)'
      BY <1>7, <2>2, <3>2 DEF Place
    <3>3. CASE Catch(h)
      <4>1. CASE pc'[h] = "ackRetry"
        BY <1>6, <1>11, <2>2, <4>1, HandlerLog DEF Settled
      <4>2. CASE pc'[h] # "ackRetry"
        BY <3>2, <3>3, <4>2 DEF Catch, SettleInTry, Goto, TypeOK
      <4> QED
        BY <4>1, <4>2
    <3>4. CASE ThrowOutsideTry(h)
      BY <3>2, <3>4 DEF ThrowOutsideTry, Settle
    <3>5. CASE \/ Check(h) /\ Body(h) \in processed
               \/ Acquire(h) /\ Body(h) \in locks
               \/ Ack(h) \/ AckRetry(h)
      <4>1. CASE Body(h) \in applied
        BY <1>2, <3>1, <4>1 DEF Safe
      <4>2. CASE Body(h) \notin applied
        <5>1. PICK k \in DOMAIN log : k # cur[h] /\ log[k].content = c /\ Tracked(k)
          BY <3>1, <3>5, <4>2, SafeElsewhere
        <5>2. StaysAt(k) /\ log'[k].content = c
          BY <1>11, <5>1, HandlerLog, BodiesKept DEF LogKept
        <5> QED
          BY <5>1, <5>2 DEF Safe, Tracked, StaysAt
      <4> QED
        BY <4>1, <4>2
    <3> QED
      BY <1>11, <2>2, <3>3, <3>4, <3>5
      DEF HandlerStep, Check, Acquire, Apply, Mark, Throw, Release
  <2> QED
    BY <2>1, <2>2
<1>12. ASSUME RetryDelayEnds PROVE Safe(c)'
  <2>1. PICK i \in At("retry") :
          log' = Append(Moved(i, "gone"), [log[i] EXCEPT !.at = "queue"])
    BY <1>12 DEF RetryDelayEnds
  <2> DEFINE m == [log[i] EXCEPT !.at = "queue"]
  <2>2. /\ i \in DOMAIN log /\ m \in Message
        /\ m.content = log[i].content /\ m.at = "queue"
    BY <1>1 DEF At, Message, Place
  <2> QED
    BY <1>8, <2>1, <2>2 DEF Place
<1>13. ASSUME RegisterDeadLetter PROVE Safe(c)'
  <2>1. PICK i \in At("dlq") : log' = Moved(i, "PENDING")
    BY <1>13 DEF RegisterDeadLetter, May, Lossless
  <2> QED
    BY <1>7, <2>1 DEF At, Place, RowStatus
<1>14. ASSUME NEW i \in DOMAIN log, ReplayMessage(i) PROVE Safe(c)'
  <2> DEFINE again == [content |-> log[i].content, retries |-> 0, at |-> "queue"]
  <2>1. again \in Message /\ again.content = log[i].content /\ again.at = "queue"
    BY <1>1 DEF Message, Place
  <2>2. CASE log' = Moved(i, "REPLAY_FAILED")
    BY <1>7, <2>2 DEF Place, RowStatus
  <2>3. CASE \E place \in RowStatus : log' = Append(Moved(i, place), again)
    BY <1>8, <2>1, <2>3 DEF Place
  <2> QED
    BY <1>14, <2>2, <2>3 DEF ReplayMessage, RowStatus
<1>15. CASE UNCHANGED log
  BY <1>6, <1>15 DEF StaysAt
<1>16. \A p \in Instances : ~(Stop(p) \/ Exit(p))
  BY DEF Lossless, Stop, Exit, May
<1> QED
  BY <1>9, <1>10, <1>11, <1>12, <1>13, <1>14, <1>15, <1>16
  DEF Next, vars, LockExpires, ProcessedExpires

\* Every step that lengthens the log puts its new copy on a queue.
LEMMA NewCopyTracked ==
    ASSUME TypeOK, [Next]_vars, NEW i \in DOMAIN log', i \notin DOMAIN log
    PROVE  log'[i].at \in {"queue", "retry"}
<1>1. \A j \in DOMAIN log : log[j] \in Message
  BY ElementOfSeq, LenProperties DEF TypeOK
<1>2. ASSUME NEW l \in Seq(Message), DOMAIN l = DOMAIN log, NEW m \in Message,
             m.at \in {"queue", "retry"}, log' = Append(l, m)
      PROVE  log'[i].at \in {"queue", "retry"}
  BY <1>2, AppendedLog
<1>3. ASSUME NEW j \in DOMAIN log, NEW place \in Place
      PROVE  /\ Moved(j, place) \in Seq(Message)
             /\ DOMAIN Moved(j, place) = DOMAIN log
             /\ log' # Moved(j, place)
  BY MovedLog DEF TypeOK
<1>4. ASSUME NEW c \in Contents, Publish(c) PROVE log'[i].at \in {"queue", "retry"}
  <2> DEFINE m == [content |-> c, retries |-> 0, at |-> "queue"]
  <2>1. m \in Message /\ m.at = "queue"
    BY DEF Message, Place
  <2> QED
    BY <1>2, <1>4, <2>1 DEF Publish, TypeOK
<1>5. ASSUME NEW h \in Handlers PROVE ~Deliver(h)
  <2> SUFFICES ASSUME Deliver(h) PROVE FALSE
    OBVIOUS
  <2>1. PICK j \in At("queue"), place \in {"dlq", "handling"} : log' = Moved(j, place)
    BY DEF Deliver
  <2> QED
    BY <1>3, <2>1 DEF At, Place
<1>6. ASSUME NEW h \in Handlers, HandlerStep(h) PROVE log'[i].at \in {"queue", "retry"}
  <2>1. pc[h] # "idle" /\ cur[h] \in DOMAIN log
    BY <1>6, HandlerMoves, CurrentCopy
  <2>2. log' # log /\ log' # Moved(cur[h], "gone") /\ log' # Moved(cur[h], "dlq")
    BY <1>3, <2>1 DEF Place
  <2> DEFINE m == [content |-> Body(h), retries |-> log[cur[h]].retries + 1,
                   at |-> "retry"]
  <2>3. RetriesLeft(h) /\ log' = Append(log, m)
    BY <1>6, <2>2
    DEF HandlerStep, Check, Acquire, ThrowOutsideTry, Apply, Mark, Throw, Ack, Catch,
        AckRetry, Release, Settle, SettleInTry
  <2>4. m \in Message /\ m.at = "retry"
    BY <2>1, <2>3, CurrentCopy DEF RetriesLeft, Message, Place
  <2> QED
    BY <1>2, <2>3, <2>4 DEF TypeOK
<1>7. ASSUME RetryDelayEnds PROVE log'[i].at \in {"queue", "retry"}
  <2>1. PICK j \in At("retry") :
          log' = Append(Moved(j, "gone"), [log[j] EXCEPT !.at = "queue"])
    BY <1>7 DEF RetryDelayEnds
  <2> DEFINE m == [log[j] EXCEPT !.at = "queue"]
  <2>2. j \in DOMAIN log /\ m \in Message /\ m.at = "queue"
    BY <1>1 DEF At, Message, Place
  <2>3. Moved(j, "gone") \in Seq(Message) /\ DOMAIN Moved(j, "gone") = DOMAIN log
    BY <1>3, <2>2 DEF Place
  <2> QED
    BY <1>2, <2>1, <2>2, <2>3
<1>8. ~RegisterDeadLetter
  <2> SUFFICES ASSUME RegisterDeadLetter PROVE FALSE
    OBVIOUS
  <2>1. PICK j \in At("dlq"), place \in {"PENDING", "gone"} : log' = Moved(j, place)
    BY DEF RegisterDeadLetter
  <2> QED
    BY <1>3, <2>1 DEF At, Place, RowStatus
<1>9. ASSUME NEW j \in DOMAIN log, ReplayMessage(j)
      PROVE  log'[i].at \in {"queue", "retry"}
  <2> DEFINE again == [content |-> log[j].content, retries |-> 0, at |-> "queue"]
  <2>1. again \in Message /\ again.at = "queue"
    BY <1>1 DEF Message, Place
  <2>2. PICK place \in RowStatus :
          log' = Append(Moved(j, place), again) \/ log' = Moved(j, place)
    BY <1>9 DEF ReplayMessage, RowStatus
  <2>3. /\ Moved(j, place) \in Seq(Message) /\ DOMAIN Moved(j, place) = DOMAIN log
        /\ log' # Moved(j, place)
    BY <1>3 DEF Place
  <2> QED
    BY <1>2, <2>1, <2>2, <2>3
<1>10. ASSUME NEW p \in Instances PROVE ~(Stop(p) \/ Exit(p))
  BY DEF Stop, Exit, Down
<1>11. log' # log
  OBVIOUS
<1> QED
  BY <1>4, <1>5, <1>6, <1>7, <1>8, <1>9, <1>10, <1>11
  DEF Next, vars, LockExpires, ProcessedExpires

\* As long as locks are deleted promptly, dead letters are stored, every body is
\* JSON and no process stops, an update is never lost: neither by the in-flight check,
\* nor by the early acknowledgement of a duplicate, nor on the way through
\* retries, dead letters and replays, even if locks expire under a running
\* handler.
THEOREM NoUpdateIsLost == ASSUME Lossless PROVE Spec => []NoSilentLoss
<1>1. Init => LossInv
  BY DEF Init, LossInv, ProcessedInv, ProcessedWasApplied, HeldInv, LiveLocks,
         DoneInv, NoSilentLoss, Settled
<1>2. TypeOK /\ LossInv /\ [Next]_vars => LossInv'
  <2> SUFFICES ASSUME TypeOK, LossInv, [Next]_vars PROVE LossInv'
    OBVIOUS
  <2>1. ProcessedInv' /\ HeldInv' /\ LiveLocks' /\ DoneInv'
    BY NoStop, ProcessedStep, HeldStep, LiveLocksStep, DoneStep DEF LossInv
  <2>2. ASSUME NEW i \in DOMAIN log', NEW c, c = log'[i].content PROVE Safe(c)'
    <3>1. CASE i \in DOMAIN log
      <4>1. log[i].content = c
        BY <2>2, <3>1, BodiesKept DEF LogKept
      <4>2. Safe(c)
        BY <3>1, <4>1 DEF LossInv, NoSilentLoss, Safe
      <4> QED
        BY <4>2, SafeStays
    <3>2. CASE i \notin DOMAIN log
      BY <2>2, <3>2, NewCopyTracked DEF Safe, Tracked
    <3> QED
      BY <3>1, <3>2
  <2>3. NoSilentLoss'
    <3> SUFFICES ASSUME NEW i \in DOMAIN log'
                 PROVE  \/ log'[i].content \in applied'
                        \/ \E j \in DOMAIN log' :
                             /\ log'[j].content = log'[i].content
                             /\ Tracked(j)'
      BY DEF NoSilentLoss
    <3>1. PICK c : c = log'[i].content
      OBVIOUS
    <3>2. Safe(c)'
      BY <2>2, <3>1
    <3> QED
      BY <3>1, <3>2 DEF Safe
  <2> QED
    BY <2>1, <2>3 DEF LossInv
<1>3. LossInv => NoSilentLoss
  BY DEF LossInv
<1> QED
  BY <1>1, <1>2, <1>3, TypeCorrect, PTL DEF Spec

-----------------------------------------------------------------------------
\* What a stop relies on: a handler that has settled its copy does not put it back.
CopyInv ==
    /\ HeldInv
    /\ \A h \in Handlers : pc[h] = "idle" => cur[h] = 0
    /\ \A h \in Handlers : pc[h] = "release" => log[cur[h]].at \notin {"queue", "handling"}

\* A copy that is neither waiting nor being handled does not come back.
LEMMA NeverBack ==
    ASSUME TypeOK, [Next]_vars, NEW i \in DOMAIN log, log[i].at \notin {"queue", "handling"}
    PROVE  i \in DOMAIN log' /\ log'[i].at \notin {"queue", "handling"}
<1>1. \A j \in DOMAIN log : log[j] \in Message
  BY ElementOfSeq, LenProperties DEF TypeOK
<1>2. ASSUME NEW j \in DOMAIN log, NEW place \in Place,
             j # i \/ place \notin {"queue", "handling"}, NEW m \in Message,
             log' = Moved(j, place) \/ log' = Append(Moved(j, place), m)
      PROVE  i \in DOMAIN log' /\ log'[i].at \notin {"queue", "handling"}
  <2>1. /\ Moved(j, place) \in Seq(Message)
        /\ i \in DOMAIN Moved(j, place)
        /\ Moved(j, place)[i].at \notin {"queue", "handling"}
    BY <1>2, MovedLog DEF TypeOK
  <2>2. CASE log' = Moved(j, place)
    BY <2>1, <2>2
  <2>3. CASE log' = Append(Moved(j, place), m)
    BY <2>1, <2>3, AppendedLog
  <2> QED
    BY <1>2, <2>2, <2>3
<1>3. ASSUME NEW c \in Contents, Publish(c)
      PROVE  i \in DOMAIN log' /\ log'[i].at \notin {"queue", "handling"}
  <2> DEFINE m == [content |-> c, retries |-> 0, at |-> "queue"]
  <2>1. m \in Message
    BY DEF Message, Place
  <2> QED
    BY <1>3, <2>1, AppendedLog DEF Publish, TypeOK
<1>4. ASSUME NEW h \in Handlers, Deliver(h)
      PROVE  i \in DOMAIN log' /\ log'[i].at \notin {"queue", "handling"}
  <2>1. PICK j \in At("queue"), place \in {"dlq", "handling"} : log' = Moved(j, place)
    BY <1>4 DEF Deliver
  <2>2. j \in DOMAIN log /\ j # i /\ place \in Place /\ log[i] \in Message
    BY <1>1 DEF At, Place
  <2> QED
    BY <1>2, <2>1, <2>2
<1>5. ASSUME NEW h \in Handlers, HandlerStep(h)
      PROVE  i \in DOMAIN log' /\ log'[i].at \notin {"queue", "handling"}
  <2>1. cur[h] \in DOMAIN log /\ log[cur[h]] \in Message /\ Body(h) \in Contents
    BY <1>5, CurrentCopy, HandlerMoves
  <2>2. CASE Catch(h) /\ RetriesLeft(h) /\ log' # Moved(cur[h], "dlq")
    <3> DEFINE m == [content |-> Body(h), retries |-> log[cur[h]].retries + 1,
                     at |-> "retry"]
    <3>1. m \in Message /\ log' = Append(log, m)
      BY <2>1, <2>2 DEF Catch, SettleInTry, RetriesLeft, Message, Place
    <3> QED
      BY <3>1, AppendedLog DEF TypeOK
  <2>3. CASE log' = Moved(cur[h], "dlq") \/ log' = Moved(cur[h], "gone")
    <3>1. \A place \in {"dlq", "gone"} : place \in Place /\ place \notin {"queue", "handling"}
      BY DEF Place
    <3> QED
      BY <1>2, <2>1, <2>3, <3>1
  <2> QED
    BY <1>5, <2>2, <2>3
    DEF HandlerStep, Check, Acquire, ThrowOutsideTry, Apply, Mark, Throw, Ack, Catch,
        AckRetry, Release, Settle, SettleInTry
<1>6. ASSUME RetryDelayEnds
      PROVE  i \in DOMAIN log' /\ log'[i].at \notin {"queue", "handling"}
  <2>1. PICK j \in At("retry") :
          log' = Append(Moved(j, "gone"), [log[j] EXCEPT !.at = "queue"])
    BY <1>6 DEF RetryDelayEnds
  <2>2. [log[j] EXCEPT !.at = "queue"] \in Message
    BY <1>1 DEF At, Message, Place
  <2> QED
    BY <1>2, <2>1, <2>2 DEF At, Place
<1>7. ASSUME RegisterDeadLetter
      PROVE  i \in DOMAIN log' /\ log'[i].at \notin {"queue", "handling"}
  <2>1. PICK j \in At("dlq"), place \in {"PENDING", "gone"} : log' = Moved(j, place)
    BY <1>7 DEF RegisterDeadLetter
  <2> QED
    BY <1>1, <1>2, <2>1 DEF At, Place, RowStatus
<1>8. ASSUME NEW j \in DOMAIN log, ReplayMessage(j)
      PROVE  i \in DOMAIN log' /\ log'[i].at \notin {"queue", "handling"}
  <2> DEFINE again == [content |-> log[j].content, retries |-> 0, at |-> "queue"]
  <2>1. again \in Message
    BY <1>1 DEF Message, Place
  <2>2. PICK place \in RowStatus :
          log' = Append(Moved(j, place), again) \/ log' = Moved(j, place)
    BY <1>8 DEF ReplayMessage, RowStatus
  <2> QED
    BY <1>2, <2>1, <2>2 DEF Place, RowStatus
<1>9. ASSUME NEW p \in Instances, Stop(p) \/ Exit(p)
      PROVE  i \in DOMAIN log' /\ log'[i].at \notin {"queue", "handling"}
  <2>1. PICK U \in SUBSET At("handling") :
          log' = [j \in DOMAIN log |->
                    IF j \in U THEN [log[j] EXCEPT !.at = "queue"] ELSE log[j]]
    BY <1>9 DEF Stop, Exit, Down
  <2>2. i \notin U
    BY <2>1 DEF At
  <2> QED
    BY <2>1, <2>2
<1>10. CASE UNCHANGED log
  BY <1>10
<1> QED
  BY <1>3, <1>4, <1>5, <1>6, <1>7, <1>8, <1>9, <1>10
  DEF Next, vars, LockExpires, ProcessedExpires

LEMMA CopyStep ==
    ASSUME TypeOK, CopyInv, [Next]_vars
    PROVE  CopyInv'
<1> USE DEF redis, db, environment
<1>1. CASE \A p \in Instances : ~(Stop(p) \/ Exit(p))
  <2>1. HeldInv'
    BY <1>1, HeldStep DEF CopyInv
  <2>2. ASSUME NEW h \in Handlers, pc'[h] = "idle" PROVE cur'[h] = 0
    BY <1>1, <2>2
    DEF CopyInv, TypeOK, Next, vars, Publish, LockExpires, ProcessedExpires,
        RetryDelayEnds, RegisterDeadLetter, ReplayMessage, Deliver, HandlerStep, Check,
        Acquire, ThrowOutsideTry, Apply, Mark, Throw, Ack, Catch, AckRetry, Release,
        Settle, SettleInTry, Goto
  <2>3. ASSUME NEW h \in Handlers, pc'[h] = "release"
        PROVE  log'[cur'[h]].at \notin {"queue", "handling"}
    <3>1. CASE pc[h] = "release" /\ cur'[h] = cur[h]
      BY <3>1, CurrentCopy, NeverBack DEF CopyInv
    <3>2. CASE ~(pc[h] = "release" /\ cur'[h] = cur[h])
      <4>1. /\ pc[h] # "idle" /\ cur'[h] = cur[h]
            /\ \E place \in {"gone", "dlq"} : log' = Moved(cur[h], place)
        BY <1>1, <2>3, <3>2
        DEF TypeOK, Next, vars, Publish, LockExpires, ProcessedExpires, RetryDelayEnds,
            RegisterDeadLetter, ReplayMessage, Deliver, HandlerStep, Check, Acquire,
            ThrowOutsideTry, Apply, Mark, Throw, Ack, Catch, AckRetry, Release,
            Settle, SettleInTry, Goto
      <4> QED
        BY <4>1, CurrentCopy, MovedLog DEF Place, TypeOK
    <3> QED
      BY <3>1, <3>2
  <2> QED
    BY <2>1, <2>2, <2>3 DEF CopyInv
<1>2. ASSUME NEW p \in Instances, Stop(p) \/ Exit(p) PROVE CopyInv'
  <2>1. ASSUME NEW g \in Handlers, pc'[g] # "idle"
        PROVE  /\ pc'[g] = pc[g] /\ cur'[g] = cur[g] /\ InstanceOf[g] # p
               /\ cur[g] \in DOMAIN log
    BY <1>2, <2>1 DEF Stop, Exit, Down, TypeOK
  <2>2. ASSUME NEW g \in Handlers, pc'[g] = "idle" PROVE cur'[g] = 0
    BY <1>2, <2>2 DEF Stop, Exit, Down, CopyInv
  <2>3. ASSUME NEW g \in Handlers, pc'[g] \notin Settled
        PROVE  log'[cur'[g]].at = "handling"
    <3>1. pc[g] \notin Settled /\ pc'[g] # "idle"
      BY <2>1, <2>3 DEF Settled
    <3>2. log[cur[g]].at = "handling" /\ cur[g] \in DOMAIN log /\ cur[g] # 0
      <4>1. 0 \notin DOMAIN log
        BY LenProperties DEF TypeOK
      <4> QED
        BY <2>1, <3>1, <4>1 DEF CopyInv, HeldInv
    <3>3. ASSUME NEW f \in Handlers, InstanceOf[f] = p, cur[f] = cur[g]
          PROVE  FALSE
      BY <2>1, <3>1, <3>2, <3>3 DEF CopyInv, HeldInv, Settled
    <3> QED
      BY <1>2, <2>1, <3>1, <3>2, <3>3 DEF Stop, Exit, Down
  <2>4. ASSUME NEW g \in Handlers, pc'[g] = "release"
        PROVE  log'[cur'[g]].at \notin {"queue", "handling"}
    BY <2>1, <2>4, NeverBack DEF CopyInv
  <2>5. \A g, h \in Handlers :
          g # h /\ pc'[g] \notin Settled /\ pc'[h] \notin Settled => cur'[g] # cur'[h]
    BY <2>1 DEF CopyInv, HeldInv, Settled
  <2> QED
    BY <2>2, <2>3, <2>4, <2>5 DEF CopyInv, HeldInv
<1> QED
  BY <1>1, <1>2

\* The step that drops a copy is its own handler's: an early acknowledgement or one
\* that finds the key of the lock.
LEMMA Dropped ==
    ASSUME TypeOK, CopyInv, ProcessedInv, Next, NEW h \in Handlers,
           pc[h] \notin {"idle", "ackRetry"},
           log[cur[h]].at = "handling", log'[cur[h]].at = "gone"
    PROVE  Body(h) \in applied' \/ Body(h) \in locks
<1> USE DEF redis, db, environment
<1>1. pc[h] \notin Settled /\ cur[h] \in DOMAIN log /\ ~StaysAt(cur[h])
  BY CurrentCopy DEF CopyInv, Settled, StaysAt
<1>2. ASSUME NEW g \in Handlers, HandlerStep(g) PROVE g = h
  <2>1. SUFFICES ASSUME g # h PROVE FALSE
    OBVIOUS
  <2>2. CASE pc[g] \in Settled
    BY <1>1, <1>2, <2>2
    DEF HandlerStep, Check, Acquire, ThrowOutsideTry, Apply, Mark, Throw, Ack, Catch,
        AckRetry, Release, Settled, StaysAt
  <2>3. CASE pc[g] \notin Settled
    BY <1>1, <1>2, <2>1, <2>3, HandlerLog DEF CopyInv, HeldInv
  <2> QED
    BY <2>2, <2>3
<1>3. ASSUME NEW p \in Instances, Stop(p) \/ Exit(p) PROVE FALSE
  <2>1. PICK U \in SUBSET At("handling") :
          log' = [j \in DOMAIN log |->
                    IF j \in U THEN [log[j] EXCEPT !.at = "queue"] ELSE log[j]]
    BY <1>3 DEF Stop, Exit, Down
  <2>2. log[cur[h]] \in Message
    BY <1>1, CurrentCopy DEF Settled
  <2>3. [log[cur[h]] EXCEPT !.at = "queue"].at = "queue"
    BY <2>2 DEF Message
  <2> QED
    BY <1>1, <2>1, <2>3
<1>4. HandlerStep(h)
  BY <1>1, <1>2, <1>3, HandlingStays DEF Next, LockExpires, ProcessedExpires
<1>5. CASE Check(h)
  BY <1>1, <1>5 DEF Check, StaysAt, ProcessedInv, ProcessedWasApplied
<1>6. CASE Acquire(h)
  BY <1>1, <1>6 DEF Acquire, StaysAt
<1>7. CASE Ack(h)
  BY <1>7 DEF Ack, ProcessedInv
<1>8. CASE ThrowOutsideTry(h) \/ Catch(h)
  <2>1. log' # Moved(cur[h], "dlq")
    BY <1>1, MovedLog DEF Place, TypeOK
  <2>2. Catch(h) /\ RetriesLeft(h)
        /\ log' = Append(log, [content |-> Body(h), retries |-> log[cur[h]].retries + 1,
                               at |-> "retry"])
    BY <1>8, <2>1 DEF ThrowOutsideTry, Catch, Settle, SettleInTry
  <2>3. [content |-> Body(h), retries |-> log[cur[h]].retries + 1, at |-> "retry"] \in Message
    BY <1>1, <2>2, CurrentCopy DEF Settled, RetriesLeft, Message, Place
  <2> QED
    BY <1>1, <2>2, <2>3, AppendedLog DEF StaysAt, TypeOK
<1> QED
  BY <1>1, <1>4, <1>5, <1>6, <1>7, <1>8
  DEF HandlerStep, Apply, Mark, Throw, AckRetry, Release, StaysAt

\* Whatever fails, the check for a duplicate in flight is the only step that can
\* lose an update: processes that stop, locks that expire or stay, republications and
\* dead letters that fail included.
THEOREM OnlyTheLockLoses == Spec => LossOnlyThroughLock
<1>1. Init => CopyInv /\ ProcessedInv
  BY DEF Init, CopyInv, HeldInv, ProcessedInv, ProcessedWasApplied, Settled
<1>2. TypeOK /\ CopyInv /\ ProcessedInv /\ [Next]_vars => CopyInv' /\ ProcessedInv'
  BY CopyStep, ProcessedStep
<1>3. TypeOK /\ CopyInv /\ ProcessedInv /\ [Next]_vars =>
        [\A h \in Handlers :
            LET c == Body(h)
            IN (/\ pc[h] \notin {"idle", "ackRetry"}
                /\ log[cur[h]].at = "handling" /\ log'[cur[h]].at = "gone"
                /\ c \notin applied'
                /\ ~\E j \in DOMAIN log' : log'[j].content = c /\ Tracked(j)')
               => c \in locks]_vars
  BY Dropped
<1> QED
  BY <1>1, <1>2, <1>3, TypeCorrect, PTL DEF Spec, LossOnlyThroughLock

HIDE SyncAssumption

-----------------------------------------------------------------------------
(***************************************************************************)
(* Proofs about PlatformEdits, which shares no state with ServiceSync: the *)
(* two promises of EditPromises, for any bookings, clients and requests.   *)
(***************************************************************************)
CONSTANTS Requests, Clients, EventIds, GroupIds, Initially, New, Scenes

VARIABLES writes, read, plan, touched

Edits == INSTANCE PlatformEdits

Ids(f) == DOMAIN f

\* Ids that r gives to new rows
Mine(r, x) == (\E i : x = <<r, i>>) \/ (\E i, y : x = <<<<r, i>>, y>>)

\* No row has the id of a new one, and no request that of a booking.
IdsAreNew ==
    /\ \A s \in Scenes, r \in Requests : \A x \in Ids(s.rows) : ~Mine(r, x)
    /\ \A r, s \in Requests : ~Mine(s, r)

IsFun(f) == f = [x \in DOMAIN f |-> f[x]]

EventRows(v) == {x \in Ids(v) : v[x].kind = "event"}
GroupRows(v) == {x \in Ids(v) : v[x].kind = "group"}
SeatRows(v) == {x \in Ids(v) : v[x].kind = "seat"}

Fields(row) == DOMAIN row

\* A row of an event or of a seat names a booking.
Shaped(row, groups) ==
    \/ /\ row.kind = "group"
       /\ Fields(row) = {"kind", "start", "end", "cancelled", "life"}
    \/ /\ row.kind = "event" /\ row.group \in groups
       /\ Fields(row) = {"kind", "group", "start", "end", "life"}
    \/ /\ row.kind = "seat" /\ row.group \in groups
       /\ Fields(row) = {"kind", "group", "client", "active", "life"}

IsTable(v, groups) ==
    /\ IsFun(v)
    /\ \A x \in Ids(v) : Shaped(v[x], groups)
    /\ IsFiniteSet(EventRows(v))

TableInv ==
    /\ IsTable(rows, GroupRows(rows))
    /\ EventIds \subseteq EventRows(rows) /\ GroupIds \subseteq GroupRows(rows)

\* What there is of a request
Tx(r) ==
    [w |-> writes[r], stage |-> stage[r], job |-> job[r], read |-> read[r], plan |-> plan[r],
     known |-> known[r], touched |-> touched[r]]

FunsInv ==
    /\ job \in [Requests -> Edits!Job]
    /\ \A r \in Requests : job[r].kind = "edit" => job[r].services # <<>>
    /\ writes = [r \in Requests |-> writes[r]] /\ stage = [r \in Requests |-> stage[r]]
    /\ read = [r \in Requests |-> read[r]] /\ plan = [r \in Requests |-> plan[r]]
    /\ known = [r \in Requests |-> known[r]]
    /\ touched = [r \in Requests |-> touched[r]]

\* Ids are given once, and no two transactions write a row.
IdsInv ==
    \A r \in Requests : stage[r] \notin {"done", "error"} =>
        \A x \in Ids(rows) : ~Mine(r, x)

LocksInv ==
    \A r, s \in Requests : r # s => Ids(writes[r]) \intersect Ids(writes[s]) = {}

\* In the following, R are the committed rows and t is a request.
Seen(R, t) == Edits!Over(t.w, R)

\* The clones it has made
Clones(R, t) == GroupRows(t.w) \ Ids(R)

Many(t) == t.job.kind = "move" /\ t.job.many

\* The bookings that events of the one it read can be in now
Around(t) == {t.read.group} \union t.touched

\* Nobody has changed the booking it read.
Alone(t) == t.read.group \notin t.touched

Stages(t) ==
    CASE t.job.kind = "move" ->
           {"load", "event", "syncRead", "syncWrite", "commit"}
             \union (IF t.job.many THEN {"remain", "bound", "split"} ELSE {})
      [] t.job.kind = "edit" ->
           {"list", "date", "service", "seats", "syncRead", "syncWrite", "commit"}
      [] t.job.kind = "delete" -> {"dropEvent", "findSeats", "dropSeats", "dropGroup", "commit"}
      [] t.job.kind = "join" -> {"join"}
      [] t.job.kind = "cancel" -> {"cancelSeat", "cancelGroup", "commit"}

\* Rows over others of the same kind, and new ones with ids of r
Named(r, R, w) ==
    \A x \in Ids(w) : /\ x \in Ids(R) => w[x].kind = R[x].kind
                      /\ x \notin Ids(R) => Mine(r, x)

WritesOK(r, R, t) == IsTable(t.w, GroupRows(Seen(R, t))) /\ Named(r, R, t.w)

ClonesOK(r, R, t) ==
    \E m \in Nat : /\ Clones(R, t) = {<<r, i>> : i \in 1..m}
                   /\ (m > 0 => Many(t))
                   /\ (Many(t) /\ t.stage # "load" => m > 0)

ReadShape(t) == Fields(t.read) = {"group", "seats", "cancelled", "listed", "window"}

ReadOK(R, t) == t.read.group \in GroupRows(R)

LiveSeats(seats, groups) ==
    \A y \in Ids(seats) : /\ seats[y].kind = "seat" /\ seats[y].life = "live"
                          /\ Shaped(seats[y], groups)

SeatsOK(R, t) == LiveSeats(t.read.seats, GroupRows(R))

\* A move writes the clones, their seats and events that were in the booking.
MoveOK(R, t) ==
    /\ t.job.event \in EventRows(R) /\ R[t.job.event].group \in Around(t)
    /\ \A x \in GroupRows(t.w) \ Clones(R, t) :
         x = t.read.group /\ t.w[x].cancelled = R[x].cancelled
    /\ \A x \in EventRows(t.w) :
         /\ x \in Ids(R) /\ R[x].group \in Around(t)
         /\ t.job.many => t.w[x].group \in Clones(R, t)
         /\ ~t.job.many => x = t.job.event /\ t.w[x].group = R[x].group
    /\ \A x \in SeatRows(t.w) : x \notin Ids(R) /\ t.w[x].group \in Clones(R, t)
    /\ Alone(t) => \A c \in Clones(R, t) : Spanned(t.w, c)
    /\ t.stage = "event" =>
         /\ EventRows(t.w) = {}
         /\ \A c \in Clones(R, t) : t.w[c].start = t.job.start /\ t.w[c].end = t.job.end

IsList(p) == p # << >> /\ p \in Seq({p[i] : i \in Ids(p)})

EditOK(R, t) ==
    /\ t.read.group = t.job.group
    /\ GroupRows(t.w) \subseteq {t.read.group}
    /\ \A x \in EventRows(t.w) :
         \/ t.w[x].group = t.read.group
         \/ x \in Ids(R) /\ t.w[x].group = R[x].group
    /\ t.stage = "date" => t.read.listed \subseteq EventRows(R) \union EventRows(t.w)
    /\ t.stage \in {"list", "date", "service"} =>
         /\ IsList(t.plan)
         /\ \A i \in Ids(t.plan) : t.plan[i].event \in EventIds \union {New}

CancelOK(R, t) ==
    /\ EventRows(t.w) = {}
    /\ t.stage = "cancelSeat" => Ids(t.read.seats) \subseteq SeatRows(R)
    /\ \A x \in GroupRows(t.w) :
         /\ x \in Ids(R) /\ t.w[x].start = R[x].start
         /\ t.w[x].end = R[x].end /\ t.w[x].life = R[x].life

\* The segments yet to be split off
PlanOK(R, t) ==
    /\ IsList(t.plan)
    /\ \A i \in Ids(t.plan) :
         /\ \A x \in t.plan[i].events :
              x \in EventRows(R) /\ R[x].group \in Around(t) /\ x \notin Ids(t.w)
         /\ \A j \in Ids(t.plan) :
              i # j => t.plan[i].events \intersect t.plan[j].events = {}
         /\ Alone(t) =>
              /\ \A x \in t.plan[i].events :
                   R[x].group = t.read.group /\ R[x].life = "live"
              /\ t.plan[i].start = Span(R, t.plan[i].events).start
              /\ t.plan[i].end = Span(R, t.plan[i].events).end

\* What it has read for the window, and the window that it writes
SyncOK(R, t) ==
    LET es == EventsOf(Seen(R, t), t.read.group)
    IN  /\ t.stage = "syncWrite" /\ Alone(t) =>
             es # {} /\ t.read.window = Span(Seen(R, t), es)
        /\ t.stage = "commit" /\ t.job.kind \in {"move", "edit"} /\ Alone(t) =>
             Spanned(Seen(R, t), t.read.group)

\* Who attends according to what a move read
Attended(t) ==
    IF t.read.cancelled THEN {}
    ELSE {t.read.seats[y].client : y \in {z \in Ids(t.read.seats) : t.read.seats[z].active}}

\* The clones of a booking that was read, and of the seats in it
ClonesAre(R, t, context) ==
    \A c \in Clones(R, t) :
       /\ t.w[c].cancelled = context.cancelled
       /\ {x \in SeatRows(t.w) : t.w[x].group = c} = {<<c, y>> : y \in Ids(context.seats)}
       /\ \A y \in Ids(context.seats) : t.w[<<c, y>>] = [context.seats[y] EXCEPT !.group = c]

KnownOK(R, t) ==
    (\A e \in Ids(t.known) : t.known[e] = Attended(t)) /\ ClonesAre(R, t, t.read)

Begun(t) == t.stage \notin {"start", "done", "error"}

TxOK(r, R, t) ==
    /\ ReadShape(t)
    /\ ~Begun(t) => t.w = << >>
    /\ Begun(t) =>
         /\ t.stage \in Stages(t)
         /\ t.stage \in {"load", "join"} => Ids(t.w) = {}
         /\ WritesOK(r, R, t) /\ ClonesOK(r, R, t) /\ ReadOK(R, t) /\ SyncOK(R, t)
         /\ t.job.kind = "move" => MoveOK(R, t)
         /\ t.job.kind = "move" /\ t.stage # "load" => SeatsOK(R, t) /\ KnownOK(R, t)
         /\ t.job.kind = "edit" => EditOK(R, t)
         /\ t.job.kind = "cancel" => CancelOK(R, t)
         /\ t.stage \in {"bound", "split"} => PlanOK(R, t)

\* What makes WindowsFollowEvents inductive: the windows that open transactions
\* are about to commit, the clones they have made, and who owns which row
EditsInv ==
    /\ FunsInv /\ TableInv /\ IdsInv /\ LocksInv /\ WindowsFollowEvents
    /\ \A r \in Requests : TxOK(r, rows, Tx(r))

-----------------------------------------------------------------------------
\* PlatformEdits' notions of sets and windows are those of this module.
LEMMA SameNotions ==
    /\ \A S : Edits!Cardinality(S) = Cardinality(S)
    /\ \A v, k : Edits!Live(v, k) = Live(v, k)
    /\ \A v, g : Edits!EventsOf(v, g) = EventsOf(v, g)
    /\ \A v, es : Edits!Span(v, es) = Span(v, es)
    /\ \A v, g : Edits!Spanned(v, g) = Spanned(v, g)
    /\ \A v, g : Edits!SeatsOf(v, g) = SeatsOf(v, g)
    /\ \A v, e : Edits!Attending(v, e) = Attending(v, e)
<1>1. \A S : Edits!Cardinality(S) = Cardinality(S)
  BY DEF Edits!Cardinality, Cardinality
<1>2. /\ \A v, k : Edits!Live(v, k) = Live(v, k)
      /\ \A v, g : Edits!EventsOf(v, g) = EventsOf(v, g)
  BY DEF Edits!EventsOf, EventsOf, Edits!Live, Live
<1>3. ASSUME NEW v, NEW es PROVE Edits!Span(v, es) = Span(v, es)
  BY DEF Edits!Span, Span, Edits!Min, Min, Edits!Max, Max
<1>4. ASSUME NEW v, NEW g PROVE Edits!Spanned(v, g) = Spanned(v, g)
  BY DEF Edits!Spanned, Spanned, Edits!Span, Span, Edits!EventsOf, EventsOf, Edits!Live,
         Live, Edits!Min, Min, Edits!Max, Max
<1>5. /\ \A v, g : Edits!SeatsOf(v, g) = SeatsOf(v, g)
      /\ \A v, e : Edits!Attending(v, e) = Attending(v, e)
  BY DEF Edits!Attending, Attending, Edits!SeatsOf, SeatsOf, Edits!Live, Live
<1> QED
  BY <1>1, <1>2, <1>3, <1>4, <1>5

\* Rows that are written in full, and rows of which some fields are
LEMMA NewRows ==
    ASSUME NEW g, NEW s, NEW n, NEW c, NEW l, NEW groups, NEW row
    PROVE  /\ row = [kind |-> "group", start |-> s, end |-> n, cancelled |-> c, life |-> l]
                => Shaped(row, groups)
           /\ row = [kind |-> "event", group |-> g, start |-> s, end |-> n, life |-> l]
                => (g \in groups => Shaped(row, groups))
           /\ row = [kind |-> "seat", group |-> g, client |-> s, active |-> n, life |-> l]
                => (g \in groups => Shaped(row, groups))
  BY DEF Shaped, Fields

LEMMA Regrouped ==
    ASSUME NEW row, NEW new, NEW g, NEW G, NEW groups, Shaped(row, G), row.kind # "group",
           new = [row EXCEPT !.group = g], g \in groups
    PROVE  /\ new.kind = row.kind /\ new.group = g /\ new.life = row.life
           /\ new.kind = "event" => new.start = row.start /\ new.end = row.end
           /\ new.kind = "seat" => new.client = row.client /\ new.active = row.active
           /\ Shaped(new, groups)
<1>1. CASE row.kind = "event" /\ Fields(row) = {"kind", "group", "start", "end", "life"}
  <2>1. /\ new.kind = row.kind /\ new.group = g /\ new.life = row.life
        /\ new.start = row.start /\ new.end = row.end
        /\ Fields(new) = Fields(row)
    BY <1>1 DEF Fields
  <2> QED
    BY <1>1, <2>1 DEF Shaped
<1>2. CASE row.kind = "seat" /\ Fields(row) = {"kind", "group", "client", "active", "life"}
  <2>1. /\ new.kind = row.kind /\ new.group = g /\ new.life = row.life
        /\ new.client = row.client /\ new.active = row.active
        /\ Fields(new) = Fields(row)
    BY <1>2 DEF Fields
  <2> QED
    BY <1>2, <2>1 DEF Shaped
<1> QED
  BY <1>1, <1>2 DEF Shaped

LEMMA OverFacts ==
    ASSUME NEW f, NEW g
    PROVE  /\ IsFun(Edits!Over(f, g))
           /\ Ids(Edits!Over(f, g)) = Ids(f) \union Ids(g)
           /\ \A x \in Ids(f) : Edits!Over(f, g)[x] = f[x]
           /\ \A x \in Ids(g) : x \notin Ids(f) => Edits!Over(f, g)[x] = g[x]
  BY DEF Edits!Over, IsFun, Ids

LEMMA OneFacts ==
    ASSUME NEW x, NEW row
    PROVE  /\ IsFun(Edits!One(x, row))
           /\ Ids(Edits!One(x, row)) = {x} /\ Edits!One(x, row)[x] = row
  BY DEF Edits!One, IsFun, Ids

LEMMA TableOfOne ==
    ASSUME NEW x, NEW row, NEW groups, Shaped(row, groups)
    PROVE  IsTable(Edits!One(x, row), groups)
<1>1. EventRows(Edits!One(x, row)) \subseteq {x}
  BY OneFacts DEF EventRows
<1> QED
  <2>1. IsFiniteSet(EventRows(Edits!One(x, row)))
    BY <1>1, FS_Singleton, FS_Subset
  <2> QED
    BY <2>1, OneFacts DEF IsTable

LEMMA TableGrows ==
    ASSUME NEW f, NEW G, NEW H, IsTable(f, G), G \subseteq H
    PROVE  IsTable(f, H)
<1>1. \A x \in Ids(f) : Shaped(f[x], H)
  BY DEF IsTable, Shaped
<1> QED
  BY <1>1 DEF IsTable

LEMMA TableOver ==
    ASSUME NEW f, NEW g, NEW G, IsTable(f, G), IsTable(g, G)
    PROVE  IsTable(Edits!Over(f, g), G)
<1>1. PICK o : o = Edits!Over(f, g)
  OBVIOUS
<1>2. /\ IsFun(o)
      /\ Ids(o) = Ids(f) \union Ids(g)
      /\ \A x \in Ids(f) : o[x] = f[x]
      /\ \A x \in Ids(g) : x \notin Ids(f) => o[x] = g[x]
  BY <1>1, OverFacts
<1>3. EventRows(o) \subseteq EventRows(f) \union EventRows(g)
  BY <1>2 DEF EventRows
<1>4. IsFiniteSet(EventRows(o))
  BY <1>3, FS_Union, FS_Subset DEF IsTable
<1>5. \A x \in Ids(o) : Shaped(o[x], G)
  BY <1>2 DEF IsTable
<1> QED
  BY <1>1, <1>2, <1>4, <1>5 DEF IsTable

\* A table with other rows for some of its ids
LEMMA TablePart ==
    ASSUME NEW f, NEW v, NEW G, IsTable(v, G),
           IsFun(f), Ids(f) \subseteq Ids(v),
           \A x \in Ids(f) : Shaped(f[x], G) /\ f[x].kind = v[x].kind
    PROVE  IsTable(f, G)
<1>1. EventRows(f) \subseteq EventRows(v)
  BY DEF EventRows
<1> QED
  BY <1>1, FS_Subset DEF IsTable

LEMMA NoRows ==
    ASSUME NEW G
    PROVE  /\ Ids(<< >>) = {} /\ IsTable(<< >>, G)
           /\ \A f : IsFun(f) => Edits!Over(<< >>, f) = f
<1>1. Ids(<< >>) = {} /\ IsFun(<< >>)
  BY DEF IsFun, Ids
<1>2. EventRows(<< >>) = {}
  BY <1>1 DEF EventRows
<1>3. IsTable(<< >>, G)
  BY <1>1, <1>2, FS_EmptySet DEF IsTable
<1>4. ASSUME NEW f, IsFun(f) PROVE Edits!Over(<< >>, f) = f
  BY <1>1, <1>4 DEF Edits!Over, IsFun, Ids
<1> QED
  BY <1>1, <1>3, <1>4

\* What a transaction sees is a table, and keeps the kinds of the rows.
LEMMA SeenFacts ==
    ASSUME NEW r, NEW R, NEW t, IsTable(R, GroupRows(R)), WritesOK(r, R, t)
    PROVE  /\ IsTable(Seen(R, t), GroupRows(Seen(R, t))) /\ IsFun(Seen(R, t))
           /\ Ids(Seen(R, t)) = Ids(t.w) \union Ids(R)
           /\ \A x \in Ids(t.w) : Seen(R, t)[x] = t.w[x]
           /\ \A x \in Ids(R) : x \notin Ids(t.w) => Seen(R, t)[x] = R[x]
           /\ \A x \in Ids(R) : Seen(R, t)[x].kind = R[x].kind
           /\ GroupRows(Seen(R, t)) = GroupRows(R) \union Clones(R, t)
<1>1. PICK v : v = Seen(R, t)
  OBVIOUS
<1>2. /\ IsFun(v)
      /\ Ids(v) = Ids(t.w) \union Ids(R)
      /\ \A x \in Ids(t.w) : v[x] = t.w[x]
      /\ \A x \in Ids(R) : x \notin Ids(t.w) => v[x] = R[x]
  BY <1>1, OverFacts DEF Seen
<1>3. \A x \in Ids(R) : v[x].kind = R[x].kind
  BY <1>2 DEF WritesOK, Named
<1>4. GroupRows(v) = GroupRows(R) \union Clones(R, t)
  BY <1>2, <1>3 DEF GroupRows, Clones
<1>5. IsTable(R, GroupRows(v)) /\ IsTable(t.w, GroupRows(v))
  BY <1>1, <1>4, TableGrows DEF WritesOK
<1>6. IsTable(v, GroupRows(v))
  BY <1>1, <1>5, TableOver DEF Seen
<1> QED
  BY <1>1, <1>2, <1>3, <1>4, <1>6

Writes(t, t2, new) == t2.w = Edits!Over(new, t.w)

Adds(t, t2, new) ==
    /\ Ids(t2.w) = Ids(new) \union Ids(t.w)
    /\ \A x \in Ids(new) : t2.w[x] = new[x]
    /\ \A x \in Ids(t.w) : x \notin Ids(new) => t2.w[x] = t.w[x]

\* Rows that a transaction writes over its view
Fit(r, R, t, new) ==
    /\ IsTable(new, GroupRows(Seen(R, t)) \union GroupRows(new))
    /\ Named(r, R, new)
    /\ Clones(R, t) \intersect Ids(new) \subseteq GroupRows(new)

LEMMA Written ==
    ASSUME NEW r, NEW R, NEW t, NEW t2, NEW new,
           IsTable(R, GroupRows(R)), WritesOK(r, R, t), Fit(r, R, t, new),
           Writes(t, t2, new)
    PROVE  /\ WritesOK(r, R, t2) /\ Adds(t, t2, new)
           /\ Clones(R, t2) = Clones(R, t) \union (GroupRows(new) \ Ids(R))
<1>1. /\ IsFun(t2.w)
      /\ Ids(t2.w) = Ids(new) \union Ids(t.w)
      /\ \A x \in Ids(new) : t2.w[x] = new[x]
      /\ \A x \in Ids(t.w) : x \notin Ids(new) => t2.w[x] = t.w[x]
  BY OverFacts DEF Writes
<1>2. Named(r, R, t2.w)
  <2>1. Named(r, R, new) /\ Named(r, R, t.w)
    BY DEF Fit, WritesOK
  <2> QED
    BY <1>1, <2>1 DEF Named
<1>3. Clones(R, t2) = Clones(R, t) \union (GroupRows(new) \ Ids(R))
  BY <1>1 DEF Clones, GroupRows, Fit
<1>4. PICK v, v2 : v = Seen(R, t) /\ v2 = Seen(R, t2)
  OBVIOUS
<1>5. /\ Ids(v2) = Ids(t2.w) \union Ids(R)
      /\ \A x \in Ids(t2.w) : v2[x] = t2.w[x]
      /\ \A x \in Ids(R) : x \notin Ids(t2.w) => v2[x] = R[x]
  BY <1>4, OverFacts DEF Seen
<1>6. GroupRows(v) = GroupRows(R) \union Clones(R, t)
  BY <1>4, SeenFacts
<1>7. GroupRows(v) \union GroupRows(new) \subseteq GroupRows(v2)
  <2>1. GroupRows(R) \subseteq GroupRows(v2)
    BY <1>2, <1>5 DEF GroupRows, Named
  <2>2. Clones(R, t) \union GroupRows(new) \subseteq GroupRows(v2)
    BY <1>1, <1>5 DEF GroupRows, Clones, Fit
  <2> QED
    BY <1>6, <2>1, <2>2
<1>8. IsTable(new, GroupRows(v2)) /\ IsTable(t.w, GroupRows(v2))
  BY <1>4, <1>7, TableGrows DEF WritesOK, Fit
<1>9. IsTable(t2.w, GroupRows(v2))
  BY <1>8, TableOver DEF Writes
<1> QED
  BY <1>1, <1>2, <1>3, <1>4, <1>9 DEF WritesOK, Adds

-----------------------------------------------------------------------------
\* Windows

LEMMA EventsAre ==
    ASSUME NEW v, NEW g
    PROVE  EventsOf(v, g) = {x \in EventRows(v) : v[x].life = "live" /\ v[x].group = g}
  BY DEF EventsOf, Live, EventRows, Ids

LEMMA SameSpan ==
    ASSUME NEW v, NEW w, NEW es,
           \A e \in es : v[e].start = w[e].start /\ v[e].end = w[e].end
    PROVE  Span(v, es) = Span(w, es)
<1>1. /\ {v[e].start : e \in es} = {w[e].start : e \in es}
      /\ {v[e].end : e \in es} = {w[e].end : e \in es}
  OBVIOUS
<1> QED
  BY <1>1 DEF Span

\* Two views of a booking in which its events and its window agree
LEMMA SameWindow ==
    ASSUME NEW v, NEW w, NEW g,
           \A x \in EventRows(v) : v[x].group = g => x \in EventRows(w) /\ w[x] = v[x],
           \A x \in EventRows(w) : w[x].group = g => x \in EventRows(v) /\ w[x] = v[x]
    PROVE  /\ EventsOf(w, g) = EventsOf(v, g)
           /\ Span(w, EventsOf(w, g)) = Span(v, EventsOf(v, g))
           /\ v[g].start = w[g].start /\ v[g].end = w[g].end =>
                (Spanned(w, g) <=> Spanned(v, g))
<1>1. EventsOf(w, g) = EventsOf(v, g)
  BY EventsAre
<1>2. \A e \in EventsOf(v, g) : v[e].start = w[e].start /\ v[e].end = w[e].end
  BY EventsAre
<1>3. Span(w, EventsOf(v, g)) = Span(v, EventsOf(v, g))
  BY <1>2, SameSpan
<1> QED
  BY <1>1, <1>3 DEF Spanned

-----------------------------------------------------------------------------
\* What others write: the rows W, which change the bookings C

Apart(R, t, W, C) ==
    /\ IsTable(Edits!Over(W, R), GroupRows(Edits!Over(W, R)))
    /\ Ids(W) \intersect Ids(t.w) = {}
    /\ \A x \in Ids(W) : x \in Ids(R) => W[x].kind = R[x].kind
    /\ \A x \in EventRows(W) : W[x].group \in C /\ (x \in Ids(R) => R[x].group \in C)
    /\ \A x \in GroupRows(W) : x \in Ids(R) =>
         x \in C \/ (W[x].start = R[x].start /\ W[x].end = R[x].end)

SameTx(t, t2, C) ==
    /\ t2.w = t.w /\ t2.stage = t.stage /\ t2.job = t.job /\ t2.read = t.read
    /\ t2.plan = t.plan /\ t2.known = t.known
    /\ Begun(t) => t2.touched = t.touched \union C

LEMMA OtherRows ==
    ASSUME NEW R, NEW t, NEW W, NEW C, Apart(R, t, W, C)
    PROVE  /\ Ids(Edits!Over(W, R)) = Ids(W) \union Ids(R)
           /\ \A x \in Ids(W) : Edits!Over(W, R)[x] = W[x]
           /\ \A x \in Ids(R) : x \notin Ids(W) => Edits!Over(W, R)[x] = R[x]
           /\ \A x \in Ids(R) : Edits!Over(W, R)[x].kind = R[x].kind
           /\ GroupRows(R) \subseteq GroupRows(Edits!Over(W, R))
           /\ EventRows(R) \subseteq EventRows(Edits!Over(W, R))
           /\ SeatRows(R) \subseteq SeatRows(Edits!Over(W, R))
           /\ \A x \in EventRows(R) : \/ Edits!Over(W, R)[x] = R[x]
                                      \/ R[x].group \in C /\ Edits!Over(W, R)[x].group \in C
<1>1. PICK o : o = Edits!Over(W, R)
  OBVIOUS
<1>2. /\ Ids(o) = Ids(W) \union Ids(R)
      /\ \A x \in Ids(W) : o[x] = W[x]
      /\ \A x \in Ids(R) : x \notin Ids(W) => o[x] = R[x]
  BY <1>1, OverFacts
<1>3. \A x \in Ids(R) : o[x].kind = R[x].kind
  BY <1>2 DEF Apart
<1>4. /\ GroupRows(R) \subseteq GroupRows(o) /\ EventRows(R) \subseteq EventRows(o)
      /\ SeatRows(R) \subseteq SeatRows(o)
  BY <1>2, <1>3 DEF GroupRows, EventRows, SeatRows
<1>5. ASSUME NEW x \in EventRows(R), x \in Ids(W)
      PROVE  R[x].group \in C /\ o[x].group \in C
  <2>1. x \in EventRows(W)
    BY <1>5 DEF Apart, EventRows
  <2> QED
    BY <1>2, <1>5, <2>1 DEF Apart, EventRows
<1>6. \A x \in EventRows(R) : o[x] = R[x] \/ (R[x].group \in C /\ o[x].group \in C)
  BY <1>2, <1>5 DEF EventRows
<1> QED
  BY <1>1, <1>2, <1>3, <1>4, <1>6

LEMMA OtherWrites ==
    ASSUME NEW r, NEW R, NEW t, NEW t2, NEW W, NEW C, Apart(R, t, W, C), SameTx(t, t2, C),
           IsTable(R, GroupRows(R)), WritesOK(r, R, t)
    PROVE  /\ WritesOK(r, Edits!Over(W, R), t2)
           /\ Clones(Edits!Over(W, R), t2) = Clones(R, t)
<1>1. PICK o : o = Edits!Over(W, R)
  OBVIOUS
<1>2. /\ Ids(o) = Ids(W) \union Ids(R)
      /\ \A x \in Ids(R) : o[x].kind = R[x].kind
      /\ GroupRows(R) \subseteq GroupRows(o)
  BY <1>1, OtherRows
<1>3. \A x \in Ids(t.w) : x \in Ids(o) <=> x \in Ids(R)
  BY <1>2 DEF Apart
<1>4. \A x \in Ids(t2.w) : /\ x \in Ids(o) => t2.w[x].kind = o[x].kind
                           /\ x \notin Ids(o) => Mine(r, x)
  BY <1>2, <1>3 DEF WritesOK, Named, SameTx
<1>5. Clones(o, t2) = Clones(R, t)
  BY <1>3 DEF Clones, GroupRows, SameTx
<1>6. PICK v, v2 : v = Seen(R, t) /\ v2 = Seen(o, t2)
  OBVIOUS
<1>7. GroupRows(v) = GroupRows(R) \union Clones(R, t)
  BY <1>6, SeenFacts
<1>8. /\ Ids(v2) = Ids(t.w) \union Ids(o)
      /\ \A x \in Ids(t.w) : v2[x] = t.w[x]
      /\ \A x \in Ids(o) : x \notin Ids(t.w) => v2[x] = o[x]
  BY <1>6, OverFacts DEF Seen, SameTx
<1>9. GroupRows(v) \subseteq GroupRows(v2)
  <2>1. GroupRows(R) \subseteq GroupRows(v2)
    BY <1>2, <1>8 DEF GroupRows, WritesOK, Named
  <2>2. Clones(R, t) \subseteq GroupRows(v2)
    BY <1>8 DEF GroupRows, Clones
  <2> QED
    BY <1>7, <2>1, <2>2
<1>10. IsTable(t2.w, GroupRows(v2))
  BY <1>6, <1>9, TableGrows DEF WritesOK, Named, SameTx
<1> QED
  BY <1>1, <1>4, <1>5, <1>6, <1>10 DEF WritesOK, Named

LEMMA OtherWindow ==
    ASSUME NEW r, NEW R, NEW t, NEW t2, NEW W, NEW C, NEW g \in GroupRows(R), g \notin C,
           Apart(R, t, W, C), t2.w = t.w, IsTable(R, GroupRows(R)), WritesOK(r, R, t)
    PROVE  LET v == Seen(R, t)
               w == Seen(Edits!Over(W, R), t2)
           IN  /\ EventsOf(w, g) = EventsOf(v, g)
               /\ Span(w, EventsOf(w, g)) = Span(v, EventsOf(v, g))
               /\ Spanned(w, g) <=> Spanned(v, g)
<1>1. PICK o : o = Edits!Over(W, R)
  OBVIOUS
<1>2. PICK v, w : v = Seen(R, t) /\ w = Seen(o, t2)
  OBVIOUS
<1>3. /\ Ids(o) = Ids(W) \union Ids(R)
      /\ \A x \in Ids(W) : o[x] = W[x]
      /\ \A x \in Ids(R) : x \notin Ids(W) => o[x] = R[x]
      /\ \A x \in Ids(R) : o[x].kind = R[x].kind
      /\ \A x \in EventRows(R) : o[x] = R[x] \/ (R[x].group \in C /\ o[x].group \in C)
  BY <1>1, OtherRows
<1>4. /\ Ids(v) = Ids(t.w) \union Ids(R)
      /\ \A x \in Ids(t.w) : v[x] = t.w[x]
      /\ \A x \in Ids(R) : x \notin Ids(t.w) => v[x] = R[x]
  BY <1>2, OverFacts DEF Seen
<1>5. /\ Ids(w) = Ids(t.w) \union Ids(o)
      /\ \A x \in Ids(t.w) : w[x] = t.w[x]
      /\ \A x \in Ids(o) : x \notin Ids(t.w) => w[x] = o[x]
  BY <1>2, OverFacts DEF Seen
<1>6. ASSUME NEW x \in EventRows(v), v[x].group = g
      PROVE  x \in EventRows(w) /\ w[x] = v[x]
  <2>1. CASE x \in Ids(t.w)
    BY <1>4, <1>5, <1>6, <2>1 DEF EventRows
  <2>2. CASE x \notin Ids(t.w)
    <3>1. x \in EventRows(R) /\ v[x] = R[x]
      BY <1>4, <1>6, <2>2 DEF EventRows
    <3>2. o[x] = R[x]
      BY <1>3, <1>6, <3>1
    <3> QED
      BY <1>3, <1>5, <2>2, <3>1, <3>2 DEF EventRows
  <2> QED
    BY <2>1, <2>2
<1>7. ASSUME NEW x \in EventRows(w), w[x].group = g
      PROVE  x \in EventRows(v) /\ w[x] = v[x]
  <2>1. CASE x \in Ids(t.w)
    BY <1>4, <1>5, <1>7, <2>1 DEF EventRows
  <2>2. CASE x \notin Ids(t.w)
    <3>1. x \in Ids(o) /\ w[x] = o[x] /\ o[x].kind = "event"
      BY <1>5, <1>7, <2>2 DEF EventRows
    <3>2. x \notin Ids(W)
      <4>1. x \in Ids(W) => x \in EventRows(W) /\ W[x].group = g
        BY <1>3, <1>7, <3>1 DEF EventRows
      <4> QED
        BY <4>1 DEF Apart
    <3> QED
      BY <1>3, <1>4, <2>2, <3>1, <3>2 DEF EventRows
  <2> QED
    BY <2>1, <2>2
<1>8. v[g].start = w[g].start /\ v[g].end = w[g].end
  <2>1. g \in Ids(R) /\ R[g].kind = "group"
    BY DEF GroupRows
  <2>2. CASE g \in Ids(t.w)
    BY <1>4, <1>5, <2>2
  <2>3. CASE g \notin Ids(t.w) /\ g \notin Ids(W)
    BY <1>3, <1>4, <1>5, <2>1, <2>3
  <2>4. CASE g \notin Ids(t.w) /\ g \in Ids(W)
    <3>1. g \in GroupRows(W)
      BY <2>1, <2>4 DEF Apart, GroupRows
    <3>2. W[g].start = R[g].start /\ W[g].end = R[g].end
      BY <2>1, <3>1 DEF Apart
    <3> QED
      BY <1>3, <1>4, <1>5, <2>1, <2>4, <3>2
  <2> QED
    BY <2>2, <2>3, <2>4
<1>9. /\ EventsOf(w, g) = EventsOf(v, g)
      /\ Span(w, EventsOf(w, g)) = Span(v, EventsOf(v, g))
      /\ Spanned(w, g) <=> Spanned(v, g)
  <2>1. /\ \A x \in EventRows(v) : v[x].group = g => x \in EventRows(w) /\ w[x] = v[x]
        /\ \A x \in EventRows(w) : w[x].group = g => x \in EventRows(v) /\ w[x] = v[x]
    BY <1>6, <1>7
  <2> QED
    BY <1>8, <2>1, SameWindow
<1> QED
  BY <1>1, <1>2, <1>9

LEMMA OtherParts ==
    ASSUME NEW r, NEW R, NEW t, NEW t2, NEW W, NEW C, Apart(R, t, W, C), SameTx(t, t2, C),
           IsTable(R, GroupRows(R)), Begun(t), TxOK(r, R, t)
    PROVE  LET o == Edits!Over(W, R)
           IN  /\ ClonesOK(r, o, t2) /\ ReadOK(o, t2) /\ SyncOK(o, t2)
               /\ t.job.kind = "move" => MoveOK(o, t2)
               /\ t.job.kind = "edit" => EditOK(o, t2)
               /\ t.job.kind = "cancel" => CancelOK(o, t2)
               /\ t.job.kind = "move" /\ t.stage # "load" => SeatsOK(o, t2) /\ KnownOK(o, t2)
               /\ t.stage \in {"bound", "split"} => PlanOK(o, t2)
<1>1. PICK o : o = Edits!Over(W, R)
  OBVIOUS
<1>2. /\ Ids(o) = Ids(W) \union Ids(R)
      /\ \A x \in Ids(W) : o[x] = W[x]
      /\ \A x \in Ids(R) : x \notin Ids(W) => o[x] = R[x]
      /\ \A x \in Ids(R) : o[x].kind = R[x].kind
      /\ GroupRows(R) \subseteq GroupRows(o) /\ EventRows(R) \subseteq EventRows(o)
      /\ SeatRows(R) \subseteq SeatRows(o)
      /\ \A x \in EventRows(R) : o[x] = R[x] \/ (R[x].group \in C /\ o[x].group \in C)
  BY <1>1, OtherRows
<1>3. /\ WritesOK(r, R, t) /\ ClonesOK(r, R, t) /\ ReadOK(R, t) /\ SyncOK(R, t)
      /\ t.job.kind = "move" => MoveOK(R, t)
      /\ t.job.kind = "edit" => EditOK(R, t)
      /\ t.job.kind = "cancel" => CancelOK(R, t)
      /\ t.job.kind = "move" /\ t.stage # "load" => SeatsOK(R, t) /\ KnownOK(R, t)
      /\ t.stage \in {"bound", "split"} => PlanOK(R, t)
  BY DEF TxOK
<1>4. Clones(o, t2) = Clones(R, t)
  BY <1>1, <1>3, OtherWrites
<1>5. /\ t2.w = t.w /\ t2.stage = t.stage /\ t2.job = t.job /\ t2.read = t.read
      /\ t2.plan = t.plan /\ t2.known = t.known /\ t2.touched = t.touched \union C
  BY DEF SameTx
<1>6. /\ Around(t2) = Around(t) \union C
      /\ Alone(t2) => Alone(t) /\ t.read.group \notin C
  BY <1>5 DEF Around, Alone
<1>7. \A x \in Ids(t.w) : /\ x \in Ids(R) => o[x] = R[x]
                          /\ x \in Ids(o) <=> x \in Ids(R)
  BY <1>2 DEF Apart
<1>8. \A x \in EventRows(R) : R[x].group \in Around(t) => o[x].group \in Around(t2)
  BY <1>2, <1>6
<1>9. ClonesOK(r, o, t2)
  BY <1>3, <1>4, <1>5 DEF ClonesOK, Many
<1>10. ReadOK(o, t2)
  BY <1>2, <1>3, <1>5 DEF ReadOK
<1>11. ASSUME t.job.kind = "move" PROVE MoveOK(o, t2)
  <2>1. MoveOK(R, t)
    BY <1>3, <1>11
  <2>2. t2.job.event \in EventRows(o) /\ o[t2.job.event].group \in Around(t2)
    BY <1>2, <1>5, <1>8, <2>1 DEF MoveOK
  <2>3. \A x \in GroupRows(t.w) \ Clones(R, t) :
          x = t.read.group /\ t.w[x].cancelled = o[x].cancelled
    BY <1>7, <2>1 DEF MoveOK, GroupRows, Clones
  <2>4. ASSUME NEW x \in EventRows(t.w)
        PROVE  /\ x \in Ids(o) /\ o[x].group \in Around(t2)
               /\ t.job.many => t.w[x].group \in Clones(R, t)
               /\ ~t.job.many => x = t.job.event /\ t.w[x].group = o[x].group
    BY <1>6, <1>7, <2>1 DEF MoveOK, EventRows
  <2>5. \A x \in SeatRows(t.w) : x \notin Ids(o) /\ t.w[x].group \in Clones(R, t)
    BY <1>7, <2>1 DEF MoveOK, SeatRows
  <2>6. Alone(t2) => \A c \in Clones(R, t) : Spanned(t.w, c)
    BY <1>6, <2>1 DEF MoveOK
  <2> QED
    BY <1>4, <1>5, <2>1, <2>2, <2>3, <2>4, <2>5, <2>6 DEF MoveOK
<1>12. ASSUME t.job.kind = "edit" PROVE EditOK(o, t2)
  <2>1. EditOK(R, t)
    BY <1>3, <1>12
  <2>2. \A x \in EventRows(t.w) :
          t.w[x].group = t.read.group \/ (x \in Ids(o) /\ t.w[x].group = o[x].group)
    BY <1>7, <2>1 DEF EditOK, EventRows
  <2>3. t.stage = "date" => t.read.listed \subseteq EventRows(o) \union EventRows(t.w)
    BY <1>2, <2>1 DEF EditOK
  <2> QED
    BY <1>5, <2>1, <2>2, <2>3 DEF EditOK
<1>13. ASSUME t.job.kind = "cancel" PROVE CancelOK(o, t2)
  <2>1. CancelOK(R, t)
    BY <1>3, <1>13
  <2>2. \A x \in GroupRows(t.w) :
          /\ x \in Ids(o) /\ t.w[x].start = o[x].start
          /\ t.w[x].end = o[x].end /\ t.w[x].life = o[x].life
    BY <1>7, <2>1 DEF CancelOK, GroupRows
  <2> QED
    BY <1>2, <1>5, <2>1, <2>2 DEF CancelOK
<1>14. ASSUME t.job.kind = "move", t.stage # "load" PROVE SeatsOK(o, t2) /\ KnownOK(o, t2)
  <2>1. SeatsOK(R, t) /\ KnownOK(R, t)
    BY <1>3, <1>14
  <2>2. SeatsOK(o, t)
    BY <1>2, <2>1 DEF SeatsOK, LiveSeats, Shaped
  <2>3. Attended(t2) = Attended(t)
    BY <1>5 DEF Attended
  <2> QED
    BY <1>4, <1>5, <2>1, <2>2, <2>3 DEF SeatsOK, KnownOK, ClonesAre
<1>15. ASSUME t.stage \in {"bound", "split"} PROVE PlanOK(o, t2)
  <2>1. PlanOK(R, t)
    BY <1>3, <1>15
  <2>2. ASSUME NEW i \in Ids(t.plan)
        PROVE  /\ \A x \in t.plan[i].events :
                    x \in EventRows(o) /\ o[x].group \in Around(t2) /\ x \notin Ids(t.w)
               /\ Alone(t2) =>
                    /\ \A x \in t.plan[i].events :
                         o[x].group = t.read.group /\ o[x].life = "live"
                    /\ t.plan[i].start = Span(o, t.plan[i].events).start
                    /\ t.plan[i].end = Span(o, t.plan[i].events).end
    <3>1. \A x \in t.plan[i].events :
            x \in EventRows(o) /\ o[x].group \in Around(t2) /\ x \notin Ids(t.w)
      BY <1>2, <1>8, <2>1 DEF PlanOK
    <3>2. ASSUME Alone(t2)
          PROVE  /\ \A x \in t.plan[i].events :
                      o[x].group = t.read.group /\ o[x].life = "live"
                 /\ t.plan[i].start = Span(o, t.plan[i].events).start
                 /\ t.plan[i].end = Span(o, t.plan[i].events).end
      <4>1. Alone(t) /\ t.read.group \notin C
        BY <1>6, <3>2
      <4>2. /\ \A x \in t.plan[i].events :
                 x \in EventRows(R) /\ R[x].group = t.read.group /\ R[x].life = "live"
            /\ t.plan[i].start = Span(R, t.plan[i].events).start
            /\ t.plan[i].end = Span(R, t.plan[i].events).end
        BY <2>1, <4>1 DEF PlanOK
      <4>3. \A x \in t.plan[i].events : o[x] = R[x]
        BY <1>2, <4>1, <4>2
      <4>4. Span(o, t.plan[i].events) = Span(R, t.plan[i].events)
        BY <4>3, SameSpan
      <4> QED
        BY <4>2, <4>3, <4>4
    <3> QED
      BY <3>1, <3>2
  <2> QED
    BY <1>5, <2>1, <2>2 DEF PlanOK
<1>16. SyncOK(o, t2)
  <2>1. PICK g : g = t.read.group
    OBVIOUS
  <2>2. g \in GroupRows(R)
    BY <1>3, <2>1 DEF ReadOK
  <2>3. PICK v, w : v = Seen(R, t) /\ w = Seen(o, t2)
    OBVIOUS
  <2>4. g \notin C => /\ EventsOf(w, g) = EventsOf(v, g)
                      /\ Span(w, EventsOf(w, g)) = Span(v, EventsOf(v, g))
                      /\ Spanned(w, g) <=> Spanned(v, g)
    BY <1>1, <1>3, <1>5, <2>2, <2>3, OtherWindow
  <2> QED
    BY <1>3, <1>5, <1>6, <2>1, <2>3, <2>4 DEF SyncOK
<1> QED
  BY <1>1, <1>9, <1>10, <1>11, <1>12, <1>13, <1>14, <1>15, <1>16

\* What others write leaves a request in order.
LEMMA OtherTx ==
    ASSUME NEW r, NEW R, NEW t, NEW t2, NEW W, NEW C, Apart(R, t, W, C), SameTx(t, t2, C),
           IsTable(R, GroupRows(R)), TxOK(r, R, t)
    PROVE  TxOK(r, Edits!Over(W, R), t2)
<1>1. /\ t2.w = t.w /\ t2.stage = t.stage /\ t2.job = t.job
      /\ Begun(t2) <=> Begun(t)
      /\ Stages(t2) = Stages(t)
      /\ ReadShape(t2) <=> ReadShape(t)
  BY DEF SameTx, Begun, Stages, ReadShape
<1>2. CASE ~Begun(t)
  BY <1>1, <1>2 DEF TxOK
<1>3. CASE Begun(t)
  <2>1. WritesOK(r, Edits!Over(W, R), t2)
    BY <1>3, OtherWrites DEF TxOK
  <2>2. PICK o : o = Edits!Over(W, R)
    OBVIOUS
  <2>3. /\ ClonesOK(r, o, t2) /\ ReadOK(o, t2) /\ SyncOK(o, t2)
        /\ t.job.kind = "move" => MoveOK(o, t2)
        /\ t.job.kind = "edit" => EditOK(o, t2)
        /\ t.job.kind = "cancel" => CancelOK(o, t2)
        /\ t.job.kind = "move" /\ t.stage # "load" => SeatsOK(o, t2) /\ KnownOK(o, t2)
        /\ t.stage \in {"bound", "split"} => PlanOK(o, t2)
    BY <1>3, <2>2, OtherParts
  <2> QED
    BY <1>1, <1>3, <2>1, <2>2, <2>3 DEF TxOK
<1> QED
  BY <1>2, <1>3

-----------------------------------------------------------------------------
\* Steps of one request

Steps(r) ==
    /\ job' = job
    /\ writes' = [writes EXCEPT ![r] = writes'[r]]
    /\ stage' = [stage EXCEPT ![r] = stage'[r]]
    /\ read' = [read EXCEPT ![r] = read'[r]]
    /\ plan' = [plan EXCEPT ![r] = plan'[r]]
    /\ known' = [known EXCEPT ![r] = known'[r]]
    /\ touched' = [touched EXCEPT ![r] = touched'[r]]

LEMMA OthersKeep ==
    ASSUME FunsInv, NEW r \in Requests, Steps(r)
    PROVE  FunsInv' /\ \A s \in Requests : s # r => Tx(s)' = Tx(s)
<1>1. FunsInv'
  BY DEF FunsInv, Steps
<1>2. ASSUME NEW s \in Requests, s # r PROVE Tx(s)' = Tx(s)
  <2>1. /\ writes'[s] = writes[s] /\ stage'[s] = stage[s] /\ read'[s] = read[s] /\ job'[s] = job[s]
        /\ plan'[s] = plan[s] /\ known'[s] = known[s] /\ touched'[s] = touched[s]
    BY <1>2 DEF FunsInv, Steps
  <2> QED
    BY <2>1 DEF Tx
<1> QED
  BY <1>1, <1>2

\* It writes rows that nobody else has written.
Locks(r) ==
    \A x \in Ids(writes'[r]) :
        x \in Ids(writes[r]) \/ \A s \in Requests : s # r => x \notin Ids(writes[s])

\* A step that leaves the committed rows keeps the invariant if it keeps that of
\* its request.
LEMMA OwnStep ==
    ASSUME EditsInv, NEW r \in Requests, Steps(r), Locks(r), rows' = rows, spoilt' = spoilt,
           stage[r] \notin {"done", "error"}, TxOK(r, rows, Tx(r)')
    PROVE  EditsInv'
<1>1. FunsInv' /\ \A s \in Requests : s # r => Tx(s)' = Tx(s)
  BY OthersKeep DEF EditsInv
<1>2. TableInv'
  BY DEF EditsInv, TableInv
<1>3. \A s \in Requests : s # r => stage'[s] = stage[s] /\ writes'[s] = writes[s]
  BY DEF EditsInv, FunsInv, Steps
<1>4. IdsInv'
  BY <1>3 DEF EditsInv, IdsInv
<1>5. LocksInv'
  <2> SUFFICES ASSUME NEW a \in Requests, NEW b \in Requests, a # b,
                      NEW x, x \in Ids(writes'[a]), x \in Ids(writes'[b])
               PROVE  FALSE
    BY DEF LocksInv
  <2>1. \A c, d \in Requests : c # d => Ids(writes[c]) \intersect Ids(writes[d]) = {}
    BY DEF EditsInv, LocksInv
  <2> QED
    BY <1>3, <2>1 DEF Locks
<1>6. WindowsFollowEvents'
  BY DEF EditsInv, WindowsFollowEvents
<1>7. \A s \in Requests : TxOK(s, rows, Tx(s)')
  BY <1>1 DEF EditsInv
<1> QED
  BY <1>1, <1>2, <1>4, <1>5, <1>6, <1>7 DEF EditsInv

LEMMA WriteIs ==
    ASSUME FunsInv, NEW r \in Requests, NEW new, NEW label, Edits!Write(r, new, label)
    PROVE  /\ writes' = [writes EXCEPT ![r] = writes'[r]]
           /\ writes'[r] = Edits!Over(new, writes[r])
           /\ stage' = [stage EXCEPT ![r] = stage'[r]] /\ stage'[r] = label
           /\ Locks(r)
<1>1. /\ writes' = [writes EXCEPT ![r] = Edits!Over(new, writes[r])]
      /\ stage' = [stage EXCEPT ![r] = label]
      /\ \A s \in Requests \ {r} : Ids(writes[s]) \intersect Ids(new) = {}
  BY DEF Edits!Write, Edits!Goto, Edits!Free, Ids
<1>2. writes'[r] = Edits!Over(new, writes[r]) /\ stage'[r] = label
  BY <1>1 DEF FunsInv
<1>3. Locks(r)
  BY <1>1, <1>2, OverFacts DEF Locks
<1> QED
  BY <1>1, <1>2, <1>3

LEMMA ThrowIs ==
    ASSUME EditsInv, NEW r \in Requests, Edits!Throw(r), rows' = rows, spoilt' = spoilt,
           UNCHANGED <<job, read, plan, known, touched>>, stage[r] \notin {"done", "error"}
    PROVE  EditsInv'
<1>1. FunsInv /\ TxOK(r, rows, Tx(r))
  BY DEF EditsInv
<1>2. writes' = [writes EXCEPT ![r] = << >>] /\ stage' = [stage EXCEPT ![r] = "error"]
  BY DEF Edits!Throw, Edits!Goto
<1>3. writes'[r] = << >> /\ stage'[r] = "error"
  BY <1>1, <1>2 DEF FunsInv
<1>4. Steps(r)
  BY <1>1, <1>2, <1>3 DEF FunsInv, Steps
<1>5. Locks(r)
  BY <1>3, NoRows DEF Locks
<1>6. /\ Tx(r)'.w = << >> /\ Tx(r)'.stage = "error" /\ Tx(r)'.read = Tx(r).read
  BY <1>3 DEF Tx
<1>7. TxOK(r, rows, Tx(r)')
  BY <1>1, <1>6 DEF TxOK, Begun, ReadShape
<1> QED
  BY <1>4, <1>5, <1>7, OwnStep

LEMMA JobFacts ==
    ASSUME FunsInv, NEW r \in Requests
    PROVE  /\ job[r].kind \in {"move", "edit", "delete", "join", "cancel"}
           /\ job[r].kind # "edit" => job[r].event \in EventIds
           /\ job[r].kind = "move" => /\ job[r].start \in Nat /\ job[r].end \in Nat
                                      /\ job[r].many \in BOOLEAN
           /\ job[r].kind = "edit" =>
                /\ job[r].group \in GroupIds /\ job[r].services # << >>
                /\ job[r].services \in Seq([event : EventIds \union {New}, duration : Nat])
  BY DEF FunsInv, Edits!Job

\* Before its first statement a transaction sees the committed rows.
LEMMA NothingWritten ==
    ASSUME NEW r, NEW R, NEW t, IsTable(R, GroupRows(R)), t.w = << >>,
           ~Many(t) \/ t.stage = "load"
    PROVE  WritesOK(r, R, t) /\ ClonesOK(r, R, t) /\ Clones(R, t) = {} /\ Seen(R, t) = R
<1>1. Ids(t.w) = {} /\ IsTable(t.w, GroupRows(Seen(R, t)))
  BY NoRows
<1>2. Clones(R, t) = {}
  BY <1>1 DEF Clones, GroupRows
<1>3. {<<r, i>> : i \in 1..0} = {}
  OBVIOUS
<1>4. Seen(R, t) = R
  BY NoRows DEF IsTable, Seen
<1>5. WritesOK(r, R, t)
  BY <1>1 DEF WritesOK, Named
<1>6. ClonesOK(r, R, t)
  <2>1. 0 \in Nat /\ ~(0 > 0)
    OBVIOUS
  <2>2. Clones(R, t) = {<<r, i>> : i \in 1..0}
    BY <1>2, <1>3
  <2> QED
    BY <2>1, <2>2 DEF ClonesOK
<1> QED
  BY <1>2, <1>4, <1>5, <1>6

-----------------------------------------------------------------------------
\* Each step of a request

LEMMA Now ==
    ASSUME EditsInv, NEW r \in Requests
    PROVE  /\ FunsInv /\ IsTable(rows, GroupRows(rows)) /\ TxOK(r, rows, Tx(r))
           /\ EventIds \subseteq EventRows(rows) /\ GroupIds \subseteq GroupRows(rows)
           /\ Edits!View(r) = Seen(rows, Tx(r))
           /\ Tx(r).w = writes[r] /\ Tx(r).stage = stage[r] /\ Tx(r).job = job[r]
           /\ Tx(r).read = read[r] /\ Tx(r).plan = plan[r] /\ Tx(r).known = known[r]
           /\ Tx(r).touched = touched[r]
           /\ Tx(r)'.w = writes'[r] /\ Tx(r)'.stage = stage'[r] /\ Tx(r)'.job = job'[r]
           /\ Tx(r)'.read = read'[r] /\ Tx(r)'.plan = plan'[r] /\ Tx(r)'.known = known'[r]
           /\ Tx(r)'.touched = touched'[r]
<1>1. FunsInv /\ TableInv /\ TxOK(r, rows, Tx(r))
  BY DEF EditsInv
<1>2. Edits!View(r) = Seen(rows, Tx(r))
  BY DEF Edits!View, Seen, Tx
<1> QED
  BY <1>1, <1>2 DEF TableInv, Tx

\* What a step does not mention stays.
LEMMA Stays ==
    ASSUME FunsInv, NEW r \in Requests
    PROVE  /\ writes' = writes => writes' = [writes EXCEPT ![r] = writes'[r]]
           /\ stage' = stage => stage' = [stage EXCEPT ![r] = stage'[r]]
           /\ read' = read => read' = [read EXCEPT ![r] = read'[r]]
           /\ plan' = plan => plan' = [plan EXCEPT ![r] = plan'[r]]
           /\ known' = known => known' = [known EXCEPT ![r] = known'[r]]
           /\ touched' = touched => touched' = [touched EXCEPT ![r] = touched'[r]]
  BY DEF FunsInv

LEMMA GotoIs ==
    ASSUME FunsInv, NEW r \in Requests, NEW label, Edits!Goto(r, label)
    PROVE  stage' = [stage EXCEPT ![r] = stage'[r]] /\ stage'[r] = label
  BY DEF Edits!Goto, FunsInv

\* A request begins.
LEMMA Starts ==
    ASSUME EditsInv, NEW r \in Requests, stage[r] = "start"
    PROVE  /\ Tx(r).w = << >> /\ Ids(Tx(r).w) = {} /\ ReadShape(Tx(r))
           /\ Seen(rows, Tx(r)) = rows
           /\ job[r].kind # "edit" =>
                /\ job[r].event \in EventRows(rows)
                /\ rows[job[r].event].group \in GroupRows(rows)
<1>1. TxOK(r, rows, Tx(r)) /\ Tx(r).stage = "start" /\ IsTable(rows, GroupRows(rows)) /\ FunsInv
  BY Now
<1>2. Tx(r).w = << >> /\ ReadShape(Tx(r))
  BY <1>1 DEF TxOK, Begun
<1>3. Seen(rows, Tx(r)) = rows /\ Ids(Tx(r).w) = {}
  BY <1>1, <1>2, NoRows DEF Seen, IsTable
<1>4. ASSUME job[r].kind # "edit"
      PROVE  /\ job[r].event \in EventRows(rows)
             /\ rows[job[r].event].group \in GroupRows(rows)
  <2>1. job[r].event \in EventRows(rows)
    BY <1>1, <1>4, JobFacts, Now
  <2> QED
    BY <1>1, <2>1 DEF IsTable, EventRows, Shaped
<1> QED
  BY <1>2, <1>3, <1>4

\* It may also end at once.
LEMMA RefusedKeeps ==
    ASSUME EditsInv, NEW r \in Requests, stage[r] = "start", Edits!Goto(r, "error"),
           UNCHANGED <<rows, writes, job, read, plan, known, touched, spoilt>>
    PROVE  EditsInv'
<1>1. /\ FunsInv /\ Tx(r).w = << >> /\ ReadShape(Tx(r))
      /\ stage' = [stage EXCEPT ![r] = stage'[r]] /\ stage'[r] = "error"
  BY Now, Starts, GotoIs
<1>2. Steps(r) /\ Locks(r)
  BY <1>1, Stays DEF Steps, Locks
<1>3. Tx(r)'.w = << >> /\ Tx(r)'.stage = "error" /\ Tx(r)'.read = Tx(r).read
  BY <1>1, Now
<1>4. TxOK(r, rows, Tx(r)')
  BY <1>1, <1>3 DEF TxOK, Begun, ReadShape
<1> QED
  BY <1>2, <1>4, OwnStep

\* Nobody else writes a row with an id of r.
LEMMA NewIdsFree ==
    ASSUME EditsInv, IdsAreNew, NEW r \in Requests, stage[r] \notin {"done", "error"},
           NEW x, Mine(r, x)
    PROVE  x \notin Ids(rows) /\ \A s \in Requests : s # r => x \notin Ids(writes[s])
<1>1. x \notin Ids(rows)
  BY DEF EditsInv, IdsInv
<1>2. ASSUME NEW s \in Requests, s # r, x \in Ids(writes[s]) PROVE FALSE
  <2>1. TxOK(s, rows, Tx(s)) /\ Tx(s).w = writes[s]
    BY Now
  <2>2. CASE Begun(Tx(s))
    <3>1. Mine(s, x)
      BY <1>1, <1>2, <2>1, <2>2 DEF TxOK, WritesOK, Named
    <3>2. (\E i : x = <<s, i>>) \/ (\E i, y : x = <<<<s, i>>, y>>)
      BY <3>1 DEF Mine
    <3>3. (\E i : x = <<r, i>>) \/ (\E i, y : x = <<<<r, i>>, y>>)
      BY DEF Mine
    <3>4. \A i : r # <<s, i>> /\ s # <<r, i>>
      BY DEF IdsAreNew, Mine
    <3> QED
      BY <1>2, <3>2, <3>3, <3>4
  <2>3. CASE ~Begun(Tx(s))
    BY <1>2, <2>1, <2>3, NoRows DEF TxOK
  <2> QED
    BY <2>2, <2>3
<1> QED
  BY <1>1, <1>2

LEMMA LoadEventKeeps ==
    ASSUME EditsInv, NEW r \in Requests, Edits!LoadEvent(r)
    PROVE  EditsInv'
<1>1. /\ stage[r] = "start" /\ job[r].kind = "move"
      /\ UNCHANGED <<rows, writes, job, plan, known, touched, spoilt>>
  BY DEF Edits!LoadEvent, Edits!history
<1> DEFINE t == Tx(r)
           t2 == Tx(r)'
<1>2. /\ FunsInv /\ IsTable(rows, GroupRows(rows)) /\ TxOK(r, rows, t)
      /\ t.w = << >> /\ Ids(t.w) = {} /\ ReadShape(t)
      /\ job[r].event \in EventRows(rows) /\ rows[job[r].event].group \in GroupRows(rows)
  BY <1>1, Now, Starts
<1>3. CASE /\ read' = [read EXCEPT ![r].group = rows[job[r].event].group]
           /\ Edits!Goto(r, "load")
  <2>1. /\ read' = [read EXCEPT ![r] = read'[r]]
        /\ read'[r] = [read[r] EXCEPT !.group = rows[job[r].event].group]
    BY <1>2, <1>3 DEF FunsInv
  <2>2. stage' = [stage EXCEPT ![r] = stage'[r]] /\ stage'[r] = "load"
    BY <1>2, <1>3, GotoIs
  <2>3. Steps(r)
    BY <1>1, <1>2, <2>1, <2>2, Stays DEF Steps
  <2>4. /\ t2.w = t.w /\ t2.stage = "load" /\ t2.job = t.job /\ t2.job.kind = "move"
        /\ t2.read = [t.read EXCEPT !.group = rows[t.job.event].group]
    BY <1>1, <2>1, <2>2, Now
  <2>5. Locks(r)
    BY <1>1 DEF Locks
  <2>6. ReadShape(t2) /\ t2.read.group = rows[t.job.event].group
    BY <1>2, <2>4 DEF ReadShape, Fields
  <2>7. WritesOK(r, rows, t2) /\ ClonesOK(r, rows, t2) /\ Clones(rows, t2) = {}
    BY <1>2, <2>4, NothingWritten
  <2>8. MoveOK(rows, t2)
    <3>1. t2.job.event \in EventRows(rows) /\ rows[t2.job.event].group = t2.read.group
      BY <1>2, <2>4, <2>6, Now
    <3> QED
      BY <1>2, <2>4, <2>7, <3>1 DEF MoveOK, Around, GroupRows, EventRows, SeatRows
  <2>9. TxOK(r, rows, t2)
    BY <1>2, <2>4, <2>6, <2>7, <2>8, Now DEF TxOK, Begun, Stages, SyncOK, ReadOK
  <2> QED
    BY <1>1, <2>3, <2>5, <2>9, OwnStep
<1>4. CASE Edits!Goto(r, "error") /\ read' = read
  BY <1>1, <1>4, RefusedKeeps
<1> QED
  BY <1>3, <1>4 DEF Edits!LoadEvent

\* A clone: a new booking, with no events, and its seats
IsClone(r, new, context, c, window) ==
    /\ IsFun(new) /\ IsTable(new, {c})
    /\ Ids(new) = {c} \union {<<c, y>> : y \in Ids(context.seats)}
    /\ new[c] = [kind |-> "group", start |-> window.start, end |-> window.end,
                 cancelled |-> context.cancelled, life |-> "live"]
    /\ \A y \in Ids(context.seats) :
         new[<<c, y>>] = [context.seats[y] EXCEPT !.group = c] /\ <<c, y>> # c
    /\ GroupRows(new) = {c} /\ EventRows(new) = {}
    /\ SeatRows(new) = {<<c, y>> : y \in Ids(context.seats)}
    /\ \A x \in Ids(new) : Mine(r, x)

LEMMA CloneFacts ==
    ASSUME NEW r \in Requests, IdsAreNew, NEW G, NEW context, NEW i, NEW window, NEW j,
           LiveSeats(context.seats, G),
           NEW c, c = <<r, i>>, NEW new, new = Edits!Clone(j, context, c, window)
    PROVE  IsClone(r, new, context, c, window)
<1>2. PICK one, seats :
        /\ one = Edits!One(c, [kind |-> "group", start |-> window.start, end |-> window.end,
                               cancelled |-> context.cancelled, life |-> "live"])
        /\ seats = [x \in {<<c, y>> : y \in Ids(context.seats)} |->
                      [context.seats[x[2]] EXCEPT !.group = c]]
  OBVIOUS
<1>3. new = Edits!Over(one, seats)
  BY <1>2 DEF Edits!Clone, Ids
<1>4. /\ Ids(one) = {c}
      /\ one[c] = [kind |-> "group", start |-> window.start, end |-> window.end,
                   cancelled |-> context.cancelled, life |-> "live"]
  BY <1>2, OneFacts
<1>5. /\ Ids(seats) = {<<c, y>> : y \in Ids(context.seats)}
      /\ \A y \in Ids(context.seats) : seats[<<c, y>>] = [context.seats[y] EXCEPT !.group = c]
  BY <1>2 DEF Ids
<1>6. ASSUME NEW y PROVE <<c, y>> # c
  <2>1. <<c, y>> = c => r = <<r, i>>
    OBVIOUS
  <2> QED
    BY <2>1 DEF IdsAreNew, Mine
<1>7. /\ IsFun(new) /\ Ids(new) = Ids(one) \union Ids(seats)
      /\ \A x \in Ids(one) : new[x] = one[x]
      /\ \A x \in Ids(seats) : x \notin Ids(one) => new[x] = seats[x]
  <2>1. /\ IsFun(Edits!Over(one, seats))
        /\ Ids(Edits!Over(one, seats)) = Ids(one) \union Ids(seats)
        /\ \A x \in Ids(one) : Edits!Over(one, seats)[x] = one[x]
        /\ \A x \in Ids(seats) : x \notin Ids(one) => Edits!Over(one, seats)[x] = seats[x]
    BY OverFacts
  <2> QED
    BY <1>3, <2>1
<1>8. ASSUME NEW y \in Ids(context.seats)
      PROVE  /\ new[<<c, y>>] = [context.seats[y] EXCEPT !.group = c]
             /\ new[<<c, y>>].kind = "seat" /\ Shaped(new[<<c, y>>], {c})
  <2>1. new[<<c, y>>] = [context.seats[y] EXCEPT !.group = c]
    BY <1>4, <1>5, <1>6, <1>7
  <2>2. context.seats[y].kind = "seat" /\ Shaped(context.seats[y], G)
    BY DEF LiveSeats
  <2> QED
    BY <2>1, <2>2, Regrouped
<1>9. \A x \in Ids(new) :
        \/ x = c /\ new[x].kind = "group" /\ Shaped(new[x], {c})
        \/ /\ x \in {<<c, y>> : y \in Ids(context.seats)} /\ x # c
           /\ new[x].kind = "seat" /\ Shaped(new[x], {c})
  <2>1. new[c].kind = "group" /\ Shaped(new[c], {c})
    BY <1>4, <1>7, NewRows
  <2>2. ASSUME NEW y \in Ids(context.seats)
        PROVE  /\ <<c, y>> # c /\ new[<<c, y>>].kind = "seat"
               /\ Shaped(new[<<c, y>>], {c})
    BY <1>6, <1>8
  <2>3. \A x \in Ids(new) : x = c \/ x \in {<<c, y>> : y \in Ids(context.seats)}
    BY <1>4, <1>5, <1>7
  <2>4. \A x \in {<<c, y>> : y \in Ids(context.seats)} :
          x # c /\ new[x].kind = "seat" /\ Shaped(new[x], {c})
    BY <2>2
  <2> QED
    BY <2>1, <2>3, <2>4
<1>10. /\ GroupRows(new) = {c} /\ EventRows(new) = {}
       /\ SeatRows(new) = {<<c, y>> : y \in Ids(context.seats)}
  BY <1>4, <1>5, <1>6, <1>7, <1>9 DEF GroupRows, EventRows, SeatRows
<1>11. IsTable(new, {c})
  BY <1>7, <1>9, <1>10, FS_EmptySet DEF IsTable
<1>12. \A x \in Ids(new) : Mine(r, x)
  BY <1>9 DEF Mine
<1>13. /\ Ids(new) = {c} \union {<<c, y>> : y \in Ids(context.seats)}
       /\ new[c] = [kind |-> "group", start |-> window.start, end |-> window.end,
                    cancelled |-> context.cancelled, life |-> "live"]
  BY <1>4, <1>5, <1>7
<1> QED
  BY <1>6, <1>7, <1>8, <1>10, <1>11, <1>12, <1>13 DEF IsClone

LEMMA CountsTo ==
    ASSUME NEW r, NEW m \in Nat
    PROVE  Cardinality({<<r, i>> : i \in 1..m}) = m
<1> DEFINE S == {<<r, i>> : i \in 1..m}
           f == [i \in 1..m |-> <<r, i>>]
<1>1. /\ f \in [1..m -> S] /\ \A a, b \in 1..m : f[a] = f[b] => a = b
      /\ \A x \in S : \E i \in 1..m : f[i] = x
  OBVIOUS
<1> HIDE DEF f, S
<1>2. f \in Bijection(1..m, S)
  BY <1>1 DEF Bijection, Injection, Surjection, IsInjective
<1>3. IsFiniteSet(1..m) /\ Cardinality(1..m) = m
  BY FS_Interval
<1>4. Cardinality(S) = m
  BY <1>2, <1>3, FS_Bijection DEF ExistsBijection
<1> QED
  BY <1>4 DEF S

LEMMA NextGroupIs ==
    ASSUME EditsInv, NEW r \in Requests, NEW m \in Nat,
           Clones(rows, Tx(r)) = {<<r, i>> : i \in 1..m}
    PROVE  Edits!NextGroup(r) = <<r, m + 1>>
<1>1. {x \in DOMAIN writes[r] \ DOMAIN rows : writes[r][x].kind = "group"} = Clones(rows, Tx(r))
  BY DEF Clones, GroupRows, Ids, Tx
<1>2. Cardinality(Clones(rows, Tx(r))) = m
  BY CountsTo
<1>3. 1 + m = m + 1
  OBVIOUS
<1> QED
  BY <1>1, <1>2, <1>3, SameNotions DEF Edits!NextGroup

\* The events that a move takes to booking c, and the window that fits them
TakenTo(R, t, evs, c) ==
    /\ IsFun(evs) /\ Ids(evs) \subseteq EventRows(R)
    /\ Ids(evs) \intersect Ids(t.w) = {}
    /\ \A e \in Ids(evs) : evs[e] = [R[e] EXCEPT !.group = c] /\ R[e].group \in Around(t)

Fits(R, t, es, window) ==
    Alone(t) /\ es # {} =>
        /\ \A e \in es : R[e].life = "live"
        /\ window.start = Span(R, es).start
        /\ window.end = Span(R, es).end

\* Its clone number m + 1 gets them.
Divides(r, R, t, t2, m, evs, window, new) ==
    /\ t2.job = t.job /\ t2.touched = t.touched /\ t2.read.group = t.read.group
    /\ m \in Nat /\ Clones(R, t) = {<<r, i>> : i \in 1..m}
    /\ new = Edits!Over(Edits!Clone(r, t2.read, <<r, m + 1>>, window), evs)
    /\ Writes(t, t2, new)
    /\ TakenTo(R, t, evs, <<r, m + 1>>) /\ Fits(R, t, Ids(evs), window)
    /\ t2.stage = "event" => /\ Ids(t.w) = {} /\ Ids(evs) = {}
                          /\ window.start = t.job.start /\ window.end = t.job.end

\* A move writes a clone of the booking it read, with events taken out of it.
LEMMA CloneWritten ==
    ASSUME IdsAreNew, NEW r \in Requests, NEW R, NEW t, NEW t2, NEW m, NEW evs,
           NEW window, NEW new,
           IsTable(R, GroupRows(R)), \A x \in Ids(R) : ~Mine(r, x),
           WritesOK(r, R, t), MoveOK(R, t), ReadOK(R, t), Many(t),
           SeatsOK(R, t2), ClonesAre(R, t, t2.read), Divides(r, R, t, t2, m, evs, window, new)
    PROVE  /\ WritesOK(r, R, t2) /\ ClonesOK(r, R, t2) /\ MoveOK(R, t2)
           /\ ClonesAre(R, t2, t2.read)
           /\ \A x \in Ids(R) : x \in Ids(t2.w) => x \in Ids(t.w) \union Ids(evs)
           /\ \A x \in Ids(new) : x \in Ids(evs) \/ Mine(r, x)
<1>0. /\ t2.job = t.job /\ t2.touched = t.touched /\ t2.read.group = t.read.group
      /\ m \in Nat /\ Clones(R, t) = {<<r, i>> : i \in 1..m}
      /\ Writes(t, t2, new)
      /\ TakenTo(R, t, evs, <<r, m + 1>>) /\ Fits(R, t, Ids(evs), window)
      /\ Ids(evs) \subseteq EventRows(R)
  BY DEF Divides, TakenTo
<1>1. PICK c, k : /\ c = <<r, m + 1>> /\ k = Edits!Clone(r, t2.read, c, window)
                  /\ new = Edits!Over(k, evs)
  BY DEF Divides
<1>2. IsClone(r, k, t2.read, c, window)
  <2>1. LiveSeats(t2.read.seats, GroupRows(R))
    BY <1>0 DEF SeatsOK
  <2> QED
    BY <1>0, <1>1, <2>1, CloneFacts
<1>3. ASSUME NEW e \in Ids(evs)
      PROVE  /\ evs[e].kind = "event" /\ evs[e].group = c /\ evs[e].life = R[e].life
             /\ evs[e].start = R[e].start /\ evs[e].end = R[e].end
             /\ e \in Ids(R) /\ R[e].kind = "event" /\ Shaped(evs[e], {c})
             /\ R[e].group \in Around(t) /\ e \notin Ids(t.w)
  <2>1. e \in Ids(R) /\ R[e].kind = "event" /\ Shaped(R[e], GroupRows(R))
    BY <1>0, <1>3 DEF EventRows, IsTable, TakenTo
  <2>2. evs[e] = [R[e] EXCEPT !.group = c] /\ R[e].group \in Around(t) /\ e \notin Ids(t.w)
    BY <1>0, <1>1, <1>3 DEF TakenTo
  <2> QED
    BY <2>1, <2>2, Regrouped
<1>4. IsTable(evs, {c})
  <2>1. EventRows(evs) \subseteq EventRows(R) /\ IsFun(evs)
    BY <1>0 DEF EventRows, TakenTo
  <2> QED
    BY <1>0, <1>3, <2>1, FS_Subset DEF IsTable
<1>5. Ids(k) \intersect Ids(R) = {} /\ Ids(k) \intersect Ids(evs) = {}
  BY <1>0, <1>2, <1>3 DEF IsClone
<1>6. /\ Ids(new) = Ids(k) \union Ids(evs)
      /\ \A x \in Ids(k) : new[x] = k[x]
      /\ \A x \in Ids(evs) : new[x] = evs[x]
  BY <1>0, <1>1, <1>5, OverFacts
<1>7. /\ GroupRows(new) = {c} /\ EventRows(new) = Ids(evs)
      /\ SeatRows(new) = {<<c, y>> : y \in Ids(t2.read.seats)}
  <2>1. GroupRows(new) = GroupRows(k)
    BY <1>0, <1>3, <1>6 DEF GroupRows
  <2>2. EventRows(new) = EventRows(k) \union Ids(evs)
    BY <1>0, <1>3, <1>6 DEF EventRows
  <2>3. SeatRows(new) = SeatRows(k)
    BY <1>0, <1>3, <1>6 DEF SeatRows
  <2> QED
    BY <1>0, <1>2, <2>1, <2>2, <2>3 DEF IsClone
<1>8. IsTable(new, {c})
  BY <1>0, <1>1, <1>2, <1>4, TableOver DEF IsClone
<1>9. \A i \in 1..m : <<r, i>> # c /\ \A y : <<<<r, i>>, y>> # c /\ <<r, i>> # <<c, y>>
  <2>1. \A i : <<r, i>> # r
    BY <1>0 DEF IdsAreNew, Mine
  <2>2. \A i \in 1..m : i # m + 1
    BY <1>0
  <2> QED
    BY <1>0, <1>1, <2>1, <2>2
<1>10. ASSUME NEW x \in Ids(t.w) PROVE x \notin Ids(new)
  <2>1. CASE x \in Ids(R)
    BY <1>0, <1>3, <1>5, <1>6, <2>1
  <2>2. CASE x \notin Ids(R)
    <3>1. x \in Ids(k) => x = c \/ \E y : x = <<c, y>>
      BY <1>0, <1>2 DEF IsClone
    <3>2. CASE x \in GroupRows(t.w)
      <4>1. PICK i \in 1..m : x = <<r, i>>
        BY <1>0, <2>2, <3>2 DEF Clones
      <4> QED
        BY <1>0, <1>3, <1>6, <1>9, <2>2, <3>1, <4>1
    <3>3. CASE x \in EventRows(t.w)
      BY <1>0, <2>2, <3>3 DEF MoveOK
    <3>4. CASE x \in SeatRows(t.w)
      <4>1. t.w[x].group \in Clones(R, t)
        BY <1>0, <3>4 DEF MoveOK
      <4>2. PICK i \in 1..m : t.w[x].group = <<r, i>>
        BY <1>0, <4>1
      <4>3. PICK y : x = <<<<r, i>>, y>>
        BY <1>0, <3>4, <4>1, <4>2 DEF ClonesAre
      <4>4. x # c /\ \A z : x # <<c, z>>
        BY <1>0, <1>9, <4>3
      <4> QED
        BY <1>0, <1>3, <1>6, <2>2, <3>1, <4>4
    <3>5. x \in GroupRows(t.w) \/ x \in EventRows(t.w) \/ x \in SeatRows(t.w)
      BY <1>0 DEF WritesOK, IsTable, Shaped, GroupRows, EventRows, SeatRows
    <3> QED
      BY <1>0, <3>2, <3>3, <3>4, <3>5
  <2> QED
    BY <1>0, <2>1, <2>2
<1>11. /\ WritesOK(r, R, t2) /\ Adds(t, t2, new)
       /\ Clones(R, t2) = Clones(R, t) \union (GroupRows(new) \ Ids(R))
  <2>1. IsTable(new, GroupRows(Seen(R, t)) \union GroupRows(new))
    BY <1>0, <1>7, <1>8, TableGrows
  <2>2. \A x \in Ids(new) : /\ x \in Ids(R) => new[x].kind = R[x].kind
                            /\ x \notin Ids(R) => Mine(r, x)
    BY <1>0, <1>2, <1>3, <1>5, <1>6 DEF IsClone
  <2>3. Clones(R, t) \intersect Ids(new) \subseteq GroupRows(new)
    BY <1>0, <1>10 DEF Clones, GroupRows
  <2>4. Fit(r, R, t, new)
    BY <1>0, <2>1, <2>2, <2>3 DEF Fit, Named
  <2>5. Writes(t, t2, new)
    BY <1>0
  <2> QED
    BY <2>4, <2>5, Written
<1>12. /\ Clones(R, t2) = Clones(R, t) \union {c} /\ c \notin Clones(R, t)
       /\ Clones(R, t2) = {<<r, i>> : i \in 1..(m + 1)}
  <2>1. Clones(R, t2) = Clones(R, t) \union {c} /\ c \notin Clones(R, t)
    BY <1>0, <1>2, <1>5, <1>7, <1>9, <1>11 DEF IsClone, Adds
  <2>2. 1..(m + 1) = (1..m) \union {m + 1}
    BY <1>0
  <2> QED
    BY <1>0, <1>1, <2>1, <2>2
<1>13. ClonesOK(r, R, t2)
  BY <1>0, <1>12 DEF ClonesOK, Many
<1>14. \A x \in Ids(t.w) : x \in Ids(t2.w) /\ t2.w[x] = t.w[x]
  BY <1>0, <1>10, <1>11 DEF Adds
<1>15. /\ GroupRows(t2.w) = GroupRows(t.w) \union {c}
       /\ EventRows(t2.w) = EventRows(t.w) \union Ids(evs)
       /\ SeatRows(t2.w) = SeatRows(t.w) \union {<<c, y>> : y \in Ids(t2.read.seats)}
  <2>1. GroupRows(t2.w) = GroupRows(t.w) \union GroupRows(new)
    BY <1>0, <1>11, <1>14 DEF GroupRows, Adds
  <2>2. EventRows(t2.w) = EventRows(t.w) \union EventRows(new)
    BY <1>0, <1>11, <1>14 DEF EventRows, Adds
  <2>3. SeatRows(t2.w) = SeatRows(t.w) \union SeatRows(new)
    BY <1>0, <1>11, <1>14 DEF SeatRows, Adds
  <2> QED
    BY <1>0, <1>7, <2>1, <2>2, <2>3
<1>16. /\ t2.w[c] = k[c]
       /\ \A y \in Ids(t2.read.seats) : t2.w[<<c, y>>] = k[<<c, y>>]
       /\ \A e \in Ids(evs) : e \notin Ids(t.w) /\ t2.w[e] = evs[e]
  BY <1>0, <1>2, <1>3, <1>6, <1>11 DEF IsClone, Adds
<1>17. ASSUME NEW d \in Clones(R, t2)
       PROVE  /\ t2.w[d].cancelled = t2.read.cancelled
              /\ {x \in SeatRows(t2.w) : t2.w[x].group = d}
                   = {<<d, y>> : y \in Ids(t2.read.seats)}
              /\ \A y \in Ids(t2.read.seats) :
                   t2.w[<<d, y>>] = [t2.read.seats[y] EXCEPT !.group = d]
  <2>1. \A y \in Ids(t2.read.seats) : t2.w[<<c, y>>].group = c
    <3>1. ASSUME NEW y \in Ids(t2.read.seats) PROVE t2.w[<<c, y>>].group = c
      <4>1. Shaped(k[<<c, y>>], {c}) /\ k[<<c, y>>].kind = "seat"
        BY <1>0, <1>2 DEF IsTable, SeatRows, IsClone
      <4> QED
        BY <1>0, <1>16, <4>1 DEF Shaped
    <3> QED
      BY <1>0, <3>1
  <2>2. \A x \in SeatRows(t.w) : t2.w[x].group = t.w[x].group /\ t.w[x].group # c
    BY <1>0, <1>12, <1>14 DEF MoveOK, SeatRows
  <2>3. CASE d = c
    <3>1. {x \in SeatRows(t2.w) : t2.w[x].group = c} = {<<c, y>> : y \in Ids(t2.read.seats)}
      BY <1>0, <1>15, <2>1, <2>2
    <3> QED
      BY <1>0, <1>2, <1>16, <2>3, <3>1 DEF IsClone
  <2>4. CASE d # c
    <3>1. d \in Clones(R, t)
      BY <1>0, <1>12, <2>4
    <3>2. /\ t.w[d].cancelled = t2.read.cancelled
          /\ {x \in SeatRows(t.w) : t.w[x].group = d} = {<<d, y>> : y \in Ids(t2.read.seats)}
          /\ \A y \in Ids(t2.read.seats) :
               t.w[<<d, y>>] = [t2.read.seats[y] EXCEPT !.group = d]
      BY <1>0, <3>1 DEF ClonesAre
    <3>3. {x \in SeatRows(t2.w) : t2.w[x].group = d} = {x \in SeatRows(t.w) : t.w[x].group = d}
      BY <1>0, <1>15, <2>1, <2>2, <2>4
    <3>4. d \in Ids(t.w) /\ \A y \in Ids(t2.read.seats) : <<d, y>> \in Ids(t.w)
      BY <1>0, <3>1, <3>2 DEF Clones, GroupRows, SeatRows
    <3> QED
      BY <1>0, <1>14, <3>2, <3>3, <3>4
  <2> QED
    BY <1>0, <2>3, <2>4
<1>18. ClonesAre(R, t2, t2.read)
  BY <1>0, <1>17 DEF ClonesAre
<1>19. Around(t2) = Around(t) /\ (Alone(t2) <=> Alone(t))
  BY <1>0 DEF Around, Alone
<1>20. ASSUME Alone(t), NEW d \in Clones(R, t2) PROVE Spanned(t2.w, d)
  <2>1. CASE d # c
    <3>1. d \in Clones(R, t) /\ Spanned(t.w, d) /\ d \in Ids(t.w)
      BY <1>0, <1>12, <1>20, <2>1 DEF MoveOK, Clones, GroupRows
    <3>2. \A e \in Ids(evs) : t2.w[e].group = c
      BY <1>0, <1>3, <1>16
    <3>3. /\ \A x \in EventRows(t.w) : t.w[x].group = d => x \in EventRows(t2.w) /\ t2.w[x] = t.w[x]
          /\ \A x \in EventRows(t2.w) : t2.w[x].group = d => x \in EventRows(t.w) /\ t2.w[x] = t.w[x]
      <4>1. \A x \in EventRows(t.w) : x \in Ids(t.w)
        BY <1>0 DEF EventRows
      <4> QED
        BY <1>0, <1>14, <1>15, <2>1, <3>2, <4>1
    <3>4. t2.w[d] = t.w[d]
      BY <1>0, <1>14, <3>1
    <3> QED
      BY <1>0, <3>1, <3>3, <3>4, SameWindow
  <2>2. CASE d = c
    <3>1. \A x \in EventRows(t.w) : t2.w[x].group # c
      <4>1. ASSUME NEW x \in EventRows(t.w) PROVE t2.w[x].group # c
        <5>1. x \in Ids(t.w) /\ t.w[x].group \in Clones(R, t)
          BY <1>0 DEF MoveOK, EventRows, Many
        <5> QED
          BY <1>0, <1>12, <1>14, <5>1
      <4> QED
        BY <1>0, <4>1
    <3>2. EventsOf(t2.w, c) = {e \in Ids(evs) : R[e].life = "live"}
      BY <1>0, <1>3, <1>15, <1>16, <3>1, EventsAre
    <3>3. CASE Ids(evs) = {}
      BY <1>0, <2>2, <3>2, <3>3 DEF Spanned
    <3>4. CASE Ids(evs) # {}
      <4>1. /\ EventsOf(t2.w, c) = Ids(evs)
            /\ window.start = Span(R, Ids(evs)).start /\ window.end = Span(R, Ids(evs)).end
        BY <1>0, <1>20, <3>2, <3>4 DEF Fits
      <4>2. \A e \in Ids(evs) : t2.w[e].start = R[e].start /\ t2.w[e].end = R[e].end
        BY <1>0, <1>3, <1>16
      <4>3. Span(t2.w, Ids(evs)) = Span(R, Ids(evs))
        BY <1>0, <4>2, SameSpan
      <4>4. t2.w[c].start = window.start /\ t2.w[c].end = window.end
        BY <1>0, <1>2, <1>16 DEF IsClone
      <4> QED
        BY <1>0, <2>2, <4>1, <4>3, <4>4 DEF Spanned
    <3> QED
      BY <1>0, <3>3, <3>4
  <2> QED
    BY <1>0, <2>1, <2>2
<1>21. MoveOK(R, t2)
  <2>1. t2.job.event \in EventRows(R) /\ R[t2.job.event].group \in Around(t2)
    BY <1>0, <1>19 DEF MoveOK
  <2>2. \A x \in GroupRows(t2.w) \ Clones(R, t2) :
          x = t2.read.group /\ t2.w[x].cancelled = R[x].cancelled
    <3>1. \A x \in GroupRows(t2.w) \ Clones(R, t2) : x \in GroupRows(t.w) \ Clones(R, t)
      BY <1>0, <1>12, <1>15
    <3> QED
      BY <1>0, <1>14, <3>1 DEF MoveOK, GroupRows
  <2>3. ASSUME NEW x \in EventRows(t2.w)
        PROVE  /\ x \in Ids(R) /\ R[x].group \in Around(t2)
               /\ t2.w[x].group \in Clones(R, t2)
    <3>1. CASE x \in EventRows(t.w)
      <4>1. x \in Ids(t.w)
        BY <1>0, <3>1 DEF EventRows
      <4> QED
        BY <1>0, <1>12, <1>14, <1>19, <3>1, <4>1 DEF MoveOK, Many
    <3>2. CASE x \in Ids(evs)
      BY <1>0, <1>3, <1>12, <1>16, <1>19, <3>2
    <3> QED
      BY <1>0, <1>15, <3>1, <3>2
  <2>4. ASSUME NEW x \in SeatRows(t2.w)
        PROVE  x \notin Ids(R) /\ t2.w[x].group \in Clones(R, t2)
    <3>1. CASE x \in SeatRows(t.w)
      BY <1>0, <1>12, <1>14, <3>1 DEF MoveOK, SeatRows
    <3>2. CASE x \in SeatRows(k)
      <4>1. x \in Ids(k) /\ x \notin Ids(R) /\ t2.w[x] = k[x] /\ k[x].kind = "seat"
        BY <1>0, <1>5, <1>6, <1>11, <3>2 DEF SeatRows, Adds
      <4>2. k[x].group = c
        BY <1>0, <1>2, <4>1 DEF IsTable, Shaped, IsClone
      <4> QED
        BY <1>0, <1>12, <4>1, <4>2
    <3> QED
      BY <1>0, <1>2, <1>15, <3>1, <3>2 DEF IsClone
  <2>5. t2.stage = "event" =>
          /\ EventRows(t2.w) = {}
          /\ \A d \in Clones(R, t2) :
               t2.w[d].start = t2.job.start /\ t2.w[d].end = t2.job.end
    <3>1. ASSUME t2.stage = "event"
          PROVE  EventRows(t2.w) = {} /\ Clones(R, t2) = {c}
      BY <1>0, <1>12, <1>15, <3>1 DEF EventRows, Clones, GroupRows, Divides
    <3>2. t2.stage = "event" => t2.w[c].start = t2.job.start /\ t2.w[c].end = t2.job.end
      BY <1>0, <1>2, <1>16 DEF IsClone, Divides
    <3> QED
      BY <1>0, <3>1, <3>2
  <2>6. t2.job.many = TRUE \/ t2.job.many
    BY <1>0 DEF Many
  <2> QED
    BY <1>0, <1>19, <1>20, <2>1, <2>2, <2>3, <2>4, <2>5, <2>6 DEF MoveOK
<1> QED
  BY <1>0, <1>2, <1>5, <1>6, <1>11, <1>13, <1>18, <1>21 DEF IsClone, Adds

\* What a move reads of its booking
ReadNow(t) ==
    LET g == t.read.group
    IN  /\ Ids(t.read.seats) = Edits!SeatsOf(rows, g)
        /\ \A x \in Ids(t.read.seats) : t.read.seats[x] = rows[x]
        /\ t.read.cancelled = rows[g].cancelled
        /\ Ids(t.known) = Edits!EventsOf(rows, g)
        /\ \A e \in Ids(t.known) : t.known[e] = Edits!Attending(rows, e)

LEMMA ContextFacts ==
    ASSUME NEW t, IsTable(rows, GroupRows(rows)), ReadNow(t)
    PROVE  SeatsOK(rows, t) /\ \A e \in Ids(t.known) : t.known[e] = Attended(t)
<1>0. PICK g, seats : g = t.read.group /\ seats = t.read.seats
  OBVIOUS
<1>1. Edits!SeatsOf(rows, g) = {x \in SeatRows(rows) : rows[x].life = "live" /\ rows[x].group = g}
  BY DEF Edits!SeatsOf, Edits!Live, SeatRows, Ids
<1>2. /\ Ids(seats) = Edits!SeatsOf(rows, g)
      /\ \A x \in Ids(seats) : seats[x] = rows[x]
      /\ t.read.cancelled = rows[g].cancelled
  BY <1>0 DEF ReadNow
<1>3. SeatsOK(rows, t)
  BY <1>0, <1>1, <1>2 DEF SeatsOK, LiveSeats, IsTable, SeatRows
<1>4. ASSUME NEW e \in Ids(t.known) PROVE t.known[e] = Attended(t)
  <2>1. e \in EventsOf(rows, g) /\ t.known[e] = Edits!Attending(rows, e)
    BY <1>0, <1>4, SameNotions DEF ReadNow
  <2>2. rows[e].group = g
    BY <2>1 DEF EventsOf
  <2>3. {x \in Edits!SeatsOf(rows, g) : rows[x].active} = {x \in Ids(seats) : seats[x].active}
    BY <1>2
  <2>4. {rows[x].client : x \in {y \in Edits!SeatsOf(rows, g) : rows[y].active}}
          = {seats[x].client : x \in {y \in Ids(seats) : seats[y].active}}
    BY <1>2, <2>3
  <2>5. Edits!Attending(rows, e) =
          IF rows[g].cancelled THEN {}
          ELSE {rows[x].client : x \in {y \in Edits!SeatsOf(rows, g) : rows[y].active}}
    BY <2>2 DEF Edits!Attending
  <2>6. Attended(t) =
          IF rows[g].cancelled THEN {}
          ELSE {seats[x].client : x \in {y \in Ids(seats) : seats[y].active}}
    BY <1>0, <1>2 DEF Attended
  <2> QED
    BY <2>1, <2>4, <2>5, <2>6
<1> QED
  BY <1>3, <1>4

LEMMA LoadGroupKeeps ==
    ASSUME EditsInv, IdsAreNew, NEW r \in Requests, Edits!LoadGroup(r)
    PROVE  EditsInv'
<1> DEFINE t == Tx(r)
           t2 == Tx(r)'
           g == read[r].group
           context == [read[r] EXCEPT
               !.cancelled = rows[g].cancelled,
               !.seats = [x \in Edits!SeatsOf(rows, g) |-> rows[x]]]
<1>1. stage[r] = "load" /\ UNCHANGED <<rows, job, plan, touched, spoilt>>
  BY DEF Edits!LoadGroup
<1>2. /\ FunsInv /\ IsTable(rows, GroupRows(rows)) /\ TxOK(r, rows, t) /\ t.stage = "load"
      /\ t.w = writes[r] /\ t.read = read[r] /\ t.job = job[r] /\ t.touched = touched[r]
      /\ \A x \in Ids(rows) : ~Mine(r, x)
  BY <1>1, Now DEF EditsInv, IdsInv
<1>3. t.job.kind = "move"
  BY <1>2, JobFacts DEF TxOK, Begun, Stages
<1>4. /\ Ids(t.w) = {} /\ WritesOK(r, rows, t) /\ ReadOK(rows, t) /\ MoveOK(rows, t)
      /\ ReadShape(t)
  BY <1>2, <1>3 DEF TxOK, Begun
<1>5. CASE Edits!Throw(r) /\ UNCHANGED <<read, known>>
  BY <1>1, <1>5, ThrowIs
<1>6. CASE /\ read' = [read EXCEPT ![r] = context]
           /\ known' = [known EXCEPT ![r] =
                          [e \in Edits!EventsOf(rows, g) |-> Edits!Attending(rows, e)]]
           /\ writes' = [writes EXCEPT ![r] =
                           IF job[r].many
                           THEN Edits!Clone(r, context, Edits!NextGroup(r), job[r])
                           ELSE << >>]
           /\ Edits!Goto(r, "event")
  <2>1. /\ read' = [read EXCEPT ![r] = read'[r]] /\ read'[r] = context
        /\ known' = [known EXCEPT ![r] = known'[r]]
        /\ known'[r] = [e \in Edits!EventsOf(rows, g) |-> Edits!Attending(rows, e)]
        /\ writes' = [writes EXCEPT ![r] = writes'[r]]
        /\ writes'[r] = IF job[r].many
                        THEN Edits!Clone(r, context, Edits!NextGroup(r), job[r])
                        ELSE << >>
    BY <1>2, <1>6 DEF FunsInv
  <2>2. stage' = [stage EXCEPT ![r] = stage'[r]] /\ stage'[r] = "event"
    BY <1>2, <1>6, GotoIs
  <2>3. Steps(r)
    BY <1>1, <1>2, <2>1, <2>2, Stays DEF Steps
  <2>4. /\ t2.w = writes'[r] /\ t2.stage = "event" /\ t2.job = t.job /\ t2.read = context
        /\ t2.touched = t.touched
        /\ t2.known = [e \in Edits!EventsOf(rows, g) |-> Edits!Attending(rows, e)]
    BY <1>1, <2>1, <2>2, Now
  <2>5. /\ ReadShape(t2) /\ t2.read.group = t.read.group
        /\ t2.read.cancelled = rows[g].cancelled
        /\ t2.read.seats = [x \in Edits!SeatsOf(rows, g) |-> rows[x]]
    <3>1. PICK seats, rd : seats = [x \in Edits!SeatsOf(rows, g) |-> rows[x]] /\ rd = t.read
      OBVIOUS
    <3>2. t2.read = [rd EXCEPT !.cancelled = rows[g].cancelled, !.seats = seats]
      BY <1>2, <2>4, <3>1
    <3>3. Fields(rd) = {"group", "seats", "cancelled", "listed", "window"}
      BY <1>4, <3>1 DEF ReadShape
    <3>4. /\ t2.read.group = rd.group /\ t2.read.cancelled = rows[g].cancelled
          /\ t2.read.seats = seats /\ Fields(t2.read) = Fields(rd)
      BY <3>2, <3>3 DEF Fields
    <3> QED
      BY <3>1, <3>3, <3>4 DEF ReadShape
  <2>6. SeatsOK(rows, t2) /\ \A e \in Ids(t2.known) : t2.known[e] = Attended(t2)
    <3>1. ReadNow(t2)
      BY <1>2, <2>4, <2>5 DEF ReadNow, Ids
    <3> QED
      BY <1>2, <3>1, ContextFacts
  <2>7. Clones(rows, t) = {}
    BY <1>4 DEF Clones, GroupRows
  <2>8. /\ WritesOK(r, rows, t2) /\ ClonesOK(r, rows, t2) /\ MoveOK(rows, t2)
        /\ ClonesAre(rows, t2, t2.read) /\ Locks(r)
    <3>1. CASE ~job[r].many
      <4>1. t2.w = << >> /\ ~Many(t2)
        BY <1>2, <2>1, <2>4, <3>1 DEF Many
      <4>2. /\ WritesOK(r, rows, t2) /\ ClonesOK(r, rows, t2) /\ Clones(rows, t2) = {}
            /\ Ids(t2.w) = {}
        BY <1>2, <4>1, NothingWritten, NoRows
      <4>3. MoveOK(rows, t2)
        BY <1>4, <2>4, <2>5, <4>2
           DEF MoveOK, Around, GroupRows, EventRows, SeatRows
      <4> QED
        BY <2>4, <4>2, <4>3 DEF ClonesAre, Locks
    <3>2. CASE job[r].many
      <4>1. Many(t) /\ {<<r, i>> : i \in 1..0} = {}
        BY <1>2, <1>3, <3>2 DEF Many
      <4>2. Edits!NextGroup(r) = <<r, 0 + 1>>
        BY <2>7, <4>1, NextGroupIs
      <4>3. PICK k : k = Edits!Clone(r, t2.read, <<r, 0 + 1>>, t.job)
        OBVIOUS
      <4>4. t2.w = k
        BY <1>2, <2>1, <2>4, <3>2, <4>2, <4>3
      <4>5. IsClone(r, k, t2.read, <<r, 0 + 1>>, t.job)
        BY <2>6, <4>3, CloneFacts DEF SeatsOK
      <4>6. PICK new : new = Edits!Over(k, << >>)
        OBVIOUS
      <4>7. new = k /\ Edits!Over(k, t.w) = k
        <5>1. ASSUME NEW f, Ids(f) = {} PROVE Edits!Over(k, f) = k
          <6>1. IsFun(k)
            BY <4>5 DEF IsClone
          <6> QED
            BY <5>1, <6>1 DEF Edits!Over, IsFun, Ids
        <5> QED
          BY <1>4, <4>6, <5>1, NoRows
      <4>8. TakenTo(rows, t, << >>, <<r, 0 + 1>>) /\ Fits(rows, t, Ids(<< >>), t.job)
        BY NoRows DEF TakenTo, Fits, IsTable
      <4>9. ClonesAre(rows, t, t2.read)
        BY <2>7 DEF ClonesAre
      <4>10. new = Edits!Over(Edits!Clone(r, t2.read, <<r, 0 + 1>>, t.job), << >>)
        BY <4>3, <4>6
      <4>11. t2.w = Edits!Over(new, t.w)
        BY <4>4, <4>7
      <4>12. Ids(t.w) = {} /\ Ids(<< >>) = {}
        BY <1>4, NoRows
      <4>13. Clones(rows, t) = {<<r, i>> : i \in 1..0} /\ 0 \in Nat
        BY <2>7, <4>1
      <4>14. /\ WritesOK(r, rows, t2) /\ ClonesOK(r, rows, t2) /\ MoveOK(rows, t2)
             /\ ClonesAre(rows, t2, t2.read)
             /\ \A x \in Ids(new) : x \in Ids(<< >>) \/ Mine(r, x)
        <5>1. Divides(r, rows, t, t2, 0, << >>, t.job, new)
          BY <2>4, <2>5, <4>8, <4>10, <4>11, <4>12, <4>13 DEF Divides, Writes
        <5> QED
          BY <1>2, <1>4, <2>6, <4>1, <4>9, <5>1, CloneWritten
      <4>15. \A x \in Ids(t2.w) : Mine(r, x)
        BY <4>4, <4>7, <4>12, <4>14
      <4> QED
        BY <1>1, <2>4, <4>14, <4>15, NewIdsFree DEF Locks
    <3> QED
      BY <3>1, <3>2
  <2>9. TxOK(r, rows, t2)
    BY <1>2, <1>3, <1>4, <2>4, <2>5, <2>6, <2>8
       DEF TxOK, Begun, Stages, SyncOK, ReadOK, KnownOK
  <2> QED
    BY <1>1, <2>3, <2>8, <2>9, OwnStep
<1> QED
  BY <1>5, <1>6 DEF Edits!LoadGroup

\* The row that a move writes over that of its event
MovedRow(r, R, t) ==
    [R[t.job.event] EXCEPT !.start = t.job.start, !.end = t.job.end,
                           !.group = IF t.job.many THEN <<r, 1>> ELSE @]

LEMMA MovedWritten ==
    ASSUME NEW r \in Requests, NEW R, NEW t, NEW t2, NEW e, NEW row,
           IsTable(R, GroupRows(R)), WritesOK(r, R, t), ReadOK(R, t),
           t.job.kind = "move", t.stage = "event", MoveOK(R, t), ClonesOK(r, R, t),
           KnownOK(R, t), e = t.job.event, t.job.start \in Nat, t.job.end \in Nat,
           row = MovedRow(r, R, t),
           Writes(t, t2, Edits!One(e, row)), t2.job = t.job, t2.touched = t.touched,
           t2.read = t.read, t2.known = t.known, t2.stage # "event"
    PROVE  /\ WritesOK(r, R, t2) /\ Clones(R, t2) = Clones(R, t) /\ MoveOK(R, t2)
           /\ KnownOK(R, t2)
<1>1. PICK one, c : /\ one = Edits!One(e, row)
                    /\ c = IF t.job.many THEN <<r, 1>> ELSE R[e].group
  OBVIOUS
<1>2. e \in EventRows(R) /\ e \in Ids(R) /\ R[e].kind = "event" /\ R[e].group \in Around(t)
  BY DEF MoveOK, EventRows
<1>3. R[e].group \in GroupRows(R)
  BY <1>2 DEF IsTable, Shaped
<1>4. /\ row.kind = "event" /\ row.group = c
      /\ row.start = t.job.start /\ row.end = t.job.end
      /\ \A G : c \in G => Shaped(row, G)
  <2>1. PICK old : old = R[e]
    OBVIOUS
  <2>2. row = [old EXCEPT !.start = t.job.start, !.end = t.job.end, !.group = c]
    BY <1>1, <2>1 DEF MovedRow
  <2>3. old.kind = "event" /\ Fields(old) = {"kind", "group", "start", "end", "life"}
    BY <1>2, <2>1 DEF IsTable, Shaped
  <2>4. /\ row.kind = "event" /\ row.group = c
        /\ row.start = t.job.start /\ row.end = t.job.end /\ Fields(row) = Fields(old)
    BY <2>2, <2>3 DEF Fields
  <2> QED
    BY <2>3, <2>4 DEF Shaped
<1>5. /\ t.job.many => c \in Clones(R, t) /\ c = <<r, 1>>
      /\ ~t.job.many => c = R[e].group
  <2>1. ASSUME t.job.many PROVE <<r, 1>> \in Clones(R, t)
    <3>1. PICK m \in Nat : m > 0 /\ Clones(R, t) = {<<r, i>> : i \in 1..m}
      BY <2>1 DEF ClonesOK, Many
    <3>2. 1 \in 1..m
      BY <3>1
    <3> QED
      BY <3>1, <3>2
  <2> QED
    BY <1>1, <2>1
<1>6. GroupRows(Seen(R, t)) = GroupRows(R) \union Clones(R, t)
  BY SeenFacts
<1>7. Ids(one) = {e} /\ one[e] = row
  BY <1>1, OneFacts
<1>8. GroupRows(one) = {} /\ EventRows(one) = {e} /\ SeatRows(one) = {}
  BY <1>4, <1>7 DEF GroupRows, EventRows, SeatRows
<1>9. Fit(r, R, t, one)
  <2>1. c \in GroupRows(Seen(R, t)) \union GroupRows(one)
    BY <1>3, <1>5, <1>6
  <2>2. Shaped(row, GroupRows(Seen(R, t)) \union GroupRows(one))
    BY <1>4, <2>1
  <2>3. IsTable(one, GroupRows(Seen(R, t)) \union GroupRows(one))
    BY <1>1, <2>2, TableOfOne
  <2>4. Named(r, R, one)
    BY <1>2, <1>4, <1>7 DEF Named
  <2>5. Clones(R, t) \intersect Ids(one) \subseteq GroupRows(one)
    BY <1>2, <1>7 DEF Clones
  <2> QED
    BY <2>3, <2>4, <2>5 DEF Fit
<1>10. /\ WritesOK(r, R, t2) /\ Adds(t, t2, one)
       /\ Clones(R, t2) = Clones(R, t) \union (GroupRows(one) \ Ids(R))
  <2>1. Writes(t, t2, one)
    BY <1>1
  <2> QED
    BY <1>9, <2>1, Written
<1>11. Clones(R, t2) = Clones(R, t)
  BY <1>8, <1>10
<1>12. EventRows(t.w) = {} /\ e \notin Ids(t.w)
  <2>1. EventRows(t.w) = {}
    BY DEF MoveOK
  <2> QED
    BY <1>2, <2>1 DEF WritesOK, Named, EventRows
<1>13. /\ \A x \in Ids(t.w) : x \in Ids(t2.w) /\ t2.w[x] = t.w[x]
       /\ Ids(t2.w) = Ids(t.w) \union {e} /\ t2.w[e] = row
  BY <1>7, <1>10, <1>12 DEF Adds
<1>14. /\ GroupRows(t2.w) = GroupRows(t.w) /\ EventRows(t2.w) = {e}
       /\ SeatRows(t2.w) = SeatRows(t.w)
  <2>1. row.kind = "event"
    BY <1>4
  <2> QED
    BY <1>12, <1>13, <2>1 DEF GroupRows, EventRows, SeatRows
<1>15. Around(t2) = Around(t) /\ (Alone(t2) <=> Alone(t))
  BY DEF Around, Alone
<1>16. ASSUME Alone(t), NEW d \in Clones(R, t) PROVE Spanned(t2.w, d)
  <2>1. EventsOf(t2.w, d) = {x \in {e} : row.life = "live" /\ row.group = d}
    BY <1>13, <1>14, EventsAre
  <2>2. t2.w[d].start = t.job.start /\ t2.w[d].end = t.job.end
    <3>1. d \in Ids(t.w)
      BY <1>16 DEF Clones, GroupRows
    <3> QED
      BY <1>13, <1>16, <3>1 DEF MoveOK
  <2>3. /\ {t2.w[x].start : x \in {e}} = {t.job.start}
        /\ {t2.w[x].end : x \in {e}} = {t.job.end}
    BY <1>4, <1>13
  <2>4. /\ Span(t2.w, {e}).start = t.job.start /\ Span(t2.w, {e}).end = t.job.end
    <3>1. \A n \in Nat : Min({n}) = n /\ Max({n}) = n
      BY DEF Min, Max
    <3> QED
      BY <2>3, <3>1 DEF Span
  <2>5. EventsOf(t2.w, d) = {} \/ EventsOf(t2.w, d) = {e}
    BY <2>1
  <2> QED
    BY <2>2, <2>4, <2>5 DEF Spanned
<1>17. MoveOK(R, t2)
  <2>1. t2.job.event \in EventRows(R) /\ R[t2.job.event].group \in Around(t2)
    BY <1>2, <1>15
  <2>2. \A x \in GroupRows(t2.w) \ Clones(R, t2) :
          x = t2.read.group /\ t2.w[x].cancelled = R[x].cancelled
    BY <1>11, <1>13, <1>14 DEF MoveOK, GroupRows
  <2>3. \A x \in EventRows(t2.w) :
          /\ x \in Ids(R) /\ R[x].group \in Around(t2)
          /\ t2.job.many => t2.w[x].group \in Clones(R, t2)
          /\ ~t2.job.many => x = t2.job.event /\ t2.w[x].group = R[x].group
    BY <1>2, <1>4, <1>5, <1>11, <1>13, <1>14, <1>15
  <2>4. \A x \in SeatRows(t2.w) : x \notin Ids(R) /\ t2.w[x].group \in Clones(R, t2)
    BY <1>11, <1>13, <1>14 DEF MoveOK, SeatRows
  <2> QED
    BY <1>11, <1>15, <1>16, <2>1, <2>2, <2>3, <2>4 DEF MoveOK
<1>18. KnownOK(R, t2)
  <2>1. ClonesAre(R, t2, t2.read)
    <3>1. ASSUME NEW d \in Clones(R, t2)
          PROVE  /\ t2.w[d].cancelled = t2.read.cancelled
                 /\ {x \in SeatRows(t2.w) : t2.w[x].group = d}
                      = {<<d, y>> : y \in Ids(t2.read.seats)}
                 /\ \A y \in Ids(t2.read.seats) :
                      t2.w[<<d, y>>] = [t2.read.seats[y] EXCEPT !.group = d]
      <4>1. /\ t.w[d].cancelled = t.read.cancelled /\ d \in Ids(t.w)
            /\ {x \in SeatRows(t.w) : t.w[x].group = d} = {<<d, y>> : y \in Ids(t.read.seats)}
            /\ \A y \in Ids(t.read.seats) : t.w[<<d, y>>] = [t.read.seats[y] EXCEPT !.group = d]
        BY <1>11 DEF KnownOK, ClonesAre, Clones, GroupRows
      <4>2. {x \in SeatRows(t2.w) : t2.w[x].group = d} = {x \in SeatRows(t.w) : t.w[x].group = d}
        BY <1>13, <1>14 DEF SeatRows
      <4>3. \A y \in Ids(t.read.seats) : <<d, y>> \in Ids(t.w)
        BY <4>1 DEF SeatRows
      <4> QED
        BY <1>13, <4>1, <4>2, <4>3
    <3> QED
      BY <3>1 DEF ClonesAre
  <2>2. Attended(t2) = Attended(t)
    BY DEF Attended
  <2> QED
    BY <2>1, <2>2 DEF KnownOK
<1> QED
  BY <1>10, <1>11, <1>17, <1>18

LEMMA MoveEventKeeps ==
    ASSUME EditsInv, IdsAreNew, NEW r \in Requests, Edits!MoveEvent(r)
    PROVE  EditsInv'
<1> DEFINE t == Tx(r)
           t2 == Tx(r)'
           e == job[r].event
           row == Edits!View(r)[e]
           new == [row EXCEPT !.start = job[r].start, !.end = job[r].end,
                              !.group = IF job[r].many THEN <<r, 1>> ELSE @]
           label == IF job[r].many THEN "remain" ELSE "syncRead"
<1>1. stage[r] = "event" /\ UNCHANGED <<rows, job, read, plan, known, touched, spoilt>>
  BY DEF Edits!MoveEvent, Edits!history
<1>2. /\ FunsInv /\ IsTable(rows, GroupRows(rows)) /\ TxOK(r, rows, t) /\ t.stage = "event"
      /\ t.w = writes[r] /\ t.read = read[r] /\ t.job = job[r] /\ t.touched = touched[r]
      /\ t.known = known[r] /\ Edits!View(r) = Seen(rows, t)
  BY <1>1, Now
<1>3. t.job.kind = "move" /\ t.job.start \in Nat /\ t.job.end \in Nat
  BY <1>2, JobFacts DEF TxOK, Begun, Stages
<1>4. /\ WritesOK(r, rows, t) /\ ReadOK(rows, t) /\ MoveOK(rows, t) /\ ClonesOK(r, rows, t)
      /\ SeatsOK(rows, t) /\ KnownOK(rows, t) /\ ReadShape(t)
  BY <1>2, <1>3 DEF TxOK, Begun
<1>5. CASE Edits!Throw(r)
  BY <1>1, <1>5, ThrowIs
<1>6. CASE Edits!Write(r, Edits!One(e, new), label)
  <2>1. /\ writes' = [writes EXCEPT ![r] = writes'[r]]
        /\ writes'[r] = Edits!Over(Edits!One(e, new), writes[r])
        /\ stage' = [stage EXCEPT ![r] = stage'[r]] /\ stage'[r] = label
        /\ Locks(r)
    BY <1>2, <1>6, WriteIs
  <2>2. Steps(r)
    BY <1>1, <1>2, <2>1, Stays DEF Steps
  <2>3. /\ t2.w = writes'[r] /\ t2.stage = label /\ t2.job = t.job /\ t2.read = t.read
        /\ t2.known = t.known /\ t2.touched = t.touched
    BY <1>1, <2>1, Now
  <2>4. Writes(t, t2, Edits!One(e, new))
    BY <1>2, <2>1, <2>3 DEF Writes
  <2>5. row = rows[e]
    <3>1. e \in EventRows(rows) /\ EventRows(t.w) = {}
      BY <1>2, <1>4 DEF MoveOK
    <3>2. e \in Ids(rows) /\ e \notin Ids(t.w)
      BY <1>4, <3>1 DEF WritesOK, Named, EventRows
    <3> QED
      BY <1>2, <1>4, <3>2, SeenFacts
  <2>6. PICK moved : moved = new /\ moved = MovedRow(r, rows, t)
    BY <1>2, <2>5 DEF MovedRow
  <2>7. /\ WritesOK(r, rows, t2) /\ Clones(rows, t2) = Clones(rows, t) /\ MoveOK(rows, t2)
        /\ KnownOK(rows, t2)
    <3>1. Writes(t, t2, Edits!One(e, moved)) /\ t2.stage # "event"
      BY <2>3, <2>4, <2>6
    <3> QED
      BY <1>2, <1>3, <1>4, <2>3, <2>6, <3>1, MovedWritten
  <2>8. TxOK(r, rows, t2)
    <3>1. ClonesOK(r, rows, t2)
      BY <1>2, <1>4, <2>3, <2>7 DEF ClonesOK, Many
    <3> QED
      BY <1>2, <1>3, <1>4, <2>3, <2>7, <3>1
         DEF TxOK, Begun, Stages, SyncOK, ReadOK, SeatsOK, ReadShape
  <2> QED
    BY <1>1, <2>1, <2>2, <2>8, OwnStep
<1> QED
  BY <1>5, <1>6 DEF Edits!MoveEvent

\* A step that writes no row
LEMMA Quiet ==
    ASSUME NEW r, NEW R, NEW t, NEW t2, t2.w = t.w, t2.job = t.job,
           t2.read.group = t.read.group
    PROVE  /\ Clones(R, t2) = Clones(R, t) /\ Seen(R, t2) = Seen(R, t)
           /\ WritesOK(r, R, t) => WritesOK(r, R, t2)
           /\ ClonesOK(r, R, t) /\ t.stage # "load" => ClonesOK(r, R, t2)
           /\ ReadOK(R, t) => ReadOK(R, t2)
           /\ CancelOK(R, t) /\ t2.stage # "cancelSeat" => CancelOK(R, t2)
           /\ EditOK(R, t) /\ t2.stage \notin {"list", "date", "service"} => EditOK(R, t2)
           /\ /\ MoveOK(R, t) /\ t2.stage # "event" /\ Around(t2) = Around(t)
              /\ Alone(t2) => Alone(t) \/ Clones(R, t) = {}
              => MoveOK(R, t2)
           /\ t2.read.seats = t.read.seats =>
                /\ SeatsOK(R, t) => SeatsOK(R, t2)
                /\ /\ t2.read.cancelled = t.read.cancelled /\ t2.known = t.known
                   /\ KnownOK(R, t)
                   => KnownOK(R, t2)
<1>1. Clones(R, t2) = Clones(R, t) /\ Seen(R, t2) = Seen(R, t)
  BY DEF Clones, Seen
<1>2. /\ WritesOK(r, R, t) => WritesOK(r, R, t2)
      /\ ClonesOK(r, R, t) /\ t.stage # "load" => ClonesOK(r, R, t2)
      /\ ReadOK(R, t) => ReadOK(R, t2)
  BY <1>1 DEF WritesOK, ClonesOK, Many, ReadOK
<1>3. /\ CancelOK(R, t) /\ t2.stage # "cancelSeat" => CancelOK(R, t2)
      /\ EditOK(R, t) /\ t2.stage \notin {"list", "date", "service"} => EditOK(R, t2)
  BY DEF CancelOK, EditOK
<1>4. ASSUME MoveOK(R, t), t2.stage # "event", Around(t2) = Around(t),
             Alone(t2) => Alone(t) \/ Clones(R, t) = {}
      PROVE  MoveOK(R, t2)
  BY <1>1, <1>4 DEF MoveOK
<1>5. ASSUME t2.read.seats = t.read.seats PROVE SeatsOK(R, t) => SeatsOK(R, t2)
  BY <1>5 DEF SeatsOK
<1>6. ASSUME t2.read.seats = t.read.seats, t2.read.cancelled = t.read.cancelled,
             t2.known = t.known, KnownOK(R, t)
      PROVE  KnownOK(R, t2)
  <2>1. Attended(t2) = Attended(t)
    BY <1>6 DEF Attended
  <2>2. ClonesAre(R, t2, t2.read)
    BY <1>1, <1>6 DEF KnownOK, ClonesAre
  <2> QED
    BY <1>6, <2>1, <2>2 DEF KnownOK
<1> QED
  BY <1>1, <1>2, <1>3, <1>4, <1>5, <1>6

\* Reading the window of its booking, a request is a move or an edit.
LEMMA SyncStages ==
    ASSUME EditsInv, NEW r \in Requests, stage[r] \in {"syncRead", "syncWrite"}
    PROVE  LET t == Tx(r)
           IN  /\ t.job.kind \in {"move", "edit"} /\ TxOK(r, rows, t) /\ Begun(t)
               /\ WritesOK(r, rows, t) /\ ClonesOK(r, rows, t) /\ ReadOK(rows, t)
               /\ SyncOK(rows, t) /\ ReadShape(t)
               /\ t.job.kind = "move" => MoveOK(rows, t) /\ SeatsOK(rows, t) /\ KnownOK(rows, t)
               /\ t.job.kind = "edit" => EditOK(rows, t)
               /\ ~Many(t) => Clones(rows, t) = {}
<1> DEFINE t == Tx(r)
<1>1. TxOK(r, rows, t) /\ t.stage = stage[r] /\ t.job = job[r] /\ FunsInv
  BY Now
<1>2. t.job.kind \in {"move", "edit"} /\ Begun(t)
  BY <1>1, JobFacts DEF TxOK, Begun, Stages
<1>3. /\ WritesOK(r, rows, t) /\ ClonesOK(r, rows, t) /\ ReadOK(rows, t)
      /\ SyncOK(rows, t) /\ ReadShape(t)
      /\ t.job.kind = "move" => MoveOK(rows, t) /\ SeatsOK(rows, t) /\ KnownOK(rows, t)
      /\ t.job.kind = "edit" => EditOK(rows, t)
  BY <1>1, <1>2 DEF TxOK
<1>4. ~Many(t) => Clones(rows, t) = {}
  <2>1. PICK m \in Nat : /\ Clones(rows, t) = {<<r, i>> : i \in 1..m}
                         /\ m > 0 => Many(t)
    BY <1>3 DEF ClonesOK
  <2> QED
    BY <2>1
<1> QED
  BY <1>1, <1>2, <1>3, <1>4

LEMMA SyncReadKeeps ==
    ASSUME EditsInv, NEW r \in Requests, Edits!SyncRead(r)
    PROVE  EditsInv'
<1> DEFINE t == Tx(r)
           t2 == Tx(r)'
           g == read[r].group
           es == EventsOf(Seen(rows, t), g)
<1>1. stage[r] = "syncRead" /\ UNCHANGED <<rows, writes, job, plan, known, spoilt>>
  BY DEF Edits!SyncRead
<1>2. /\ FunsInv /\ t.stage = "syncRead" /\ t.w = writes[r] /\ t.read = read[r]
      /\ t.job = job[r] /\ t.touched = touched[r] /\ t.known = known[r]
      /\ Edits!View(r) = Seen(rows, t)
  BY <1>1, Now
<1>3. /\ t.job.kind \in {"move", "edit"} /\ TxOK(r, rows, t)
      /\ WritesOK(r, rows, t) /\ ClonesOK(r, rows, t) /\ ReadOK(rows, t)
      /\ ReadShape(t)
      /\ t.job.kind = "move" => MoveOK(rows, t) /\ SeatsOK(rows, t) /\ KnownOK(rows, t)
      /\ t.job.kind = "edit" => EditOK(rows, t)
      /\ ~Many(t) => Clones(rows, t) = {}
  BY <1>1, SyncStages
<1>4. /\ touched' = [touched EXCEPT ![r] = touched'[r]]
      /\ touched'[r] = IF Many(t) THEN t.touched ELSE t.touched \ {g}
  <2>1. touched' = [touched EXCEPT ![r] = IF job[r].kind = "move" /\ job[r].many THEN @
                                          ELSE @ \ {read[r].group}]
    BY DEF Edits!SyncRead
  <2> QED
    BY <1>2, <2>1 DEF FunsInv, Many
<1>5. \/ /\ es = {} /\ Edits!Goto(r, "commit") /\ read' = read
      \/ /\ es # {} /\ Edits!Goto(r, "syncWrite")
         /\ read' = [read EXCEPT ![r].window = Span(Seen(rows, t), es)]
  BY <1>2, SameNotions DEF Edits!SyncRead
<1>6. PICK window : window = Span(Seen(rows, t), es)
  OBVIOUS
<1>7. /\ read' = [read EXCEPT ![r] = read'[r]]
      /\ read'[r] = read[r] \/ read'[r] = [read[r] EXCEPT !.window = window]
      /\ stage' = [stage EXCEPT ![r] = stage'[r]] /\ stage'[r] \in {"commit", "syncWrite"}
      /\ stage'[r] = "commit" => es = {}
      /\ stage'[r] = "syncWrite" => es # {} /\ read'[r] = [read[r] EXCEPT !.window = window]
  <2>1. CASE es = {} /\ Edits!Goto(r, "commit") /\ read' = read
    BY <1>2, <2>1, GotoIs DEF FunsInv
  <2>2. CASE /\ es # {} /\ Edits!Goto(r, "syncWrite")
             /\ read' = [read EXCEPT ![r].window = Span(Seen(rows, t), es)]
    <3>1. read' = [read EXCEPT ![r].window = window]
      BY <1>6, <2>2
    <3>2. read' = [read EXCEPT ![r] = read'[r]] /\ read'[r] = [read[r] EXCEPT !.window = window]
      BY <1>2, <3>1 DEF FunsInv
    <3>3. stage' = [stage EXCEPT ![r] = stage'[r]] /\ stage'[r] = "syncWrite"
      BY <1>2, <2>2, GotoIs
    <3> QED
      BY <2>2, <3>2, <3>3
  <2> QED
    BY <1>5, <2>1, <2>2
<1>8. Steps(r) /\ Locks(r)
  BY <1>1, <1>2, <1>4, <1>7, Stays DEF Steps, Locks
<1>9. /\ t2.w = t.w /\ t2.stage = stage'[r] /\ t2.job = t.job /\ t2.known = t.known
      /\ t2.read = t.read \/ t2.read = [t.read EXCEPT !.window = window]
      /\ t2.stage = "syncWrite" => t2.read = [t.read EXCEPT !.window = window]
      /\ t2.touched = IF Many(t) THEN t.touched ELSE t.touched \ {g}
  BY <1>1, <1>2, <1>4, <1>7, Now
<1>10. /\ ReadShape(t2) /\ t2.read.group = t.read.group /\ t2.read.seats = t.read.seats
       /\ t2.read.cancelled = t.read.cancelled
       /\ t2.stage = "syncWrite" => t2.read.window = window
  BY <1>3, <1>9 DEF ReadShape, Fields
<1>11. Around(t2) = Around(t) /\ (Alone(t2) => Alone(t) \/ Clones(rows, t) = {})
  BY <1>2, <1>3, <1>9, <1>10 DEF Around, Alone
<1>12. /\ Clones(rows, t2) = Clones(rows, t) /\ Seen(rows, t2) = Seen(rows, t)
       /\ WritesOK(r, rows, t2) /\ ClonesOK(r, rows, t2) /\ ReadOK(rows, t2)
       /\ t.job.kind = "edit" => EditOK(rows, t2)
       /\ t.job.kind = "move" => MoveOK(rows, t2) /\ SeatsOK(rows, t2) /\ KnownOK(rows, t2)
  <2>1. t.stage # "load" /\ t2.stage \notin {"list", "date", "service", "event"}
    BY <1>2, <1>7, <1>9
  <2> QED
    BY <1>3, <1>9, <1>10, <1>11, <2>1, Quiet
<1>13. SyncOK(rows, t2)
  <2>1. t2.stage = "syncWrite" => es # {} /\ t2.read.window = Span(Seen(rows, t), es)
    BY <1>6, <1>7, <1>9, <1>10
  <2>2. t2.stage = "commit" => Spanned(Seen(rows, t), g)
    BY <1>7, <1>9 DEF Spanned
  <2> QED
    BY <1>2, <1>10, <1>12, <2>1, <2>2 DEF SyncOK
<1>14. TxOK(r, rows, t2)
  BY <1>3, <1>7, <1>9, <1>10, <1>12, <1>13 DEF TxOK, Begun, Stages
<1> QED
  BY <1>1, <1>8, <1>14, OwnStep

\* A request gives its booking a window.
LEMMA WindowWritten ==
    ASSUME NEW r \in Requests, NEW R, NEW t, NEW t2, NEW window, NEW g,
           IsTable(R, GroupRows(R)), WritesOK(r, R, t), ReadOK(R, t), g = t.read.group,
           Writes(t, t2, Edits!WithWindow(Seen(R, t), g, window)),
           t2.job = t.job, t2.touched = t.touched, t2.read = t.read, t2.known = t.known
    PROVE  /\ WritesOK(r, R, t2) /\ Clones(R, t2) = Clones(R, t)
           /\ MoveOK(R, t) /\ t.job.kind = "move" /\ t2.stage # "event" => MoveOK(R, t2)
           /\ KnownOK(R, t) => KnownOK(R, t2)
           /\ EditOK(R, t) /\ t2.stage = "commit" => EditOK(R, t2)
           /\ Ids(t2.w) = Ids(t.w) \union {g}
           /\ LET es == EventsOf(Seen(R, t), g)
              IN  es # {} /\ window = Span(Seen(R, t), es) => Spanned(Seen(R, t2), g)
<1>1. PICK v, row, one : /\ v = Seen(R, t)
                         /\ row = [v[g] EXCEPT !.start = window.start, !.end = window.end]
                         /\ one = Edits!One(g, row)
  OBVIOUS
<1>2. Writes(t, t2, one)
  BY <1>1 DEF Edits!WithWindow
<1>3. /\ IsTable(v, GroupRows(v)) /\ Ids(v) = Ids(t.w) \union Ids(R)
      /\ \A x \in Ids(t.w) : v[x] = t.w[x]
      /\ \A x \in Ids(R) : x \notin Ids(t.w) => v[x] = R[x]
      /\ \A x \in Ids(R) : v[x].kind = R[x].kind
      /\ GroupRows(v) = GroupRows(R) \union Clones(R, t)
  BY <1>1, SeenFacts
<1>4. g \in GroupRows(R) /\ g \in Ids(R) /\ R[g].kind = "group" /\ v[g].kind = "group"
  BY <1>3 DEF ReadOK, GroupRows
<1>5. /\ row.kind = "group" /\ row.start = window.start /\ row.end = window.end
      /\ row.cancelled = v[g].cancelled /\ \A G : Shaped(row, G)
  <2>1. PICK old : old = v[g]
    OBVIOUS
  <2>2. old.kind = "group" /\ Fields(old) = {"kind", "start", "end", "cancelled", "life"}
    BY <1>3, <1>4, <2>1 DEF IsTable, Shaped
  <2>3. row = [old EXCEPT !.start = window.start, !.end = window.end]
    BY <1>1, <2>1
  <2>4. /\ row.kind = "group" /\ row.start = window.start /\ row.end = window.end
        /\ row.cancelled = old.cancelled /\ Fields(row) = Fields(old)
    BY <2>2, <2>3 DEF Fields
  <2> QED
    BY <2>1, <2>2, <2>4 DEF Shaped
<1>6. Ids(one) = {g} /\ one[g] = row
  <2>1. Ids(Edits!One(g, row)) = {g} /\ Edits!One(g, row)[g] = row
    BY OneFacts
  <2> QED
    BY <1>1, <2>1
<1>7. GroupRows(one) = {g} /\ EventRows(one) = {} /\ SeatRows(one) = {}
  BY <1>5, <1>6 DEF GroupRows, EventRows, SeatRows
<1>8. g \notin Clones(R, t)
  BY <1>4 DEF Clones
<1>9. Fit(r, R, t, one)
  <2>1. IsTable(one, GroupRows(Seen(R, t)) \union GroupRows(one))
    BY <1>1, <1>5, TableOfOne
  <2>2. Named(r, R, one)
    BY <1>4, <1>5, <1>6 DEF Named
  <2>3. Clones(R, t) \intersect Ids(one) \subseteq GroupRows(one)
    BY <1>6, <1>8
  <2> QED
    BY <2>1, <2>2, <2>3 DEF Fit
<1>10. /\ WritesOK(r, R, t2) /\ Adds(t, t2, one)
       /\ Clones(R, t2) = Clones(R, t) \union (GroupRows(one) \ Ids(R))
  BY <1>2, <1>9, Written
<1>11. Clones(R, t2) = Clones(R, t)
  BY <1>4, <1>7, <1>10
<1>12. /\ Ids(t2.w) = Ids(t.w) \union {g} /\ t2.w[g] = row
       /\ \A x \in Ids(t.w) : x # g => t2.w[x] = t.w[x]
  BY <1>6, <1>10 DEF Adds
<1>13. /\ GroupRows(t2.w) = GroupRows(t.w) \union {g}
       /\ EventRows(t2.w) = EventRows(t.w) /\ SeatRows(t2.w) = SeatRows(t.w)
       /\ g \in Ids(t.w) => t.w[g].kind = "group"
  <2>1. g \in Ids(t.w) => t.w[g].kind = "group"
    BY <1>3, <1>4
  <2> QED
    BY <1>5, <1>12, <2>1 DEF GroupRows, EventRows, SeatRows
<1>14. /\ \A x \in EventRows(t.w) \union SeatRows(t.w) : x \in Ids(t.w) /\ t2.w[x] = t.w[x]
       /\ \A x \in Clones(R, t) : x \in Ids(t.w) /\ t2.w[x] = t.w[x]
  <2>1. \A x \in EventRows(t.w) \union SeatRows(t.w) : x \in Ids(t.w) /\ x # g
    BY <1>13 DEF EventRows, SeatRows
  <2>2. \A x \in Clones(R, t) : x \in Ids(t.w) /\ x # g
    BY <1>8 DEF Clones, GroupRows
  <2> QED
    BY <1>12, <2>1, <2>2
<1>15. Around(t2) = Around(t) /\ (Alone(t2) <=> Alone(t))
  BY DEF Around, Alone
<1>16. ASSUME MoveOK(R, t), t.job.kind = "move", t2.stage # "event" PROVE MoveOK(R, t2)
  <2>1. t2.job.event \in EventRows(R) /\ R[t2.job.event].group \in Around(t2)
    BY <1>15, <1>16 DEF MoveOK
  <2>2. ASSUME NEW x \in GroupRows(t2.w) \ Clones(R, t2)
        PROVE  x = t2.read.group /\ t2.w[x].cancelled = R[x].cancelled
    <3>1. x = g
      BY <1>11, <1>13, <1>16 DEF MoveOK
    <3>2. v[g].cancelled = R[g].cancelled
      <4>1. CASE g \in Ids(t.w)
        <5>1. g \in GroupRows(t.w) \ Clones(R, t)
          BY <1>8, <1>13, <4>1 DEF GroupRows
        <5> QED
          BY <1>3, <1>16, <4>1, <5>1 DEF MoveOK
      <4>2. CASE g \notin Ids(t.w)
        BY <1>3, <1>4, <4>2
      <4> QED
        BY <4>1, <4>2
    <3> QED
      BY <1>5, <1>12, <3>1, <3>2
  <2>3. \A x \in EventRows(t2.w) :
          /\ x \in Ids(R) /\ R[x].group \in Around(t2)
          /\ t2.job.many => t2.w[x].group \in Clones(R, t2)
          /\ ~t2.job.many => x = t2.job.event /\ t2.w[x].group = R[x].group
    BY <1>11, <1>13, <1>14, <1>15, <1>16 DEF MoveOK
  <2>4. \A x \in SeatRows(t2.w) : x \notin Ids(R) /\ t2.w[x].group \in Clones(R, t2)
    BY <1>11, <1>13, <1>14, <1>16 DEF MoveOK
  <2>5. ASSUME Alone(t2), NEW c \in Clones(R, t2) PROVE Spanned(t2.w, c)
    <3>1. Spanned(t.w, c) /\ t2.w[c] = t.w[c]
      BY <1>11, <1>14, <1>15, <1>16, <2>5 DEF MoveOK
    <3>2. /\ \A x \in EventRows(t.w) : t.w[x].group = c => x \in EventRows(t2.w) /\ t2.w[x] = t.w[x]
          /\ \A x \in EventRows(t2.w) : t2.w[x].group = c => x \in EventRows(t.w) /\ t2.w[x] = t.w[x]
      BY <1>13, <1>14
    <3> QED
      BY <3>1, <3>2, SameWindow
  <2> QED
    BY <1>16, <2>1, <2>2, <2>3, <2>4, <2>5 DEF MoveOK
<1>17. ASSUME KnownOK(R, t) PROVE KnownOK(R, t2)
  <2>1. ASSUME NEW d \in Clones(R, t2)
        PROVE  /\ t2.w[d].cancelled = t2.read.cancelled
               /\ {x \in SeatRows(t2.w) : t2.w[x].group = d}
                    = {<<d, y>> : y \in Ids(t2.read.seats)}
               /\ \A y \in Ids(t2.read.seats) :
                    t2.w[<<d, y>>] = [t2.read.seats[y] EXCEPT !.group = d]
    <3>1. /\ t.w[d].cancelled = t.read.cancelled /\ t2.w[d] = t.w[d]
          /\ {x \in SeatRows(t.w) : t.w[x].group = d} = {<<d, y>> : y \in Ids(t.read.seats)}
          /\ \A y \in Ids(t.read.seats) : t.w[<<d, y>>] = [t.read.seats[y] EXCEPT !.group = d]
      BY <1>11, <1>14, <1>17 DEF KnownOK, ClonesAre
    <3>2. {x \in SeatRows(t2.w) : t2.w[x].group = d} = {x \in SeatRows(t.w) : t.w[x].group = d}
      BY <1>13, <1>14
    <3>3. \A y \in Ids(t.read.seats) : <<d, y>> \in SeatRows(t.w)
      BY <3>1
    <3> QED
      BY <1>14, <3>1, <3>2, <3>3
  <2>2. Attended(t2) = Attended(t)
    BY DEF Attended
  <2>3. ClonesAre(R, t2, t2.read)
    BY <2>1 DEF ClonesAre
  <2> QED
    BY <1>17, <2>2, <2>3 DEF KnownOK
<1>18. ASSUME EditOK(R, t), t2.stage = "commit" PROVE EditOK(R, t2)
  <2>1. GroupRows(t2.w) \subseteq {t2.read.group}
    BY <1>13, <1>18 DEF EditOK
  <2>2. \A x \in EventRows(t2.w) :
          \/ t2.w[x].group = t2.read.group
          \/ x \in Ids(R) /\ t2.w[x].group = R[x].group
    BY <1>13, <1>14, <1>18 DEF EditOK
  <2> QED
    BY <1>18, <2>1, <2>2 DEF EditOK
<1>19. ASSUME EventsOf(v, g) # {}, window = Span(v, EventsOf(v, g))
       PROVE  Spanned(Seen(R, t2), g)
  <2>1. PICK w : w = Seen(R, t2)
    OBVIOUS
  <2>2. /\ Ids(w) = Ids(t2.w) \union Ids(R)
        /\ \A x \in Ids(t2.w) : w[x] = t2.w[x]
        /\ \A x \in Ids(R) : x \notin Ids(t2.w) => w[x] = R[x]
    BY <1>10, <2>1, SeenFacts
  <2>3. Ids(w) = Ids(v) /\ \A x \in Ids(v) : x # g => w[x] = v[x]
    BY <1>3, <1>4, <1>12, <2>2
  <2>4. w[g] = row
    BY <1>12, <2>2
  <2>5. /\ \A x \in EventRows(v) : v[x].group = g => x \in EventRows(w) /\ w[x] = v[x]
        /\ \A x \in EventRows(w) : w[x].group = g => x \in EventRows(v) /\ w[x] = v[x]
    BY <1>4, <1>5, <2>3, <2>4 DEF EventRows
  <2>6. Span(w, EventsOf(w, g)) = window
    BY <1>19, <2>5, SameWindow
  <2> QED
    BY <1>5, <2>1, <2>4, <2>6 DEF Spanned
<1> QED
  BY <1>1, <1>10, <1>11, <1>12, <1>16, <1>17, <1>18, <1>19

LEMMA SyncWriteKeeps ==
    ASSUME EditsInv, NEW r \in Requests, Edits!SyncWrite(r)
    PROVE  EditsInv'
<1> DEFINE t == Tx(r)
           t2 == Tx(r)'
           g == read[r].group
<1>1. stage[r] = "syncWrite" /\ UNCHANGED <<rows, job, read, plan, known, touched, spoilt>>
  BY DEF Edits!SyncWrite, Edits!history
<1>2. /\ FunsInv /\ IsTable(rows, GroupRows(rows)) /\ t.stage = "syncWrite" /\ t.w = writes[r]
      /\ t.read = read[r] /\ t.job = job[r] /\ t.touched = touched[r] /\ t.known = known[r]
      /\ Edits!View(r) = Seen(rows, t)
  BY <1>1, Now
<1>3. /\ t.job.kind \in {"move", "edit"} /\ TxOK(r, rows, t)
      /\ WritesOK(r, rows, t) /\ ClonesOK(r, rows, t) /\ ReadOK(rows, t)
      /\ ReadShape(t) /\ SyncOK(rows, t)
      /\ t.job.kind = "move" => MoveOK(rows, t) /\ SeatsOK(rows, t) /\ KnownOK(rows, t)
      /\ t.job.kind = "edit" => EditOK(rows, t)
  BY <1>1, SyncStages
<1>4. CASE Edits!Throw(r)
  BY <1>1, <1>4, ThrowIs
<1>5. CASE Edits!Write(r, Edits!WithWindow(Edits!View(r), g, read[r].window), "commit")
  <2>1. PICK new : new = Edits!WithWindow(Seen(rows, t), g, t.read.window)
    OBVIOUS
  <2>2. Edits!Write(r, new, "commit")
    BY <1>2, <1>5, <2>1
  <2>3. /\ writes' = [writes EXCEPT ![r] = writes'[r]]
        /\ writes'[r] = Edits!Over(new, writes[r])
        /\ stage' = [stage EXCEPT ![r] = stage'[r]] /\ stage'[r] = "commit"
        /\ Locks(r)
    BY <1>2, <2>2, WriteIs
  <2>4. Steps(r)
    BY <1>1, <1>2, <2>3, Stays DEF Steps
  <2>5. /\ t2.w = writes'[r] /\ t2.stage = "commit" /\ t2.job = t.job /\ t2.read = t.read
        /\ t2.known = t.known /\ t2.touched = t.touched
    BY <1>1, <2>3, Now
  <2>6. Writes(t, t2, Edits!WithWindow(Seen(rows, t), g, t.read.window)) /\ g = t.read.group
    BY <1>2, <2>1, <2>3, <2>5 DEF Writes
  <2>7. /\ WritesOK(r, rows, t2) /\ Clones(rows, t2) = Clones(rows, t)
        /\ MoveOK(rows, t) /\ t.job.kind = "move" /\ t2.stage # "event" => MoveOK(rows, t2)
        /\ KnownOK(rows, t) => KnownOK(rows, t2)
        /\ EditOK(rows, t) /\ t2.stage = "commit" => EditOK(rows, t2)
        /\ LET es == EventsOf(Seen(rows, t), g)
           IN  es # {} /\ t.read.window = Span(Seen(rows, t), es) => Spanned(Seen(rows, t2), g)
    BY <1>2, <1>3, <2>5, <2>6, WindowWritten
  <2>8. SyncOK(rows, t2)
    <3>1. Alone(t2) => Alone(t)
      BY <2>5 DEF Alone
    <3> QED
      BY <1>2, <1>3, <2>5, <2>6, <2>7, <3>1 DEF SyncOK
  <2>9. TxOK(r, rows, t2)
    <3>1. ClonesOK(r, rows, t2)
      BY <1>2, <1>3, <2>5, <2>7 DEF ClonesOK, Many
    <3> QED
      BY <1>3, <2>5, <2>7, <2>8, <3>1 DEF TxOK, Begun, Stages, ReadOK, SeatsOK, ReadShape
  <2> QED
    BY <1>1, <2>3, <2>4, <2>9, OwnStep
<1> QED
  BY <1>4, <1>5 DEF Edits!SyncWrite

-----------------------------------------------------------------------------
\* The events that stay behind

\* The sequences of a set are those that name each of its members once.
LEMMA OrdersOf ==
    ASSUME NEW v, NEW es, IsFiniteSet(es), NEW s \in Edits!ByStart(v, es)
    PROVE  /\ Len(s) \in Nat /\ s \in [1..Len(s) -> es]
           /\ \A i, j \in 1..Len(s) : i # j => s[i] # s[j]
<1>1. PICK n : n = Cardinality(es)
  OBVIOUS
<1>2. n \in Nat
  BY <1>1, FS_CardinalityType
<1>3. s \in [1..n -> es] /\ \A i, j \in 1..n : s[i] = s[j] => i = j
  BY <1>1, SameNotions
     DEF Edits!ByStart, Edits!SetToSeqs, Edits!IsInjective
<1>4. Len(s) = n
  BY <1>2, <1>3
<1> QED
  BY <1>2, <1>3, <1>4

LEMMA SegmentsFacts ==
    ASSUME NEW v, NEW es, IsFiniteSet(es), NEW s \in Edits!ByStart(v, es),
           NEW plan1, plan1 = Edits!Segments(v, s)
    PROVE  /\ plan1 # << >> /\ plan1 \in Seq({plan1[i] : i \in Ids(plan1)})
           /\ \A i \in Ids(plan1) :
                /\ plan1[i].events \subseteq es
                /\ plan1[i].start = Span(v, plan1[i].events).start
                /\ plan1[i].end = Span(v, plan1[i].events).end
                /\ \A j \in Ids(plan1) :
                     i # j => plan1[i].events \intersect plan1[j].events = {}
<1>1. /\ Len(s) \in Nat /\ s \in [1..Len(s) -> es]
      /\ \A i, j \in 1..Len(s) : i # j => s[i] # s[j]
  BY OrdersOf
<1> DEFINE Gaps(i) == {j \in 2..i : v[s[j]].start > v[s[j - 1]].end}
           Nth(k) == {s[i] : i \in {j \in DOMAIN s : Cardinality(Gaps(j)) = k - 1}}
           n == Cardinality(Gaps(Len(s))) + 1
<1>2. n \in Nat /\ n # 0
  <2>1. Gaps(Len(s)) \subseteq 2..Len(s) /\ IsFiniteSet(2..Len(s))
    BY <1>1, FS_Interval
  <2>2. Cardinality(Gaps(Len(s))) \in Nat
    BY <2>1, FS_Subset, FS_CardinalityType
  <2> QED
    BY <2>2
<1>3. plan1 = [k \in 1..n |-> [events |-> Nth(k), start |-> Span(v, Nth(k)).start,
                               end |-> Span(v, Nth(k)).end]]
  BY SameNotions DEF Edits!Segments
<1>4. DOMAIN s = 1..Len(s)
  BY <1>1
<1>5. \A k \in 1..n : Nth(k) \subseteq es
  BY <1>1, <1>4
<1>6. ASSUME NEW k \in 1..n, NEW l \in 1..n, k # l PROVE Nth(k) \intersect Nth(l) = {}
  <2> SUFFICES ASSUME NEW x, x \in Nth(k), x \in Nth(l) PROVE FALSE
    OBVIOUS
  <2>1. PICK i \in DOMAIN s : x = s[i] /\ Cardinality(Gaps(i)) = k - 1
    OBVIOUS
  <2>2. PICK j \in DOMAIN s : x = s[j] /\ Cardinality(Gaps(j)) = l - 1
    OBVIOUS
  <2>3. i = j
    BY <1>1, <1>4, <2>1, <2>2
  <2> HIDE DEF Gaps
  <2> QED
    BY <1>2, <1>6, <2>1, <2>2, <2>3
<1> HIDE DEF Nth, n
<1>7. Ids(plan1) = 1..n
  BY <1>3 DEF Ids
<1>8. \A k \in 1..n : /\ plan1[k].events = Nth(k)
                      /\ plan1[k].start = Span(v, Nth(k)).start
                      /\ plan1[k].end = Span(v, Nth(k)).end
  BY <1>3
<1>9. plan1 # << >>
  BY <1>2, <1>3
<1>10. plan1 \in Seq({plan1[i] : i \in Ids(plan1)})
  <2>1. plan1 = [k \in 1..n |-> plan1[k]]
    BY <1>3
  <2>2. PICK Parts : Parts = {plan1[i] : i \in Ids(plan1)}
    OBVIOUS
  <2>3. \A k \in 1..n : plan1[k] \in Parts
    BY <1>7, <2>2
  <2>4. plan1 \in [1..n -> Parts]
    BY <2>1, <2>3
  <2>5. plan1 \in Seq(Parts)
    BY <1>2, <2>4
  <2> QED
    BY <2>2, <2>5
<1> QED
  BY <1>5, <1>6, <1>7, <1>8, <1>9, <1>10

LEMMA MoveStages ==
    ASSUME EditsInv, NEW r \in Requests, stage[r] \in {"remain", "bound", "split"}
    PROVE  LET t == Tx(r)
           IN  /\ Many(t) /\ TxOK(r, rows, t) /\ Begun(t) /\ ReadShape(t)
               /\ WritesOK(r, rows, t) /\ ClonesOK(r, rows, t) /\ ReadOK(rows, t)
               /\ MoveOK(rows, t) /\ SeatsOK(rows, t) /\ KnownOK(rows, t)
               /\ t.stage \in {"bound", "split"} => PlanOK(rows, t)
<1> DEFINE t == Tx(r)
<1>1. TxOK(r, rows, t) /\ t.stage = stage[r] /\ t.job = job[r] /\ FunsInv
  BY Now
<1>2. Many(t) /\ Begun(t) /\ t.job.kind = "move"
  BY <1>1, JobFacts DEF TxOK, Begun, Stages, Many
<1> QED
  BY <1>1, <1>2 DEF TxOK

LEMMA RemainKeeps ==
    ASSUME EditsInv, NEW r \in Requests, Edits!Remain(r)
    PROVE  EditsInv'
<1> DEFINE t == Tx(r)
           t2 == Tx(r)'
           v == Seen(rows, t)
           left == EventsOf(v, read[r].group)
<1>1. stage[r] = "remain" /\ UNCHANGED <<rows, writes, job, read, known, touched, spoilt>>
  BY DEF Edits!Remain, Edits!history
<1>2. /\ FunsInv /\ IsTable(rows, GroupRows(rows)) /\ t.stage = "remain" /\ t.w = writes[r]
      /\ t.read = read[r] /\ t.job = job[r] /\ t.touched = touched[r] /\ t.known = known[r]
      /\ Edits!View(r) = v
  BY <1>1, Now
<1>3. /\ Many(t) /\ TxOK(r, rows, t) /\ Begun(t) /\ ReadShape(t)
      /\ WritesOK(r, rows, t) /\ ClonesOK(r, rows, t) /\ ReadOK(rows, t)
      /\ MoveOK(rows, t) /\ SeatsOK(rows, t) /\ KnownOK(rows, t)
  BY <1>1, MoveStages
<1>4. \/ /\ Edits!Goto(r, "syncRead") /\ plan' = plan
      \/ /\ Edits!Goto(r, "bound")
         /\ \E s \in Edits!ByStart(v, left) :
               plan' = [plan EXCEPT ![r] = Edits!Segments(v, s)]
  BY <1>2, SameNotions DEF Edits!Remain
<1>5. ASSUME plan' = [plan EXCEPT ![r] = plan'[r]], stage' = [stage EXCEPT ![r] = stage'[r]],
             stage'[r] \in {"syncRead", "bound"}, stage'[r] = "bound" => PlanOK(rows, t2)
      PROVE  EditsInv'
  <2>1. Steps(r) /\ Locks(r)
    BY <1>1, <1>2, <1>5, Stays DEF Steps, Locks
  <2>2. /\ t2.w = t.w /\ t2.stage = stage'[r] /\ t2.job = t.job /\ t2.read = t.read
        /\ t2.known = t.known /\ t2.touched = t.touched
    BY <1>1, <1>2, Now
  <2>3. Around(t2) = Around(t) /\ (Alone(t2) <=> Alone(t)) /\ ReadShape(t2)
    BY <1>3, <2>2 DEF Around, Alone, ReadShape
  <2>4. /\ WritesOK(r, rows, t2) /\ ClonesOK(r, rows, t2) /\ ReadOK(rows, t2)
        /\ MoveOK(rows, t2) /\ SeatsOK(rows, t2) /\ KnownOK(rows, t2)
    <3>1. t2.stage # "event" /\ t.stage # "load"
      BY <1>2, <1>5, <2>2
    <3> QED
      BY <1>3, <2>2, <2>3, <3>1, Quiet
  <2>5. TxOK(r, rows, t2)
    BY <1>3, <1>5, <2>2, <2>3, <2>4 DEF TxOK, Begun, Stages, SyncOK, Many
  <2> QED
    BY <1>1, <2>1, <2>5, OwnStep
<1>6. CASE Edits!Goto(r, "syncRead") /\ plan' = plan
  BY <1>2, <1>5, <1>6, GotoIs, Stays
<1>7. ASSUME Edits!Goto(r, "bound"), NEW s \in Edits!ByStart(v, left),
             plan' = [plan EXCEPT ![r] = Edits!Segments(v, s)]
      PROVE  EditsInv'
  <2>1. PICK segs : segs = Edits!Segments(v, s)
    OBVIOUS
  <2>2. plan' = [plan EXCEPT ![r] = plan'[r]] /\ plan'[r] = segs
    BY <1>2, <1>7, <2>1 DEF FunsInv
  <2>3. stage' = [stage EXCEPT ![r] = stage'[r]] /\ stage'[r] = "bound"
    BY <1>2, <1>7, GotoIs
  <2>4. /\ t2.w = t.w /\ t2.job = t.job /\ t2.read = t.read /\ t2.touched = t.touched
        /\ t2.plan = segs
    BY <1>1, <1>2, <2>2, Now
  <2>5. /\ IsTable(v, GroupRows(v)) /\ Ids(v) = Ids(t.w) \union Ids(rows)
        /\ \A x \in Ids(t.w) : v[x] = t.w[x]
        /\ \A x \in Ids(rows) : x \notin Ids(t.w) => v[x] = rows[x]
    BY <1>2, <1>3, SeenFacts
  <2>6. ASSUME NEW x \in left
        PROVE  /\ x \in EventRows(rows) /\ rows[x].group = t.read.group
               /\ rows[x].life = "live" /\ x \notin Ids(t.w) /\ v[x] = rows[x]
    <3>1. x \in EventRows(v) /\ v[x].life = "live" /\ v[x].group = t.read.group
      BY <1>2, <2>6, EventsAre
    <3>2. x \notin Ids(t.w)
      <4>1. x \in Ids(t.w) => x \in EventRows(t.w) /\ t.w[x].group = t.read.group
        BY <2>5, <3>1 DEF EventRows
      <4>2. \A y \in EventRows(t.w) : t.w[y].group \in Clones(rows, t)
        BY <1>3 DEF MoveOK, Many
      <4>3. t.read.group \notin Clones(rows, t)
        BY <1>3 DEF ReadOK, Clones, GroupRows
      <4> QED
        BY <4>1, <4>2, <4>3
    <3> QED
      BY <2>5, <3>1, <3>2 DEF EventRows
  <2>7. IsFiniteSet(left)
    <3>1. left \subseteq EventRows(v)
      BY EventsAre
    <3> QED
      BY <2>5, <3>1, FS_Subset DEF IsTable
  <2>8. /\ segs # << >> /\ segs \in Seq({segs[i] : i \in Ids(segs)})
        /\ \A i \in Ids(segs) :
             /\ segs[i].events \subseteq left
             /\ segs[i].start = Span(v, segs[i].events).start
             /\ segs[i].end = Span(v, segs[i].events).end
             /\ \A j \in Ids(segs) : i # j => segs[i].events \intersect segs[j].events = {}
    BY <1>7, <2>1, <2>7, SegmentsFacts
  <2>9. ASSUME NEW i \in Ids(segs)
        PROVE  Span(v, segs[i].events) = Span(rows, segs[i].events)
    <3>1. \A x \in segs[i].events : v[x].start = rows[x].start /\ v[x].end = rows[x].end
      BY <2>6, <2>8
    <3> QED
      BY <3>1, SameSpan
  <2>10. PlanOK(rows, t2)
    <3>1. t2.read.group \in Around(t2)
      BY DEF Around
    <3> QED
      BY <2>4, <2>6, <2>8, <2>9, <3>1 DEF PlanOK, IsList
  <2> QED
    BY <1>5, <2>2, <2>3, <2>10
<1> QED
  BY <1>4, <1>6, <1>7

\* q is p without its head.
Rest(p, q) ==
    \A i \in Ids(q) : i \in Nat /\ i # 0 /\ i + 1 \in Ids(p) /\ q[i] = p[i + 1]

\* What is left of a list
LEMMA TailFacts ==
    ASSUME NEW p, IsList(p), NEW q, q = Tail(p)
    PROVE  /\ 1 \in Ids(p) /\ Head(p) = p[1]
           /\ Len(p) # 1 => IsList(q)
           /\ Rest(p, q)
<1>1. PICK S : S = {p[i] : i \in Ids(p)}
  OBVIOUS
<1>2. p # << >> /\ p \in Seq(S)
  BY <1>1 DEF IsList
<1>3. PICK n \in Nat : n = Len(p)
  BY <1>2
<1>4. n # 0 /\ Ids(p) = 1..n
  BY <1>2, <1>3 DEF Ids
<1>5. q \in Seq(S) /\ Len(q) = n - 1 /\ \A i \in 1..(n - 1) : q[i] = p[i + 1]
  BY <1>2, <1>3, HeadTailProperties
<1>6. PICK k \in Nat : k = n - 1
  BY <1>3, <1>4
<1>7. q \in [1..k -> S] /\ Ids(q) = 1..k
  BY <1>5, <1>6, LenProperties DEF Ids
<1>8. IsList(q) \/ q = << >>
  <2>1. PICK Q : Q = {q[i] : i \in Ids(q)}
    OBVIOUS
  <2>2. q \in [1..k -> Q]
    BY <1>7, <2>1
  <2>3. q \in Seq(Q)
    BY <2>2, SeqDef
  <2> QED
    BY <2>1, <2>3 DEF IsList
<1>9. n # 1 => q # << >>
  BY <1>5, <1>3, EmptySeq
<1>10. Rest(p, q)
  <2>1. ASSUME NEW i \in Ids(q)
        PROVE  i \in Nat /\ i # 0 /\ i + 1 \in Ids(p) /\ q[i] = p[i + 1]
    BY <1>4, <1>5, <1>6, <1>7, <2>1
  <2> QED
    BY <2>1 DEF Rest
<1>11. 1 \in Ids(p) /\ Head(p) = p[1]
  BY <1>2, <1>4
<1> QED
  BY <1>3, <1>8, <1>9, <1>10, <1>11

\* The segments after the first
LEMMA PlanTail ==
    ASSUME NEW R, NEW t, NEW t2, PlanOK(R, t), t2.plan = Tail(t.plan), Len(t.plan) # 1,
           t2.read = t.read, t2.touched = t.touched,
           \A x \in Ids(t2.w) : x \in EventRows(R) => x \in Ids(t.w) \union t.plan[1].events
    PROVE  PlanOK(R, t2)
<1>1. PICK p, q : p = t.plan /\ q = t2.plan
  OBVIOUS
<1>2. 1 \in Ids(p) /\ IsList(q) /\ Rest(p, q)
  <2>1. IsList(p) /\ q = Tail(p) /\ Len(p) # 1
    BY <1>1 DEF PlanOK
  <2> QED
    BY <2>1, TailFacts
<1>3. Around(t2) = Around(t) /\ (Alone(t2) <=> Alone(t))
  BY DEF Around, Alone
<1>4. ASSUME NEW i \in Ids(q)
      PROVE  \E k \in Ids(p) : k = i + 1 /\ k # 1 /\ i \in Nat /\ q[i] = p[k]
  BY <1>2, <1>4 DEF Rest
<1>5. ASSUME NEW i \in Ids(q), NEW x \in q[i].events
      PROVE  x \in EventRows(R) /\ R[x].group \in Around(t2) /\ x \notin Ids(t2.w)
  <2>1. PICK k \in Ids(p) : k = i + 1 /\ k # 1 /\ q[i] = p[k]
    BY <1>4
  <2>2. x \in EventRows(R) /\ R[x].group \in Around(t) /\ x \notin Ids(t.w)
    BY <1>1, <1>5, <2>1 DEF PlanOK
  <2>3. x \notin p[1].events
    BY <1>1, <1>2, <1>5, <2>1 DEF PlanOK
  <2> QED
    BY <1>1, <1>3, <2>2, <2>3
<1>6. ASSUME NEW i \in Ids(q), NEW j \in Ids(q), i # j
      PROVE  q[i].events \intersect q[j].events = {}
  <2>1. PICK k \in Ids(p) : k = i + 1 /\ i \in Nat /\ q[i] = p[k]
    BY <1>4
  <2>2. PICK l \in Ids(p) : l = j + 1 /\ j \in Nat /\ q[j] = p[l]
    BY <1>4
  <2>3. k # l
    BY <1>6, <2>1, <2>2
  <2>4. p[k].events \intersect p[l].events = {}
    BY <1>1, <2>3 DEF PlanOK
  <2> QED
    BY <2>1, <2>2, <2>4
<1>7. ASSUME Alone(t2), NEW i \in Ids(q)
      PROVE  /\ \A x \in q[i].events : R[x].group = t2.read.group /\ R[x].life = "live"
             /\ q[i].start = Span(R, q[i].events).start
             /\ q[i].end = Span(R, q[i].events).end
  <2>1. PICK k \in Ids(p) : q[i] = p[k]
    BY <1>4
  <2>2. PICK part : part = p[k]
    OBVIOUS
  <2>3. /\ \A x \in part.events : R[x].group = t.read.group /\ R[x].life = "live"
        /\ part.start = Span(R, part.events).start
        /\ part.end = Span(R, part.events).end
    BY <1>1, <1>3, <1>7, <2>2 DEF PlanOK
  <2> QED
    BY <2>1, <2>2, <2>3
<1>8. ASSUME NEW i \in Ids(t2.plan)
      PROVE  /\ \A x \in t2.plan[i].events :
                   x \in EventRows(R) /\ R[x].group \in Around(t2) /\ x \notin Ids(t2.w)
             /\ \A j \in Ids(t2.plan) :
                   i # j => t2.plan[i].events \intersect t2.plan[j].events = {}
             /\ Alone(t2) =>
                  /\ \A x \in t2.plan[i].events :
                       R[x].group = t2.read.group /\ R[x].life = "live"
                  /\ t2.plan[i].start = Span(R, t2.plan[i].events).start
                  /\ t2.plan[i].end = Span(R, t2.plan[i].events).end
  BY <1>1, <1>5, <1>6, <1>7, <1>8
<1> QED
  BY <1>1, <1>2, <1>8 DEF PlanOK

LEMMA BoundKeeps ==
    ASSUME EditsInv, NEW r \in Requests, Edits!Bound(r)
    PROVE  EditsInv'
<1> DEFINE t == Tx(r)
           t2 == Tx(r)'
           g == read[r].group
<1>1. stage[r] = "bound" /\ UNCHANGED <<rows, job, read, known, touched, spoilt>>
  BY DEF Edits!Bound, Edits!history
<1>2. /\ FunsInv /\ IsTable(rows, GroupRows(rows)) /\ t.stage = "bound" /\ t.w = writes[r]
      /\ t.read = read[r] /\ t.job = job[r] /\ t.touched = touched[r] /\ t.known = known[r]
      /\ t.plan = plan[r] /\ Edits!View(r) = Seen(rows, t)
  BY <1>1, Now
<1>3. /\ Many(t) /\ TxOK(r, rows, t) /\ Begun(t) /\ ReadShape(t)
      /\ WritesOK(r, rows, t) /\ ClonesOK(r, rows, t) /\ ReadOK(rows, t)
      /\ MoveOK(rows, t) /\ SeatsOK(rows, t) /\ KnownOK(rows, t) /\ PlanOK(rows, t)
  BY <1>1, <1>2, MoveStages
<1>4. CASE Edits!Throw(r) /\ plan' = plan
  BY <1>1, <1>4, ThrowIs
<1>5. CASE /\ Edits!Write(r, Edits!WithWindow(Edits!View(r), g, Head(plan[r])),
                          Edits!AfterSegment(r))
           /\ plan' = [plan EXCEPT ![r] = Tail(@)]
  <2>1. PICK new, label, window :
          /\ window = Head(plan[r]) /\ new = Edits!WithWindow(Seen(rows, t), g, window)
          /\ label = Edits!AfterSegment(r)
    OBVIOUS
  <2>2. Edits!Write(r, new, label)
    BY <1>2, <1>5, <2>1
  <2>3. /\ writes' = [writes EXCEPT ![r] = writes'[r]]
        /\ writes'[r] = Edits!Over(new, writes[r])
        /\ stage' = [stage EXCEPT ![r] = stage'[r]] /\ stage'[r] = label
        /\ Locks(r)
    BY <1>2, <2>2, WriteIs
  <2>4. plan' = [plan EXCEPT ![r] = plan'[r]] /\ plan'[r] = Tail(plan[r])
    BY <1>2, <1>5 DEF FunsInv
  <2>5. Steps(r)
    BY <1>1, <1>2, <2>3, <2>4, Stays DEF Steps
  <2>6. /\ t2.w = writes'[r] /\ t2.stage = label /\ t2.job = t.job /\ t2.read = t.read
        /\ t2.known = t.known /\ t2.touched = t.touched /\ t2.plan = Tail(t.plan)
    BY <1>1, <1>2, <2>3, <2>4, Now
  <2>7. Writes(t, t2, Edits!WithWindow(Seen(rows, t), g, window)) /\ g = t.read.group
    BY <1>2, <2>1, <2>3, <2>6 DEF Writes
  <2>8. label = IF Len(t.plan) = 1 THEN "syncRead" ELSE "split"
    BY <1>2, <2>1 DEF Edits!AfterSegment
  <2>9. /\ WritesOK(r, rows, t2) /\ Clones(rows, t2) = Clones(rows, t)
        /\ MoveOK(rows, t) /\ t.job.kind = "move" /\ t2.stage # "event" => MoveOK(rows, t2)
        /\ KnownOK(rows, t) => KnownOK(rows, t2)
        /\ Ids(t2.w) = Ids(t.w) \union {g}
    BY <1>2, <1>3, <2>6, <2>7, WindowWritten
  <2>10. t2.stage = "split" => PlanOK(rows, t2)
    <3>1. g \notin EventRows(rows)
      BY <1>2, <1>3 DEF ReadOK, GroupRows, EventRows
    <3>2. \A x \in Ids(t2.w) : x \in EventRows(rows) => x \in Ids(t.w) \union t.plan[1].events
      BY <2>9, <3>1
    <3>3. t2.stage = "split" => Len(t.plan) # 1
      BY <2>6, <2>8
    <3> QED
      BY <1>3, <2>6, <3>2, <3>3, PlanTail
  <2>11. TxOK(r, rows, t2)
    <3>1. ClonesOK(r, rows, t2)
      BY <1>2, <1>3, <2>6, <2>9 DEF ClonesOK, Many
    <3> QED
      BY <1>3, <2>6, <2>8, <2>9, <2>10, <3>1
         DEF TxOK, Begun, Stages, SyncOK, ReadOK, SeatsOK, ReadShape, Many
  <2> QED
    BY <1>1, <2>3, <2>5, <2>11, OwnStep
<1> QED
  BY <1>4, <1>5 DEF Edits!Bound

LEMMA SplitKeeps ==
    ASSUME EditsInv, IdsAreNew, NEW r \in Requests, Edits!Split(r)
    PROVE  EditsInv'
<1> DEFINE t == Tx(r)
           t2 == Tx(r)'
           v == Seen(rows, t)
           seg == Head(plan[r])
           es == {e \in seg.events : Edits!There(Edits!View(r), e)}
           evs == [e \in es |-> [Edits!View(r)[e] EXCEPT !.group = Edits!NextGroup(r)]]
<1>1. stage[r] = "split" /\ UNCHANGED <<rows, job, read, known, touched, spoilt>>
  BY DEF Edits!Split, Edits!history
<1>2. /\ FunsInv /\ IsTable(rows, GroupRows(rows)) /\ t.stage = "split" /\ t.w = writes[r]
      /\ t.read = read[r] /\ t.job = job[r] /\ t.touched = touched[r] /\ t.known = known[r]
      /\ t.plan = plan[r] /\ Edits!View(r) = v
      /\ \A x \in Ids(rows) : ~Mine(r, x)
  BY <1>1, Now DEF EditsInv, IdsInv
<1>3. /\ Many(t) /\ TxOK(r, rows, t) /\ Begun(t) /\ ReadShape(t)
      /\ WritesOK(r, rows, t) /\ ClonesOK(r, rows, t) /\ ReadOK(rows, t)
      /\ MoveOK(rows, t) /\ SeatsOK(rows, t) /\ KnownOK(rows, t) /\ PlanOK(rows, t)
  BY <1>1, <1>2, MoveStages
<1>4. PICK m \in Nat : Clones(rows, t) = {<<r, i>> : i \in 1..m}
  BY <1>3 DEF ClonesOK
<1>5. Edits!NextGroup(r) = <<r, m + 1>>
  BY <1>4, NextGroupIs
<1>6. PICK new, label, moved :
        /\ moved = evs
        /\ new = Edits!Over(Edits!Clone(r, read[r], Edits!NextGroup(r), seg), evs)
        /\ label = Edits!AfterSegment(r)
  OBVIOUS
<1>7. Edits!Write(r, new, label) /\ plan' = [plan EXCEPT ![r] = Tail(@)]
  BY <1>6 DEF Edits!Split
<1>8. /\ writes' = [writes EXCEPT ![r] = writes'[r]]
      /\ writes'[r] = Edits!Over(new, writes[r])
      /\ stage' = [stage EXCEPT ![r] = stage'[r]] /\ stage'[r] = label
      /\ Locks(r)
  BY <1>2, <1>7, WriteIs
<1>9. plan' = [plan EXCEPT ![r] = plan'[r]] /\ plan'[r] = Tail(plan[r])
  BY <1>2, <1>7 DEF FunsInv
<1>10. Steps(r)
  BY <1>1, <1>2, <1>8, <1>9, Stays DEF Steps
<1>11. /\ t2.w = writes'[r] /\ t2.stage = label /\ t2.job = t.job /\ t2.read = t.read
       /\ t2.known = t.known /\ t2.touched = t.touched /\ t2.plan = Tail(t.plan)
  BY <1>1, <1>2, <1>8, <1>9, Now
<1>12. label = IF Len(t.plan) = 1 THEN "syncRead" ELSE "split"
  BY <1>2, <1>6 DEF Edits!AfterSegment
<1>13. 1 \in Ids(t.plan) /\ seg = t.plan[1]
  <2>1. IsList(t.plan)
    BY <1>3 DEF PlanOK
  <2> QED
    BY <1>2, <2>1, TailFacts
<1>14. \A e \in seg.events : e \in EventRows(rows) /\ rows[e].group \in Around(t)
                             /\ e \notin Ids(t.w)
  BY <1>3, <1>13 DEF PlanOK
<1>15. /\ Ids(v) = Ids(t.w) \union Ids(rows)
       /\ \A e \in seg.events : e \in Ids(v) /\ v[e] = rows[e]
  <2>1. /\ Ids(v) = Ids(t.w) \union Ids(rows)
        /\ \A x \in Ids(rows) : x \notin Ids(t.w) => v[x] = rows[x]
    BY <1>2, <1>3, SeenFacts
  <2> QED
    BY <1>14, <2>1 DEF EventRows
<1>16. /\ Ids(moved) = es /\ IsFun(moved)
       /\ \A e \in es : moved[e] = [rows[e] EXCEPT !.group = <<r, m + 1>>]
  BY <1>2, <1>5, <1>6, <1>15 DEF Ids, IsFun
<1>17. TakenTo(rows, t, moved, <<r, m + 1>>)
  BY <1>14, <1>16 DEF TakenTo
<1>18. Fits(rows, t, Ids(moved), seg)
  <2>1. ASSUME Alone(t)
        PROVE  /\ \A e \in seg.events : rows[e].life = "live"
               /\ seg.start = Span(rows, seg.events).start
               /\ seg.end = Span(rows, seg.events).end
    BY <1>3, <1>13, <2>1 DEF PlanOK
  <2>2. Alone(t) => es = seg.events
    <3>1. ASSUME Alone(t), NEW e \in seg.events PROVE Edits!There(v, e)
      BY <1>15, <2>1, <3>1 DEF Edits!There, Ids
    <3> QED
      BY <1>2, <3>1
  <2> QED
    BY <1>16, <2>1, <2>2 DEF Fits
<1>19. Divides(r, rows, t, t2, m, moved, seg, new)
  <2>1. new = Edits!Over(Edits!Clone(r, t2.read, <<r, m + 1>>, seg), moved)
    BY <1>2, <1>5, <1>6, <1>11
  <2>2. Writes(t, t2, new)
    BY <1>2, <1>8, <1>11 DEF Writes
  <2>3. t2.stage # "event"
    BY <1>11, <1>12
  <2> QED
    BY <1>4, <1>11, <1>17, <1>18, <2>1, <2>2, <2>3 DEF Divides
<1>20. /\ WritesOK(r, rows, t2) /\ ClonesOK(r, rows, t2) /\ MoveOK(rows, t2)
       /\ ClonesAre(rows, t2, t2.read)
       /\ \A x \in Ids(rows) : x \in Ids(t2.w) => x \in Ids(t.w) \union Ids(moved)
  <2>1. SeatsOK(rows, t2) /\ ClonesAre(rows, t, t2.read)
    BY <1>3, <1>11 DEF SeatsOK, KnownOK
  <2> QED
    BY <1>2, <1>3, <1>19, <2>1, CloneWritten
<1>21. KnownOK(rows, t2)
  <2>1. Attended(t2) = Attended(t)
    BY <1>11 DEF Attended
  <2> QED
    BY <1>3, <1>11, <1>20, <2>1 DEF KnownOK
<1>22. t2.stage = "split" => PlanOK(rows, t2)
  <2>1. \A x \in Ids(t2.w) : x \in EventRows(rows) => x \in Ids(t.w) \union t.plan[1].events
    BY <1>13, <1>16, <1>20 DEF EventRows
  <2>2. t2.stage = "split" => Len(t.plan) # 1
    BY <1>11, <1>12
  <2> QED
    BY <1>3, <1>11, <2>1, <2>2, PlanTail
<1>23. TxOK(r, rows, t2)
  BY <1>3, <1>11, <1>12, <1>20, <1>21, <1>22
     DEF TxOK, Begun, Stages, SyncOK, ReadOK, SeatsOK, ReadShape, Many
<1> QED
  BY <1>1, <1>8, <1>10, <1>23, OwnStep

-----------------------------------------------------------------------------
\* Edits

LEMMA NoClones ==
    ASSUME NEW r, NEW R, NEW t, ClonesOK(r, R, t), ~Many(t)
    PROVE  Clones(R, t) = {}
<1>1. PICK m \in Nat : Clones(R, t) = {<<r, i>> : i \in 1..m} /\ ~(m > 0)
  BY DEF ClonesOK
<1> QED
  BY <1>1

\* A request that makes no clones writes rows.
LEMMA PlainWritten ==
    ASSUME NEW r, NEW R, NEW t, NEW t2, NEW new,
           IsTable(R, GroupRows(R)), WritesOK(r, R, t), ClonesOK(r, R, t), ~Many(t),
           Fit(r, R, t, new), Writes(t, t2, new), GroupRows(new) \subseteq Ids(R),
           t2.job = t.job
    PROVE  /\ WritesOK(r, R, t2) /\ ClonesOK(r, R, t2) /\ Clones(R, t2) = {}
           /\ Adds(t, t2, new)
<1>1. Clones(R, t) = {}
  BY NoClones
<1>2. /\ WritesOK(r, R, t2) /\ Adds(t, t2, new)
      /\ Clones(R, t2) = Clones(R, t) \union (GroupRows(new) \ Ids(R))
  BY Written
<1>3. Clones(R, t2) = {}
  BY <1>1, <1>2
<1>4. ClonesOK(r, R, t2)
  <2>1. {<<r, i>> : i \in 1..0} = {}
    OBVIOUS
  <2>2. ~Many(t2)
    BY DEF Many
  <2> QED
    BY <1>3, <2>1, <2>2 DEF ClonesOK
<1> QED
  BY <1>2, <1>3, <1>4

\* new are rows xs that r sees, with another life.
Deletes(R, t, xs, new) ==
    /\ Ids(new) = xs /\ GroupRows(new) \subseteq Ids(R)
    /\ \A x \in xs : /\ new[x].kind = Seen(R, t)[x].kind
                     /\ new[x].kind # "group" => new[x].group = Seen(R, t)[x].group

\* The deletion of rows
LEMMA LifeIs ==
    ASSUME NEW r, NEW R, NEW t, NEW xs, NEW life, NEW new,
           IsTable(R, GroupRows(R)), WritesOK(r, R, t), Clones(R, t) = {},
           xs \subseteq Ids(Seen(R, t)), new = Edits!WithLife(Seen(R, t), xs, life)
    PROVE  Fit(r, R, t, new) /\ Deletes(R, t, xs, new)
<1>1. PICK v : v = Seen(R, t)
  OBVIOUS
<1>2. /\ IsTable(v, GroupRows(v)) /\ Ids(v) = Ids(t.w) \union Ids(R)
      /\ \A x \in Ids(t.w) : v[x] = t.w[x]
      /\ \A x \in Ids(R) : v[x].kind = R[x].kind
      /\ GroupRows(v) = GroupRows(R) \union Clones(R, t)
  BY <1>1, SeenFacts
<1>3. IsFun(new) /\ Ids(new) = xs /\ \A x \in xs : new[x] = [v[x] EXCEPT !.life = life]
  BY <1>1 DEF Edits!WithLife, IsFun, Ids
<1>4. ASSUME NEW x \in xs
      PROVE  /\ new[x].kind = v[x].kind /\ Shaped(new[x], GroupRows(v))
             /\ new[x].kind # "group" => new[x].group = v[x].group
  <2>1. PICK old, row : old = v[x] /\ row = new[x]
    OBVIOUS
  <2>2. row = [old EXCEPT !.life = life]
    BY <1>3, <1>4, <2>1
  <2>3. Shaped(old, GroupRows(v))
    BY <1>1, <1>2, <1>4, <2>1 DEF IsTable
  <2>4. CASE /\ old.kind = "group"
             /\ Fields(old) = {"kind", "start", "end", "cancelled", "life"}
    <3>1. row.kind = old.kind /\ Fields(row) = Fields(old)
      BY <2>2, <2>4 DEF Fields
    <3> QED
      BY <2>1, <2>4, <3>1 DEF Shaped
  <2>5. CASE /\ old.kind = "event" /\ old.group \in GroupRows(v)
             /\ Fields(old) = {"kind", "group", "start", "end", "life"}
    <3>1. row.kind = old.kind /\ row.group = old.group /\ Fields(row) = Fields(old)
      BY <2>2, <2>5 DEF Fields
    <3> QED
      BY <2>1, <2>5, <3>1 DEF Shaped
  <2>6. CASE /\ old.kind = "seat" /\ old.group \in GroupRows(v)
             /\ Fields(old) = {"kind", "group", "client", "active", "life"}
    <3>1. row.kind = old.kind /\ row.group = old.group /\ Fields(row) = Fields(old)
      BY <2>2, <2>6 DEF Fields
    <3> QED
      BY <2>1, <2>6, <3>1 DEF Shaped
  <2> QED
    BY <2>3, <2>4, <2>5, <2>6 DEF Shaped
<1>5. IsTable(new, GroupRows(v) \union GroupRows(new))
  <2>1. \A x \in Ids(new) : Shaped(new[x], GroupRows(v)) /\ new[x].kind = v[x].kind
    BY <1>3, <1>4
  <2>2. IsTable(new, GroupRows(v))
    BY <1>1, <1>2, <1>3, <2>1, TablePart
  <2> QED
    BY <2>2, TableGrows
<1>6. Named(r, R, new)
  <2>1. ASSUME NEW x \in Ids(new)
        PROVE  /\ x \in Ids(R) => new[x].kind = R[x].kind
               /\ x \notin Ids(R) => Mine(r, x)
    BY <1>1, <1>2, <1>3, <1>4, <2>1 DEF WritesOK, Named
  <2> QED
    BY <2>1 DEF Named
<1>7. GroupRows(new) \subseteq Ids(R)
  <2>1. GroupRows(new) \subseteq GroupRows(v)
    BY <1>1, <1>3, <1>4 DEF GroupRows, Ids
  <2> QED
    BY <1>2, <2>1 DEF GroupRows
<1> QED
  BY <1>1, <1>3, <1>4, <1>5, <1>6, <1>7 DEF Fit, Deletes

\* The events of an edit: its own, and those it leaves where they are
EditsRows(R, t, w) ==
    /\ GroupRows(w) \subseteq {t.read.group}
    /\ \A x \in EventRows(w) :
         \/ w[x].group = t.read.group
         \/ x \in Ids(R) /\ w[x].group = R[x].group

LEMMA EditWritten ==
    ASSUME NEW r, NEW R, NEW t, NEW t2, NEW new,
           IsTable(R, GroupRows(R)), WritesOK(r, R, t), ClonesOK(r, R, t), ReadOK(R, t),
           t.job.kind = "edit", EditsRows(R, t, t.w), EditsRows(R, t, new),
           Fit(r, R, t, new), Writes(t, t2, new), t2.job = t.job
    PROVE  WritesOK(r, R, t2) /\ ClonesOK(r, R, t2) /\ EditsRows(R, t, t2.w)
<1>1. ~Many(t)
  BY DEF Many
<1>2. GroupRows(new) \subseteq Ids(R)
  BY DEF EditsRows, ReadOK, GroupRows
<1>3. /\ WritesOK(r, R, t2) /\ ClonesOK(r, R, t2) /\ Adds(t, t2, new)
  BY <1>1, <1>2, PlainWritten
<1>4. GroupRows(t2.w) \subseteq {t.read.group}
  BY <1>3 DEF Adds, EditsRows, GroupRows
<1>5. ASSUME NEW x \in EventRows(t2.w)
      PROVE  \/ t2.w[x].group = t.read.group
             \/ x \in Ids(R) /\ t2.w[x].group = R[x].group
  <2>1. CASE x \in Ids(new)
    BY <1>3, <1>5, <2>1 DEF Adds, EditsRows, EventRows
  <2>2. CASE x \notin Ids(new)
    BY <1>3, <1>5, <2>2 DEF Adds, EditsRows, EventRows
  <2> QED
    BY <2>1, <2>2
<1> QED
  BY <1>3, <1>4, <1>5 DEF EditsRows

\* It reads and plans for itself.
Reads(r) == /\ read' = [read EXCEPT ![r] = read'[r]]
            /\ plan' = [plan EXCEPT ![r] = plan'[r]]

Others == <<rows, job, known, touched, spoilt>>

\* What there is of a request after one of its statements
LEMMA WriteStep ==
    ASSUME EditsInv, NEW r \in Requests, NEW new, NEW label, Edits!Write(r, new, label),
           UNCHANGED Others, Reads(r),
           stage[r] \notin {"done", "error"}
    PROVE  /\ Writes(Tx(r), Tx(r)', new) /\ Tx(r)'.stage = label /\ Tx(r)'.job = Tx(r).job
           /\ Tx(r)'.known = Tx(r).known /\ Tx(r)'.touched = Tx(r).touched
           /\ Tx(r)'.read = read'[r] /\ Tx(r)'.plan = plan'[r]
           /\ TxOK(r, rows, Tx(r)') => EditsInv'
<1> DEFINE t == Tx(r)
           t2 == Tx(r)'
<1>1. /\ FunsInv /\ t.w = writes[r] /\ t.job = job[r] /\ t.touched = touched[r]
      /\ t.known = known[r]
  BY Now
<1>2. /\ writes' = [writes EXCEPT ![r] = writes'[r]]
      /\ writes'[r] = Edits!Over(new, writes[r])
      /\ stage' = [stage EXCEPT ![r] = stage'[r]] /\ stage'[r] = label
      /\ Locks(r)
  BY <1>1, WriteIs
<1>3. Steps(r)
  BY <1>1, <1>2 DEF Steps, Reads, Others, FunsInv
<1>4. /\ t2.w = writes'[r] /\ t2.stage = label /\ t2.job = t.job /\ t2.read = read'[r]
      /\ t2.known = t.known /\ t2.touched = t.touched /\ t2.plan = plan'[r]
  BY <1>1, <1>2, Now DEF Others
<1>5. Writes(t, t2, new)
  BY <1>1, <1>2, <1>4 DEF Writes
<1>6. TxOK(r, rows, Tx(r)') => EditsInv'
  BY <1>2, <1>3, OwnStep DEF Others
<1> QED
  BY <1>4, <1>5, <1>6

LEMMA GotoStep ==
    ASSUME EditsInv, NEW r \in Requests, NEW label, Edits!Goto(r, label),
           UNCHANGED Others, writes' = writes, Reads(r), stage[r] \notin {"done", "error"}
    PROVE  /\ Tx(r)'.w = Tx(r).w /\ Tx(r)'.stage = label /\ Tx(r)'.job = Tx(r).job
           /\ Tx(r)'.known = Tx(r).known /\ Tx(r)'.touched = Tx(r).touched
           /\ Tx(r)'.read = read'[r] /\ Tx(r)'.plan = plan'[r]
           /\ TxOK(r, rows, Tx(r)') => EditsInv'
<1> DEFINE t == Tx(r)
           t2 == Tx(r)'
<1>1. /\ FunsInv /\ t.w = writes[r] /\ t.job = job[r] /\ t.touched = touched[r]
      /\ t.known = known[r]
  BY Now
<1>2. stage' = [stage EXCEPT ![r] = stage'[r]] /\ stage'[r] = label
  BY <1>1, GotoIs
<1>3. Steps(r) /\ Locks(r)
  BY <1>1, <1>2 DEF Steps, Locks, Reads, Others, FunsInv
<1>4. /\ t2.w = t.w /\ t2.stage = label /\ t2.job = t.job /\ t2.read = read'[r]
      /\ t2.known = t.known /\ t2.touched = t.touched /\ t2.plan = plan'[r]
  BY <1>1, <1>2, Now DEF Others
<1>5. TxOK(r, rows, Tx(r)') => EditsInv'
  BY <1>3, OwnStep DEF Others
<1> QED
  BY <1>4, <1>5

\* An edit at work
LEMMA EditStages ==
    ASSUME EditsInv, NEW r \in Requests, stage[r] \in {"list", "date", "service", "seats"}
    PROVE  LET t == Tx(r)
           IN  /\ t.job.kind = "edit" /\ TxOK(r, rows, t) /\ Begun(t) /\ ReadShape(t)
               /\ WritesOK(r, rows, t) /\ ClonesOK(r, rows, t) /\ ReadOK(rows, t)
               /\ EditOK(rows, t) /\ EditsRows(rows, t, t.w)
               /\ t.read = read[r] /\ t.plan = plan[r] /\ t.job = job[r] /\ t.w = writes[r]
               /\ t.stage = stage[r] /\ Edits!View(r) = Seen(rows, t)
               /\ IsTable(rows, GroupRows(rows))
               /\ GroupIds \subseteq GroupRows(rows) /\ EventIds \subseteq EventRows(rows)
<1> DEFINE t == Tx(r)
<1>1. /\ TxOK(r, rows, t) /\ t.stage = stage[r] /\ t.job = job[r] /\ FunsInv /\ t.read = read[r]
      /\ t.plan = plan[r] /\ t.w = writes[r] /\ Edits!View(r) = Seen(rows, t)
      /\ IsTable(rows, GroupRows(rows))
      /\ GroupIds \subseteq GroupRows(rows) /\ EventIds \subseteq EventRows(rows)
  BY Now
<1>2. Begun(t) /\ t.job.kind = "edit"
  BY <1>1, JobFacts DEF TxOK, Begun, Stages
<1>3. /\ WritesOK(r, rows, t) /\ ClonesOK(r, rows, t) /\ ReadOK(rows, t)
      /\ EditOK(rows, t) /\ ReadShape(t)
  BY <1>1, <1>2 DEF TxOK
<1>4. EditsRows(rows, t, t.w)
  BY <1>3 DEF EditOK, EditsRows
<1> QED
  BY <1>1, <1>2, <1>3, <1>4

\* What is left to show of an edit that has written rows
LEMMA EditInOrder ==
    ASSUME NEW r, NEW R, NEW t, t.job.kind = "edit", ReadShape(t),
           t.stage \in {"list", "date", "service", "seats", "syncRead"},
           WritesOK(r, R, t), ClonesOK(r, R, t), ReadOK(R, t), EditsRows(R, t, t.w),
           t.read.group = t.job.group,
           t.stage = "date" => t.read.listed \subseteq EventRows(R) \union EventRows(t.w),
           t.stage \in {"list", "date", "service"} =>
             IsList(t.plan) /\ \A i \in Ids(t.plan) : t.plan[i].event \in EventIds \union {New}
    PROVE  TxOK(r, R, t)
<1>1. EditOK(R, t)
  BY DEF EditOK, EditsRows
<1>2. Begun(t) /\ SyncOK(R, t) /\ t.stage \in Stages(t)
  BY DEF Begun, SyncOK, Stages
<1> QED
  BY <1>1, <1>2 DEF TxOK, Begun

\* The services of an edit in a row
LEMMA TimedFacts ==
    ASSUME NEW S, NEW services, services \in Seq(S), services # << >>, NEW start,
           NEW timed, timed = Edits!Timed(services, start)
    PROVE  /\ IsList(timed) /\ Ids(timed) = Ids(services)
           /\ \A i \in Ids(timed) : timed[i].event = services[i].event
<1>1. Ids(timed) = Ids(services) /\ IsFun(timed)
  BY DEF Edits!Timed, Ids, IsFun
<1>2. \A i \in Ids(timed) : timed[i].event = services[i].event
  BY <1>1 DEF Edits!Timed, Ids
<1>3. PICK n \in Nat : n # 0 /\ Ids(services) = 1..n
  BY LenProperties, EmptySeq DEF Ids
<1>4. PICK T : T = {timed[i] : i \in Ids(timed)}
  OBVIOUS
<1>5. timed \in [1..n -> T]
  BY <1>1, <1>3, <1>4 DEF IsFun, Ids
<1>6. timed \in Seq(T)
  BY <1>5, SeqDef
<1>7. timed # << >>
  <2>1. 1 \in Ids(timed)
    BY <1>1, <1>3
  <2> QED
    BY <2>1, NoRows
<1> QED
  BY <1>1, <1>2, <1>4, <1>6, <1>7 DEF IsList

LEMMA OpenGroupKeeps ==
    ASSUME EditsInv, NEW r \in Requests, Edits!OpenGroup(r)
    PROVE  EditsInv'
<1> DEFINE t == Tx(r)
           t2 == Tx(r)'
           g == job[r].group
<1>1. PICK timed, cancelled, row, new :
        /\ timed = Edits!Timed(job[r].services, job[r].start)
        /\ row = [kind |-> "group", start |-> job[r].start, end |-> Edits!Last(timed).end,
                  cancelled |-> cancelled, life |-> "live"]
        /\ new = Edits!One(g, row)
        /\ Edits!Write(r, new, "list")
        /\ plan' = [plan EXCEPT ![r] = timed]
        /\ read' = [read EXCEPT ![r].group = g]
  BY DEF Edits!OpenGroup
<1>2. /\ stage[r] = "start" /\ job[r].kind = "edit"
      /\ UNCHANGED Others
  BY DEF Edits!OpenGroup, Edits!history, Others
<1>3. /\ FunsInv /\ IsTable(rows, GroupRows(rows)) /\ t.job = job[r] /\ t.read = read[r]
      /\ t.w = << >> /\ Ids(t.w) = {} /\ ReadShape(t) /\ Seen(rows, t) = rows
      /\ g \in GroupRows(rows) /\ g \in Ids(rows) /\ rows[g].kind = "group"
      /\ job[r].services # << >>
      /\ job[r].services \in Seq([event : EventIds \union {New}, duration : Nat])
  BY <1>2, Now, Starts, JobFacts DEF GroupRows
<1>4. Reads(r) /\ read'[r] = [read[r] EXCEPT !.group = g] /\ plan'[r] = timed
  BY <1>1, <1>3 DEF FunsInv, Reads
<1>5. /\ Writes(t, t2, new) /\ t2.stage = "list" /\ t2.job = t.job
      /\ t2.read = read'[r] /\ t2.plan = plan'[r]
      /\ TxOK(r, rows, t2) => EditsInv'
  BY <1>1, <1>2, <1>4, WriteStep
<1>6. ReadShape(t2) /\ t2.read.group = g
  BY <1>3, <1>4, <1>5 DEF ReadShape, Fields
<1>7. /\ IsList(t2.plan)
      /\ \A i \in Ids(t2.plan) : t2.plan[i].event \in EventIds \union {New}
  <2>1. PICK services : services = job[r].services
    OBVIOUS
  <2>2. services \in Seq([event : EventIds \union {New}, duration : Nat]) /\ services # << >>
    BY <1>3, <2>1
  <2>3. /\ IsList(timed) /\ Ids(timed) = Ids(services)
        /\ \A i \in Ids(timed) : timed[i].event = services[i].event
    BY <1>1, <2>1, <2>2, TimedFacts
  <2>4. \A i \in Ids(services) : services[i].event \in EventIds \union {New}
    <3>1. ASSUME NEW i \in Ids(services)
          PROVE  services[i] \in [event : EventIds \union {New}, duration : Nat]
      <4>1. i \in 1..Len(services)
        BY <2>2, <3>1, LenProperties DEF Ids
      <4> QED
        BY <2>2, <4>1, ElementOfSeq
    <3> QED
      BY <3>1
  <2> QED
    BY <1>4, <1>5, <2>3, <2>4
<1>8. /\ Ids(new) = {g} /\ new[g] = row /\ row.kind = "group"
      /\ IsTable(new, GroupRows(rows))
  <2>1. Shaped(row, GroupRows(rows)) /\ row.kind = "group"
    BY <1>1, NewRows
  <2> QED
    BY <1>1, <2>1, OneFacts, TableOfOne
<1>9. WritesOK(r, rows, t) /\ ClonesOK(r, rows, t) /\ Clones(rows, t) = {}
  <2>1. ~Many(t)
    BY <1>2, <1>3 DEF Many
  <2> QED
    BY <1>3, <2>1, NothingWritten
<1>10. Fit(r, rows, t, new)
  <2>1. IsTable(new, GroupRows(rows) \union GroupRows(new))
    BY <1>8, TableGrows
  <2>2. Named(r, rows, new)
    BY <1>3, <1>8 DEF Named
  <2> QED
    BY <1>3, <1>9, <2>1, <2>2 DEF Fit
<1>11. WritesOK(r, rows, t2) /\ ClonesOK(r, rows, t2) /\ Adds(t, t2, new)
  <2>1. ~Many(t) /\ GroupRows(new) \subseteq Ids(rows)
    BY <1>2, <1>3, <1>8 DEF Many, GroupRows
  <2> QED
    BY <1>3, <1>5, <1>9, <1>10, <2>1, PlainWritten
<1>12. EditsRows(rows, t2, t2.w)
  <2>1. Ids(t2.w) = {g} /\ t2.w[g].kind = "group"
    BY <1>3, <1>8, <1>11 DEF Adds
  <2> QED
    BY <1>6, <2>1 DEF EditsRows, GroupRows, EventRows
<1>13. TxOK(r, rows, t2)
  <2>1. ReadOK(rows, t2) /\ t2.job.kind = "edit" /\ t2.read.group = t2.job.group
    BY <1>2, <1>3, <1>5, <1>6 DEF ReadOK
  <2> QED
    BY <1>5, <1>6, <1>7, <1>11, <1>12, <2>1, EditInOrder
<1> QED
  BY <1>5, <1>13

LEMMA ListObsoleteKeeps ==
    ASSUME EditsInv, NEW r \in Requests, Edits!ListObsolete(r)
    PROVE  EditsInv'
<1> DEFINE t == Tx(r)
           t2 == Tx(r)'
<1>1. PICK kept :
        /\ stage[r] = "list" /\ UNCHANGED Others /\ writes' = writes /\ plan' = plan
        /\ Edits!Goto(r, "date")
        /\ read' = [read EXCEPT ![r].listed =
                       Edits!EventsOf(Edits!View(r), read[r].group) \ kept]
  BY DEF Edits!ListObsolete, Edits!history, Others
<1>2. /\ t.job.kind = "edit" /\ TxOK(r, rows, t) /\ Begun(t) /\ ReadShape(t)
      /\ WritesOK(r, rows, t) /\ ClonesOK(r, rows, t) /\ ReadOK(rows, t)
      /\ EditOK(rows, t) /\ EditsRows(rows, t, t.w)
      /\ t.read = read[r] /\ t.plan = plan[r] /\ t.w = writes[r] /\ t.stage = "list"
      /\ Edits!View(r) = Seen(rows, t) /\ IsTable(rows, GroupRows(rows))
  BY <1>1, EditStages
<1>3. PICK listed : listed = EventsOf(Seen(rows, t), t.read.group) \ kept
  OBVIOUS
<1>4. Reads(r) /\ read'[r] = [t.read EXCEPT !.listed = listed] /\ plan'[r] = t.plan
  <2>1. read' = [read EXCEPT ![r].listed = listed]
    BY <1>1, <1>2, <1>3, SameNotions
  <2>2. FunsInv
    BY Now
  <2> QED
    BY <1>1, <1>2, <2>1, <2>2 DEF FunsInv, Reads
<1>5. /\ t2.w = t.w /\ t2.stage = "date" /\ t2.job = t.job /\ t2.read = read'[r]
      /\ t2.plan = plan'[r]
  BY <1>1, <1>4, GotoStep
<1>6. ReadShape(t2) /\ t2.read.group = t.read.group /\ t2.read.listed = listed
  BY <1>2, <1>4, <1>5 DEF ReadShape, Fields
<1>7. listed \subseteq EventRows(rows) \union EventRows(t.w)
  <2>1. PICK v : v = Seen(rows, t)
    OBVIOUS
  <2>2. /\ Ids(v) = Ids(t.w) \union Ids(rows)
        /\ \A x \in Ids(t.w) : v[x] = t.w[x]
        /\ \A x \in Ids(rows) : v[x].kind = rows[x].kind
    BY <1>2, <2>1, SeenFacts
  <2>3. listed \subseteq EventRows(v)
    BY <1>3, <2>1, EventsAre
  <2> QED
    BY <2>2, <2>3 DEF EventRows
<1>8. /\ WritesOK(r, rows, t2) /\ ClonesOK(r, rows, t2) /\ ReadOK(rows, t2)
  BY <1>2, <1>5, <1>6, Quiet
<1>9. EditsRows(rows, t2, t2.w)
  BY <1>2, <1>5, <1>6 DEF EditsRows
<1>10. TxOK(r, rows, t2)
  <2>1. /\ t.read.group = t.job.group
        /\ IsList(t.plan)
        /\ \A i \in Ids(t.plan) : t.plan[i].event \in EventIds \union {New}
    BY <1>2 DEF EditOK
  <2>2. t2.plan = t.plan /\ t2.read.group = t2.job.group
    BY <1>4, <1>5, <1>6, <2>1
  <2> QED
    BY <1>2, <1>5, <1>6, <1>7, <1>8, <1>9, <2>1, <2>2, EditInOrder
<1>11. TxOK(r, rows, Tx(r)') => EditsInv'
  BY <1>1, <1>4, GotoStep
<1> QED
  BY <1>10, <1>11

LEMMA DateObsoleteKeeps ==
    ASSUME EditsInv, NEW r \in Requests, Edits!DateObsolete(r)
    PROVE  EditsInv'
<1> DEFINE t == Tx(r)
           t2 == Tx(r)'
<1>1. /\ stage[r] = "date" /\ UNCHANGED Others /\ plan' = plan /\ read' = read
      /\ Edits!Write(r, Edits!WithLife(Edits!View(r), Edits!Listed(r), "deleted"), "service")
  BY DEF Edits!DateObsolete, Edits!history, Others
<1>2. /\ t.job.kind = "edit" /\ TxOK(r, rows, t) /\ Begun(t) /\ ReadShape(t)
      /\ WritesOK(r, rows, t) /\ ClonesOK(r, rows, t) /\ ReadOK(rows, t)
      /\ EditOK(rows, t) /\ EditsRows(rows, t, t.w)
      /\ t.read = read[r] /\ t.plan = plan[r] /\ t.w = writes[r] /\ t.stage = "date"
      /\ Edits!View(r) = Seen(rows, t) /\ IsTable(rows, GroupRows(rows))
  BY <1>1, EditStages
<1>3. PICK v, xs, new : /\ v = Seen(rows, t)
                        /\ xs = Edits!Listed(r)
                        /\ new = Edits!WithLife(v, xs, "deleted")
  OBVIOUS
<1>4. Reads(r) /\ read'[r] = t.read /\ plan'[r] = t.plan
  BY <1>1, <1>2, Now DEF FunsInv, Reads
<1>5. /\ Writes(t, t2, new) /\ t2.stage = "service" /\ t2.job = t.job
      /\ t2.read = t.read /\ t2.plan = t.plan
      /\ TxOK(r, rows, t2) => EditsInv'
  <2>1. Edits!Write(r, new, "service")
    BY <1>1, <1>2, <1>3
  <2> QED
    BY <1>1, <1>4, <2>1, WriteStep
<1>6. xs \subseteq Ids(v) /\ xs \subseteq EventRows(rows) \union EventRows(t.w)
  <2>1. xs \subseteq Ids(v) /\ xs \subseteq t.read.listed
    BY <1>2, <1>3 DEF Edits!Listed, Edits!There, Ids
  <2> QED
    BY <1>2, <2>1 DEF EditOK
<1>7. /\ Fit(r, rows, t, new) /\ Ids(new) = xs
      /\ \A x \in xs : /\ new[x].kind = v[x].kind
                       /\ new[x].kind # "group" => new[x].group = v[x].group
  <2>1. Clones(rows, t) = {}
    BY <1>2, NoClones DEF Many
  <2>2. new = Edits!WithLife(Seen(rows, t), xs, "deleted") /\ xs \subseteq Ids(Seen(rows, t))
    BY <1>3, <1>6
  <2>3. Fit(r, rows, t, new) /\ Deletes(rows, t, xs, new)
    BY <1>2, <2>1, <2>2, LifeIs
  <2> QED
    BY <1>3, <2>3 DEF Deletes
<1>8. EditsRows(rows, t, new)
  <2>1. /\ \A x \in Ids(t.w) : v[x] = t.w[x]
        /\ \A x \in Ids(rows) : v[x].kind = rows[x].kind
        /\ \A x \in Ids(rows) : x \notin Ids(t.w) => v[x] = rows[x]
    BY <1>2, <1>3, SeenFacts
  <2>2. \A x \in xs : v[x].kind = "event"
    BY <1>6, <2>1 DEF EventRows
  <2>3. GroupRows(new) = {}
    BY <1>7, <2>2 DEF GroupRows
  <2>4. ASSUME NEW x \in EventRows(new)
        PROVE  \/ new[x].group = t.read.group
               \/ x \in Ids(rows) /\ new[x].group = rows[x].group
    <3>1. x \in xs /\ new[x].group = v[x].group
      BY <1>7, <2>2, <2>4 DEF EventRows
    <3>2. CASE x \in Ids(t.w)
      <4>1. x \in EventRows(t.w) /\ v[x] = t.w[x]
        BY <2>1, <2>2, <3>1, <3>2 DEF EventRows
      <4> QED
        BY <1>2, <3>1, <4>1 DEF EditsRows
    <3>3. CASE x \notin Ids(t.w)
      BY <1>6, <2>1, <3>1, <3>3 DEF EventRows
    <3> QED
      BY <3>2, <3>3
  <2> QED
    BY <2>3, <2>4 DEF EditsRows
<1>9. WritesOK(r, rows, t2) /\ ClonesOK(r, rows, t2) /\ EditsRows(rows, t, t2.w)
  BY <1>2, <1>5, <1>7, <1>8, EditWritten
<1>10. TxOK(r, rows, t2)
  <2>1. /\ t2.read.group = t2.job.group
        /\ IsList(t2.plan)
        /\ \A i \in Ids(t2.plan) : t2.plan[i].event \in EventIds \union {New}
    BY <1>2, <1>5 DEF EditOK
  <2>2. ReadShape(t2) /\ ReadOK(rows, t2) /\ EditsRows(rows, t2, t2.w)
    BY <1>2, <1>5, <1>9 DEF ReadShape, ReadOK, EditsRows
  <2> QED
    BY <1>2, <1>5, <1>9, <2>1, <2>2, EditInOrder
<1> QED
  BY <1>5, <1>10

LEMMA UpsertServiceKeeps ==
    ASSUME EditsInv, NEW r \in Requests, Edits!UpsertService(r)
    PROVE  EditsInv'
<1> DEFINE t == Tx(r)
           t2 == Tx(r)'
<1>1. stage[r] = "service" /\ UNCHANGED Others /\ read' = read
  BY DEF Edits!UpsertService, Edits!history, Others
<1>2. /\ t.job.kind = "edit" /\ TxOK(r, rows, t) /\ Begun(t) /\ ReadShape(t)
      /\ WritesOK(r, rows, t) /\ ClonesOK(r, rows, t) /\ ReadOK(rows, t)
      /\ EditOK(rows, t) /\ EditsRows(rows, t, t.w)
      /\ t.read = read[r] /\ t.plan = plan[r] /\ t.w = writes[r] /\ t.stage = "service"
      /\ IsTable(rows, GroupRows(rows)) /\ EventIds \subseteq EventRows(rows)
  BY <1>1, EditStages
<1>3. CASE Edits!Throw(r) /\ plan' = plan
  BY <1>1, <1>3, ThrowIs DEF Others
<1>4. CASE ~(Edits!Throw(r) /\ plan' = plan)
  <2>1. PICK s, g, e, life, row, new, label :
          /\ s = Head(plan[r]) /\ g = read[r].group
          /\ e = IF s.event = New THEN <<r, Len(plan[r])>> ELSE s.event
          /\ row = [kind |-> "event", group |-> g, start |-> s.start, end |-> s.end,
                    life |-> life]
          /\ new = Edits!One(e, row)
          /\ label = IF Len(plan[r]) = 1 THEN "seats" ELSE "service"
          /\ Edits!Write(r, new, label)
          /\ plan' = [plan EXCEPT ![r] = Tail(@)]
    BY <1>4 DEF Edits!UpsertService
  <2>2. FunsInv
    BY Now
  <2>3. Reads(r) /\ read'[r] = t.read /\ plan'[r] = Tail(t.plan)
    BY <1>1, <1>2, <2>1, <2>2 DEF FunsInv, Reads
  <2>4. /\ Writes(t, t2, new) /\ t2.stage = label /\ t2.job = t.job
        /\ t2.read = t.read /\ t2.plan = Tail(t.plan)
    BY <1>1, <2>1, <2>3, WriteStep
  <2>5. /\ IsList(t.plan)
        /\ \A i \in Ids(t.plan) : t.plan[i].event \in EventIds \union {New}
        /\ t.read.group = t.job.group
    BY <1>2 DEF EditOK
  <2>6. PICK p, q : p = t.plan /\ q = Tail(p)
    OBVIOUS
  <2>7. 1 \in Ids(p) /\ Head(p) = p[1] /\ (Len(p) # 1 => IsList(q)) /\ Rest(p, q)
    BY <2>5, <2>6, TailFacts
  <2>8. \A i \in Ids(q) : q[i].event \in EventIds \union {New}
    BY <2>5, <2>6, <2>7 DEF Rest
  <2>9. s.event \in EventIds \union {New}
    BY <1>2, <2>1, <2>5, <2>6, <2>7
  <2>10. e \in EventRows(rows) \/ Mine(r, e)
    BY <1>2, <2>1, <2>9 DEF Mine
  <2>11. e \in Ids(rows) => rows[e].kind = "event"
    <3>1. Mine(r, e) => e \notin Ids(rows)
      BY <1>1 DEF EditsInv, IdsInv
    <3> QED
      BY <2>10, <3>1 DEF EventRows
  <2>12. row.kind = "event" /\ row.group = g /\ g \in GroupRows(rows)
    BY <1>2, <2>1 DEF ReadOK
  <2>13. Shaped(row, GroupRows(rows))
    BY <2>1, <2>12, NewRows
  <2>14. Ids(new) = {e} /\ new[e] = row /\ IsTable(new, GroupRows(rows))
    <3>1. new = Edits!One(e, row)
      BY <2>1
    <3>2. Ids(new) = {e} /\ new[e] = row
      BY <3>1, OneFacts
    <3>3. IsTable(new, GroupRows(rows))
      BY <2>13, <3>1, TableOfOne
    <3> QED
      BY <3>2, <3>3
  <2>15. Fit(r, rows, t, new)
    <3>1. GroupRows(rows) \subseteq GroupRows(Seen(rows, t)) \union GroupRows(new)
      BY <1>2, SeenFacts
    <3>2. IsTable(new, GroupRows(Seen(rows, t)) \union GroupRows(new))
      BY <2>14, <3>1, TableGrows
    <3>3. Clones(rows, t) = {}
      BY <1>2, NoClones DEF Many
    <3>4. Named(r, rows, new)
      BY <2>10, <2>11, <2>12, <2>14 DEF Named, EventRows
    <3> QED
      BY <3>2, <3>3, <3>4 DEF Fit
  <2>16. EditsRows(rows, t, new)
    <3>1. GroupRows(new) = {} /\ EventRows(new) = {e}
      BY <2>12, <2>14 DEF GroupRows, EventRows
    <3>2. new[e].group = g /\ g = t.read.group
      BY <1>2, <2>1, <2>12, <2>14
    <3> QED
      BY <3>1, <3>2 DEF EditsRows
  <2>17. WritesOK(r, rows, t2) /\ ClonesOK(r, rows, t2) /\ EditsRows(rows, t, t2.w)
    BY <1>2, <2>4, <2>15, <2>16, EditWritten
  <2>18. TxOK(r, rows, t2)
    <3>1. ReadShape(t2) /\ ReadOK(rows, t2) /\ EditsRows(rows, t2, t2.w)
      BY <1>2, <2>4, <2>17 DEF ReadShape, ReadOK, EditsRows
    <3>2. t2.stage \in {"service", "seats"} /\ (t2.stage = "service" => Len(p) # 1)
      BY <1>2, <2>1, <2>4, <2>6
    <3>3. t2.stage = "service" =>
            IsList(t2.plan) /\ \A i \in Ids(t2.plan) : t2.plan[i].event \in EventIds \union {New}
      BY <2>4, <2>6, <2>7, <2>8, <3>2
    <3> QED
      BY <1>2, <2>4, <2>5, <2>17, <3>1, <3>2, <3>3, EditInOrder
  <2>19. TxOK(r, rows, Tx(r)') => EditsInv'
    BY <1>1, <2>1, <2>3, WriteStep
  <2> QED
    BY <2>18, <2>19
<1> QED
  BY <1>3, <1>4

LEMMA ReplaceSeatsKeeps ==
    ASSUME EditsInv, NEW r \in Requests, Edits!ReplaceSeats(r)
    PROVE  EditsInv'
<1> DEFINE t == Tx(r)
           t2 == Tx(r)'
<1>1. PICK g, v, old, seats, new :
        /\ g = read[r].group /\ v = Edits!View(r)
        /\ old = Edits!WithLife(v, Edits!SeatsOf(v, g), "deleted")
        /\ seats = [x \in {r} \X job[r].clients |->
                      [kind |-> "seat", group |-> g, client |-> x[2], active |-> TRUE,
                       life |-> "live"]]
        /\ new = Edits!Over(old, seats)
        /\ Edits!Write(r, new, "syncRead")
  BY DEF Edits!ReplaceSeats
<1>2. stage[r] = "seats" /\ UNCHANGED Others /\ read' = read /\ plan' = plan
  BY DEF Edits!ReplaceSeats, Edits!history, Others
<1>3. /\ t.job.kind = "edit" /\ TxOK(r, rows, t) /\ Begun(t) /\ ReadShape(t)
      /\ WritesOK(r, rows, t) /\ ClonesOK(r, rows, t) /\ ReadOK(rows, t)
      /\ EditOK(rows, t) /\ EditsRows(rows, t, t.w) /\ Edits!View(r) = Seen(rows, t)
      /\ t.read = read[r] /\ t.plan = plan[r] /\ t.w = writes[r] /\ t.stage = "seats"
      /\ IsTable(rows, GroupRows(rows))
  BY <1>2, EditStages
<1>4. FunsInv
  BY Now
<1>5. Reads(r) /\ read'[r] = t.read /\ plan'[r] = t.plan
  BY <1>2, <1>3, <1>4 DEF FunsInv, Reads
<1>6. /\ Writes(t, t2, new) /\ t2.stage = "syncRead" /\ t2.job = t.job /\ t2.read = t.read
  BY <1>1, <1>2, <1>5, WriteStep
<1>7. PICK xs : xs = Edits!SeatsOf(v, g)
  OBVIOUS
<1>8. /\ Fit(r, rows, t, old) /\ Deletes(rows, t, xs, old)
      /\ \A x \in xs : v[x].kind = "seat"
  <2>1. xs \subseteq Ids(v) /\ \A x \in xs : v[x].kind = "seat"
    BY <1>7, SameNotions DEF Edits!SeatsOf, Live, Ids
  <2>2. Clones(rows, t) = {}
    BY <1>3, NoClones DEF Many
  <2>3. old = Edits!WithLife(Seen(rows, t), xs, "deleted") /\ xs \subseteq Ids(Seen(rows, t))
    BY <1>1, <1>3, <1>7, <2>1
  <2>4. Fit(r, rows, t, old) /\ Deletes(rows, t, xs, old)
    BY <1>3, <2>2, <2>3, LifeIs
  <2> QED
    BY <2>1, <2>4
<1>9. /\ Ids(old) = xs /\ \A x \in xs : old[x].kind = "seat"
  BY <1>1, <1>3, <1>8 DEF Deletes
<1>10. g \in GroupRows(rows)
  BY <1>1, <1>3 DEF ReadOK
<1>11. /\ Ids(seats) = {r} \X job[r].clients /\ IsFun(seats)
       /\ \A x \in Ids(seats) : /\ seats[x].kind = "seat" /\ Shaped(seats[x], GroupRows(rows))
                                /\ Mine(r, x) /\ x \notin Ids(rows)
  <2>1. Ids(seats) = {r} \X job[r].clients /\ IsFun(seats)
    BY <1>1 DEF Ids, IsFun
  <2>2. ASSUME NEW x \in Ids(seats)
        PROVE  /\ seats[x].kind = "seat" /\ Shaped(seats[x], GroupRows(rows))
               /\ Mine(r, x) /\ x \notin Ids(rows)
    <3>1. PICK row, c : /\ row = seats[x] /\ x = <<r, c>> /\ c = x[2]
      BY <2>1, <2>2
    <3>2. row = [kind |-> "seat", group |-> g, client |-> c, active |-> TRUE, life |-> "live"]
      BY <1>1, <2>1, <2>2, <3>1
    <3>3. row.kind = "seat" /\ Shaped(row, GroupRows(rows))
      BY <1>10, <3>2, NewRows
    <3>4. Mine(r, x)
      BY <3>1 DEF Mine
    <3>5. x \notin Ids(rows)
      BY <1>2, <3>4 DEF EditsInv, IdsInv
    <3> QED
      BY <3>1, <3>3, <3>4, <3>5
  <2> QED
    BY <2>1, <2>2
<1>12. /\ Ids(new) = xs \union Ids(seats) /\ \A x \in Ids(new) : new[x].kind = "seat"
       /\ \A x \in xs : new[x] = old[x]
       /\ \A x \in Ids(seats) : x \notin xs => new[x] = seats[x]
  <2>1. /\ Ids(new) = xs \union Ids(seats)
        /\ \A x \in xs : new[x] = old[x]
        /\ \A x \in Ids(seats) : x \notin xs => new[x] = seats[x]
    <3>1. PICK o : o = Edits!Over(old, seats)
      OBVIOUS
    <3>2. /\ Ids(o) = Ids(old) \union Ids(seats)
          /\ \A x \in Ids(old) : o[x] = old[x]
          /\ \A x \in Ids(seats) : x \notin Ids(old) => o[x] = seats[x]
      BY <3>1, OverFacts
    <3> QED
      BY <1>1, <1>9, <3>1, <3>2
  <2> QED
    BY <1>9, <1>11, <2>1
<1>13. GroupRows(new) = {} /\ EventRows(new) = {} /\ GroupRows(old) = {}
  BY <1>9, <1>12 DEF GroupRows, EventRows
<1>14. Fit(r, rows, t, new)
  <2>1. PICK G : G = GroupRows(Seen(rows, t))
    OBVIOUS
  <2>2. GroupRows(rows) \subseteq G /\ IsTable(old, G)
    BY <1>3, <1>8, <1>13, <2>1, SeenFacts DEF Fit
  <2>3. IsTable(seats, G)
    <3>1. EventRows(seats) = {}
      BY <1>11 DEF EventRows
    <3>2. \A x \in Ids(seats) : Shaped(seats[x], G)
      BY <1>11, <2>2 DEF Shaped
    <3> QED
      BY <1>11, <3>1, <3>2, FS_EmptySet DEF IsTable
  <2>4. IsTable(new, G)
    BY <1>1, <2>2, <2>3, TableOver
  <2>5. IsTable(new, GroupRows(Seen(rows, t)) \union GroupRows(new))
    BY <2>1, <2>4, TableGrows
  <2>6. Named(r, rows, new)
    <3>1. ASSUME NEW x \in Ids(new)
          PROVE  /\ x \in Ids(rows) => new[x].kind = rows[x].kind
                 /\ x \notin Ids(rows) => Mine(r, x)
      <4>1. CASE x \in xs
        <5>1. /\ x \in Ids(rows) => old[x].kind = rows[x].kind
              /\ x \notin Ids(rows) => Mine(r, x)
          BY <1>8, <1>9, <4>1 DEF Fit, Named
        <5> QED
          BY <1>12, <4>1, <5>1
      <4>2. CASE x \notin xs
        BY <1>11, <1>12, <3>1, <4>2
      <4> QED
        BY <4>1, <4>2
    <3> QED
      BY <3>1 DEF Named
  <2>7. Clones(rows, t) = {}
    BY <1>3, NoClones DEF Many
  <2> QED
    BY <2>5, <2>6, <2>7 DEF Fit
<1>15. EditsRows(rows, t, new)
  BY <1>13 DEF EditsRows
<1>16. WritesOK(r, rows, t2) /\ ClonesOK(r, rows, t2) /\ EditsRows(rows, t, t2.w)
  BY <1>3, <1>6, <1>14, <1>15, EditWritten
<1>17. TxOK(r, rows, t2)
  <2>1. t.read.group = t.job.group
    BY <1>3 DEF EditOK
  <2>2. ReadShape(t2) /\ ReadOK(rows, t2) /\ EditsRows(rows, t2, t2.w)
    BY <1>3, <1>6, <1>16 DEF ReadShape, ReadOK, EditsRows
  <2> QED
    BY <1>3, <1>6, <1>16, <2>1, <2>2, EditInOrder
<1>18. TxOK(r, rows, Tx(r)') => EditsInv'
  BY <1>1, <1>2, <1>5, WriteStep
<1> QED
  BY <1>17, <1>18

-----------------------------------------------------------------------------
\* Deletions

LEMMA DeleteInOrder ==
    ASSUME NEW r, NEW R, NEW t, t.job.kind = "delete", ReadShape(t), t.stage \in Stages(t),
           WritesOK(r, R, t), ClonesOK(r, R, t), ReadOK(R, t)
    PROVE  TxOK(r, R, t)
<1>1. /\ t.stage \in {"dropEvent", "findSeats", "dropSeats", "dropGroup", "commit"}
      /\ Begun(t) /\ SyncOK(R, t)
  BY DEF Stages, Begun, SyncOK
<1> QED
  BY <1>1 DEF TxOK

LEMMA DeleteStages ==
    ASSUME EditsInv, NEW r \in Requests,
           stage[r] \in {"dropEvent", "findSeats", "dropSeats", "dropGroup"}
    PROVE  LET t == Tx(r)
           IN  /\ t.job.kind = "delete" /\ TxOK(r, rows, t) /\ ReadShape(t) /\ ~Many(t)
               /\ WritesOK(r, rows, t) /\ ClonesOK(r, rows, t) /\ ReadOK(rows, t)
               /\ Clones(rows, t) = {} /\ FunsInv
               /\ t.read = read[r] /\ t.plan = plan[r] /\ t.job = job[r] /\ t.w = writes[r]
               /\ t.stage = stage[r] /\ Edits!View(r) = Seen(rows, t)
               /\ IsTable(rows, GroupRows(rows)) /\ EventIds \subseteq EventRows(rows)
<1> DEFINE t == Tx(r)
<1>1. /\ TxOK(r, rows, t) /\ t.stage = stage[r] /\ t.job = job[r] /\ FunsInv /\ t.read = read[r]
      /\ t.plan = plan[r] /\ t.w = writes[r] /\ Edits!View(r) = Seen(rows, t)
      /\ IsTable(rows, GroupRows(rows)) /\ EventIds \subseteq EventRows(rows)
  BY Now
<1>2. Begun(t) /\ t.job.kind = "delete"
  BY <1>1, JobFacts DEF TxOK, Begun, Stages
<1>3. /\ WritesOK(r, rows, t) /\ ClonesOK(r, rows, t) /\ ReadOK(rows, t) /\ ReadShape(t)
  BY <1>1, <1>2 DEF TxOK
<1>4. ~Many(t)
  BY <1>2 DEF Many
<1>5. Clones(rows, t) = {}
  BY <1>3, <1>4, NoClones
<1> QED
  BY <1>1, <1>2, <1>3, <1>4, <1>5

LEMMA DeleteLookKeeps ==
    ASSUME EditsInv, NEW r \in Requests, Edits!DeleteLook(r)
    PROVE  EditsInv'
<1> DEFINE t == Tx(r)
           t2 == Tx(r)'
<1>1. PICK g, label :
        /\ g = rows[job[r].event].group /\ label \in {"dropEvent", "commit"}
        /\ read' = [read EXCEPT ![r].group = g]
        /\ Edits!Goto(r, label)
  BY DEF Edits!DeleteLook
<1>2. /\ stage[r] = "start" /\ job[r].kind = "delete"
      /\ UNCHANGED Others /\ writes' = writes /\ plan' = plan
  BY DEF Edits!DeleteLook, Edits!history, Others
<1>3. /\ FunsInv /\ IsTable(rows, GroupRows(rows)) /\ t.job = job[r] /\ t.read = read[r]
      /\ t.w = << >> /\ ReadShape(t) /\ g \in GroupRows(rows)
  BY <1>1, <1>2, Now, Starts
<1>4. Reads(r) /\ read'[r] = [t.read EXCEPT !.group = g]
  BY <1>1, <1>2, <1>3 DEF FunsInv, Reads
<1>5. /\ t2.w = t.w /\ t2.stage = label /\ t2.job = t.job /\ t2.read = read'[r]
  BY <1>1, <1>2, <1>4, GotoStep
<1>6. ReadShape(t2) /\ t2.read.group = g
  BY <1>3, <1>4, <1>5 DEF ReadShape, Fields
<1>7. WritesOK(r, rows, t2) /\ ClonesOK(r, rows, t2)
  <2>1. ~Many(t2) /\ t2.w = << >>
    BY <1>2, <1>3, <1>5 DEF Many
  <2> QED
    BY <1>3, <2>1, NothingWritten
<1>8. TxOK(r, rows, t2)
  <2>1. t2.job.kind = "delete" /\ t2.stage \in Stages(t2) /\ ReadOK(rows, t2)
    BY <1>1, <1>2, <1>3, <1>5, <1>6 DEF Stages, ReadOK
  <2> QED
    BY <1>6, <1>7, <2>1, DeleteInOrder
<1>9. TxOK(r, rows, Tx(r)') => EditsInv'
  BY <1>1, <1>2, <1>4, GotoStep
<1> QED
  BY <1>8, <1>9

\* The deletion of some of the rows that the request sees
LEMMA DropKeeps ==
    ASSUME EditsInv, NEW r \in Requests, NEW xs, NEW label,
           stage[r] \in {"dropEvent", "findSeats", "dropSeats", "dropGroup"},
           label \in {"findSeats", "dropGroup", "commit"},
           UNCHANGED Others, read' = read, plan' = plan, xs \subseteq Ids(Edits!View(r)),
           Edits!Write(r, Edits!WithLife(Edits!View(r), xs, "gone"), label)
    PROVE  EditsInv'
<1> DEFINE t == Tx(r)
           t2 == Tx(r)'
<1>1. /\ t.job.kind = "delete" /\ TxOK(r, rows, t) /\ ReadShape(t) /\ ~Many(t)
      /\ WritesOK(r, rows, t) /\ ClonesOK(r, rows, t) /\ ReadOK(rows, t)
      /\ Clones(rows, t) = {} /\ FunsInv
      /\ t.read = read[r] /\ Edits!View(r) = Seen(rows, t)
      /\ IsTable(rows, GroupRows(rows))
  BY DeleteStages
<1>2. PICK new : new = Edits!WithLife(Seen(rows, t), xs, "gone")
  OBVIOUS
<1>3. Reads(r) /\ read'[r] = t.read
  BY <1>1 DEF FunsInv, Reads
<1>4. Edits!Write(r, new, label)
  BY <1>1, <1>2
<1>5. /\ Writes(t, t2, new) /\ t2.stage = label /\ t2.job = t.job /\ t2.read = t.read
  BY <1>3, <1>4, WriteStep
<1>6. xs \subseteq Ids(Seen(rows, t))
  BY <1>1
<1>7. Fit(r, rows, t, new) /\ GroupRows(new) \subseteq Ids(rows)
  <2>1. Fit(r, rows, t, new) /\ Deletes(rows, t, xs, new)
    BY <1>1, <1>2, <1>6, LifeIs
  <2> QED
    BY <2>1 DEF Deletes
<1>8. WritesOK(r, rows, t2) /\ ClonesOK(r, rows, t2)
  BY <1>1, <1>5, <1>7, PlainWritten
<1>9. TxOK(r, rows, t2)
  <2>1. /\ t2.job.kind = "delete" /\ t2.stage \in Stages(t2) /\ ReadOK(rows, t2)
        /\ ReadShape(t2)
    BY <1>1, <1>5 DEF Stages, ReadOK, ReadShape
  <2> QED
    BY <1>8, <2>1, DeleteInOrder
<1>10. TxOK(r, rows, Tx(r)') => EditsInv'
  BY <1>3, <1>4, WriteStep
<1> QED
  BY <1>9, <1>10

LEMMA DropEventKeeps ==
    ASSUME EditsInv, NEW r \in Requests, Edits!DropEvent(r)
    PROVE  EditsInv'
<1>1. /\ stage[r] = "dropEvent" /\ UNCHANGED Others /\ read' = read /\ plan' = plan
      /\ Edits!Write(r, Edits!WithLife(Edits!View(r), {job[r].event}, "gone"), "findSeats")
  BY DEF Edits!DropEvent, Edits!history, Others
<1>2. {job[r].event} \subseteq Ids(Edits!View(r))
  <2>1. /\ job[r].kind = "delete" /\ EventIds \subseteq EventRows(rows)
        /\ IsTable(rows, GroupRows(rows)) /\ WritesOK(r, rows, Tx(r))
        /\ Edits!View(r) = Seen(rows, Tx(r)) /\ FunsInv
    BY <1>1, DeleteStages
  <2>2. job[r].event \in Ids(rows)
    BY <2>1, JobFacts DEF EventRows
  <2> QED
    BY <2>1, <2>2, SeenFacts
<1> QED
  BY <1>1, <1>2, DropKeeps

LEMMA FindSeatsKeeps ==
    ASSUME EditsInv, NEW r \in Requests, Edits!FindSeats(r)
    PROVE  EditsInv'
<1> DEFINE t == Tx(r)
           t2 == Tx(r)'
<1>1. PICK listed :
        /\ stage[r] = "findSeats" /\ UNCHANGED Others /\ writes' = writes /\ plan' = plan
        /\ read' = [read EXCEPT ![r].listed = listed]
        /\ Edits!Goto(r, "dropSeats")
  BY DEF Edits!FindSeats, Edits!history, Others
<1>2. /\ t.job.kind = "delete" /\ TxOK(r, rows, t) /\ ReadShape(t)
      /\ WritesOK(r, rows, t) /\ ClonesOK(r, rows, t) /\ ReadOK(rows, t)
      /\ FunsInv /\ t.read = read[r] /\ t.stage = stage[r]
  BY <1>1, DeleteStages
<1>3. Reads(r) /\ read'[r] = [t.read EXCEPT !.listed = listed]
  BY <1>1, <1>2 DEF FunsInv, Reads
<1>4. /\ t2.w = t.w /\ t2.stage = "dropSeats" /\ t2.job = t.job /\ t2.read = read'[r]
  BY <1>1, <1>3, GotoStep
<1>5. ReadShape(t2) /\ t2.read.group = t.read.group
  BY <1>2, <1>3, <1>4 DEF ReadShape, Fields
<1>6. WritesOK(r, rows, t2) /\ ClonesOK(r, rows, t2) /\ ReadOK(rows, t2)
  BY <1>1, <1>2, <1>4, <1>5, Quiet
<1>7. TxOK(r, rows, t2)
  <2>1. t2.job.kind = "delete" /\ t2.stage \in Stages(t2)
    BY <1>2, <1>4 DEF Stages
  <2> QED
    BY <1>5, <1>6, <2>1, DeleteInOrder
<1>8. TxOK(r, rows, Tx(r)') => EditsInv'
  BY <1>1, <1>3, GotoStep
<1> QED
  BY <1>7, <1>8

LEMMA DropSeatsKeeps ==
    ASSUME EditsInv, NEW r \in Requests, Edits!DropSeats(r)
    PROVE  EditsInv'
<1>1. /\ stage[r] = "dropSeats" /\ UNCHANGED Others /\ read' = read /\ plan' = plan
      /\ Edits!Write(r, Edits!WithLife(Edits!View(r), Edits!Listed(r), "gone"), "dropGroup")
  BY DEF Edits!DropSeats, Edits!history, Others
<1>2. Edits!Listed(r) \subseteq Ids(Edits!View(r))
  BY DEF Edits!Listed, Edits!There, Ids
<1> QED
  BY <1>1, <1>2, DropKeeps

LEMMA DropGroupKeeps ==
    ASSUME EditsInv, NEW r \in Requests, Edits!DropGroup(r)
    PROVE  EditsInv'
<1> DEFINE t == Tx(r)
           t2 == Tx(r)'
           g == read[r].group
<1>1. /\ stage[r] = "dropGroup" /\ UNCHANGED Others /\ read' = read /\ plan' = plan
  BY DEF Edits!DropGroup, Edits!history, Others
<1>2. /\ t.job.kind = "delete" /\ TxOK(r, rows, t) /\ ReadShape(t)
      /\ WritesOK(r, rows, t) /\ ClonesOK(r, rows, t) /\ ReadOK(rows, t)
      /\ FunsInv /\ t.read = read[r] /\ t.stage = stage[r]
  BY <1>1, DeleteStages
<1>3. CASE Edits!Goto(r, "commit") /\ writes' = writes
  <2>1. Reads(r) /\ read'[r] = t.read
    BY <1>1, <1>2 DEF FunsInv, Reads
  <2>2. /\ t2.w = t.w /\ t2.stage = "commit" /\ t2.job = t.job /\ t2.read = t.read
    BY <1>1, <1>3, <2>1, GotoStep
  <2>3. WritesOK(r, rows, t2) /\ ClonesOK(r, rows, t2) /\ ReadOK(rows, t2)
    BY <1>1, <1>2, <2>2, Quiet
  <2>4. TxOK(r, rows, t2)
    <3>1. t2.job.kind = "delete" /\ t2.stage \in Stages(t2) /\ ReadShape(t2)
      BY <1>2, <2>2 DEF Stages, ReadShape
    <3> QED
      BY <2>3, <3>1, DeleteInOrder
  <2>5. TxOK(r, rows, Tx(r)') => EditsInv'
    BY <1>1, <1>3, <2>1, GotoStep
  <2> QED
    BY <2>4, <2>5
<1>4. CASE /\ Edits!Write(r, Edits!WithLife(Edits!View(r), {g}, "gone"), "commit")
           /\ Edits!There(Edits!View(r), g)
  <2>1. {g} \subseteq Ids(Edits!View(r))
    BY <1>4 DEF Edits!There, Ids
  <2> QED
    BY <1>1, <1>4, <2>1, DropKeeps
<1>5. CASE Edits!Throw(r)
  BY <1>1, <1>5, ThrowIs DEF Others
<1> QED
  BY <1>3, <1>4, <1>5 DEF Edits!DropGroup

-----------------------------------------------------------------------------
\* Clients

LEMMA RefusedStep ==
    ASSUME EditsInv, NEW r \in Requests, stage[r] = "start", Edits!Goto(r, "error"),
           UNCHANGED Others, writes' = writes, read' = read, plan' = plan
    PROVE  EditsInv'
  BY RefusedKeeps DEF Others

LEMMA FindEventKeeps ==
    ASSUME EditsInv, NEW r \in Requests, Edits!FindEvent(r)
    PROVE  EditsInv'
<1> DEFINE t == Tx(r)
           t2 == Tx(r)'
           g == rows[job[r].event].group
<1>1. /\ stage[r] = "start" /\ job[r].kind = "join"
      /\ UNCHANGED Others /\ writes' = writes /\ plan' = plan
  BY DEF Edits!FindEvent, Edits!history, Others
<1>2. /\ FunsInv /\ IsTable(rows, GroupRows(rows)) /\ t.job = job[r] /\ t.read = read[r]
      /\ t.w = << >> /\ ReadShape(t) /\ g \in GroupRows(rows)
  BY <1>1, Now, Starts
<1>3. CASE read' = [read EXCEPT ![r].group = g] /\ Edits!Goto(r, "join")
  <2>1. Reads(r) /\ read'[r] = [t.read EXCEPT !.group = g]
    BY <1>1, <1>2, <1>3 DEF FunsInv, Reads
  <2>2. /\ t2.w = t.w /\ t2.stage = "join" /\ t2.job = t.job /\ t2.read = read'[r]
    BY <1>1, <1>3, <2>1, GotoStep
  <2>3. ReadShape(t2) /\ t2.read.group = g
    BY <1>2, <2>1, <2>2 DEF ReadShape, Fields
  <2>4. WritesOK(r, rows, t2) /\ ClonesOK(r, rows, t2) /\ Ids(t2.w) = {}
    <3>1. ~Many(t2) /\ t2.w = << >>
      BY <1>1, <1>2, <2>2 DEF Many
    <3> QED
      BY <1>2, <3>1, NothingWritten, NoRows
  <2>5. TxOK(r, rows, t2)
    <3>1. /\ t2.job.kind = "join" /\ t2.stage \in Stages(t2) /\ ReadOK(rows, t2)
          /\ Begun(t2) /\ SyncOK(rows, t2)
      BY <1>1, <1>2, <2>2, <2>3 DEF Stages, ReadOK, Begun, SyncOK
    <3> QED
      BY <2>2, <2>3, <2>4, <3>1 DEF TxOK
  <2>6. TxOK(r, rows, Tx(r)') => EditsInv'
    BY <1>1, <1>3, <2>1, GotoStep
  <2> QED
    BY <2>5, <2>6
<1>4. CASE Edits!Goto(r, "error") /\ read' = read
  BY <1>1, <1>4, RefusedStep
<1> QED
  BY <1>3, <1>4 DEF Edits!FindEvent

LEMMA CancelInOrder ==
    ASSUME NEW r, NEW R, NEW t, t.job.kind = "cancel", ReadShape(t), t.stage \in Stages(t),
           WritesOK(r, R, t), ClonesOK(r, R, t), ReadOK(R, t), CancelOK(R, t)
    PROVE  TxOK(r, R, t)
<1>1. /\ t.stage \in {"cancelSeat", "cancelGroup", "commit"}
      /\ Begun(t) /\ SyncOK(R, t)
  BY DEF Stages, Begun, SyncOK
<1> QED
  BY <1>1 DEF TxOK

LEMMA CancelReadKeeps ==
    ASSUME EditsInv, NEW r \in Requests, Edits!CancelRead(r)
    PROVE  EditsInv'
<1> DEFINE t == Tx(r)
           t2 == Tx(r)'
           g == rows[job[r].event].group
           mine == {x \in Edits!SeatsOf(rows, g) : /\ rows[x].client = job[r].client
                                                   /\ rows[x].active}
<1>1. /\ stage[r] = "start" /\ job[r].kind = "cancel"
      /\ UNCHANGED Others /\ writes' = writes /\ plan' = plan
  BY DEF Edits!CancelRead, Edits!history, Others
<1>2. /\ FunsInv /\ IsTable(rows, GroupRows(rows)) /\ t.job = job[r] /\ t.read = read[r]
      /\ t.w = << >> /\ ReadShape(t) /\ g \in GroupRows(rows)
  BY <1>1, Now, Starts
<1>3. CASE /\ \E x \in mine : read' = [read EXCEPT ![r].group = g,
                                                   ![r].seats = Edits!One(x, rows[x])]
           /\ Edits!Goto(r, "cancelSeat")
  <2>1. PICK x, seats :
          /\ x \in mine
          /\ seats = Edits!One(x, rows[x])
          /\ read' = [read EXCEPT ![r].group = g, ![r].seats = seats]
    BY <1>3
  <2>2. Reads(r) /\ read'[r] = [t.read EXCEPT !.group = g, !.seats = seats]
    BY <1>1, <1>2, <2>1 DEF FunsInv, Reads
  <2>3. /\ t2.w = t.w /\ t2.stage = "cancelSeat" /\ t2.job = t.job /\ t2.read = read'[r]
    <3>1. Edits!Goto(r, "cancelSeat")
      BY <1>3
    <3>2. UNCHANGED Others /\ writes' = writes /\ stage[r] \notin {"done", "error"}
      BY <1>1
    <3> QED
      BY <2>2, <3>1, <3>2, GotoStep
  <2>4. ReadShape(t2) /\ t2.read.group = g /\ t2.read.seats = seats
    BY <1>2, <2>2, <2>3 DEF ReadShape, Fields
  <2>5. WritesOK(r, rows, t2) /\ ClonesOK(r, rows, t2) /\ Ids(t2.w) = {}
    <3>1. ~Many(t2) /\ t2.w = << >>
      BY <1>1, <1>2, <2>3 DEF Many
    <3> QED
      BY <1>2, <3>1, NothingWritten, NoRows
  <2>6. Ids(seats) \subseteq SeatRows(rows)
    <3>1. Ids(seats) = {x}
      BY <2>1, OneFacts
    <3>2. x \in SeatRows(rows)
      BY <2>1, SameNotions DEF Edits!SeatsOf, Live, SeatRows, Ids
    <3> QED
      BY <3>1, <3>2
  <2>7. CancelOK(rows, t2)
    BY <2>4, <2>5, <2>6 DEF CancelOK, EventRows, GroupRows
  <2>8. TxOK(r, rows, t2)
    <3>1. /\ t2.job.kind = "cancel" /\ t2.stage \in Stages(t2) /\ ReadOK(rows, t2)
      BY <1>1, <1>2, <2>3, <2>4 DEF Stages, ReadOK
    <3> QED
      BY <2>4, <2>5, <2>7, <3>1, CancelInOrder
  <2>9. TxOK(r, rows, Tx(r)') => EditsInv'
    BY <1>1, <1>3, <2>2, GotoStep
  <2> QED
    BY <2>8, <2>9
<1>4. CASE Edits!Goto(r, "error") /\ read' = read
  BY <1>1, <1>4, RefusedStep
<1> QED
  BY <1>3, <1>4 DEF Edits!CancelRead

LEMMA CancelStages ==
    ASSUME EditsInv, NEW r \in Requests, stage[r] \in {"cancelSeat", "cancelGroup"}
    PROVE  LET t == Tx(r)
           IN  /\ t.job.kind = "cancel" /\ TxOK(r, rows, t) /\ ReadShape(t) /\ ~Many(t)
               /\ WritesOK(r, rows, t) /\ ClonesOK(r, rows, t) /\ ReadOK(rows, t)
               /\ CancelOK(rows, t) /\ Clones(rows, t) = {} /\ FunsInv
               /\ t.read = read[r] /\ t.stage = stage[r] /\ Edits!View(r) = Seen(rows, t)
               /\ IsTable(rows, GroupRows(rows))
<1> DEFINE t == Tx(r)
<1>1. /\ TxOK(r, rows, t) /\ t.stage = stage[r] /\ t.job = job[r] /\ FunsInv /\ t.read = read[r]
      /\ Edits!View(r) = Seen(rows, t) /\ IsTable(rows, GroupRows(rows))
  BY Now
<1>2. Begun(t) /\ t.job.kind = "cancel"
  BY <1>1, JobFacts DEF TxOK, Begun, Stages
<1>3. /\ WritesOK(r, rows, t) /\ ClonesOK(r, rows, t) /\ ReadOK(rows, t) /\ ReadShape(t)
      /\ CancelOK(rows, t)
  BY <1>1, <1>2 DEF TxOK
<1>4. ~Many(t)
  BY <1>2 DEF Many
<1>5. Clones(rows, t) = {}
  BY <1>3, <1>4, NoClones
<1> QED
  BY <1>1, <1>2, <1>3, <1>4, <1>5

\* The cancellation of a seat, or of a booking
CancelRow(old, row) ==
    \/ old.kind = "seat" /\ row = [old EXCEPT !.active = FALSE]
    \/ old.kind = "group" /\ row = [old EXCEPT !.cancelled = TRUE]

LEMMA CancelRowKeeps ==
    ASSUME EditsInv, NEW r \in Requests, NEW x \in Ids(rows), NEW row, NEW label,
           stage[r] \in {"cancelSeat", "cancelGroup"}, label \in {"cancelGroup", "commit"},
           UNCHANGED Others, read' = read, plan' = plan,
           CancelRow(Edits!View(r)[x], row),
           Edits!Write(r, Edits!One(x, row), label)
    PROVE  EditsInv'
<1> DEFINE t == Tx(r)
           t2 == Tx(r)'
<1>1. /\ t.job.kind = "cancel" /\ TxOK(r, rows, t) /\ ReadShape(t) /\ ~Many(t)
      /\ WritesOK(r, rows, t) /\ ClonesOK(r, rows, t) /\ ReadOK(rows, t)
      /\ CancelOK(rows, t) /\ Clones(rows, t) = {} /\ FunsInv
      /\ t.read = read[r] /\ Edits!View(r) = Seen(rows, t)
      /\ IsTable(rows, GroupRows(rows))
  BY CancelStages
<1>2. PICK v, old, new : v = Seen(rows, t) /\ old = v[x] /\ new = Edits!One(x, row)
  OBVIOUS
<1>3. Reads(r) /\ read'[r] = t.read
  BY <1>1 DEF FunsInv, Reads
<1>4. Edits!Write(r, new, label)
  BY <1>2
<1>5. /\ Writes(t, t2, new) /\ t2.stage = label /\ t2.job = t.job /\ t2.read = t.read
  BY <1>3, <1>4, WriteStep
<1>6. /\ IsTable(v, GroupRows(v)) /\ Ids(v) = Ids(t.w) \union Ids(rows)
      /\ \A y \in Ids(t.w) : v[y] = t.w[y]
      /\ \A y \in Ids(rows) : y \notin Ids(t.w) => v[y] = rows[y]
      /\ \A y \in Ids(rows) : v[y].kind = rows[y].kind
      /\ GroupRows(v) = GroupRows(rows) \union Clones(rows, t)
  <2>1. WritesOK(r, rows, t) /\ IsTable(rows, GroupRows(rows)) /\ v = Seen(rows, t)
    BY <1>1, <1>2
  <2> QED
    BY <2>1, SeenFacts
<1>7. CancelRow(old, row) /\ Shaped(old, GroupRows(v)) /\ old.kind = rows[x].kind
  BY <1>1, <1>2, <1>6 DEF IsTable
<1>8. /\ row.kind = old.kind /\ Shaped(row, GroupRows(v))
      /\ old.kind = "group" =>
           row.start = old.start /\ row.end = old.end /\ row.life = old.life
  <2>1. CASE old.kind = "seat" /\ row = [old EXCEPT !.active = FALSE]
    <3>1. old.group \in GroupRows(v) /\ Fields(old) = {"kind", "group", "client", "active", "life"}
      BY <1>7, <2>1 DEF Shaped
    <3>2. row.kind = "seat" /\ row.group = old.group /\ Fields(row) = Fields(old)
      BY <2>1, <3>1 DEF Fields
    <3> QED
      BY <2>1, <3>1, <3>2 DEF Shaped
  <2>2. CASE old.kind = "group" /\ row = [old EXCEPT !.cancelled = TRUE]
    <3>1. Fields(old) = {"kind", "start", "end", "cancelled", "life"}
      BY <1>7, <2>2 DEF Shaped
    <3>2. /\ row.kind = "group" /\ Fields(row) = Fields(old)
          /\ row.start = old.start /\ row.end = old.end /\ row.life = old.life
      BY <2>2, <3>1 DEF Fields
    <3> QED
      BY <2>2, <3>1, <3>2 DEF Shaped
  <2> QED
    BY <1>7, <2>1, <2>2 DEF CancelRow
<1>9. Ids(new) = {x} /\ new[x] = row /\ IsTable(new, GroupRows(v))
  BY <1>2, <1>8, OneFacts, TableOfOne
<1>10. Fit(r, rows, t, new) /\ GroupRows(new) \subseteq Ids(rows)
  <2>1. IsTable(new, GroupRows(Seen(rows, t)) \union GroupRows(new))
    BY <1>2, <1>9, TableGrows
  <2>2. Named(r, rows, new)
    BY <1>7, <1>8, <1>9 DEF Named
  <2>3. GroupRows(new) \subseteq Ids(rows)
    BY <1>9 DEF GroupRows
  <2> QED
    BY <1>1, <2>1, <2>2, <2>3 DEF Fit
<1>11. WritesOK(r, rows, t2) /\ ClonesOK(r, rows, t2) /\ Adds(t, t2, new)
  BY <1>1, <1>5, <1>10, PlainWritten
<1>12. CancelOK(rows, t2)
  <2>1. /\ Ids(t2.w) = {x} \union Ids(t.w) /\ t2.w[x] = row
        /\ \A y \in Ids(t.w) : y # x => t2.w[y] = t.w[y]
    BY <1>9, <1>11 DEF Adds
  <2>2. row.kind # "event"
    BY <1>7, <1>8 DEF CancelRow
  <2>3. EventRows(t2.w) = {}
    BY <1>1, <2>1, <2>2 DEF CancelOK, EventRows
  <2>4. ASSUME NEW y \in GroupRows(t2.w)
        PROVE  /\ y \in Ids(rows) /\ t2.w[y].start = rows[y].start
               /\ t2.w[y].end = rows[y].end /\ t2.w[y].life = rows[y].life
    <3>1. CASE y = x
      <4>1. old.kind = "group"
        BY <1>8, <2>1, <2>4, <3>1 DEF GroupRows
      <4>2. CASE x \in Ids(t.w)
        <5>1. x \in GroupRows(t.w) /\ t.w[x] = old
          BY <1>2, <1>6, <4>1, <4>2 DEF GroupRows
        <5> QED
          BY <1>1, <1>8, <2>1, <3>1, <4>1, <5>1 DEF CancelOK
      <4>3. CASE x \notin Ids(t.w)
        BY <1>2, <1>6, <1>8, <2>1, <3>1, <4>1, <4>3
      <4> QED
        BY <4>2, <4>3
    <3>2. CASE y # x
      <4>1. y \in GroupRows(t.w) /\ t2.w[y] = t.w[y]
        BY <2>1, <2>4, <3>2 DEF GroupRows
      <4> QED
        BY <1>1, <4>1 DEF CancelOK
    <3> QED
      BY <3>1, <3>2
  <2> QED
    BY <1>5, <2>3, <2>4 DEF CancelOK
<1>13. TxOK(r, rows, t2)
  <2>1. /\ t2.job.kind = "cancel" /\ t2.stage \in Stages(t2) /\ ReadOK(rows, t2)
        /\ ReadShape(t2)
    BY <1>1, <1>5 DEF Stages, ReadOK, ReadShape
  <2> QED
    BY <1>11, <1>12, <2>1, CancelInOrder
<1>14. TxOK(r, rows, Tx(r)') => EditsInv'
  BY <1>3, <1>4, WriteStep
<1> QED
  BY <1>13, <1>14

LEMMA CancelSeatKeeps ==
    ASSUME EditsInv, NEW r \in Requests, Edits!CancelSeat(r)
    PROVE  EditsInv'
<1>1. stage[r] = "cancelSeat" /\ UNCHANGED Others /\ read' = read /\ plan' = plan
  BY DEF Edits!CancelSeat, Edits!history, Others
<1>2. CASE Edits!Throw(r)
  BY <1>1, <1>2, ThrowIs DEF Others
<1>3. CASE ~Edits!Throw(r)
  <2>1. PICK x, row :
          /\ x \in Ids(read[r].seats)
          /\ row = [Edits!View(r)[x] EXCEPT !.active = FALSE]
          /\ Edits!Write(r, Edits!One(x, row), "cancelGroup")
    BY <1>3 DEF Edits!CancelSeat, Ids
  <2>2. /\ WritesOK(r, rows, Tx(r)) /\ CancelOK(rows, Tx(r)) /\ Tx(r).read = read[r]
        /\ Tx(r).stage = stage[r] /\ Edits!View(r) = Seen(rows, Tx(r))
        /\ IsTable(rows, GroupRows(rows))
    BY <1>1, CancelStages
  <2>3. x \in Ids(rows) /\ rows[x].kind = "seat"
    BY <1>1, <2>1, <2>2 DEF CancelOK, SeatRows
  <2>4. CancelRow(Edits!View(r)[x], row)
    BY <2>1, <2>2, <2>3, SeenFacts DEF CancelRow
  <2> QED
    BY <1>1, <2>1, <2>3, <2>4, CancelRowKeeps
<1> QED
  BY <1>2, <1>3

LEMMA CancelGroupKeeps ==
    ASSUME EditsInv, NEW r \in Requests, Edits!CancelGroup(r)
    PROVE  EditsInv'
<1>1. stage[r] = "cancelGroup" /\ UNCHANGED Others /\ read' = read /\ plan' = plan
  BY DEF Edits!CancelGroup, Edits!history, Others
<1>2. CASE Edits!Throw(r)
  BY <1>1, <1>2, ThrowIs DEF Others
<1>3. CASE ~Edits!Throw(r)
  <2>1. PICK g, row : /\ g = read[r].group
                      /\ row = [Edits!View(r)[g] EXCEPT !.cancelled = TRUE]
                      /\ Edits!Write(r, Edits!One(g, row), "commit")
    BY <1>3 DEF Edits!CancelGroup
  <2>2. /\ WritesOK(r, rows, Tx(r)) /\ ReadOK(rows, Tx(r)) /\ Tx(r).read = read[r]
        /\ Edits!View(r) = Seen(rows, Tx(r)) /\ IsTable(rows, GroupRows(rows))
    BY <1>1, CancelStages
  <2>3. g \in Ids(rows) /\ rows[g].kind = "group"
    BY <2>1, <2>2 DEF ReadOK, GroupRows
  <2>4. CancelRow(Edits!View(r)[g], row)
    BY <2>1, <2>2, <2>3, SeenFacts DEF CancelRow
  <2> QED
    BY <1>1, <2>1, <2>3, <2>4, CancelRowKeeps
<1> QED
  BY <1>2, <1>3

LEMMA AbortKeeps ==
    ASSUME EditsInv, NEW r \in Requests, Edits!Abort(r)
    PROVE  EditsInv'
<1>1. /\ stage[r] \notin {"done", "error"} /\ Edits!Throw(r)
      /\ rows' = rows /\ spoilt' = spoilt /\ UNCHANGED <<job, read, plan, known, touched>>
  BY DEF Edits!Abort, Edits!InFlight, Edits!Answered, Edits!history
<1> QED
  BY <1>1, ThrowIs

-----------------------------------------------------------------------------
\* The end of a transaction

\* Two requests give no id both.
LEMMA MineOnce ==
    ASSUME IdsAreNew, NEW r \in Requests, NEW s \in Requests, r # s, NEW x, Mine(r, x)
    PROVE  ~Mine(s, x)
<1>1. SUFFICES ASSUME Mine(s, x) PROVE FALSE
  OBVIOUS
<1>2. (\E i : x = <<s, i>>) \/ (\E i, y : x = <<<<s, i>>, y>>)
  BY <1>1 DEF Mine
<1>3. (\E i : x = <<r, i>>) \/ (\E i, y : x = <<<<r, i>>, y>>)
  BY DEF Mine
<1>4. \A i : r # <<s, i>> /\ s # <<r, i>>
  BY DEF IdsAreNew, Mine
<1> QED
  BY <1>2, <1>3, <1>4

\* The rows W, which r commits, change the bookings C.
Published(r, W, C) ==
    /\ IsTable(Edits!Over(W, rows), GroupRows(Edits!Over(W, rows)))
    /\ Named(r, rows, W)
    /\ \A s \in Requests : s # r => Ids(W) \intersect Ids(writes[s]) = {}
    /\ \A x \in EventRows(W) : W[x].group \in C /\ (x \in Ids(rows) => rows[x].group \in C)
    /\ \A x \in GroupRows(W) : x \in Ids(rows) =>
         x \in C \/ (W[x].start = rows[x].start /\ W[x].end = rows[x].end)

\* r has ended, and the others know which bookings it changed.
Ended(r, C) ==
    /\ FunsInv' /\ stage'[r] \in {"done", "error"} /\ Tx(r)'.w = << >> /\ ReadShape(Tx(r)')
    /\ \A s \in Requests : s # r => SameTx(Tx(s), Tx(s)', C)

LEMMA CommitStep ==
    ASSUME EditsInv, IdsAreNew, NEW r \in Requests, NEW W, NEW C, Published(r, W, C),
           Ended(r, C), rows' = Edits!Over(W, rows), WindowsFollowEvents'
    PROVE  EditsInv'
<1>1. /\ FunsInv' /\ IsTable(rows, GroupRows(rows))
      /\ EventIds \subseteq EventRows(rows) /\ GroupIds \subseteq GroupRows(rows)
  BY Now DEF Ended
<1>2. ASSUME NEW s \in Requests, s # r PROVE Apart(rows, Tx(s), W, C)
  <2>1. Tx(s).w = writes[s]
    BY Now
  <2> QED
    BY <1>2, <2>1 DEF Published, Apart, Named
<1>3. ASSUME NEW s \in Requests, s # r PROVE TxOK(s, rows', Tx(s)')
  <2>1. TxOK(s, rows, Tx(s)) /\ SameTx(Tx(s), Tx(s)', C)
    BY <1>3, Now DEF Ended
  <2>2. TxOK(s, Edits!Over(W, rows), Tx(s)')
    BY <1>1, <1>2, <1>3, <2>1, OtherTx
  <2> QED
    BY <2>2
<1>4. TxOK(r, rows', Tx(r)')
  <2>1. Tx(r)'.stage = stage'[r]
    BY Now
  <2> QED
    BY <2>1 DEF TxOK, Begun, Ended
<1>5. /\ Ids(rows') = Ids(W) \union Ids(rows)
      /\ \A x \in Ids(W) : rows'[x] = W[x]
      /\ \A x \in Ids(rows) : x \notin Ids(W) => rows'[x] = rows[x]
  <2>1. PICK o : o = Edits!Over(W, rows)
    OBVIOUS
  <2>2. /\ Ids(o) = Ids(W) \union Ids(rows)
        /\ \A x \in Ids(W) : o[x] = W[x]
        /\ \A x \in Ids(rows) : x \notin Ids(W) => o[x] = rows[x]
    BY <2>1, OverFacts
  <2> QED
    BY <2>1, <2>2
<1>6. \A x \in Ids(rows) : rows'[x].kind = rows[x].kind
  BY <1>5 DEF Published, Named
<1>7. TableInv'
  <2>1. IsTable(rows, GroupRows(rows))'
    BY DEF Published
  <2>2. EventRows(rows) \subseteq EventRows(rows') /\ GroupRows(rows) \subseteq GroupRows(rows')
    BY <1>5, <1>6 DEF EventRows, GroupRows
  <2> QED
    BY <1>1, <2>1, <2>2 DEF TableInv
<1>8. \A s \in Requests : s # r => stage'[s] = stage[s] /\ writes'[s] = writes[s]
  BY Now DEF Ended, SameTx
<1>9. IdsInv'
  <2>1. ASSUME NEW s \in Requests, stage'[s] \notin {"done", "error"}, NEW x \in Ids(rows')
        PROVE  ~Mine(s, x)
    <3>1. s # r /\ stage[s] \notin {"done", "error"}
      BY <1>8, <2>1 DEF Ended
    <3>2. CASE x \in Ids(rows)
      BY <3>1, <3>2 DEF EditsInv, IdsInv
    <3>3. CASE x \notin Ids(rows)
      <4>1. Mine(r, x)
        BY <1>5, <2>1, <3>3 DEF Published, Named
      <4> QED
        BY <3>1, <4>1, MineOnce
    <3> QED
      BY <3>2, <3>3
  <2> QED
    BY <2>1 DEF IdsInv
<1>10. LocksInv'
  <2>1. Ids(writes'[r]) = {}
    BY Now, NoRows DEF Ended
  <2>2. ASSUME NEW a \in Requests, NEW b \in Requests, a # b
        PROVE  Ids(writes'[a]) \intersect Ids(writes'[b]) = {}
    <3>1. CASE a = r \/ b = r
      BY <2>1, <3>1
    <3>2. CASE a # r /\ b # r
      <4>1. Ids(writes[a]) \intersect Ids(writes[b]) = {}
        BY <2>2 DEF EditsInv, LocksInv
      <4> QED
        BY <1>8, <3>2, <4>1
    <3> QED
      BY <3>1, <3>2
  <2> QED
    BY <2>2 DEF LocksInv
<1>11. \A s \in Requests : TxOK(s, rows', Tx(s)')
  BY <1>3, <1>4
<1> QED
  BY <1>1, <1>7, <1>9, <1>10, <1>11 DEF EditsInv

\* A row that is no event's, and no booking's, leaves all windows as they are.
LEMMA SeatJoins ==
    ASSUME EditsInv, IdsAreNew, NEW r \in Requests, NEW x, NEW row, Mine(r, x),
           row.kind = "seat", Shaped(row, GroupRows(rows)), stage[r] \notin {"done", "error"},
           rows' = Edits!Over(Edits!One(x, row), rows), spoilt' = spoilt
    PROVE  Published(r, Edits!One(x, row), {}) /\ WindowsFollowEvents'
<1>1. PICK W, o : W = Edits!One(x, row) /\ o = Edits!Over(W, rows)
  OBVIOUS
<1>2. /\ IsTable(rows, GroupRows(rows)) /\ x \notin Ids(rows)
      /\ \A s \in Requests : s # r => x \notin Ids(writes[s])
  BY Now, NewIdsFree
<1>3. Ids(W) = {x} /\ W[x] = row /\ IsTable(W, GroupRows(rows))
  BY <1>1, OneFacts, TableOfOne
<1>4. /\ Ids(o) = {x} \union Ids(rows) /\ o[x] = row
      /\ \A y \in Ids(rows) : o[y] = rows[y]
  <2>1. /\ Ids(o) = Ids(W) \union Ids(rows)
        /\ \A y \in Ids(W) : o[y] = W[y]
        /\ \A y \in Ids(rows) : y \notin Ids(W) => o[y] = rows[y]
    BY <1>1, OverFacts
  <2> QED
    BY <1>2, <1>3, <2>1
<1>5. GroupRows(o) = GroupRows(rows) /\ EventRows(o) = EventRows(rows)
  BY <1>2, <1>4 DEF GroupRows, EventRows
<1>6. IsTable(o, GroupRows(o))
  BY <1>1, <1>2, <1>3, <1>5, TableOver
<1>7. Published(r, W, {})
  <2>1. Named(r, rows, W)
    BY <1>2, <1>3 DEF Named
  <2>2. EventRows(W) = {} /\ GroupRows(W) = {}
    BY <1>3 DEF EventRows, GroupRows
  <2> QED
    BY <1>1, <1>2, <1>3, <1>6, <2>1, <2>2 DEF Published
<1>8. WindowsFollowEvents'
  <2>1. ASSUME NEW g \in Live(o, "group") \ spoilt PROVE Spanned(o, g)
    <3>1. g \in GroupRows(rows) /\ g \in Live(rows, "group") /\ o[g] = rows[g]
      BY <1>4, <1>5, <2>1 DEF Live, GroupRows, Ids
    <3>2. Spanned(rows, g)
      BY <2>1, <3>1 DEF EditsInv, WindowsFollowEvents
    <3>3. /\ \A y \in EventRows(rows) : rows[y].group = g => y \in EventRows(o) /\ o[y] = rows[y]
          /\ \A y \in EventRows(o) : o[y].group = g => y \in EventRows(rows) /\ o[y] = rows[y]
      BY <1>4, <1>5 DEF EventRows
    <3> QED
      BY <3>1, <3>2, <3>3, SameWindow
  <2> QED
    BY <1>1, <2>1 DEF WindowsFollowEvents
<1> QED
  BY <1>1, <1>7, <1>8

LEMMA JoinKeeps ==
    ASSUME EditsInv, IdsAreNew, NEW r \in Requests, Edits!Join(r)
    PROVE  EditsInv'
<1> DEFINE t == Tx(r)
           t2 == Tx(r)'
<1>1. PICK g, mine, seat :
        /\ g = read[r].group
        /\ seat = [kind |-> "seat", group |-> g, client |-> job[r].client,
                   active |-> TRUE, life |-> "live"]
        /\ \/ /\ rows' = IF mine = {} THEN Edits!Over(Edits!One(<<r, job[r].client>>, seat), rows)
                         ELSE rows
              /\ Edits!Goto(r, "done")
           \/ /\ Edits!Goto(r, "error")
              /\ rows' = rows
  BY DEF Edits!Join
<1>2. /\ stage[r] = "join" /\ spoilt' = spoilt
      /\ UNCHANGED <<writes, job, read, plan, known, touched>>
  BY DEF Edits!Join, Edits!history
<1>3. /\ FunsInv /\ IsTable(rows, GroupRows(rows)) /\ TxOK(r, rows, t)
      /\ t.read = read[r] /\ t.stage = "join" /\ t.w = writes[r]
  BY <1>2, Now
<1>4. /\ Begun(t) /\ ReadShape(t) /\ g \in GroupRows(rows) /\ t.w = << >>
  <2>1. Begun(t)
    BY <1>3 DEF Begun
  <2>2. Ids(t.w) = {} /\ IsFun(t.w) /\ ReadOK(rows, t) /\ ReadShape(t)
    BY <1>3, <2>1 DEF TxOK, WritesOK, IsTable
  <2>3. t.w = << >>
    BY <2>2 DEF IsFun, Ids
  <2> QED
    BY <1>1, <1>3, <2>1, <2>2, <2>3 DEF ReadOK
<1>5. stage' = [stage EXCEPT ![r] = stage'[r]] /\ stage'[r] \in {"done", "error"}
  <2>1. CASE Edits!Goto(r, "done")
    BY <1>3, <2>1, GotoIs
  <2>2. CASE Edits!Goto(r, "error")
    BY <1>3, <2>2, GotoIs
  <2> QED
    BY <1>1, <2>1, <2>2
<1>6. Steps(r) /\ Locks(r)
  BY <1>2, <1>3, <1>5, Stays DEF Steps, Locks
<1>7. t2.w = << >> /\ t2.stage \in {"done", "error"} /\ ReadShape(t2)
  BY <1>2, <1>3, <1>4, <1>5, Now DEF ReadShape
<1>8. CASE rows' = rows
  <2>1. TxOK(r, rows, t2)
    BY <1>7 DEF TxOK, Begun
  <2> QED
    BY <1>2, <1>6, <1>8, <2>1, OwnStep
<1>9. CASE rows' = Edits!Over(Edits!One(<<r, job[r].client>>, seat), rows)
  <2>1. PICK x, W : x = <<r, job[r].client>> /\ W = Edits!One(x, seat)
    OBVIOUS
  <2>2. Mine(r, x)
    BY <2>1 DEF Mine
  <2>3. seat.kind = "seat" /\ Shaped(seat, GroupRows(rows))
    BY <1>1, <1>4, NewRows
  <2>4. Published(r, Edits!One(x, seat), {}) /\ WindowsFollowEvents'
    BY <1>2, <1>9, <2>1, <2>2, <2>3, SeatJoins
  <2>5. Ended(r, {})
    <3>1. FunsInv' /\ \A s \in Requests : s # r => Tx(s)' = Tx(s)
      BY <1>3, <1>6, OthersKeep
    <3>2. \A s \in Requests : s # r => SameTx(Tx(s), Tx(s)', {})
      BY <3>1 DEF SameTx
    <3> QED
      BY <1>5, <1>7, <3>1, <3>2 DEF Ended
  <2> QED
    BY <1>9, <2>1, <2>4, <2>5, CommitStep
<1> QED
  BY <1>1, <1>8, <1>9

-----------------------------------------------------------------------------
\* A transaction commits.

\* It knows the rows it wrote, and the bookings they change.
LEMMA CommitFacts ==
    ASSUME EditsInv, NEW r \in Requests, Edits!Commit(r)
    PROVE  LET t == Tx(r)
           IN  /\ t.job.kind \in {"move", "edit", "delete", "cancel"} /\ t.stage = "commit"
               /\ TxOK(r, rows, t) /\ Begun(t) /\ ReadShape(t)
               /\ WritesOK(r, rows, t) /\ ClonesOK(r, rows, t) /\ ReadOK(rows, t)
               /\ SyncOK(rows, t)
               /\ t.job.kind = "move" => MoveOK(rows, t) /\ SeatsOK(rows, t) /\ KnownOK(rows, t)
               /\ t.job.kind = "edit" => EditOK(rows, t)
               /\ t.job.kind = "cancel" => CancelOK(rows, t)
               /\ IsTable(rows, GroupRows(rows)) /\ rows' = Edits!Over(t.w, rows)
               /\ rows' = Seen(rows, t)
               /\ t.w = writes[r] /\ t.job = job[r] /\ t.touched = touched[r]
               /\ t.read = read[r] /\ t.known = known[r]
<1> DEFINE t == Tx(r)
<1>1. /\ TxOK(r, rows, t) /\ t.stage = stage[r] /\ t.job = job[r] /\ FunsInv /\ t.w = writes[r]
      /\ t.touched = touched[r] /\ IsTable(rows, GroupRows(rows))
      /\ t.read = read[r] /\ t.known = known[r]
      /\ Edits!View(r) = Seen(rows, t)
  BY Now
<1>2. stage[r] = "commit" /\ rows' = Edits!View(r)
  BY DEF Edits!Commit
<1>3. Begun(t) /\ t.job.kind \in {"move", "edit", "delete", "cancel"}
  BY <1>1, <1>2, JobFacts DEF TxOK, Begun, Stages
<1>4. /\ WritesOK(r, rows, t) /\ ClonesOK(r, rows, t) /\ ReadOK(rows, t)
      /\ SyncOK(rows, t) /\ ReadShape(t)
      /\ t.job.kind = "move" => MoveOK(rows, t) /\ SeatsOK(rows, t) /\ KnownOK(rows, t)
      /\ t.job.kind = "edit" => EditOK(rows, t)
      /\ t.job.kind = "cancel" => CancelOK(rows, t)
  BY <1>1, <1>2, <1>3 DEF TxOK
<1>5. rows' = Edits!Over(t.w, rows)
  BY <1>1, <1>2 DEF Seen
<1> QED
  BY <1>1, <1>2, <1>3, <1>4, <1>5

\* Changed(r), for what is known of the request
Hit(R, t) ==
    IF t.job.kind = "cancel" THEN {}
    ELSE GroupRows(t.w) \union {t.w[e].group : e \in EventRows(t.w)}
           \union {R[e].group : e \in EventRows(t.w) \intersect Ids(R)}

LEMMA ChangedIs ==
    ASSUME EditsInv, NEW r \in Requests, Edits!Commit(r)
    PROVE  /\ Edits!Changed(r) = Hit(rows, Tx(r))
           /\ Edits!EventsWritten(r) = EventRows(Tx(r).w)
           /\ Edits!Raced(r) =
                LET hit == Tx(r).touched \intersect Hit(rows, Tx(r))
                IN  hit \union {Tx(r).w[e].group :
                       e \in {x \in EventRows(Tx(r).w) : x \in Ids(rows) /\ rows[x].group \in hit}}
           /\ Edits!Unsynced(r) =
                CASE Tx(r).job.kind = "delete" -> Hit(rows, Tx(r))
                  [] Tx(r).job.kind = "edit" ->
                       {rows[e].group : e \in EventRows(Tx(r).w) \intersect Ids(rows)}
                         \ {Tx(r).job.group}
                  [] OTHER -> {}
<1> DEFINE t == Tx(r)
<1>1. /\ t.job.kind \in {"move", "edit", "delete", "cancel"}
      /\ t.w = writes[r] /\ t.job = job[r] /\ t.touched = touched[r]
  BY CommitFacts
<1>2. Edits!EventsWritten(r) = EventRows(t.w)
  BY <1>1 DEF Edits!EventsWritten, EventRows, Ids
<1>3. \A xs : Edits!Taken(r, xs) = {rows[e].group : e \in xs \intersect Ids(rows)}
  BY DEF Edits!Taken, Ids
<1>4. Edits!Platform(r) <=> t.job.kind # "cancel"
  BY <1>1 DEF Edits!Platform
<1>5. {x \in DOMAIN writes[r] : writes[r][x].kind = "group"} = GroupRows(t.w)
  BY <1>1 DEF GroupRows, Ids
<1>6. Edits!Changed(r) = Hit(rows, t)
  <2>1. Edits!Changed(r) =
          IF t.job.kind = "cancel" THEN {}
          ELSE GroupRows(t.w) \union {writes[r][e].group : e \in EventRows(t.w)}
                 \union Edits!Taken(r, EventRows(t.w))
    BY <1>2, <1>4, <1>5 DEF Edits!Changed
  <2>2. Edits!Taken(r, EventRows(t.w)) = {rows[e].group : e \in EventRows(t.w) \intersect Ids(rows)}
    BY <1>3
  <2> QED
    BY <1>1, <2>1, <2>2 DEF Hit
<1>7. PICK hit : hit = t.touched \intersect Hit(rows, t)
  OBVIOUS
<1>8. {x \in EventRows(t.w) : Edits!Taken(r, {x}) \intersect hit # {}}
        = {x \in EventRows(t.w) : x \in Ids(rows) /\ rows[x].group \in hit}
  <2>1. ASSUME NEW x
        PROVE  Edits!Taken(r, {x}) \intersect hit # {} <=> x \in Ids(rows) /\ rows[x].group \in hit
    <3>1. Edits!Taken(r, {x}) = {rows[e].group : e \in {x} \intersect Ids(rows)}
      BY <1>3
    <3> QED
      BY <3>1
  <2> QED
    BY <2>1
<1>9. Edits!Raced(r) = hit \union {t.w[e].group :
          e \in {x \in EventRows(t.w) : x \in Ids(rows) /\ rows[x].group \in hit}}
  BY <1>1, <1>2, <1>6, <1>7, <1>8 DEF Edits!Raced
<1>10. Edits!Unsynced(r) =
         CASE t.job.kind = "delete" -> Hit(rows, t)
           [] t.job.kind = "edit" ->
                {rows[e].group : e \in EventRows(t.w) \intersect Ids(rows)} \ {t.job.group}
           [] OTHER -> {}
  BY <1>1, <1>2, <1>3, <1>6 DEF Edits!Unsynced
<1> QED
  BY <1>2, <1>6, <1>7, <1>9, <1>10

\* The rows that a transaction of the platform writes are of the bookings it changes.
LEMMA HitFacts ==
    ASSUME NEW R, NEW t, t.job.kind # "cancel"
    PROVE  /\ GroupRows(t.w) \subseteq Hit(R, t)
           /\ \A e \in EventRows(t.w) : /\ t.w[e].group \in Hit(R, t)
                                        /\ e \in Ids(R) => R[e].group \in Hit(R, t)
           /\ \A g \in Hit(R, t) : \/ g \in GroupRows(t.w)
                                   \/ \E e \in EventRows(t.w) : g = t.w[e].group
                                   \/ \E e \in EventRows(t.w) : e \in Ids(R) /\ g = R[e].group
  BY DEF Hit

\* A booking that a transaction does not change keeps its window and its events.
LEMMA Untouched ==
    ASSUME NEW r, NEW R, NEW t, NEW v, NEW g, IsTable(R, GroupRows(R)), WritesOK(r, R, t),
           v = Seen(R, t), t.job.kind = "cancel" => CancelOK(R, t), g \notin Hit(R, t),
           g \in Live(v, "group")
    PROVE  g \in Live(R, "group") /\ (Spanned(R, g) => Spanned(v, g))
<1>1. /\ Ids(v) = Ids(t.w) \union Ids(R)
      /\ \A x \in Ids(t.w) : v[x] = t.w[x]
      /\ \A x \in Ids(R) : x \notin Ids(t.w) => v[x] = R[x]
      /\ \A x \in Ids(R) : v[x].kind = R[x].kind
  BY SeenFacts
<1>2. g \in Ids(v) /\ v[g].kind = "group" /\ v[g].life = "live"
  BY DEF Live, Ids
<1>3. /\ g \in Ids(R) /\ R[g].kind = "group" /\ v[g].start = R[g].start /\ v[g].end = R[g].end
      /\ v[g].life = R[g].life
  <2>1. CASE g \in Ids(t.w)
    <3>1. g \in GroupRows(t.w) /\ v[g] = t.w[g]
      BY <1>1, <1>2, <2>1 DEF GroupRows
    <3>2. t.job.kind = "cancel"
      BY <3>1, HitFacts
    <3> QED
      BY <1>1, <1>2, <3>1, <3>2 DEF CancelOK
  <2>2. CASE g \notin Ids(t.w)
    BY <1>1, <1>2, <2>2
  <2> QED
    BY <2>1, <2>2
<1>4. ASSUME NEW x \in EventRows(t.w)
      PROVE  t.w[x].group # g /\ (x \in Ids(R) => R[x].group # g)
  <2>1. t.job.kind # "cancel"
    BY <1>4 DEF CancelOK
  <2> QED
    BY <1>4, <2>1, HitFacts
<1>5. ASSUME NEW x \in EventRows(R), R[x].group = g PROVE x \in EventRows(v) /\ v[x] = R[x]
  <2>1. x \notin Ids(t.w)
    <3>1. x \in Ids(t.w) => x \in EventRows(t.w)
      BY <1>1, <1>5 DEF EventRows
    <3> QED
      BY <1>4, <1>5, <3>1 DEF EventRows
  <2> QED
    BY <1>1, <1>5, <2>1 DEF EventRows
<1>6. ASSUME NEW x \in EventRows(v), v[x].group = g PROVE x \in EventRows(R) /\ v[x] = R[x]
  <2>1. x \notin Ids(t.w)
    <3>1. x \in Ids(t.w) => x \in EventRows(t.w) /\ t.w[x] = v[x]
      BY <1>1, <1>6 DEF EventRows
    <3> QED
      BY <1>4, <1>6, <3>1
  <2> QED
    BY <1>1, <1>6, <2>1 DEF EventRows
<1>7. \A x \in EventRows(R) : R[x].group = g => x \in EventRows(v) /\ v[x] = R[x]
  BY <1>5
<1>8. \A x \in EventRows(v) : v[x].group = g => x \in EventRows(R) /\ v[x] = R[x]
  BY <1>6
<1>9. Spanned(v, g) <=> Spanned(R, g)
  BY <1>3, <1>7, <1>8, SameWindow
<1> QED
  BY <1>2, <1>3, <1>9 DEF Live, Ids

\* A clone's events are those that the move has put there.
LEMMA CloneSeen ==
    ASSUME NEW r, NEW R, NEW t, NEW v, NEW c, IsTable(R, GroupRows(R)), WritesOK(r, R, t),
           v = Seen(R, t), c \in Clones(R, t)
    PROVE  /\ EventsOf(v, c) \subseteq EventRows(t.w)
           /\ \A e \in EventsOf(v, c) : t.w[e].group = c
           /\ Spanned(t.w, c) => Spanned(v, c)
<1>1. /\ Ids(v) = Ids(t.w) \union Ids(R)
      /\ \A x \in Ids(t.w) : v[x] = t.w[x]
      /\ \A x \in Ids(R) : x \notin Ids(t.w) => v[x] = R[x]
  BY SeenFacts
<1>2. c \in Ids(t.w) /\ v[c] = t.w[c] /\ c \notin GroupRows(R)
  BY <1>1 DEF Clones, GroupRows
<1>3. ASSUME NEW x \in EventRows(v), v[x].group = c
      PROVE  x \in EventRows(t.w) /\ v[x] = t.w[x]
  <2>1. CASE x \in Ids(t.w)
    BY <1>1, <1>3, <2>1 DEF EventRows
  <2>2. CASE x \notin Ids(t.w)
    <3>1. x \in Ids(R) /\ R[x].kind = "event" /\ R[x].group = c
      BY <1>1, <1>3, <2>2 DEF EventRows
    <3>2. c \in GroupRows(R)
      BY <3>1 DEF IsTable, Shaped
    <3> QED
      BY <1>2, <3>2
  <2> QED
    BY <2>1, <2>2
<1>4. \A x \in EventRows(t.w) : t.w[x].group = c => x \in EventRows(v) /\ v[x] = t.w[x]
  BY <1>1 DEF EventRows
<1>5. \A x \in EventRows(v) : v[x].group = c => x \in EventRows(t.w) /\ v[x] = t.w[x]
  BY <1>3
<1>6. Spanned(v, c) <=> Spanned(t.w, c)
  BY <1>2, <1>4, <1>5, SameWindow
<1>7. \A e \in EventsOf(v, c) : e \in EventRows(v) /\ v[e].group = c
  BY EventsAre
<1> QED
  BY <1>5, <1>6, <1>7

\* A move gives the bookings it changes the right window, if nobody else has
\* changed them, nor the booking that it read.
LEMMA MoveWindows ==
    ASSUME NEW r, NEW R, NEW t, NEW v, NEW g, NEW hit, IsTable(R, GroupRows(R)),
           WritesOK(r, R, t), ClonesOK(r, R, t), ReadOK(R, t), SyncOK(R, t), MoveOK(R, t),
           t.job.kind = "move", t.stage = "commit", v = Seen(R, t),
           hit = t.touched \intersect Hit(R, t),
           g \in Hit(R, t), g \notin hit,
           \A x \in EventRows(t.w) : x \in Ids(R) /\ R[x].group \in hit => t.w[x].group # g
    PROVE  Spanned(v, g)
<1>1. CASE g \in Clones(R, t)
  <2>1. CASE Alone(t)
    BY <1>1, <2>1, CloneSeen DEF MoveOK
  <2>2. CASE ~Alone(t)
    <3>1. ASSUME NEW e \in EventsOf(v, g) PROVE FALSE
      <4>1. e \in EventRows(t.w) /\ t.w[e].group = g
        BY <1>1, <3>1, CloneSeen
      <4>2. e \in Ids(R) /\ R[e].group \in t.touched
        BY <2>2, <4>1 DEF MoveOK, Around, Alone
      <4>3. R[e].group \in Hit(R, t)
        BY <4>1, <4>2, HitFacts
      <4> QED
        BY <4>1, <4>2, <4>3
    <3> QED
      BY <3>1 DEF Spanned
  <2> QED
    BY <2>1, <2>2
<1>2. CASE g \notin Clones(R, t)
  <2>1. g = t.read.group \/ g \in t.touched
    <3>1. CASE g \in GroupRows(t.w)
      BY <1>2, <3>1 DEF MoveOK
    <3>2. ASSUME NEW e \in EventRows(t.w), g = t.w[e].group PROVE g \in Around(t)
      <4>1. /\ e \in Ids(R) /\ R[e].group \in Around(t)
            /\ t.job.many => t.w[e].group \in Clones(R, t)
            /\ ~t.job.many => t.w[e].group = R[e].group
        BY <3>2 DEF MoveOK
      <4> QED
        BY <1>2, <3>2, <4>1
    <3>3. ASSUME NEW e \in EventRows(t.w), e \in Ids(R), g = R[e].group PROVE g \in Around(t)
      BY <3>3 DEF MoveOK
    <3> QED
      BY <3>1, <3>2, <3>3, HitFacts DEF Around
  <2>2. g = t.read.group /\ Alone(t)
    BY <2>1 DEF Alone
  <2> QED
    BY <2>2 DEF SyncOK
<1> QED
  BY <1>1, <1>2

\* So does an edit of the booking that it is about.
LEMMA EditWindows ==
    ASSUME NEW r, NEW R, NEW t, NEW v, NEW g, SyncOK(R, t), EditOK(R, t),
           t.job.kind = "edit", t.stage = "commit", v = Seen(R, t),
           g \in Hit(R, t), g \notin t.touched \intersect Hit(R, t),
           g \notin {R[e].group : e \in EventRows(t.w) \intersect Ids(R)} \ {t.job.group}
    PROVE  Spanned(v, g)
<1>1. g = t.read.group
  <2>1. CASE g \in GroupRows(t.w)
    BY <2>1 DEF EditOK
  <2>2. ASSUME NEW e \in EventRows(t.w), e \in Ids(R), g = R[e].group PROVE g = t.read.group
    BY <2>2 DEF EditOK
  <2>3. ASSUME NEW e \in EventRows(t.w), g = t.w[e].group PROVE g = t.read.group
    BY <2>2, <2>3 DEF EditOK
  <2> QED
    BY <2>1, <2>2, <2>3, HitFacts
<1>2. Alone(t)
  BY <1>1 DEF Alone
<1> QED
  BY <1>1, <1>2 DEF SyncOK

LEMMA CommitWindows ==
    ASSUME EditsInv, NEW r \in Requests, Edits!Commit(r)
    PROVE  WindowsFollowEvents'
<1> DEFINE t == Tx(r)
           v == Seen(rows, t)
<1>1. /\ t.job.kind \in {"move", "edit", "delete", "cancel"} /\ t.stage = "commit"
      /\ WritesOK(r, rows, t) /\ ClonesOK(r, rows, t) /\ ReadOK(rows, t)
      /\ SyncOK(rows, t)
      /\ t.job.kind = "move" => MoveOK(rows, t)
      /\ t.job.kind = "edit" => EditOK(rows, t)
      /\ t.job.kind = "cancel" => CancelOK(rows, t)
      /\ IsTable(rows, GroupRows(rows)) /\ rows' = v
  BY CommitFacts
<1>2. PICK hit : hit = t.touched \intersect Hit(rows, t)
  OBVIOUS
<1>3. spoilt' = (spoilt \ Edits!Changed(r)) \union Edits!Raced(r) \union Edits!Unsynced(r)
  BY DEF Edits!Commit
<1>4. ASSUME NEW g \in Live(v, "group"), g \notin spoilt' PROVE Spanned(v, g)
  <2>1. CASE g \notin Hit(rows, t)
    <3>1. g \notin spoilt
      BY <1>3, <1>4, <2>1, ChangedIs
    <3>2. g \in Live(rows, "group") /\ (Spanned(rows, g) => Spanned(v, g))
      BY <1>1, <1>4, <2>1, Untouched
    <3> QED
      BY <3>1, <3>2 DEF EditsInv, WindowsFollowEvents
  <2>2. CASE g \in Hit(rows, t)
    <3>1. /\ g \notin hit
          /\ \A x \in EventRows(t.w) : x \in Ids(rows) /\ rows[x].group \in hit => t.w[x].group # g
      <4>1. g \notin hit \union {t.w[e].group :
               e \in {x \in EventRows(t.w) : x \in Ids(rows) /\ rows[x].group \in hit}}
        BY <1>2, <1>3, <1>4, ChangedIs
      <4> QED
        BY <4>1
    <3>2. g \notin Edits!Unsynced(r)
      BY <1>3, <1>4
    <3>3. CASE t.job.kind = "move"
      BY <1>1, <1>2, <2>2, <3>1, <3>3, MoveWindows
    <3>4. CASE t.job.kind = "edit"
      <4>1. g \notin {rows[e].group : e \in EventRows(t.w) \intersect Ids(rows)} \ {t.job.group}
        BY <3>2, <3>4, ChangedIs
      <4> QED
        BY <1>1, <1>2, <2>2, <3>1, <3>4, <4>1, EditWindows
    <3>5. CASE t.job.kind = "delete"
      BY <2>2, <3>2, <3>5, ChangedIs
    <3>6. t.job.kind # "cancel"
      BY <2>2 DEF Hit
    <3> QED
      BY <1>1, <3>3, <3>4, <3>5, <3>6
  <2> QED
    BY <2>1, <2>2
<1> QED
  BY <1>1, <1>4 DEF WindowsFollowEvents

LEMMA CommitKeeps ==
    ASSUME EditsInv, IdsAreNew, NEW r \in Requests, Edits!Commit(r)
    PROVE  EditsInv'
<1> DEFINE t == Tx(r)
           t2 == Tx(r)'
           C == Hit(rows, t)
<1>1. /\ t.job.kind \in {"move", "edit", "delete", "cancel"} /\ ReadShape(t)
      /\ WritesOK(r, rows, t)
      /\ t.job.kind = "cancel" => CancelOK(rows, t)
      /\ IsTable(rows, GroupRows(rows)) /\ rows' = Edits!Over(t.w, rows)
      /\ rows' = Seen(rows, t) /\ t.w = writes[r] /\ t.read = read[r]
  BY CommitFacts
<1>2. Published(r, t.w, C)
  <2>1. IsTable(Edits!Over(t.w, rows), GroupRows(Edits!Over(t.w, rows)))
    <3>1. IsTable(Seen(rows, t), GroupRows(Seen(rows, t)))
      BY <1>1, SeenFacts
    <3> QED
      BY <3>1 DEF Seen
  <2>2. Named(r, rows, t.w)
    BY <1>1 DEF WritesOK
  <2>3. \A s \in Requests : s # r => Ids(t.w) \intersect Ids(writes[s]) = {}
    BY <1>1 DEF EditsInv, LocksInv
  <2>4. \A x \in EventRows(t.w) : t.w[x].group \in C /\ (x \in Ids(rows) => rows[x].group \in C)
    <3>1. CASE t.job.kind = "cancel"
      BY <1>1, <3>1 DEF CancelOK
    <3>2. CASE t.job.kind # "cancel"
      BY <3>2, HitFacts
    <3> QED
      BY <3>1, <3>2
  <2>5. ASSUME NEW x \in GroupRows(t.w), x \in Ids(rows)
        PROVE  x \in C \/ (t.w[x].start = rows[x].start /\ t.w[x].end = rows[x].end)
    <3>1. CASE t.job.kind = "cancel"
      BY <1>1, <2>5, <3>1 DEF CancelOK
    <3>2. CASE t.job.kind # "cancel"
      BY <2>5, <3>2, HitFacts
    <3> QED
      BY <3>1, <3>2
  <2>6. PICK W, D : W = t.w /\ D = C
    OBVIOUS
  <2>7. \A x \in GroupRows(W) : x \in Ids(rows) =>
          x \in D \/ (W[x].start = rows[x].start /\ W[x].end = rows[x].end)
    BY <2>5, <2>6
  <2>8. Published(r, W, D)
    BY <2>1, <2>2, <2>3, <2>4, <2>6, <2>7 DEF Published
  <2> QED
    BY <2>6, <2>8
<1>3. Ended(r, C)
  <2>1. /\ FunsInv /\ job' = job /\ read' = read /\ plan' = plan /\ known' = known
        /\ writes' = [writes EXCEPT ![r] = << >>]
        /\ stage' = [stage EXCEPT ![r] = "done"]
    BY Now DEF Edits!Commit, Edits!Goto
  <2>2. touched' = [s \in Requests |->
                      IF s # r /\ Begun(Tx(s)) THEN touched[s] \union C ELSE touched[s]]
    <3>1. Edits!Changed(r) = C
      BY ChangedIs
    <3>2. \A s \in Requests : Edits!InFlight(s) <=> Begun(Tx(s))
      BY DEF Edits!InFlight, Edits!Answered, Begun, Tx
    <3>3. touched' = [s \in Requests |->
                        IF s # r /\ Edits!InFlight(s) THEN touched[s] \union Edits!Changed(r)
                                                      ELSE touched[s]]
      BY DEF Edits!Commit
    <3> QED
      BY <3>1, <3>2, <3>3
  <2>3. FunsInv'
    BY <2>1, <2>2 DEF FunsInv
  <2>4. stage'[r] = "done" /\ writes'[r] = << >>
    BY <2>1 DEF FunsInv
  <2>5. ReadShape(t2) /\ t2.w = << >>
    BY <1>1, <2>1, <2>4, Now DEF ReadShape
  <2>6. ASSUME NEW s \in Requests, s # r PROVE SameTx(Tx(s), Tx(s)', C)
    <3>1. /\ writes'[s] = writes[s] /\ stage'[s] = stage[s] /\ job'[s] = job[s]
          /\ read'[s] = read[s] /\ plan'[s] = plan[s] /\ known'[s] = known[s]
      BY <2>1, <2>6 DEF FunsInv
    <3>2. Begun(Tx(s)) => touched'[s] = touched[s] \union C
      BY <2>2, <2>6
    <3> QED
      BY <3>1, <3>2, Now DEF SameTx
  <2> QED
    BY <2>3, <2>4, <2>5, <2>6 DEF Ended
<1>4. WindowsFollowEvents'
  BY CommitWindows
<1> QED
  BY <1>1, <1>2, <1>3, <1>4, CommitStep

\* EditsInv is inductive.
LEMMA InitInv == Edits!EditsAssumption /\ IdsAreNew /\ Edits!Init => EditsInv
<1> SUFFICES ASSUME Edits!EditsAssumption, IdsAreNew, Edits!Init PROVE EditsInv
  OBVIOUS
<1>1. PICK s \in Scenes : rows = s.rows /\ job = s.jobs
  BY DEF Edits!Init
<1>2. /\ writes = [r \in Requests |-> << >>] /\ stage = [r \in Requests |-> "start"]
      /\ read = [r \in Requests |-> Edits!NothingRead]
      /\ plan = [r \in Requests |-> << >>] /\ known = [r \in Requests |-> << >>]
      /\ touched = [r \in Requests |-> {}] /\ spoilt = {}
  BY DEF Edits!Init
<1>3. /\ EventIds \union GroupIds \subseteq Ids(rows) /\ IsFiniteSet(Ids(rows))
      /\ rows \in [Ids(rows) -> Edits!Row(GroupIds)]
      /\ \A e \in EventIds : rows[e].kind = "event"
      /\ \A g \in GroupIds : rows[g].kind = "group"
      /\ \A g \in Edits!Live(rows, "group") : Edits!Spanned(rows, g)
      /\ job \in [Requests -> Edits!Job]
      /\ \A r \in Requests : job[r].kind = "edit" => job[r].services # << >>
  BY <1>1 DEF Edits!EditsAssumption, Ids, Edits!IsFiniteSet, IsFiniteSet
<1>4. FunsInv
  BY <1>2, <1>3 DEF FunsInv
<1>5. TableInv
  <2>1. EventIds \subseteq EventRows(rows) /\ GroupIds \subseteq GroupRows(rows)
    BY <1>3 DEF EventRows, GroupRows
  <2>2. IsFun(rows)
    BY <1>3 DEF IsFun, Ids
  <2>3. ASSUME NEW x \in Ids(rows) PROVE Shaped(rows[x], GroupRows(rows))
    <3>1. PICK row : row = rows[x]
      OBVIOUS
    <3>2. row \in Edits!Row(GroupIds)
      BY <1>3, <2>3, <3>1
    <3>3. CASE row \in [kind : {"group"}, start : Nat, end : Nat, cancelled : BOOLEAN,
                        life : Edits!Life]
      BY <3>1, <3>3 DEF Shaped, Fields
    <3>4. CASE row \in [kind : {"event"}, group : GroupIds, start : Nat, end : Nat,
                        life : Edits!Life]
      BY <2>1, <3>1, <3>4 DEF Shaped, Fields
    <3>5. CASE row \in [kind : {"seat"}, group : GroupIds, client : Clients,
                        active : BOOLEAN, life : Edits!Life]
      BY <2>1, <3>1, <3>5 DEF Shaped, Fields
    <3> QED
      BY <3>2, <3>3, <3>4, <3>5 DEF Edits!Row
  <2>4. IsFiniteSet(EventRows(rows))
    <3>1. EventRows(rows) \subseteq Ids(rows)
      BY DEF EventRows
    <3> QED
      BY <1>3, <3>1, FS_Subset
  <2> QED
    BY <2>1, <2>2, <2>3, <2>4 DEF TableInv, IsTable
<1>6. IdsInv
  BY <1>1 DEF IdsInv, IdsAreNew
<1>7. LocksInv
  BY <1>2, NoRows DEF LocksInv
<1>8. WindowsFollowEvents
  BY <1>3, SameNotions DEF WindowsFollowEvents
<1>9. ASSUME NEW r \in Requests PROVE TxOK(r, rows, Tx(r))
  <2>1. /\ Tx(r).w = << >> /\ Tx(r).stage = "start" /\ Tx(r).read = Edits!NothingRead
    BY <1>2 DEF Tx
  <2>2. ReadShape(Tx(r))
    BY <2>1 DEF ReadShape, Fields, Edits!NothingRead
  <2> QED
    BY <2>1, <2>2 DEF TxOK, Begun
<1> QED
  BY <1>4, <1>5, <1>6, <1>7, <1>8, <1>9 DEF EditsInv

LEMMA StepInv == EditsInv /\ IdsAreNew /\ [Edits!Next]_(Edits!vars) => EditsInv'
<1> SUFFICES ASSUME EditsInv, IdsAreNew, [Edits!Next]_(Edits!vars) PROVE EditsInv'
  OBVIOUS
<1>1. CASE UNCHANGED Edits!vars
  <2>1. UNCHANGED <<rows, writes, job, stage, read, plan, known, touched, spoilt>>
    BY <1>1 DEF Edits!vars
  <2>2. \A r \in Requests : Tx(r)' = Tx(r)
    BY <2>1 DEF Tx
  <2>3. FunsInv' /\ TableInv' /\ IdsInv' /\ LocksInv' /\ WindowsFollowEvents'
    BY <2>1 DEF EditsInv, FunsInv, TableInv, IdsInv, LocksInv, WindowsFollowEvents
  <2>4. \A r \in Requests : TxOK(r, rows', Tx(r)')
    BY <2>1, <2>2 DEF EditsInv
  <2> QED
    BY <2>3, <2>4 DEF EditsInv
<1>2. ASSUME NEW r \in Requests, Edits!Step(r) PROVE EditsInv'
  <2>1. CASE Edits!LoadEvent(r) \/ Edits!LoadGroup(r) \/ Edits!MoveEvent(r)
             \/ Edits!Remain(r) \/ Edits!Bound(r) \/ Edits!Split(r)
    BY <2>1, LoadEventKeeps, LoadGroupKeeps, MoveEventKeeps, RemainKeeps, BoundKeeps, SplitKeeps
  <2>2. CASE Edits!SyncRead(r) \/ Edits!SyncWrite(r)
    BY <2>2, SyncReadKeeps, SyncWriteKeeps
  <2>3. CASE Edits!OpenGroup(r) \/ Edits!ListObsolete(r) \/ Edits!DateObsolete(r)
             \/ Edits!UpsertService(r) \/ Edits!ReplaceSeats(r)
    BY <2>3, OpenGroupKeeps, ListObsoleteKeeps, DateObsoleteKeeps, UpsertServiceKeeps,
       ReplaceSeatsKeeps
  <2>4. CASE Edits!DeleteLook(r) \/ Edits!DropEvent(r) \/ Edits!FindSeats(r)
             \/ Edits!DropSeats(r) \/ Edits!DropGroup(r)
    BY <2>4, DeleteLookKeeps, DropEventKeeps, FindSeatsKeeps, DropSeatsKeeps, DropGroupKeeps
  <2>5. CASE Edits!FindEvent(r) \/ Edits!Join(r) \/ Edits!CancelRead(r)
             \/ Edits!CancelSeat(r) \/ Edits!CancelGroup(r)
    BY <2>5, FindEventKeeps, JoinKeeps, CancelReadKeeps, CancelSeatKeeps, CancelGroupKeeps
  <2>6. CASE Edits!Commit(r) \/ Edits!Abort(r)
    BY <2>6, CommitKeeps, AbortKeeps
  <2> QED
    BY <1>2, <2>1, <2>2, <2>3, <2>4, <2>5, <2>6 DEF Edits!Step
<1> QED
  BY <1>1, <1>2 DEF Edits!Next

\* The window of a booking is the span of its events: every edit of the platform
\* mends it, whatever other transactions commit between its statements, unless
\* they changed that booking too.
THEOREM WindowsFollow ==
    Edits!EditsAssumption /\ IdsAreNew => (Edits!Spec => []WindowsFollowEvents)
<1> SUFFICES ASSUME Edits!EditsAssumption, IdsAreNew
             PROVE  Edits!Spec => []WindowsFollowEvents
  OBVIOUS
<1>1. Edits!Init => EditsInv
  BY InitInv
<1>2. EditsInv /\ [Edits!Next]_(Edits!vars) => EditsInv'
  BY StepInv
<1>3. EditsInv => WindowsFollowEvents
  BY DEF EditsInv
<1> QED
  BY <1>1, <1>2, <1>3, PTL DEF Edits!Spec

-----------------------------------------------------------------------------
\* Who attends after a move

\* The clients of the active seats of a booking
LEMMA AttendingIs ==
    ASSUME NEW v, NEW e
    PROVE  Attending(v, e) =
             IF v[v[e].group].cancelled THEN {}
             ELSE {v[x].client : x \in {y \in SeatRows(v) : /\ v[y].group = v[e].group
                                                            /\ v[y].life = "live"
                                                            /\ v[y].active}}
<1>1. {y \in SeatsOf(v, v[e].group) : v[y].active}
        = {y \in SeatRows(v) : /\ v[y].group = v[e].group /\ v[y].life = "live"
                               /\ v[y].active}
  BY DEF SeatsOf, Live, SeatRows, Ids
<1> QED
  BY <1>1 DEF Attending

\* The same seats of a booking, the same clients
LEMMA SameSeats ==
    ASSUME NEW v, NEW R, NEW e, v[e].group = R[e].group,
           v[R[e].group].cancelled = R[R[e].group].cancelled,
           \A x \in SeatRows(R) : R[x].group = R[e].group => x \in SeatRows(v) /\ v[x] = R[x],
           \A x \in SeatRows(v) : v[x].group = R[e].group => x \in SeatRows(R) /\ v[x] = R[x]
    PROVE  Attending(v, e) = Attending(R, e)
<1> DEFINE Active(w) == {y \in SeatRows(w) : /\ w[y].group = R[e].group
                                             /\ w[y].life = "live" /\ w[y].active}
<1>1. Active(v) = Active(R) /\ \A x \in Active(R) : v[x] = R[x]
  OBVIOUS
<1>2. {v[x].client : x \in Active(v)} = {R[x].client : x \in Active(R)}
  BY <1>1
<1>3. /\ Attending(v, e) = IF v[R[e].group].cancelled THEN {} ELSE {v[x].client : x \in Active(v)}
      /\ Attending(R, e) = IF R[R[e].group].cancelled THEN {} ELSE {R[x].client : x \in Active(R)}
  BY AttendingIs
<1> QED
  BY <1>2, <1>3

\* In a clone there are the clients who were in the booking when it was read.
LEMMA CloneAttended ==
    ASSUME NEW r, NEW R, NEW t, NEW v, NEW e, IsTable(R, GroupRows(R)), WritesOK(r, R, t),
           v = Seen(R, t), SeatsOK(R, t), ClonesAre(R, t, t.read),
           v[e].group \in Clones(R, t)
    PROVE  Attending(v, e) = Attended(t)
<1>1. PICK c, seats : c = v[e].group /\ seats = t.read.seats
  OBVIOUS
<1>2. /\ Ids(v) = Ids(t.w) \union Ids(R)
      /\ \A x \in Ids(t.w) : v[x] = t.w[x]
      /\ \A x \in Ids(R) : x \notin Ids(t.w) => v[x] = R[x]
  BY SeenFacts
<1>3. c \in Ids(t.w) /\ c \notin Ids(R)
  BY <1>1 DEF Clones, GroupRows
<1>4. /\ t.w[c].cancelled = t.read.cancelled
      /\ {x \in SeatRows(t.w) : t.w[x].group = c} = {<<c, y>> : y \in Ids(seats)}
      /\ \A y \in Ids(seats) : t.w[<<c, y>>] = [seats[y] EXCEPT !.group = c]
  BY <1>1 DEF ClonesAre
<1>5. ASSUME NEW y \in Ids(seats)
      PROVE  /\ t.w[<<c, y>>].life = "live" /\ t.w[<<c, y>>].client = seats[y].client
             /\ t.w[<<c, y>>].active = seats[y].active
  <2>1. /\ seats[y].kind = "seat" /\ seats[y].life = "live"
        /\ Shaped(seats[y], GroupRows(R))
    BY <1>1, <1>5 DEF SeatsOK, LiveSeats
  <2>2. PICK row, new : row = seats[y] /\ new = [row EXCEPT !.group = c]
    OBVIOUS
  <2>3. new.kind = row.kind /\ new.life = row.life
        /\ (new.kind = "seat" => new.client = row.client /\ new.active = row.active)
    BY <2>1, <2>2, Regrouped
  <2> QED
    BY <1>4, <1>5, <2>1, <2>2, <2>3
<1>6. {x \in SeatRows(v) : v[x].group = c} = {<<c, y>> : y \in Ids(seats)}
  <2>1. ASSUME NEW x \in SeatRows(v), v[x].group = c PROVE x \in SeatRows(t.w)
    <3>1. CASE x \in Ids(t.w)
      BY <1>2, <2>1, <3>1 DEF SeatRows
    <3>2. CASE x \notin Ids(t.w)
      <4>1. x \in Ids(R) /\ R[x].kind = "seat" /\ R[x].group = c
        BY <1>2, <2>1, <3>2 DEF SeatRows
      <4>2. c \in GroupRows(R)
        BY <4>1 DEF IsTable, Shaped
      <4> QED
        BY <1>3, <4>2 DEF GroupRows
    <3> QED
      BY <3>1, <3>2
  <2>2. \A x \in SeatRows(t.w) : x \in SeatRows(v) /\ v[x] = t.w[x]
    BY <1>2 DEF SeatRows
  <2>3. {x \in SeatRows(v) : v[x].group = c} = {x \in SeatRows(t.w) : t.w[x].group = c}
    BY <2>1, <2>2
  <2> QED
    BY <1>4, <2>3
<1>7. ASSUME NEW y \in Ids(seats)
      PROVE  /\ <<c, y>> \in SeatRows(v) /\ v[<<c, y>>].group = c
             /\ v[<<c, y>>].life = "live" /\ v[<<c, y>>].client = seats[y].client
             /\ v[<<c, y>>].active = seats[y].active
  <2>1. <<c, y>> \in {x \in SeatRows(t.w) : t.w[x].group = c}
    BY <1>4, <1>7
  <2>2. <<c, y>> \in Ids(t.w)
    BY <2>1 DEF SeatRows
  <2>3. <<c, y>> \in {x \in SeatRows(v) : v[x].group = c}
    BY <1>6, <1>7
  <2> QED
    BY <1>2, <1>5, <1>7, <2>2, <2>3
<1>8. {v[x].client : x \in {y \in SeatRows(v) : v[y].group = c /\ v[y].life = "live" /\ v[y].active}}
        = {seats[y].client : y \in {z \in Ids(seats) : seats[z].active}}
  <2> DEFINE Active == {y \in SeatRows(v) : v[y].group = c /\ v[y].life = "live" /\ v[y].active}
             Read == {z \in Ids(seats) : seats[z].active}
  <2>1. ASSUME NEW x \in Active PROVE \E y \in Read : v[x].client = seats[y].client
    <3>1. PICK y \in Ids(seats) : x = <<c, y>>
      BY <1>6, <2>1
    <3> QED
      BY <1>7, <2>1, <3>1
  <2>2. ASSUME NEW y \in Read PROVE <<c, y>> \in Active /\ v[<<c, y>>].client = seats[y].client
    BY <1>7, <2>2
  <2>3. PICK A, B : A = Active /\ B = Read
    OBVIOUS
  <2>4. /\ \A x \in A : \E y \in B : v[x].client = seats[y].client
        /\ \A y \in B : \E x \in A : v[x].client = seats[y].client
    BY <2>1, <2>2, <2>3
  <2>5. {v[x].client : x \in A} = {seats[y].client : y \in B}
    BY <2>4
  <2> QED
    BY <2>3, <2>5
<1>9. v[c].cancelled = t.read.cancelled
  BY <1>2, <1>3, <1>4
<1>10. Attending(v, e) =
         IF v[c].cancelled THEN {}
         ELSE {v[x].client : x \in {y \in SeatRows(v) : /\ v[y].group = c
                                                       /\ v[y].life = "live" /\ v[y].active}}
  BY <1>1, AttendingIs
<1>11. Attended(t) = IF t.read.cancelled THEN {}
                     ELSE {seats[y].client : y \in {z \in Ids(seats) : seats[z].active}}
  BY <1>1 DEF Attended
<1> QED
  BY <1>8, <1>9, <1>10, <1>11

\* A move that commits changes nobody's attendance, as far as it knew it.
LEMMA MoveAttended ==
    ASSUME NEW r, NEW R, NEW t, NEW v, NEW e \in Live(R, "event"), IsTable(R, GroupRows(R)),
           WritesOK(r, R, t), t.job.kind = "move", MoveOK(R, t), SeatsOK(R, t),
           KnownOK(R, t), v = Seen(R, t),
           e \in Ids(t.known), t.known[e] = Attending(R, e)
    PROVE  Attending(v, e) = Attending(R, e)
<1>1. /\ Ids(v) = Ids(t.w) \union Ids(R)
      /\ \A x \in Ids(t.w) : v[x] = t.w[x]
      /\ \A x \in Ids(R) : x \notin Ids(t.w) => v[x] = R[x]
      /\ \A x \in Ids(R) : v[x].kind = R[x].kind
  BY SeenFacts
<1>2. e \in Ids(R) /\ R[e].kind = "event" /\ R[e].group \in GroupRows(R)
  <2>1. e \in Ids(R) /\ R[e].kind = "event"
    BY DEF Live, Ids
  <2> QED
    BY <2>1 DEF IsTable, Shaped
<1>3. e \in Ids(t.w) => e \in EventRows(t.w)
  BY <1>1, <1>2 DEF EventRows
<1>4. CASE e \in Ids(t.w) /\ t.job.many
  <2>1. v[e].group \in Clones(R, t)
    BY <1>1, <1>3, <1>4 DEF MoveOK
  <2>2. Attending(v, e) = Attended(t)
    BY <2>1, CloneAttended DEF KnownOK
  <2> QED
    BY <2>2 DEF KnownOK
<1>5. CASE ~(e \in Ids(t.w) /\ t.job.many)
  <2>1. PICK g : g = R[e].group
    OBVIOUS
  <2>2. v[e].group = g
    <3>1. CASE e \in Ids(t.w)
      BY <1>1, <1>3, <1>5, <2>1, <3>1 DEF MoveOK
    <3>2. CASE e \notin Ids(t.w)
      BY <1>1, <1>2, <2>1, <3>2
    <3> QED
      BY <3>1, <3>2
  <2>3. g \in Ids(R) /\ R[g].kind = "group"
    BY <1>2, <2>1 DEF GroupRows
  <2>4. v[g].cancelled = R[g].cancelled
    <3>1. CASE g \in Ids(t.w)
      <4>1. g \in GroupRows(t.w) \ Clones(R, t)
        BY <1>1, <2>3, <3>1 DEF GroupRows, Clones
      <4> QED
        BY <1>1, <3>1, <4>1 DEF MoveOK
    <3>2. CASE g \notin Ids(t.w)
      BY <1>1, <2>3, <3>2
    <3> QED
      BY <3>1, <3>2
  <2>5. \A x \in SeatRows(t.w) : x \notin Ids(R) /\ t.w[x].group # g
    BY <2>3 DEF MoveOK, Clones
  <2>6. ASSUME NEW x \in SeatRows(R), R[x].group = g PROVE x \in SeatRows(v) /\ v[x] = R[x]
    <3>1. x \in Ids(R) /\ R[x].kind = "seat"
      BY <2>6 DEF SeatRows
    <3>2. x \notin Ids(t.w)
      BY <1>1, <2>5, <3>1 DEF SeatRows
    <3> QED
      BY <1>1, <3>1, <3>2 DEF SeatRows
  <2>7. ASSUME NEW x \in SeatRows(v), v[x].group = g PROVE x \in SeatRows(R) /\ v[x] = R[x]
    <3>1. x \in Ids(v) /\ v[x].kind = "seat"
      BY <2>7 DEF SeatRows
    <3>2. x \notin Ids(t.w)
      BY <1>1, <2>5, <2>7, <3>1 DEF SeatRows
    <3> QED
      BY <1>1, <3>1, <3>2 DEF SeatRows
  <2> QED
    BY <2>1, <2>2, <2>4, <2>6, <2>7, SameSeats
<1> QED
  BY <1>4, <1>5

\* A request that has reached its COMMIT ends by that or by an error.
LEMMA OnlyCommit ==
    ASSUME EditsInv, NEW r \in Requests, NEW q \in Requests, Edits!Step(q),
           stage[r] = "commit", stage'[r] = "done"
    PROVE  Edits!Commit(r)
<1>1. stage = [s \in Requests |-> stage[s]]
  BY DEF EditsInv, FunsInv
<1>2. PICK label : stage' = [stage EXCEPT ![q] = label]
  <2>1. \A new, label : Edits!Write(q, new, label) => stage' = [stage EXCEPT ![q] = label]
    BY DEF Edits!Write, Edits!Goto
  <2>2. Edits!Throw(q) => stage' = [stage EXCEPT ![q] = "error"]
    BY DEF Edits!Throw, Edits!Goto
  <2>3. \A label : Edits!Goto(q, label) => stage' = [stage EXCEPT ![q] = label]
    BY DEF Edits!Goto
  <2>4. CASE Edits!LoadEvent(q) \/ Edits!LoadGroup(q) \/ Edits!MoveEvent(q)
             \/ Edits!Remain(q) \/ Edits!Bound(q) \/ Edits!Split(q)
    BY <2>1, <2>2, <2>3, <2>4
    DEF Edits!LoadEvent, Edits!LoadGroup, Edits!MoveEvent, Edits!Remain, Edits!Bound,
        Edits!Split
  <2>5. CASE Edits!SyncRead(q) \/ Edits!SyncWrite(q) \/ Edits!OpenGroup(q)
             \/ Edits!ListObsolete(q) \/ Edits!DateObsolete(q)
             \/ Edits!UpsertService(q) \/ Edits!ReplaceSeats(q)
    BY <2>1, <2>2, <2>3, <2>5
    DEF Edits!SyncRead, Edits!SyncWrite, Edits!OpenGroup, Edits!ListObsolete,
        Edits!DateObsolete, Edits!UpsertService, Edits!ReplaceSeats
  <2>6. CASE Edits!DeleteLook(q) \/ Edits!DropEvent(q) \/ Edits!FindSeats(q)
             \/ Edits!DropSeats(q) \/ Edits!DropGroup(q)
    BY <2>1, <2>2, <2>3, <2>6
    DEF Edits!DeleteLook, Edits!DropEvent, Edits!FindSeats, Edits!DropSeats,
        Edits!DropGroup
  <2>7. CASE Edits!FindEvent(q) \/ Edits!Join(q) \/ Edits!CancelRead(q)
             \/ Edits!CancelSeat(q) \/ Edits!CancelGroup(q)
    BY <2>1, <2>2, <2>3, <2>7
    DEF Edits!FindEvent, Edits!Join, Edits!CancelRead, Edits!CancelSeat,
        Edits!CancelGroup
  <2>8. CASE Edits!Commit(q) \/ Edits!Abort(q)
    BY <2>2, <2>3, <2>8 DEF Edits!Commit, Edits!Abort
  <2> QED
    BY <2>4, <2>5, <2>6, <2>7, <2>8 DEF Edits!Step
<1>3. q = r
  BY <1>1, <1>2
<1>4. Edits!Commit(r) \/ Edits!Abort(r)
  <2>1. stage[q] = "commit"
    BY <1>3
  <2> QED
    BY <1>3, <2>1
    DEF Edits!Step, Edits!LoadEvent, Edits!LoadGroup, Edits!MoveEvent, Edits!Remain,
        Edits!Bound, Edits!Split, Edits!SyncRead, Edits!SyncWrite, Edits!OpenGroup,
        Edits!ListObsolete, Edits!DateObsolete, Edits!UpsertService, Edits!ReplaceSeats,
        Edits!DeleteLook, Edits!DropEvent, Edits!FindSeats, Edits!DropSeats,
        Edits!DropGroup, Edits!FindEvent, Edits!Join, Edits!CancelRead,
        Edits!CancelSeat, Edits!CancelGroup
<1>5. ~Edits!Abort(r)
  <2>1. Edits!Abort(r) => stage' = [stage EXCEPT ![r] = "error"]
    BY DEF Edits!Abort, Edits!Throw, Edits!Goto
  <2>2. stage' = [stage EXCEPT ![r] = "error"] => stage'[r] = "error"
    BY <1>1
  <2> QED
    BY <2>1, <2>2
<1> QED
  BY <1>4, <1>5

\* Moving events apart changes nobody's attendance: whoever is known to attend an
\* event before the commit of a move attends it afterwards, and nobody else does,
\* whatever the transactions of others have written meanwhile.
THEOREM AttendanceFollows ==
    Edits!EditsAssumption /\ IdsAreNew => (Edits!Spec => AttendanceFollowsEvents)
<1> SUFFICES ASSUME Edits!EditsAssumption, IdsAreNew
             PROVE  Edits!Spec => AttendanceFollowsEvents
  OBVIOUS
<1> DEFINE Kept ==
      \A r \in DOMAIN job :
         job[r].kind = "move" /\ stage[r] = "commit" /\ stage'[r] = "done" =>
           \A e \in Live(rows, "event") :
             \/ Attending(rows', e) = Attending(rows, e)
             \/ e \notin DOMAIN known[r]
             \/ known[r][e] # Attending(rows, e)
<1>1. Edits!Init => EditsInv
  BY InitInv
<1>2. EditsInv /\ [Edits!Next]_(Edits!vars) => EditsInv'
  BY StepInv
<1>3. EditsInv /\ [Edits!Next]_(Edits!vars) => [Kept]_<<rows, job, stage, known>>
  <2> SUFFICES ASSUME EditsInv, [Edits!Next]_(Edits!vars)
               PROVE  [Kept]_<<rows, job, stage, known>>
    OBVIOUS
  <2>1. CASE UNCHANGED Edits!vars
    BY <2>1 DEF Edits!vars
  <2>2. ASSUME NEW q \in Requests, Edits!Step(q) PROVE Kept
    <3>1. SUFFICES ASSUME NEW r \in DOMAIN job, job[r].kind = "move", stage[r] = "commit",
                          stage'[r] = "done", NEW e \in Live(rows, "event"),
                          e \in DOMAIN known[r], known[r][e] = Attending(rows, e)
                   PROVE  Attending(rows', e) = Attending(rows, e)
      OBVIOUS
    <3>2. r \in Requests
      BY DEF EditsInv, FunsInv
    <3>3. Edits!Commit(r)
      BY <2>2, <3>1, <3>2, OnlyCommit
    <3>4. PICK t : t = Tx(r)
      OBVIOUS
    <3>5. /\ IsTable(rows, GroupRows(rows)) /\ WritesOK(r, rows, t) /\ t.job.kind = "move"
          /\ MoveOK(rows, t) /\ SeatsOK(rows, t) /\ KnownOK(rows, t)
          /\ rows' = Seen(rows, t) /\ t.known = known[r]
      BY <3>1, <3>2, <3>3, <3>4, CommitFacts
    <3>6. e \in Ids(t.known) /\ t.known[e] = Attending(rows, e)
      BY <3>1, <3>5 DEF Ids
    <3> QED
      BY <3>1, <3>5, <3>6, MoveAttended
  <2> QED
    BY <2>1, <2>2 DEF Edits!Next
<1> QED
  BY <1>1, <1>2, <1>3, PTL DEF Edits!Spec, AttendanceFollowsEvents
=============================================================================
