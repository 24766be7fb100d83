--------------------------- MODULE EventTrailProofs --------------------------
(***************************************************************************)
(* The properties of EventTrail, proved for any number of workers,         *)
(* requests, codes and events.  No event is lost or doubled between the    *)
(* exchange and the audit log but where the model says so.  The ways       *)
(* through the views have a form (Proper) which a request keeps as it goes *)
(* on; from it follow the truth and the completeness of the audit log, and *)
(* that a code which is stored waits to be announced.                      *)
(***************************************************************************)
EXTENDS EventTrail, TLAPS

\* The broker's and the consumer's part of the state is well typed.
BrokerTypeOK ==
    /\ bound \in BOOLEAN /\ running \in BOOLEAN
    /\ queue \in Seq(Payloads) /\ inbox \in Seq(Payloads)
    /\ eventRows \in Seq(RowTypes)
    /\ enqueued \in Nat /\ dropped \in Nat

BrokerInv == BrokerTypeOK /\ EventsAccountedFor

\* Handing the event at the head of one queue over to another moves it: the
\* two lengths keep their sum.
LEMMA HeadMoves ==
    ASSUME NEW S, NEW from \in Seq(S), NEW to \in Seq(S), from # <<>>
    PROVE  /\ Head(from) \in S
           /\ Tail(from) \in Seq(S) /\ Append(to, Head(from)) \in Seq(S)
           /\ Len(Tail(from)) = Len(from) - 1
           /\ Len(Append(to, Head(from))) = Len(to) + 1
  OBVIOUS

\* The empty sequence is a sequence of anything.
LEMMA EmptySequence ==
    ASSUME NEW S
    PROVE  <<>> \in Seq(S) /\ Len(<<>>) = 0
  OBVIOUS

\* Appending adds one element at the end.
LEMMA AppendGrows ==
    ASSUME NEW S, NEW to \in Seq(S), NEW e \in S
    PROVE  Append(to, e) \in Seq(S) /\ Len(Append(to, e)) = Len(to) + 1
  OBVIOUS

\* The lengths of the sequences are numbers.
LEMMA LengthsAreNat ==
    ASSUME BrokerTypeOK
    PROVE  Len(queue) \in Nat /\ Len(inbox) \in Nat /\ Len(eventRows) \in Nat
  BY DEF BrokerTypeOK

\* Publishing puts the event in the queue and counts it, or, before the queue
\* is bound, does neither.
LEMMA ExchangeKeeps ==
    ASSUME NEW type \in Payloads, BrokerInv, ToExchange(type)
    PROVE  BrokerInv'
<1>1. CASE bound
  <2>1. queue' = Append(queue, type) /\ enqueued' = enqueued + 1
    BY <1>1 DEF ToExchange
  <2>2. queue' \in Seq(Payloads) /\ Len(queue') = Len(queue) + 1
    BY <2>1, AppendGrows DEF BrokerInv, BrokerTypeOK
  <2>3. Len(queue) \in Nat /\ Len(inbox) \in Nat /\ Len(eventRows) \in Nat
    BY LengthsAreNat DEF BrokerInv
  <2> QED  BY <2>1, <2>2, <2>3 DEF ToExchange, BrokerInv, BrokerTypeOK, EventsAccountedFor
<1>2. CASE ~bound
  <2>1. UNCHANGED <<bound, queue, inbox, running, eventRows, enqueued, dropped>>
    BY <1>2 DEF ToExchange
  <2> QED  BY <2>1 DEF BrokerInv, BrokerTypeOK, EventsAccountedFor
<1> QED  BY <1>1, <1>2

\* What the consumer inserts is a row: a payload without a type gets one.
LEMMA EventTypeIsGiven ==
    ASSUME NEW type \in Payloads
    PROVE  EventType(type) \in RowTypes
  BY DEF EventType, Payloads, RowTypes

\* The accounting holds at the start and is kept by every step; only publish,
\* the events of other services and the consumer's own steps disturb it.
THEOREM BrokerInductive == TrailSpec => []BrokerInv
<1>1. TrailInit => BrokerInv
  <2> SUFFICES ASSUME TrailInit PROVE BrokerInv
    OBVIOUS
  <2>1. /\ bound = FALSE /\ running = FALSE /\ enqueued = 0 /\ dropped = 0
        /\ queue = <<>> /\ inbox = <<>> /\ eventRows = <<>>
    BY DEF TrailInit
  <2>2. BrokerTypeOK
    BY <2>1, EmptySequence DEF BrokerTypeOK
  <2>3. Len(queue) = 0 /\ Len(inbox) = 0 /\ Len(eventRows) = 0
    BY <2>1, EmptySequence
  <2>4. EventsAccountedFor
    BY <2>1, <2>3 DEF EventsAccountedFor
  <2> QED  BY <2>2, <2>4 DEF BrokerInv
<1>2. BrokerInv /\ [TrailNext]_trailVars => BrokerInv'
  <2> SUFFICES ASSUME BrokerInv, [TrailNext]_trailVars
               PROVE  BrokerInv'
    OBVIOUS
  <2> DEFINE Same == UNCHANGED <<bound, queue, inbox, running, eventRows, enqueued, dropped>>
  <2>1. ASSUME Same PROVE BrokerInv'
    BY <2>1 DEF BrokerInv, BrokerTypeOK, EventsAccountedFor
  <2>2. ASSUME NEW w \in Workers, PublishEvent(w) PROVE BrokerInv'
    BY <2>2, ExchangeKeeps DEF PublishEvent, Payloads
  <2>3. CASE ForeignAudit
    BY <2>3, ExchangeKeeps DEF ForeignAudit, Payloads
  <2>4. CASE ConsumerStarts
    BY <2>4 DEF ConsumerStarts, BrokerInv, BrokerTypeOK, EventsAccountedFor
  <2>5. Len(queue) \in Nat /\ Len(inbox) \in Nat /\ Len(eventRows) \in Nat
    BY LengthsAreNat DEF BrokerInv
  <2>6. CASE Deliver
    <3>1. /\ queue' \in Seq(Payloads) /\ inbox' \in Seq(Payloads)
          /\ Len(queue') = Len(queue) - 1 /\ Len(inbox') = Len(inbox) + 1
      BY <2>6, HeadMoves DEF Deliver, BrokerInv, BrokerTypeOK
    <3> QED  BY <2>5, <2>6, <3>1 DEF Deliver, BrokerInv, BrokerTypeOK, EventsAccountedFor
  <2>7. CASE HandleEvent
    <3>1. /\ inbox' \in Seq(Payloads) /\ Len(inbox') = Len(inbox) - 1
          /\ Head(inbox) \in Payloads
      BY <2>7, HeadMoves DEF HandleEvent, BrokerInv, BrokerTypeOK
    <3>2. EventType(Head(inbox)) \in RowTypes
      BY <3>1, EventTypeIsGiven
    <3>3. eventRows' \in Seq(RowTypes) /\ Len(eventRows') = Len(eventRows) + 1
      BY <2>7, <3>2, AppendGrows DEF HandleEvent, BrokerInv, BrokerTypeOK
    <3> QED  BY <2>5, <2>7, <3>1, <3>3 DEF HandleEvent, BrokerInv, BrokerTypeOK, EventsAccountedFor
  <2>8. CASE HandlerFails
    <3>1. inbox' \in Seq(Payloads) /\ Len(inbox') = Len(inbox) - 1
      BY <2>8, HeadMoves DEF HandlerFails, BrokerInv, BrokerTypeOK
    <3> QED  BY <2>5, <2>8, <3>1 DEF HandlerFails, BrokerInv, BrokerTypeOK, EventsAccountedFor
  <2>9. CASE ConsumerStops
    <3>1. inbox' \in Seq(Payloads) /\ Len(inbox') = 0
      BY <2>9, EmptySequence DEF ConsumerStops
    <3>2. /\ running' = FALSE /\ dropped' = dropped + Len(inbox)
          /\ UNCHANGED <<bound, queue, eventRows, enqueued>>
      BY <2>9 DEF ConsumerStops
    <3>3. dropped' \in Nat
      BY <2>5, <3>2 DEF BrokerInv, BrokerTypeOK
    <3>4. BrokerTypeOK'
      BY <3>1, <3>2, <3>3 DEF BrokerInv, BrokerTypeOK
    <3>5. EventsAccountedFor'
      BY <2>5, <3>1, <3>2 DEF BrokerInv, BrokerTypeOK, EventsAccountedFor
    <3> QED  BY <3>4, <3>5 DEF BrokerInv
  <2>10. ASSUME NEW w \in Workers,
                Take(w) \/ SettleRequest(w) \/ RestOfUseCase(w) \/ StoreCode(w)
                  \/ PublishFails(w) \/ WriteAudit(w) \/ MissAudit(w) \/ Abandon(w)
         PROVE  Same
    BY <2>10 DEF Take, SettleRequest, RestOfUseCase, StoreCode, PublishFails,
                 WriteAudit, MissAudit, Abandon, brokerVars
  <2>11. ASSUME NEW ns \in Namespaces, CodeGoes(ns) PROVE Same
    BY <2>11 DEF CodeGoes, brokerVars
  <2>12. CASE UNCHANGED trailVars
    BY <2>1, <2>12 DEF trailVars, brokerVars
  <2> QED
    BY <2>1, <2>2, <2>3, <2>4, <2>6, <2>7, <2>8, <2>9, <2>10, <2>11, <2>12 DEF TrailNext
<1> QED  BY <1>1, <1>2, PTL DEF TrailSpec

\* Every event the queue took is in the queue, with the consumer, in the audit
\* log or counted as lost (consume_events.py:139), whatever fails or dies.
THEOREM EventsAlwaysAccountedFor == TrailSpec => []EventsAccountedFor
<1>1. BrokerInv => EventsAccountedFor
  BY DEF BrokerInv
<1> QED  BY <1>1, BrokerInductive, PTL

-----------------------------------------------------------------------------
(***************************************************************************)
(* What the ways through the views have in common.                         *)
(***************************************************************************)
\* Every request that settles is recorded or skipped later on,
Remembers(t) ==
    \A i \in DOMAIN t : t[i][1] = "settle" =>
        \E j \in DOMAIN t : j > i /\ t[j] \in {Audit(t[i][2]), Skip}

\* it is recorded once at most,
RecordsOnce(t) ==
    \A i \in DOMAIN t : t[i][1] = "audit" =>
        t[i][2] \in AuditEventType /\ \A j \in DOMAIN t : t[j][1] = "audit" => i = j

\* and a code that is stored is announced by the next step.
Announces(t) ==
    \A i \in DOMAIN t : t[i][1] = "store" =>
        t[i][2] \in Namespaces /\ i + 1 \in DOMAIN t /\ t[i + 1] = Publish

Proper(t) == t \in Seq(Steps) /\ Remembers(t) /\ RecordsOnce(t) /\ Announces(t)

\* What is recorded is what was settled before.
RecordsSettled(t) ==
    \A i \in DOMAIN t : t[i][1] = "audit" =>
        \E j \in DOMAIN t : j < i /\ t[j] = Settle(t[i][2])

ProperView(t) == Proper(t) /\ RecordsSettled(t) /\ t # <<>>

\* A sequence of four steps, and one of three.
Four(t, a, b, c, d) ==
    t \in Seq(Steps) /\ DOMAIN t = 1..4 /\ t[1] = a /\ t[2] = b /\ t[3] = c /\ t[4] = d
Three(t, a, b, c) ==
    t \in Seq(Steps) /\ DOMAIN t = 1..3 /\ t[1] = a /\ t[2] = b /\ t[3] = c

\* Where the steps of two sequences are when they are joined.
LEMMA StepsJoined ==
    ASSUME NEW s \in Seq(Steps), NEW t \in Seq(Steps)
    PROVE  /\ s \o t \in Seq(Steps) /\ DOMAIN (s \o t) = 1..(Len(s) + Len(t))
           /\ Len(s \o t) = Len(s) + Len(t)
           /\ \A i \in 1..Len(s) : (s \o t)[i] = s[i]
           /\ \A j \in 1..Len(t) : (s \o t)[Len(s) + j] = t[j]
  OBVIOUS

\* Two or three steps and one more.
LEMMA StepAdded ==
    ASSUME NEW a \in Steps, NEW b \in Steps, NEW c \in Steps, NEW d \in Steps
    PROVE  /\ Three(<<a, b>> \o <<c>>, a, b, c)
           /\ Three(<<a>> \o <<b, c>>, a, b, c)
           /\ Four(<<a, b, c>> \o <<d>>, a, b, c, d)
           /\ Four(<<a>> \o <<b, c>> \o <<d>>, a, b, c, d)
<1> DEFINE one(x) == <<x>>
           ab == <<a, b>>
           bc == <<b, c>>
           abc == <<a, b, c>>
<1>1. \A x \in Steps : one(x) \in Seq(Steps) /\ Len(one(x)) = 1 /\ one(x)[1] = x
  OBVIOUS
<1>2. /\ ab \in Seq(Steps) /\ Len(ab) = 2 /\ ab[1] = a /\ ab[2] = b
      /\ bc \in Seq(Steps) /\ Len(bc) = 2 /\ bc[1] = b /\ bc[2] = c
  OBVIOUS
<1>3. abc \in Seq(Steps) /\ Len(abc) = 3 /\ abc[1] = a /\ abc[2] = b /\ abc[3] = c
  OBVIOUS
<1> HIDE DEF one, ab, bc, abc
<1>4. Three(ab \o one(c), a, b, c)
  <2>1. (ab \o one(c))[2 + 1] = one(c)[1] /\ (ab \o one(c))[1] = ab[1]
        /\ (ab \o one(c))[2] = ab[2] /\ DOMAIN (ab \o one(c)) = 1..(2 + 1)
    BY <1>1, <1>2, StepsJoined
  <2>2. ab \o one(c) \in Seq(Steps)
    BY <1>1, <1>2, StepsJoined
  <2> QED BY <1>1, <1>2, <2>1, <2>2 DEF Three
<1>5. Three(one(a) \o bc, a, b, c) /\ Len(one(a) \o bc) = 3
  <2>1. (one(a) \o bc)[1 + 1] = bc[1] /\ (one(a) \o bc)[1 + 2] = bc[2]
        /\ (one(a) \o bc)[1] = one(a)[1] /\ DOMAIN (one(a) \o bc) = 1..(1 + 2)
        /\ Len(one(a) \o bc) = 1 + 2
    <3>1. /\ one(a) \in Seq(Steps) /\ Len(one(a)) = 1 /\ bc \in Seq(Steps) /\ Len(bc) = 2
          /\ 1 \in 1..1 /\ 1 \in 1..2 /\ 2 \in 1..2
      BY <1>1, <1>2
    <3>2. /\ Len(one(a) \o bc) = Len(one(a)) + Len(bc)
          /\ DOMAIN (one(a) \o bc) = 1..(Len(one(a)) + Len(bc))
          /\ \A i \in 1..Len(one(a)) : (one(a) \o bc)[i] = one(a)[i]
          /\ \A j \in 1..Len(bc) : (one(a) \o bc)[Len(one(a)) + j] = bc[j]
      BY <3>1, StepsJoined, Zenon
    <3> QED BY <3>1, <3>2, Zenon
  <2>2. one(a) \o bc \in Seq(Steps)
    BY <1>1, <1>2, StepsJoined
  <2> QED BY <1>1, <1>2, <2>1, <2>2 DEF Three
<1>6. ASSUME NEW u, Three(u, a, b, c), Len(u) = 3 PROVE Four(u \o one(d), a, b, c, d)
  <2>0. u \in Seq(Steps) /\ one(d) \in Seq(Steps) /\ Len(u) = 3 /\ Len(one(d)) = 1
    BY <1>1, <1>6 DEF Three
  <2>1. (u \o one(d))[3 + 1] = one(d)[1] /\ (u \o one(d))[1] = u[1]
        /\ (u \o one(d))[2] = u[2] /\ (u \o one(d))[3] = u[3]
        /\ DOMAIN (u \o one(d)) = 1..(3 + 1)
    <3>1. /\ DOMAIN (u \o one(d)) = 1..(Len(u) + Len(one(d)))
          /\ \A i \in 1..Len(u) : (u \o one(d))[i] = u[i]
          /\ \A j \in 1..Len(one(d)) : (u \o one(d))[Len(u) + j] = one(d)[j]
      BY <2>0, StepsJoined
    <3>2. 1 \in 1..3 /\ 2 \in 1..3 /\ 3 \in 1..3 /\ 1 \in 1..1
      OBVIOUS
    <3> QED BY <2>0, <3>1, <3>2
  <2>2. u \o one(d) \in Seq(Steps)
    BY <1>1, <1>6, StepsJoined DEF Three
  <2> QED BY <1>1, <1>6, <2>1, <2>2 DEF Three, Four
<1>7. Three(abc, a, b, c)
  BY <1>3 DEF Three
<1>8. Four(abc \o one(d), a, b, c, d) /\ Four((one(a) \o bc) \o one(d), a, b, c, d)
  BY <1>3, <1>5, <1>6, <1>7
<1> QED BY <1>4, <1>5, <1>8 DEF one, ab, bc, abc

\* The steps, one by one.
LEMMA StepsAre ==
    /\ \A type \in AuditEventType : Settle(type) \in Steps /\ Audit(type) \in Steps
    /\ \A ns \in Namespaces : Store(ns) \in Steps
    /\ Rest \in Steps /\ Publish \in Steps /\ Skip \in Steps
    /\ \A type : /\ Settle(type)[1] = "settle" /\ Settle(type)[2] = type
                 /\ Audit(type)[1] = "audit" /\ Audit(type)[2] = type
    /\ \A ns : Store(ns)[1] = "store" /\ Store(ns)[2] = ns
    /\ Rest[1] = "rest" /\ Publish[1] = "publish" /\ Skip[1] = "skip"
<1>1. /\ "settle" \in StepKinds /\ "audit" \in StepKinds /\ "store" \in StepKinds
      /\ "rest" \in StepKinds /\ "publish" \in StepKinds /\ "skip" \in StepKinds
  BY DEF StepKinds
<1> QED BY <1>1 DEF Steps, Settle, Audit, Store, Rest, Publish, Skip

\* A sequence of two steps.
Two(t, a, b) == t \in Seq(Steps) /\ DOMAIN t = 1..2 /\ t[1] = a /\ t[2] = b

\* Which sequences are proper.
LEMMA KindsProper ==
    ASSUME NEW type \in AuditEventType, NEW ns \in Namespaces, NEW last \in {Audit(type), Skip},
           NEW t
    PROVE  /\ Two(t, Settle(type), last) => ProperView(t)
           /\ Three(t, Settle(type), Rest, last) => ProperView(t)
           /\ Two(t, Store(ns), Publish) => ProperView(t)
           /\ Three(t, Settle(type), Audit(type), Publish) => ProperView(t)
           /\ Four(t, Settle(type), Rest, Audit(type), Publish) => ProperView(t)
           /\ Four(t, Settle(type), Store(ns), Publish, last) => ProperView(t)
<1>0. /\ last[1] \in {"audit", "skip"} /\ (last[1] = "audit" => last[2] = type)
      /\ Settle(type)[1] = "settle" /\ Settle(type)[2] = type
      /\ Audit(type)[1] = "audit" /\ Audit(type)[2] = type
      /\ Store(ns)[1] = "store" /\ Store(ns)[2] = ns
      /\ Rest[1] = "rest" /\ Publish[1] = "publish"
  BY StepsAre
<1>t. 1 \in DOMAIN t => t # <<>>
  OBVIOUS
<1>1. ASSUME Two(t, Settle(type), last) PROVE ProperView(t)
  <2>1. t \in Seq(Steps) /\ DOMAIN t = {1, 2} /\ t[1] = Settle(type) /\ t[2] = last
    BY <1>1 DEF Two
  <2>2. RecordsOnce(t)
    BY <1>0, <2>1 DEF RecordsOnce
  <2>3. Remembers(t)
    BY <1>0, <2>1 DEF Remembers
  <2>4. Announces(t)
    BY <1>0, <2>1 DEF Announces
  <2>5. RecordsSettled(t)
    BY <1>0, <2>1 DEF RecordsSettled
  <2> QED BY <1>t, <2>1, <2>2, <2>3, <2>4, <2>5 DEF ProperView, Proper
<1>2. ASSUME Three(t, Settle(type), Rest, last) PROVE ProperView(t)
  <2>1. /\ t \in Seq(Steps) /\ DOMAIN t = {1, 2, 3}
        /\ t[1] = Settle(type) /\ t[2] = Rest /\ t[3] = last
    BY <1>2 DEF Three
  <2>2. RecordsOnce(t)
    BY <1>0, <2>1 DEF RecordsOnce
  <2>3. Remembers(t)
    BY <1>0, <2>1 DEF Remembers
  <2>4. Announces(t)
    BY <1>0, <2>1 DEF Announces
  <2>5. RecordsSettled(t)
    BY <1>0, <2>1 DEF RecordsSettled
  <2> QED BY <1>t, <2>1, <2>2, <2>3, <2>4, <2>5 DEF ProperView, Proper
<1>3. ASSUME Two(t, Store(ns), Publish) PROVE ProperView(t)
  <2>1. t \in Seq(Steps) /\ DOMAIN t = {1, 2} /\ t[1] = Store(ns) /\ t[2] = Publish
    BY <1>3 DEF Two
  <2>2. RecordsOnce(t)
    BY <1>0, <2>1 DEF RecordsOnce
  <2>3. Remembers(t)
    BY <1>0, <2>1 DEF Remembers
  <2>4. Announces(t)
    BY <1>0, <2>1 DEF Announces
  <2>5. RecordsSettled(t)
    BY <1>0, <2>1 DEF RecordsSettled
  <2> QED BY <1>t, <2>1, <2>2, <2>3, <2>4, <2>5 DEF ProperView, Proper
<1>4. ASSUME Three(t, Settle(type), Audit(type), Publish) PROVE ProperView(t)
  <2>1. /\ t \in Seq(Steps) /\ DOMAIN t = {1, 2, 3}
        /\ t[1] = Settle(type) /\ t[2] = Audit(type) /\ t[3] = Publish
    BY <1>4 DEF Three
  <2>2. RecordsOnce(t)
    BY <1>0, <2>1 DEF RecordsOnce
  <2>3. Remembers(t)
    BY <1>0, <2>1 DEF Remembers
  <2>4. Announces(t)
    BY <1>0, <2>1 DEF Announces
  <2>5. RecordsSettled(t)
    BY <1>0, <2>1 DEF RecordsSettled
  <2> QED BY <1>t, <2>1, <2>2, <2>3, <2>4, <2>5 DEF ProperView, Proper
<1>5. ASSUME Four(t, Settle(type), Rest, Audit(type), Publish) PROVE ProperView(t)
  <2>1. /\ t \in Seq(Steps) /\ DOMAIN t = {1, 2, 3, 4}
        /\ t[1] = Settle(type) /\ t[2] = Rest /\ t[3] = Audit(type) /\ t[4] = Publish
    BY <1>5 DEF Four
  <2>2. RecordsOnce(t)
    BY <1>0, <2>1 DEF RecordsOnce
  <2>3. Remembers(t)
    BY <1>0, <2>1 DEF Remembers
  <2>4. Announces(t)
    BY <1>0, <2>1 DEF Announces
  <2>5. RecordsSettled(t)
    BY <1>0, <2>1 DEF RecordsSettled
  <2> QED BY <1>t, <2>1, <2>2, <2>3, <2>4, <2>5 DEF ProperView, Proper
<1>6. ASSUME Four(t, Settle(type), Store(ns), Publish, last) PROVE ProperView(t)
  <2>1. /\ t \in Seq(Steps) /\ DOMAIN t = {1, 2, 3, 4}
        /\ t[1] = Settle(type) /\ t[2] = Store(ns) /\ t[3] = Publish /\ t[4] = last
    BY <1>6 DEF Four
  <2>2. RecordsOnce(t)
    BY <1>0, <2>1 DEF RecordsOnce
  <2>3. Remembers(t)
    BY <1>0, <2>1 DEF Remembers
  <2>4. Announces(t)
    BY <1>0, <2>1 DEF Announces
  <2>5. RecordsSettled(t)
    BY <1>0, <2>1 DEF RecordsSettled
  <2> QED BY <1>t, <2>1, <2>2, <2>3, <2>4, <2>5 DEF ProperView, Proper
<1> QED BY <1>1, <1>2, <1>3, <1>4, <1>5, <1>6

\* Two and three steps.
LEMMA FewSteps ==
    ASSUME NEW a \in Steps, NEW b \in Steps, NEW c \in Steps
    PROVE  Two(<<a, b>>, a, b) /\ Three(<<a, b, c>>, a, b, c)
  BY DEF Two, Three

\* So every view leaves behind what it should.
LEMMA ViewsProper == \A view \in Views : ProperView(view)
<1>0. /\ "email_verify" \in Namespaces /\ "user.registered" \in AuditEventType
      /\ \A type \in AuditEventType : Settle(type) \in Steps /\ Audit(type) \in Steps
      /\ \A ns \in Namespaces : Store(ns) \in Steps
      /\ Rest \in Steps /\ Publish \in Steps /\ Skip \in Steps
  BY StepsAre DEF Namespaces, AuditEventType
<1>1. ASSUME NEW type \in AuditEventType
      PROVE  /\ ProperView(Recorded(type)) /\ ProperView(RecordedLater(type))
             /\ ProperView(<<Settle(type), Skip>>)
             /\ ProperView(<<Settle(type), Rest, Skip>>)
             /\ ProperView(<<Settle(type), Rest, Audit(type)>>)
             /\ ProperView(Recorded(type) \o <<Publish>>)
             /\ ProperView(RecordedLater(type) \o <<Publish>>)
  <2>1. ProperView(<<Settle(type), Audit(type)>>) /\ ProperView(<<Settle(type), Skip>>)
    BY <1>0, FewSteps, KindsProper
  <2>2. /\ ProperView(<<Settle(type), Rest, Skip>>)
        /\ ProperView(<<Settle(type), Rest, Audit(type)>>)
    BY <1>0, FewSteps, KindsProper
  <2>3. ProperView(Recorded(type) \o <<Publish>>)
    BY <1>0, StepAdded, KindsProper DEF Recorded
  <2>4. ProperView(RecordedLater(type) \o <<Publish>>)
    BY <1>0, StepAdded, KindsProper DEF RecordedLater
  <2> QED BY <2>1, <2>2, <2>3, <2>4 DEF Recorded, RecordedLater
<1>2. ASSUME NEW ns \in Namespaces PROVE ProperView(Coded(ns))
  BY <1>0, FewSteps, KindsProper DEF Coded
<1>3. ASSUME NEW type \in AuditEventType, NEW ns \in Namespaces, NEW last \in {Audit(type), Skip}
      PROVE  ProperView(<<Settle(type)>> \o Coded(ns) \o <<last>>)
  BY <1>0, StepAdded, KindsProper DEF Coded
<1>4. /\ "email_verify" \in Namespaces /\ "mfa_login" \in Namespaces
      /\ "password_reset" \in Namespaces /\ "mfa_sms_setup" \in Namespaces
      /\ "mfa_email_setup" \in Namespaces
  BY DEF Namespaces
<1> USE DEF AuditEventType
<1>5. \A view \in RegisterView \cup LoginView \cup MFAChallengeView : ProperView(view)
  BY <1>1, <1>3, <1>4 DEF RegisterView, LoginView, MFAChallengeView
<1>6. \A view \in GoogleSocialAuthView \cup GithubSocialAuthView \cup LogoutView : ProperView(view)
  BY <1>1 DEF GoogleSocialAuthView, GithubSocialAuthView, LogoutView
<1>7. \A view \in VerifyEmailView \cup RequestPasswordResetView \cup ConfirmPasswordResetView :
         ProperView(view)
  BY <1>1, <1>3, <1>4 DEF VerifyEmailView, RequestPasswordResetView, ConfirmPasswordResetView
<1>8. \A view \in ResendVerificationOTPView \cup MFASMSSetupView \cup MFAEmailSetupView :
         ProperView(view)
  BY <1>2, <1>4 DEF ResendVerificationOTPView, MFASMSSetupView, MFAEmailSetupView
<1>9. \A view \in ChangePasswordView \cup MFAEnableView \cup MFADisableView :
         ProperView(view)
  BY <1>1 DEF ChangePasswordView, MFAEnableView, MFADisableView
<1>10. \A view \in RegenerateBackupCodesView \cup ProfilePatch \cup ProfileDelete
                     \cup AdminUserSuspendView \cup AdminUserActivateView :
          ProperView(view)
  BY <1>1 DEF RegenerateBackupCodesView, ProfilePatch, ProfileDelete, AdminUserSuspendView,
     AdminUserActivateView
<1>11. \A view \in RevokeSessionView \cup GDPRExportView \cup GDPRErasureView : ProperView(view)
  BY <1>1 DEF RevokeSessionView, GDPRExportView, GDPRErasureView
<1> QED BY <1>5, <1>6, <1>7, <1>8, <1>9, <1>10, <1>11 DEF Views, MFASMSEnableView, MFAEmailEnableView

-----------------------------------------------------------------------------
(***************************************************************************)
(* How requests go on.                                                     *)
(***************************************************************************)

\* A request that is served has steps to come and a number, and one that holds
\* a code announces it next.
LiveInv ==
    \A w \in Workers :
        /\ req[w] = Idle \/ (req[w].todo # <<>> /\ req[w].id \in 1..served)
        /\ Proper(req[w].todo)
        /\ req[w].code # 0 => req[w].todo # <<>> /\ req[w].todo[1] = Publish

Base == TrailTypeOK /\ LiveInv

\* The steps after the first.
LEMMA TailProper ==
    ASSUME NEW s \in Seq(Steps), s # <<>>, Proper(s)
    PROVE  /\ Proper(Tail(s)) /\ Head(s) = s[1] /\ 1 \in DOMAIN s
           /\ DOMAIN s = 1..Len(s) /\ Len(s) \in Nat
           /\ DOMAIN Tail(s) = 1..(Len(s) - 1)
           /\ \A i \in DOMAIN Tail(s) : Tail(s)[i] = s[i + 1]
           /\ \A i \in DOMAIN s : i # 1 => i - 1 \in DOMAIN Tail(s) /\ Tail(s)[i - 1] = s[i]
<1> DEFINE t == Tail(s)
<1>1. /\ DOMAIN s = 1..Len(s) /\ Len(s) \in Nat /\ DOMAIN t = 1..(Len(s) - 1)
      /\ \A i \in DOMAIN t : t[i] = s[i + 1]
      /\ Head(s) = s[1] /\ 1 \in DOMAIN s /\ t \in Seq(Steps)
  OBVIOUS
<1> HIDE DEF t
<1>2. \A i \in DOMAIN s : i # 1 => i - 1 \in DOMAIN t /\ t[i - 1] = s[i]
  <2> SUFFICES ASSUME NEW i \in DOMAIN s, i # 1 PROVE i - 1 \in DOMAIN t /\ t[i - 1] = s[i]
    OBVIOUS
  <2>1. i - 1 \in DOMAIN t /\ (i - 1) + 1 = i
    BY <1>1
  <2> QED BY <1>1, <2>1
<1>3. Remembers(t)
  <2> SUFFICES ASSUME NEW i \in DOMAIN t, t[i][1] = "settle"
               PROVE  \E j \in DOMAIN t : j > i /\ t[j] \in {Audit(t[i][2]), Skip}
    BY DEF Remembers
  <2>1. i + 1 \in DOMAIN s /\ t[i] = s[i + 1]
    BY <1>1
  <2>2. PICK j \in DOMAIN s : j > i + 1 /\ s[j] \in {Audit(t[i][2]), Skip}
    BY <2>1 DEF Proper, Remembers
  <2>3. j - 1 \in DOMAIN t /\ j - 1 > i /\ t[j - 1] = s[j]
    BY <1>1, <1>2, <2>1, <2>2
  <2> QED BY <2>2, <2>3
<1>4. RecordsOnce(t)
  <2>1. ASSUME NEW i \in DOMAIN t
        PROVE  i \in Nat /\ i + 1 \in DOMAIN s /\ t[i] = s[i + 1]
    BY <1>1
  <2>2. ASSUME NEW i \in DOMAIN t, NEW j \in DOMAIN t, t[i][1] = "audit", t[j][1] = "audit"
        PROVE  i = j
    <3>1. i + 1 = j + 1
      BY <2>1, <2>2 DEF Proper, RecordsOnce
    <3> QED BY <2>1, <3>1
  <2>3. ASSUME NEW i \in DOMAIN t, t[i][1] = "audit" PROVE t[i][2] \in AuditEventType
    BY <2>1, <2>3 DEF Proper, RecordsOnce
  <2> QED BY <2>2, <2>3 DEF RecordsOnce
<1>5. Announces(t)
  <2> SUFFICES ASSUME NEW i \in DOMAIN t, t[i][1] = "store"
               PROVE  t[i][2] \in Namespaces /\ i + 1 \in DOMAIN t /\ t[i + 1] = Publish
    BY DEF Announces
  <2>1. i + 1 \in DOMAIN s /\ t[i] = s[i + 1] /\ i \in Nat
    BY <1>1
  <2>2. t[i][2] \in Namespaces /\ (i + 1) + 1 \in DOMAIN s /\ s[(i + 1) + 1] = Publish
    BY <2>1 DEF Proper, Announces
  <2>3. i + 1 \in DOMAIN t
    BY <1>1, <2>1, <2>2
  <2> QED BY <1>1, <2>2, <2>3
<1> QED BY <1>1, <1>2, <1>3, <1>4, <1>5 DEF Proper, t

\* Worker w goes on to the rest of its request, q.
Moves(w, q) ==
    /\ req[w].todo # <<>> /\ req' = [req EXCEPT ![w] = q]
    /\ q \in Request /\ q.todo = Tail(req[w].todo)
    /\ q = Idle \/ (q.todo # <<>> /\ q.id = req[w].id)

\* Advancing takes the first step off, and frees the worker after the last.
LEMMA AdvanceMoves ==
    ASSUME Base, NEW w \in Workers, req[w].todo # <<>>, NEW r \in Request,
           r.id = req[w].id, r.todo = req[w].todo, Advance(w, r)
    PROVE  \E q : /\ Moves(w, q)
                  /\ q.todo = <<>> => q = Idle
                  /\ q.todo # <<>> => q.ns = r.ns /\ q.code = r.code
<1> DEFINE q == IF Tail(r.todo) = <<>> THEN Idle ELSE [r EXCEPT !.todo = Tail(@)]
<1>1. req' = [req EXCEPT ![w] = q]
  BY DEF Advance
<1>2. Tail(r.todo) \in Seq(Steps)
  BY DEF Base, TrailTypeOK, Request
<1>3. CASE Tail(r.todo) = <<>>
  <2>1. q = Idle /\ Idle.todo = <<>> /\ Idle \in Request
    BY <1>2, <1>3, TrailAssumption, OtpAssumption DEF Idle, Request, Namespaces
  <2> QED BY <1>1, <1>3, <2>1 DEF Moves
<1>4. CASE Tail(r.todo) # <<>>
  <2>1. /\ q.todo = Tail(r.todo) /\ q.id = r.id /\ q.ns = r.ns /\ q.code = r.code
        /\ q \in Request
    BY <1>2, <1>4 DEF Request
  <2> QED BY <1>1, <1>4, <2>1 DEF Moves
<1> QED BY <1>3, <1>4

\* The steps that do not touch codes.
Plain(w) == SettleRequest(w) \/ RestOfUseCase(w) \/ WriteAudit(w) \/ MissAudit(w)
Publishes(w) == PublishEvent(w) \/ PublishFails(w)

\* A request that makes one of its steps goes on to the next.
LEMMA StepMoves ==
    ASSUME Base, NEW w \in Workers, Plain(w) \/ Publishes(w) \/ StoreCode(w)
    PROVE  \E q : /\ Moves(w, q)
                  /\ ~Publishes(w) => req[w].code = 0
                  /\ ~StoreCode(w) => q.code = 0
                  /\ StoreCode(w) => /\ q # Idle /\ q.code = minted + 1 /\ q.ns = Operand(w)
                                     /\ q.ns \in Namespaces /\ q.todo[1] = Publish
<1>0. req[w] \in Request /\ req[w].todo \in Seq(Steps) /\ Proper(req[w].todo)
  BY DEF Base, TrailTypeOK, Request, LiveInv
<1>1. CASE Plain(w)
  <2>0. /\ req[w].todo # <<>> /\ Advance(w, req[w])
        /\ Head(req[w].todo)[1] \in {"settle", "rest", "audit", "skip"}
    BY <1>1 DEF Plain, SettleRequest, RestOfUseCase, WriteAudit, MissAudit, AtStep
  <2>1. req[w].todo # <<>> /\ Advance(w, req[w]) /\ Head(req[w].todo) # Publish
    <3>1. Publish[1] = "publish"
      BY StepsAre
    <3> QED BY <2>0, <3>1
  <2>2. req[w].code = 0
    BY <1>0, <2>1, TailProper DEF Base, LiveInv
  <2>3. ~StoreCode(w)
    BY <1>1 DEF Plain, SettleRequest, RestOfUseCase, WriteAudit, MissAudit, AtStep, StoreCode
  <2> QED BY <1>0, <2>1, <2>2, <2>3, AdvanceMoves DEF Idle
<1>2. CASE Publishes(w)
  <2> DEFINE r == [req[w] EXCEPT !.code = 0]
  <2>1. r \in Request /\ r.id = req[w].id /\ r.todo = req[w].todo /\ r.code = 0
    BY <1>0, OtpAssumption DEF Request
  <2>2. req[w].todo # <<>> /\ Advance(w, r)
    BY <1>2 DEF Publishes, PublishEvent, PublishFails, AtStep
  <2>3. ~StoreCode(w)
    BY <1>2 DEF Publishes, PublishEvent, PublishFails, AtStep, StoreCode
  <2> HIDE DEF r
  <2> QED BY <1>2, <2>1, <2>2, <2>3, AdvanceMoves DEF Idle
<1>3. CASE StoreCode(w)
  <2> DEFINE r == [req[w] EXCEPT !.ns = Operand(w), !.code = minted + 1]
  <2>1. req[w].todo # <<>> /\ Advance(w, r) /\ Head(req[w].todo)[1] = "store" /\ minted < MaxCodes
    BY <1>3 DEF StoreCode, AtStep, Setex
  <2>2. /\ Operand(w) \in Namespaces /\ 2 \in DOMAIN req[w].todo /\ req[w].todo[2] = Publish
    <3>1. req[w].todo[1][1] = "store" /\ 1 \in DOMAIN req[w].todo /\ Operand(w) = req[w].todo[1][2]
      BY <1>0, <2>1, TailProper DEF Operand
    <3> QED BY <1>0, <3>1 DEF Proper, Announces
  <2>3. minted + 1 \in 0..MaxCodes
    BY <2>1, OtpAssumption DEF Base, TrailTypeOK, OtpTypeOK
  <2>4. /\ r \in Request /\ r.id = req[w].id /\ r.todo = req[w].todo
        /\ r.code = minted + 1 /\ r.ns = Operand(w)
    BY <1>0, <2>2, <2>3 DEF Request
  <2>5. 1 \in DOMAIN Tail(req[w].todo) /\ Tail(req[w].todo)[1] = Publish
    BY <1>0, <2>1, <2>2, TailProper
  <2>6. Tail(req[w].todo) # <<>>
    <3>1. \A t : 1 \in DOMAIN t => t # <<>>
      OBVIOUS
    <3> QED BY <2>5, <3>1
  <2> HIDE DEF r
  <2>7. PICK q : /\ Moves(w, q)
                 /\ q.todo # <<>> => q.ns = r.ns /\ q.code = r.code
    BY <2>1, <2>4, AdvanceMoves
  <2>8. q.todo = Tail(req[w].todo) /\ q # Idle
    <3>1. q.todo = Tail(req[w].todo)
      BY <2>7 DEF Moves
    <3>2. Idle.todo = <<>>
      BY DEF Idle
    <3> QED BY <2>6, <3>1, <3>2
  <2>9. req[w].code = 0
    <3>1. Publish[1] = "publish"
      BY StepsAre
    <3> QED BY <1>0, <2>1, <3>1, TailProper DEF Base, LiveInv
  <2> QED BY <1>3, <2>2, <2>4, <2>5, <2>6, <2>7, <2>8, <2>9
<1> QED BY <1>1, <1>2, <1>3

\* The other workers' requests stay, so what holds of each goes on holding.
LEMMA MovesLive ==
    ASSUME Base, NEW w \in Workers, NEW q, Moves(w, q), served' = served,
           q.code # 0 => q # Idle /\ q.todo[1] = Publish
    PROVE  req' \in [Workers -> Request] /\ LiveInv'
<1>1. req' \in [Workers -> Request]
  BY DEF Moves, Base, TrailTypeOK
<1>2. /\ req'[w] = q /\ q.todo = Tail(req[w].todo)
      /\ q = Idle \/ (q.todo # <<>> /\ q.id = req[w].id)
      /\ req[w].todo \in Seq(Steps) /\ req[w].todo # <<>>
  BY DEF Moves, Base, TrailTypeOK, Request
<1>3. Proper(q.todo)
  BY <1>2, TailProper DEF Base, LiveInv
<1>4. req[w] # Idle
  BY <1>2 DEF Idle
<1>5. q = Idle \/ (q.todo # <<>> /\ q.id \in 1..served')
  BY <1>2, <1>4 DEF Base, LiveInv
<1>6. q.code # 0 => q.todo # <<>> /\ q.todo[1] = Publish
  BY <1>5
<1>7. \A v \in Workers : v # w => req'[v] = req[v]
  BY DEF Moves, Base, TrailTypeOK
<1>8. ASSUME NEW v \in Workers
      PROVE  /\ req'[v] = Idle \/ (req'[v].todo # <<>> /\ req'[v].id \in 1..served')
             /\ Proper(req'[v].todo)
             /\ req'[v].code # 0 => req'[v].todo # <<>> /\ req'[v].todo[1] = Publish
  <2>1. CASE v = w
    BY <1>2, <1>3, <1>5, <1>6, <2>1
  <2>2. CASE v # w
    BY <1>7, <2>2 DEF Base, LiveInv
  <2> QED BY <2>1, <2>2
<1>9. LiveInv'
  BY <1>8 DEF LiveInv
<1> QED BY <1>1, <1>9

\* No steps at all.
LEMMA IdleProper == Idle \in Request /\ Idle.todo = <<>> /\ Idle.code = 0 /\ Proper(Idle.todo)
<1>1. Idle.todo = <<>> /\ Idle.code = 0 /\ Idle \in Request
  BY TrailAssumption, OtpAssumption DEF Idle, Request, Namespaces
<1>2. <<>> \in Seq(Steps) /\ \A i \in DOMAIN <<>> : FALSE
  OBVIOUS
<1> QED BY <1>1, <1>2 DEF Proper, Remembers, RecordsOnce, Announces

\* A worker takes a request with a number of its own.
LEMMA TakeLive ==
    ASSUME Base, NEW w \in Workers, Take(w)
    PROVE  /\ req' \in [Workers -> Request] /\ LiveInv' /\ served' \in 0..MaxRequests
           /\ \E view \in Views : /\ req' = [req EXCEPT ![w] = [Idle EXCEPT !.id = served', !.todo = view]]
                                  /\ ProperView(view)
<1>1. served \in 0..MaxRequests /\ served < MaxRequests /\ served' = served + 1
      /\ MaxRequests \in Nat /\ req \in [Workers -> Request]
  BY TrailAssumption DEF Take, Base, TrailTypeOK
<1>2. PICK view \in Views : req' = [req EXCEPT ![w] = [Idle EXCEPT !.id = served', !.todo = view]]
  BY <1>1 DEF Take
<1>3. ProperView(view)
  BY ViewsProper
<1> DEFINE q == [Idle EXCEPT !.id = served', !.todo = view]
<1>4. q \in Request /\ q.id = served' /\ q.todo = view /\ q.code = 0
  <2>1. served' \in 0..MaxRequests /\ view \in Seq(Steps)
    BY <1>1, <1>3 DEF ProperView, Proper
  <2>2. ASSUME NEW r \in Request PROVE LET p == [r EXCEPT !.id = served', !.todo = view]
                                      IN  p \in Request /\ p.id = served' /\ p.todo = view
                                          /\ p.code = r.code
    BY <2>1 DEF Request
  <2> QED BY <2>2, IdleProper
<1> HIDE DEF q
<1>5. req' = [req EXCEPT ![w] = q]
  BY <1>2 DEF q
<1>6. ASSUME NEW v \in Workers
      PROVE  /\ req'[v] = Idle \/ (req'[v].todo # <<>> /\ req'[v].id \in 1..served')
             /\ Proper(req'[v].todo)
             /\ req'[v].code # 0 => req'[v].todo # <<>> /\ req'[v].todo[1] = Publish
  <2>1. CASE v = w
    BY <1>1, <1>3, <1>4, <1>5, <2>1 DEF ProperView
  <2>2. CASE v # w
    BY <1>1, <1>5, <2>2 DEF Base, LiveInv
  <2> QED BY <2>1, <2>2
<1>7. LiveInv'
  BY <1>6 DEF LiveInv
<1>8. req' \in [Workers -> Request] /\ served' \in 0..MaxRequests
  BY <1>1, <1>4, <1>5
<1> QED BY <1>2, <1>3, <1>7, <1>8, Zenon

\* A worker that dies, or fails, is free again.
LEMMA AbandonLive ==
    ASSUME Base, NEW w \in Workers, Abandon(w)
    PROVE  req' \in [Workers -> Request] /\ LiveInv'
<1>1. req' = [req EXCEPT ![w] = Idle] /\ served' = served /\ req \in [Workers -> Request]
  BY DEF Abandon, Base, TrailTypeOK
<1>2. ASSUME NEW v \in Workers
      PROVE  /\ req'[v] = Idle \/ (req'[v].todo # <<>> /\ req'[v].id \in 1..served')
             /\ Proper(req'[v].todo)
             /\ req'[v].code # 0 => req'[v].todo # <<>> /\ req'[v].todo[1] = Publish
  <2>1. CASE v = w
    BY <1>1, <2>1, IdleProper
  <2>2. CASE v # w
    BY <1>1, <2>2 DEF Base, LiveInv
  <2> QED BY <2>1, <2>2
<1>3. LiveInv'
  BY <1>2 DEF LiveInv
<1> QED BY <1>1, <1>3, IdleProper

\* The steps that touch no request.
Elsewhere ==
    \/ \E ns \in Namespaces : CodeGoes(ns)
    \/ ForeignAudit \/ ConsumerStarts \/ Deliver \/ HandleEvent
    \/ HandlerFails \/ ConsumerStops

\* A step is a request's coming, going or going on, or touches no request.
LEMMA NextIs ==
    ASSUME [TrailNext]_trailVars
    PROVE  \/ \E w \in Workers : \/ Take(w) \/ Abandon(w)
                                 \/ Plain(w) \/ Publishes(w) \/ StoreCode(w)
           \/ Elsewhere \/ UNCHANGED trailVars
  BY DEF TrailNext, Plain, Publishes, Elsewhere

\* The expiry of a code and the steps of the broker, the consumer and other
\* services leave requests, rows and announcements as they are.
LEMMA ElsewhereKeeps ==
    ASSUME Elsewhere \/ UNCHANGED trailVars
    PROVE  UNCHANGED <<reqVars, tableVars, codeVars>>
  BY DEF Elsewhere, CodeGoes, ForeignAudit, ConsumerStarts, Deliver, HandleEvent, HandlerFails,
     ConsumerStops, workerVars, trailVars

\* The row that is written is about a request and has a type of the registry.
LEMMA RowWritten ==
    ASSUME Base, NEW w \in Workers, WriteAudit(w)
    PROVE  /\ req[w].id \in 1..served /\ Operand(w) \in AuditEventType
           /\ 1 \in DOMAIN req[w].todo /\ req[w].todo[1][1] = "audit"
           /\ Operand(w) = req[w].todo[1][2] /\ served \in 0..MaxRequests
<1>1. req[w].todo # <<>> /\ Head(req[w].todo)[1] = "audit" /\ Operand(w) = Head(req[w].todo)[2]
  BY DEF WriteAudit, AtStep, Operand
<1>2. req[w].todo \in Seq(Steps) /\ Proper(req[w].todo) /\ served \in 0..MaxRequests
  BY DEF Base, TrailTypeOK, Request, LiveInv
<1>3. Head(req[w].todo) = req[w].todo[1] /\ 1 \in DOMAIN req[w].todo
  BY <1>1, <1>2, TailProper
<1>4. Operand(w) \in AuditEventType
  BY <1>1, <1>2, <1>3 DEF Proper, RecordsOnce
<1>5. req[w] # Idle
  BY <1>1, IdleProper
<1> QED BY <1>1, <1>2, <1>3, <1>4, <1>5 DEF Base, LiveInv

\* The codes and the tables stay within their types.
LEMMA TablesTyped ==
    ASSUME Base, [TrailNext]_trailVars
    PROVE  /\ auditRows' \in Seq([by : 1..MaxRequests, type : AuditEventType])
           /\ foreign' \in 0..MaxForeign
           /\ told' \in [Namespaces -> 0..MaxCodes]
           /\ OtpTypeOK'
<1> DEFINE Rows == [by : 1..MaxRequests, type : AuditEventType]
<1>0. /\ auditRows \in Seq(Rows) /\ foreign \in 0..MaxForeign
      /\ told \in [Namespaces -> 0..MaxCodes] /\ OtpTypeOK
      /\ MaxForeign \in Nat /\ MaxCodes \in Nat /\ MaxRequests \in Nat
      /\ req \in [Workers -> Request]
  BY TrailAssumption, OtpAssumption DEF Base, TrailTypeOK
<1>1. auditRows' \in Seq(Rows)
  <2>1. ASSUME NEW w \in Workers, WriteAudit(w) PROVE auditRows' \in Seq(Rows)
    <3> DEFINE row == [by |-> req[w].id, type |-> Operand(w)]
    <3>1. row \in Rows
      BY <1>0, <2>1, RowWritten
    <3>2. auditRows' = Append(auditRows, row)
      BY <2>1 DEF WriteAudit
    <3> HIDE DEF row, Rows
    <3> QED BY <1>0, <3>1, <3>2, AppendGrows
  <2>2. CASE \A w \in Workers : ~WriteAudit(w)
    <3>1. auditRows' = auditRows
      BY <2>2, NextIs, ElsewhereKeeps DEF Plain, Publishes, Take, Abandon, SettleRequest,
         RestOfUseCase, StoreCode, PublishEvent, PublishFails, MissAudit, tableVars
    <3> QED BY <1>0, <3>1
  <2> QED BY <2>1, <2>2
<1>2. foreign' \in 0..MaxForeign
  <2>1. foreign' = foreign \/ (foreign < MaxForeign /\ foreign' = foreign + 1)
    BY DEF TrailNext, Take, Abandon, SettleRequest, RestOfUseCase, StoreCode, PublishEvent,
       PublishFails, MissAudit, WriteAudit, CodeGoes, ForeignAudit, ConsumerStarts, Deliver,
       HandleEvent, HandlerFails, ConsumerStops, brokerVars, trailVars
  <2> QED BY <1>0, <2>1
<1>3. told' \in [Namespaces -> 0..MaxCodes]
  <2>1. ASSUME NEW w \in Workers, PublishEvent(w) PROVE told' \in [Namespaces -> 0..MaxCodes]
    BY <1>0, <2>1 DEF PublishEvent, Request
  <2>2. CASE \A w \in Workers : ~PublishEvent(w)
    <3>1. told' = told
      BY <2>2, NextIs, ElsewhereKeeps DEF Plain, Publishes, Take, Abandon, SettleRequest,
         RestOfUseCase, StoreCode, WriteAudit, PublishFails, MissAudit, codeVars
    <3> QED BY <1>0, <3>1
  <2> QED BY <2>1, <2>2
<1>4. OtpTypeOK'
  <2>0. OtpTypeOK /\ MaxCodes \in Nat
    BY <1>0
  <2>1. ASSUME NEW ns \in Namespaces, Setex(ns) PROVE OtpTypeOK'
    <3>1. minted' \in 0..MaxCodes /\ minted + 1 \in 0..MaxCodes
      BY <2>0, <2>1 DEF OtpTypeOK, Setex
    <3>2. otp' \in [Namespaces -> 0..MaxCodes]
      BY <2>0, <2>1, <3>1 DEF OtpTypeOK, Setex
    <3> QED BY <2>0, <2>1, <3>1, <3>2 DEF OtpTypeOK, Setex
  <2>2. ASSUME NEW ns \in Namespaces, Expire(ns) PROVE OtpTypeOK'
    <3>1. 0 \in 0..MaxCodes
      BY <2>0
    <3>2. otp' \in [Namespaces -> 0..MaxCodes]
      BY <2>0, <2>2, <3>1 DEF OtpTypeOK, Expire
    <3> QED BY <2>0, <2>2, <3>2 DEF OtpTypeOK, Expire
  <2>3. ASSUME UNCHANGED otpVars PROVE OtpTypeOK'
    BY <1>0, <2>3 DEF OtpTypeOK, otpVars
  <2>4. \/ UNCHANGED otpVars \/ \E ns \in Namespaces : Setex(ns) \/ Expire(ns)
    <3>1. ASSUME NEW w \in Workers, StoreCode(w) PROVE \E ns \in Namespaces : Setex(ns)
      <4>1. Operand(w) \in Namespaces
        BY <3>1, StepMoves
      <4> QED BY <3>1, <4>1 DEF StoreCode
    <3>2. ASSUME \A w \in Workers : ~StoreCode(w), \A ns \in Namespaces : ~Expire(ns)
          PROVE  UNCHANGED otpVars
      BY <3>2 DEF TrailNext, Take, Abandon, SettleRequest, RestOfUseCase, PublishEvent,
         PublishFails, MissAudit, WriteAudit, CodeGoes, ForeignAudit, ConsumerStarts, Deliver,
         HandleEvent, HandlerFails, ConsumerStops, workerVars, trailVars
    <3> QED BY <3>1, <3>2
  <2> QED BY <2>1, <2>2, <2>3, <2>4
<1> QED BY <1>1, <1>2, <1>3, <1>4

\* The requests go on being proper.
LEMMA RequestsLive ==
    ASSUME Base, [TrailNext]_trailVars
    PROVE  req' \in [Workers -> Request] /\ LiveInv' /\ served' \in 0..MaxRequests
<1>1. ASSUME NEW w \in Workers, Take(w)
      PROVE  req' \in [Workers -> Request] /\ LiveInv' /\ served' \in 0..MaxRequests
  BY <1>1, TakeLive, Zenon
<1>2. served \in 0..MaxRequests /\ req \in [Workers -> Request]
  BY DEF Base, TrailTypeOK
<1>3. ASSUME NEW w \in Workers, Abandon(w)
      PROVE  req' \in [Workers -> Request] /\ LiveInv' /\ served' \in 0..MaxRequests
  BY <1>2, <1>3, AbandonLive DEF Abandon
<1>4. ASSUME NEW w \in Workers, Plain(w) \/ Publishes(w) \/ StoreCode(w)
      PROVE  req' \in [Workers -> Request] /\ LiveInv' /\ served' \in 0..MaxRequests
  <2>1. served' = served
    BY <1>4 DEF Plain, Publishes, SettleRequest, RestOfUseCase, StoreCode, PublishEvent,
       PublishFails, MissAudit, WriteAudit
  <2>2. PICK q : Moves(w, q) /\ (q.code # 0 => q # Idle /\ q.todo[1] = Publish)
    BY <1>4, StepMoves
  <2> QED BY <1>2, <2>1, <2>2, MovesLive
<1>5. CASE Elsewhere \/ UNCHANGED trailVars
  <2>1. req' = req /\ served' = served
    BY <1>5, ElsewhereKeeps DEF reqVars
  <2> QED BY <1>2, <2>1 DEF Base, LiveInv
<1> QED BY <1>1, <1>3, <1>4, <1>5, NextIs

\* The types are kept, and requests have what they need to go on.
THEOREM BaseInductive == TrailSpec => []Base
<1>1. TrailInit => Base
  <2> SUFFICES ASSUME TrailInit PROVE Base
    OBVIOUS
  <2>0. MaxRequests \in Nat /\ MaxForeign \in Nat /\ MaxCodes \in Nat
    BY TrailAssumption, OtpAssumption
  <2>1. req \in [Workers -> Request] /\ LiveInv
    BY IdleProper DEF TrailInit, LiveInv
  <2>2. OtpTypeOK
    BY <2>0 DEF TrailInit, OtpInit, OtpTypeOK
  <2>3. auditRows \in Seq([by : 1..MaxRequests, type : AuditEventType])
    BY EmptySequence DEF TrailInit
  <2>4. queue \in Seq(Payloads) /\ inbox \in Seq(Payloads) /\ eventRows \in Seq(RowTypes)
    BY EmptySequence DEF TrailInit
  <2>5. /\ served \in 0..MaxRequests /\ bound \in BOOLEAN /\ running \in BOOLEAN
        /\ foreign \in 0..MaxForeign /\ told \in [Namespaces -> 0..MaxCodes]
        /\ enqueued \in Nat /\ dropped \in Nat
    <3>1. /\ served = 0 /\ bound = FALSE /\ running = FALSE /\ foreign = 0
          /\ told = [ns \in Namespaces |-> 0] /\ enqueued = 0 /\ dropped = 0
      BY DEF TrailInit
    <3>2. 0 \in 0..MaxRequests /\ 0 \in 0..MaxForeign /\ 0 \in 0..MaxCodes
      BY <2>0
    <3>3. told \in [Namespaces -> 0..MaxCodes]
      BY <3>1, <3>2
    <3> QED BY <3>1, <3>2, <3>3
  <2> QED BY <2>1, <2>2, <2>3, <2>4, <2>5 DEF Base, TrailTypeOK
<1>2. Base /\ BrokerTypeOK' /\ [TrailNext]_trailVars => Base'
  BY TablesTyped, RequestsLive DEF Base, TrailTypeOK, BrokerTypeOK
<1>3. TrailSpec => []BrokerTypeOK
  <2>1. BrokerInv => BrokerTypeOK
    BY DEF BrokerInv
  <2> QED BY <2>1, BrokerInductive, PTL
<1> QED BY <1>1, <1>2, <1>3, PTL DEF TrailSpec

\* Whatever is published, every column gets a value of its type; requests,
\* rows and codes keep within their numbers (audit.py:35).
THEOREM TrailTypesHold == TrailSpec => []TrailTypeOK
<1>1. Base => TrailTypeOK
  BY DEF Base
<1> QED BY <1>1, BaseInductive, PTL

-----------------------------------------------------------------------------
(***************************************************************************)
(* What the audit log tells.                                               *)
(***************************************************************************)

\* What request n is still to record, t, is settled or will be, and no row
\* tells of it yet.
AheadOK(n, t) ==
    \A i \in DOMAIN t : t[i][1] = "audit" =>
        /\ \/ <<n, t[i][2]>> \in done
           \/ \E j \in DOMAIN t : j < i /\ t[j] = Settle(t[i][2])
        /\ \A k \in DOMAIN auditRows : auditRows[k].by # n

\* No two requests have the same number.
Numbered == \A v, w \in Workers : req[v].id = req[w].id /\ req[v].id # 0 => v = w

RowsOfServed == \A k \in DOMAIN auditRows : auditRows[k].by \in 1..served

RecordInv ==
    /\ Numbered /\ RowsOfServed /\ RecordsAreTrue
    /\ \A w \in Workers : AheadOK(req[w].id, req[w].todo)

\* The numbers stay different when a request goes on.
LEMMA MovesNumbered ==
    ASSUME Base, Numbered, NEW w \in Workers, NEW q, Moves(w, q)
    PROVE  Numbered'
<1>1. /\ q.id = 0 \/ q.id = req[w].id
      /\ \A v \in Workers : req'[v] = IF v = w THEN q ELSE req[v]
  BY DEF Moves, Base, TrailTypeOK, Idle
<1> QED BY <1>1 DEF Numbered

\* What is still to be recorded when a request goes on without recording.
LEMMA MovesAhead ==
    ASSUME Base, NEW w \in Workers, NEW q, Moves(w, q), auditRows' = auditRows,
           done \subseteq done',
           Head(req[w].todo)[1] = "settle" => <<req[w].id, Operand(w)>> \in done',
           AheadOK(req[w].id, req[w].todo)
    PROVE  AheadOK(q.id, q.todo)'
<1> DEFINE s == req[w].todo
           t == q.todo
<1>1. s \in Seq(Steps) /\ s # <<>> /\ Proper(s) /\ t = Tail(s)
  BY DEF Moves, Base, TrailTypeOK, Request, LiveInv
<1>2. /\ Head(s) = s[1] /\ DOMAIN s = 1..Len(s) /\ Len(s) \in Nat
      /\ DOMAIN t = 1..(Len(s) - 1)
      /\ \A i \in DOMAIN t : t[i] = s[i + 1]
      /\ \A i \in DOMAIN s : i # 1 => i - 1 \in DOMAIN t /\ t[i - 1] = s[i]
  BY <1>1, TailProper
<1> SUFFICES ASSUME NEW i \in DOMAIN t, t[i][1] = "audit"
             PROVE  /\ \/ <<q.id, t[i][2]>> \in done'
                       \/ \E j \in DOMAIN t : j < i /\ t[j] = Settle(t[i][2])
                    /\ \A k \in DOMAIN auditRows : auditRows[k].by # q.id
  BY DEF AheadOK
<1>3. i \in Nat /\ i + 1 \in DOMAIN s /\ t[i] = s[i + 1]
  BY <1>2
<1>4. q.id = req[w].id
  <2>1. t # <<>>
    OBVIOUS
  <2> QED BY <2>1, IdleProper DEF Moves
<1>5. \A k \in DOMAIN auditRows : auditRows[k].by # q.id
  BY <1>3, <1>4 DEF AheadOK
<1>6. \/ <<q.id, t[i][2]>> \in done
      \/ \E j \in DOMAIN s : j < i + 1 /\ s[j] = Settle(t[i][2])
  BY <1>3, <1>4 DEF AheadOK
<1>7. ASSUME NEW j \in DOMAIN s, j < i + 1, s[j] = Settle(t[i][2])
      PROVE  \/ <<q.id, t[i][2]>> \in done'
             \/ \E k \in DOMAIN t : k < i /\ t[k] = Settle(t[i][2])
  <2>1. CASE j = 1
    <3>1. Head(s)[1] = "settle" /\ Operand(w) = t[i][2]
      BY <1>2, <1>7, <2>1, StepsAre DEF Operand
    <3> QED BY <1>4, <3>1
  <2>2. CASE j # 1
    <3>1. j - 1 \in DOMAIN t /\ t[j - 1] = s[j]
      BY <1>2, <2>2, Zenon
    <3>2. j \in Nat
      BY <1>2
    <3>3. j - 1 < i
      BY <1>3, <1>7, <3>2
    <3> QED BY <1>7, <3>1, <3>3
  <2> QED BY <2>1, <2>2
<1> QED BY <1>5, <1>6, <1>7

\* A request that goes on without recording.
LEMMA MovesRecords ==
    ASSUME Base, RecordInv, NEW w \in Workers, NEW q, Moves(w, q), served' = served,
           auditRows' = auditRows, done \subseteq done',
           Head(req[w].todo)[1] = "settle" => <<req[w].id, Operand(w)>> \in done'
    PROVE  RecordInv'
<1>1. Numbered'
  BY MovesNumbered DEF RecordInv
<1>2. RowsOfServed' /\ RecordsAreTrue'
  BY DEF RecordInv, RowsOfServed, RecordsAreTrue
<1>3. AheadOK(q.id, q.todo)'
  BY MovesAhead DEF RecordInv
<1>4. ASSUME NEW v \in Workers PROVE AheadOK(req[v].id, req[v].todo)'
  <2>0. req'[v] = IF v = w THEN q ELSE req[v]
    BY DEF Moves, Base, TrailTypeOK
  <2>1. CASE v = w
    BY <1>3, <2>0, <2>1 DEF AheadOK
  <2>2. CASE v # w
    <3>1. AheadOK(req[v].id, req[v].todo)
      BY DEF RecordInv
    <3> QED BY <2>0, <2>2, <3>1 DEF AheadOK
  <2> QED BY <2>1, <2>2
<1> QED BY <1>1, <1>2, <1>4 DEF RecordInv

\* The row of a request: it happened, and no row told of it.
LEMMA RowRecords ==
    ASSUME Base, RecordInv, NEW w \in Workers, WriteAudit(w)
    PROVE  RecordInv'
<1> DEFINE row == [by |-> req[w].id, type |-> Operand(w)]
<1>1. /\ req[w].id \in 1..served /\ 1 \in DOMAIN req[w].todo /\ req[w].todo[1][1] = "audit"
      /\ Operand(w) = req[w].todo[1][2]
  BY RowWritten
<1>2. PICK q : Moves(w, q)
  BY StepMoves DEF Plain
<1>3. auditRows' = Append(auditRows, row) /\ done' = done /\ served' = served
  BY DEF WriteAudit
<1>4. /\ DOMAIN auditRows' = 1..(Len(auditRows) + 1) /\ DOMAIN auditRows = 1..Len(auditRows)
      /\ Len(auditRows) \in Nat /\ auditRows'[Len(auditRows) + 1] = row
      /\ \A k \in DOMAIN auditRows : auditRows'[k] = auditRows[k]
  <2>1. auditRows \in Seq([by : 1..MaxRequests, type : AuditEventType])
    BY DEF Base, TrailTypeOK
  <2> HIDE DEF row
  <2> QED BY <1>3, <2>1
<1>5. /\ <<req[w].id, Operand(w)>> \in done
      /\ \A k \in DOMAIN auditRows : auditRows[k].by # req[w].id
  <2>1. AheadOK(req[w].id, req[w].todo)
    BY DEF RecordInv
  <2>2. \A j \in DOMAIN req[w].todo : ~(j < 1)
    <3>1. req[w].todo \in Seq(Steps)
      BY DEF Base, TrailTypeOK, Request
    <3> QED BY <3>1
  <2> QED BY <1>1, <2>1, <2>2 DEF AheadOK
<1>6. \A k \in DOMAIN auditRows' : k = Len(auditRows) + 1 \/ k \in DOMAIN auditRows
  BY <1>4
<1>7. Numbered'
  BY <1>2, MovesNumbered DEF RecordInv
<1>8. RowsOfServed'
  BY <1>1, <1>3, <1>4, <1>6 DEF RecordInv, RowsOfServed
<1>9. RecordsAreTrue'
  <2>1. \A i \in DOMAIN auditRows' : <<auditRows'[i].by, auditRows'[i].type>> \in done'
    BY <1>3, <1>4, <1>5, <1>6 DEF RecordInv, RecordsAreTrue
  <2>2. \A i, j \in DOMAIN auditRows' : auditRows'[i].by = auditRows'[j].by => i = j
    BY <1>4, <1>5, <1>6 DEF RecordInv, RecordsAreTrue
  <2> QED BY <2>1, <2>2 DEF RecordsAreTrue
<1>10. ASSUME NEW v \in Workers PROVE AheadOK(req[v].id, req[v].todo)'
  <2>0. req'[v] = IF v = w THEN q ELSE req[v]
    BY <1>2 DEF Moves, Base, TrailTypeOK
  <2>1. CASE v = w
    <3>1. q.todo = Tail(req[w].todo) /\ req[w].todo \in Seq(Steps) /\ req[w].todo # <<>>
          /\ Proper(req[w].todo)
      BY <1>2 DEF Moves, Base, TrailTypeOK, Request, LiveInv
    <3>2. \A i \in DOMAIN q.todo : q.todo[i][1] # "audit"
      <4> SUFFICES ASSUME NEW i \in DOMAIN q.todo, q.todo[i][1] = "audit" PROVE FALSE
        OBVIOUS
      <4>1. i \in Nat /\ i >= 1 /\ i + 1 \in DOMAIN req[w].todo /\ q.todo[i] = req[w].todo[i + 1]
        BY <3>1, TailProper
      <4>2. 1 = i + 1
        BY <1>1, <3>1, <4>1 DEF Proper, RecordsOnce
      <4> QED BY <4>1, <4>2
    <3> QED BY <2>0, <2>1, <3>2 DEF AheadOK
  <2>2. CASE v # w
    <3>1. AheadOK(req[v].id, req[v].todo) /\ req[v].id # req[w].id
      BY <1>1, <2>2 DEF RecordInv, Numbered
    <3>2. \A k \in DOMAIN auditRows' : auditRows'[k].by = req[v].id =>
              k \in DOMAIN auditRows /\ auditRows[k].by = req[v].id
      BY <1>4, <1>6, <3>1
    <3> QED BY <1>3, <2>0, <2>2, <3>1, <3>2 DEF AheadOK
  <2> QED BY <2>1, <2>2
<1> QED BY <1>7, <1>8, <1>9, <1>10 DEF RecordInv

\* The request that is taken has a number no row tells of, and its view
\* records only what it settles.
LEMMA TakeRecords ==
    ASSUME Base, RecordInv, NEW w \in Workers, Take(w)
    PROVE  RecordInv'
<1>1. /\ auditRows' = auditRows /\ done' = done /\ served' = served + 1
      /\ req \in [Workers -> Request] /\ served \in Nat
  BY DEF Take, tableVars, Base, TrailTypeOK
<1>2. PICK view \in Views :
          /\ req' = [req EXCEPT ![w] = [Idle EXCEPT !.id = served', !.todo = view]]
          /\ ProperView(view)
  BY TakeLive, Zenon
<1> DEFINE q == [Idle EXCEPT !.id = served', !.todo = view]
<1>3. q.id = served' /\ q.todo = view
  BY DEF Idle
<1>4. \A v \in Workers : req'[v] = IF v = w THEN q ELSE req[v]
  BY <1>1, <1>2
<1> HIDE DEF q
<1>5. \A v \in Workers : req[v].id = 0 \/ req[v].id \in 1..served
  BY DEF Base, LiveInv, Idle
<1>6. Numbered'
  BY <1>1, <1>3, <1>4, <1>5 DEF RecordInv, Numbered
<1>7. RowsOfServed' /\ RecordsAreTrue'
  BY <1>1 DEF RecordInv, RowsOfServed, RecordsAreTrue
<1>8. ASSUME NEW v \in Workers PROVE AheadOK(req[v].id, req[v].todo)'
  <2>1. CASE v = w
    <3>1. \A k \in DOMAIN auditRows : auditRows[k].by # served'
      BY <1>1 DEF RecordInv, RowsOfServed
    <3>2. req'[v].id = served' /\ req'[v].todo = view
      BY <1>3, <1>4, <2>1
    <3> QED BY <1>1, <1>2, <3>1, <3>2 DEF AheadOK, ProperView, RecordsSettled
  <2>2. CASE v # w
    <3>1. AheadOK(req[v].id, req[v].todo)
      BY DEF RecordInv
    <3> QED BY <1>1, <1>4, <2>2, <3>1 DEF AheadOK
  <2> QED BY <2>1, <2>2
<1> QED BY <1>6, <1>7, <1>8 DEF RecordInv

\* A request that is given up has nothing more to record.
LEMMA AbandonRecords ==
    ASSUME Base, RecordInv, NEW w \in Workers, Abandon(w)
    PROVE  RecordInv'
<1>1. /\ auditRows' = auditRows /\ done' = done /\ served' = served
      /\ \A v \in Workers : req'[v] = IF v = w THEN Idle ELSE req[v]
  BY DEF Abandon, Base, TrailTypeOK
<1>2. Numbered'
  BY <1>1 DEF RecordInv, Numbered, Idle
<1>3. RowsOfServed' /\ RecordsAreTrue'
  BY <1>1 DEF RecordInv, RowsOfServed, RecordsAreTrue
<1>4. ASSUME NEW v \in Workers PROVE AheadOK(req[v].id, req[v].todo)'
  <2>1. CASE v = w
    <3>1. \A i \in DOMAIN Idle.todo : FALSE
      <4>1. \A i \in DOMAIN <<>> : FALSE
        OBVIOUS
      <4> QED BY <4>1, IdleProper
    <3> QED BY <1>1, <2>1, <3>1 DEF AheadOK
  <2>2. CASE v # w
    <3>1. AheadOK(req[v].id, req[v].todo)
      BY DEF RecordInv
    <3> QED BY <1>1, <2>2, <3>1 DEF AheadOK
  <2> QED BY <2>1, <2>2
<1> QED BY <1>2, <1>3, <1>4 DEF RecordInv

\* The records are kept true by every step.
THEOREM RecordInductive == TrailSpec => []RecordInv
<1>1. TrailInit => RecordInv
  <2> SUFFICES ASSUME TrailInit PROVE RecordInv
    OBVIOUS
  <2>1. /\ \A w \in Workers : req[w] = Idle
        /\ \A i \in DOMAIN auditRows : FALSE
        /\ \A i \in DOMAIN Idle.todo : FALSE
    <3>1. \A i \in DOMAIN <<>> : FALSE
      OBVIOUS
    <3>2. auditRows = <<>> /\ req = [w \in Workers |-> Idle]
      BY DEF TrailInit
    <3> QED BY <3>1, <3>2, IdleProper
  <2>2. Numbered
    BY <2>1 DEF Numbered, Idle
  <2> QED BY <2>1, <2>2 DEF RecordInv, RowsOfServed, RecordsAreTrue, AheadOK
<1>2. Base /\ RecordInv /\ [TrailNext]_trailVars => RecordInv'
  <2> SUFFICES ASSUME Base, RecordInv, [TrailNext]_trailVars PROVE RecordInv'
    OBVIOUS
  <2>1. ASSUME NEW w \in Workers, Plain(w) \/ Publishes(w) \/ StoreCode(w), ~WriteAudit(w)
        PROVE  RecordInv'
    <3>1. PICK q : Moves(w, q)
      BY <2>1, StepMoves
    <3>2. /\ auditRows' = auditRows /\ done \subseteq done' /\ served' = served
          /\ Head(req[w].todo)[1] = "settle" => <<req[w].id, Operand(w)>> \in done'
      BY <2>1 DEF Plain, Publishes, SettleRequest, RestOfUseCase, StoreCode, PublishEvent,
         PublishFails, MissAudit, AtStep, tableVars
    <3> QED BY <3>1, <3>2, MovesRecords
  <2>2. CASE Elsewhere \/ UNCHANGED trailVars
    <3>1. UNCHANGED <<req, served, auditRows, done>>
      BY <2>2, ElsewhereKeeps DEF reqVars, tableVars
    <3> QED BY <3>1 DEF RecordInv, Numbered, RowsOfServed, RecordsAreTrue, AheadOK
  <2> QED BY <2>1, <2>2, NextIs, TakeRecords, AbandonRecords, RowRecords
<1> QED BY <1>1, <1>2, BaseInductive, PTL DEF TrailSpec

\* A row of the audit log tells of something that happened, and of each
\* request one row tells at most (views.py:172), whatever fails or dies.
THEOREM RecordsAlwaysTrue == TrailSpec => []RecordsAreTrue
<1>1. RecordInv => RecordsAreTrue
  BY DEF RecordInv
<1> QED BY <1>1, RecordInductive, PTL

\* Of request n, the record of this type is written, ahead, or lost.
Known(n, type) ==
    \/ \E i \in DOMAIN auditRows : auditRows[i].by = n /\ auditRows[i].type = type
    \/ \E w \in Workers : req[w].id = n
          /\ \E i \in DOMAIN req[w].todo : req[w].todo[i] \in {Audit(type), Skip}
    \/ n \in skipped

\* A step of a request forgets nothing: the record its first step was to write
\* is written or lost, the others are still ahead.
LEMMA MovesForgetNothing ==
    ASSUME Base, NEW w \in Workers, NEW q, Moves(w, q), skipped \subseteq skipped',
           \A i \in DOMAIN auditRows : i \in DOMAIN auditRows' /\ auditRows'[i] = auditRows[i],
           Head(req[w].todo)[1] \in {"audit", "skip"} =>
               \/ req[w].id \in skipped'
               \/ /\ Head(req[w].todo)[1] = "audit"
                  /\ \E i \in DOMAIN auditRows' :
                        auditRows'[i].by = req[w].id /\ auditRows'[i].type = Operand(w),
           NEW id, id = req[w].id, NEW operand, operand = Operand(w)
    PROVE  /\ \A n, type : Known(n, type) => Known(n, type)'
           /\ Head(req[w].todo)[1] = "settle" => Known(id, operand)'
<1> DEFINE s == req[w].todo
           t == q.todo
<1>1. /\ s \in Seq(Steps) /\ s # <<>> /\ Proper(s) /\ t = Tail(s)
      /\ \A v \in Workers : req'[v] = IF v = w THEN q ELSE req[v]
  BY DEF Moves, Base, TrailTypeOK, Request, LiveInv
<1>2. /\ Head(s) = s[1] /\ DOMAIN s = 1..Len(s) /\ Len(s) \in Nat
      /\ \A i \in DOMAIN s : i # 1 => i - 1 \in DOMAIN t /\ t[i - 1] = s[i]
      /\ 1 \in DOMAIN s
  <2> HIDE DEF s, t
  <2> QED BY <1>1, TailProper
<1>3. ASSUME NEW i \in DOMAIN s, i # 1
      PROVE  q.id = req[w].id
  <2>1. t # <<>>
    <3>1. \A j : j \notin DOMAIN <<>>
      OBVIOUS
    <3>2. i - 1 \in DOMAIN t
      BY <1>2, <1>3
    <3> HIDE DEF t
    <3> QED BY <3>1, <3>2
  <2> QED BY <2>1, IdleProper DEF Moves
<1>4. ASSUME NEW type, NEW i \in DOMAIN s, i # 1, s[i] \in {Audit(type), Skip}
      PROVE  Known(id, type)'
  <2>1. req'[w].id = req[w].id /\ req'[w].todo = t
    BY <1>1, <1>3, <1>4
  <2>2. i - 1 \in DOMAIN t /\ t[i - 1] = s[i]
    BY <1>2, <1>4
  <2> QED BY <1>4, <2>1, <2>2 DEF Known
<1>5. ASSUME NEW n, NEW type, Known(n, type) PROVE Known(n, type)'
  <2>1. CASE \E i \in DOMAIN auditRows : auditRows[i].by = n /\ auditRows[i].type = type
    BY <2>1 DEF Known
  <2>2. CASE n \in skipped
    BY <2>2 DEF Known
  <2>3. ASSUME NEW v \in Workers, req[v].id = n, NEW i \in DOMAIN req[v].todo,
               req[v].todo[i] \in {Audit(type), Skip}
        PROVE  Known(n, type)'
    <3>1. CASE v # w
      <4>1. req'[v] = req[v]
        BY <1>1, <3>1
      <4>2. \E x \in Workers : req'[x].id = n
               /\ \E k \in DOMAIN req'[x].todo : req'[x].todo[k] \in {Audit(type), Skip}
        BY <2>3, <4>1
      <4> QED BY <4>2 DEF Known
    <3>2. CASE v = w /\ i # 1
      BY <1>4, <2>3, <3>2
    <3>3. CASE v = w /\ i = 1
      <4>1. Head(s) \in {Audit(type), Skip}
        BY <1>2, <2>3, <3>3
      <4>2. /\ Head(s)[1] \in {"audit", "skip"}
            /\ Head(s)[1] = "audit" => Operand(w) = type
        BY <4>1, StepsAre DEF Operand
      <4> QED BY <2>3, <3>3, <4>2 DEF Known
    <3> QED BY <3>1, <3>2, <3>3
  <2> QED BY <1>5, <2>1, <2>2, <2>3 DEF Known
<1>6. ASSUME Head(s)[1] = "settle" PROVE Known(id, operand)'
  <2>0. s[1][1] = "settle" /\ s[1][2] = operand
    BY <1>2, <1>6 DEF Operand
  <2>1. PICK j \in DOMAIN s : j > 1 /\ s[j] \in {Audit(operand), Skip}
    <3> HIDE DEF s
    <3> QED BY <1>1, <1>2, <2>0 DEF Proper, Remembers
  <2>2. j # 1
    BY <1>2, <2>1
  <2> QED BY <1>4, <2>1, <2>2, Zenon
<1> QED BY <1>5, <1>6

\* What is forgotten by no step, by each kind of step.
LEMMA StepForgetsNothing ==
    ASSUME Base, NothingForgotten, NEW w \in Workers, Plain(w) \/ Publishes(w) \/ StoreCode(w)
    PROVE  NothingForgotten'
<1>1. PICK q : Moves(w, q)
  BY StepMoves
<1>2. PICK id, operand : id = req[w].id /\ operand = Operand(w)
  OBVIOUS
<1>3. /\ skipped \subseteq skipped'
      /\ \A i \in DOMAIN auditRows : i \in DOMAIN auditRows' /\ auditRows'[i] = auditRows[i]
      /\ Head(req[w].todo)[1] \in {"audit", "skip"} =>
             \/ req[w].id \in skipped'
             \/ /\ Head(req[w].todo)[1] = "audit"
                /\ \E i \in DOMAIN auditRows' :
                      auditRows'[i].by = req[w].id /\ auditRows'[i].type = Operand(w)
  <2>1. CASE WriteAudit(w)
    <3> DEFINE row == [by |-> req[w].id, type |-> Operand(w)]
               Rows == [by : 1..MaxRequests, type : AuditEventType]
    <3>1. /\ auditRows' = Append(auditRows, row) /\ skipped' = skipped
          /\ Head(req[w].todo)[1] = "audit" /\ auditRows \in Seq(Rows)
      BY <2>1 DEF WriteAudit, AtStep, Base, TrailTypeOK
    <3>2. row.by = req[w].id /\ row.type = Operand(w)
      OBVIOUS
    <3> HIDE DEF row, Rows
    <3>3. /\ \A i \in DOMAIN auditRows : i \in DOMAIN auditRows' /\ auditRows'[i] = auditRows[i]
          /\ Len(auditRows) + 1 \in DOMAIN auditRows' /\ auditRows'[Len(auditRows) + 1] = row
      BY <3>1
    <3> QED BY <3>1, <3>2, <3>3
  <2>2. CASE MissAudit(w)
    BY <2>2 DEF MissAudit
  <2>3. CASE ~WriteAudit(w) /\ ~MissAudit(w)
    <3>1. UNCHANGED <<skipped, auditRows>> /\ Head(req[w].todo)[1] \notin {"audit", "skip"}
      BY <2>3 DEF Plain, Publishes, SettleRequest, RestOfUseCase, StoreCode, PublishEvent,
         PublishFails, AtStep, tableVars
    <3> QED BY <3>1
  <2> QED BY <2>1, <2>2, <2>3
<1>4. /\ \A n, type : Known(n, type) => Known(n, type)'
      /\ Head(req[w].todo)[1] = "settle" => Known(id, operand)'
  BY <1>1, <1>2, <1>3, MovesForgetNothing
<1>5. done' = done \/ (Head(req[w].todo)[1] = "settle" /\ done' = done \cup {<<id, operand>>})
  BY <1>2 DEF Plain, Publishes, SettleRequest, RestOfUseCase, StoreCode, PublishEvent,
     PublishFails, WriteAudit, MissAudit, AtStep, tableVars
<1>6. \A d \in done : Known(d[1], d[2])
  BY DEF NothingForgotten, Known
<1>7. \A d \in done' : Known(d[1], d[2])'
  <2> SUFFICES ASSUME NEW d \in done' PROVE Known(d[1], d[2])'
    OBVIOUS
  <2>1. CASE d \in done
    BY <1>4, <1>6, <2>1
  <2>2. CASE d \notin done
    <3>1. d[1] = id /\ d[2] = operand /\ Head(req[w].todo)[1] = "settle"
      BY <1>5, <2>2
    <3> QED BY <1>4, <3>1
  <2> QED BY <2>1, <2>2
<1> QED BY <1>7 DEF NothingForgotten, Known

\* A request that is taken takes the place of none; one that is given up is
\* counted as skipped.
LEMMA ComingAndGoing ==
    ASSUME Base, NothingForgotten, NEW w \in Workers, Take(w) \/ Abandon(w)
    PROVE  NothingForgotten'
<1>1. auditRows' = auditRows /\ done' = done /\ skipped \subseteq skipped'
  BY DEF Take, Abandon, tableVars
<1>2. \A v \in Workers : v # w => req'[v] = req[v]
  BY DEF Take, Abandon, Base, TrailTypeOK
<1>3. (\A i \in DOMAIN req[w].todo : FALSE) \/ req[w].id \in skipped'
  <2>1. CASE Take(w)
    <3>1. \A i \in DOMAIN <<>> : FALSE
      OBVIOUS
    <3> QED BY <2>1, <3>1, IdleProper DEF Take
  <2>2. CASE Abandon(w)
    BY <2>2 DEF Abandon
  <2> QED BY <2>1, <2>2
<1> SUFFICES ASSUME NEW d \in done PROVE Known(d[1], d[2])'
  BY <1>1 DEF NothingForgotten, Known
<1>4. CASE \E i \in DOMAIN auditRows : auditRows[i].by = d[1] /\ auditRows[i].type = d[2]
  BY <1>1, <1>4 DEF Known
<1>5. CASE d[1] \in skipped
  BY <1>1, <1>5 DEF Known
<1>6. ASSUME NEW v \in Workers, req[v].id = d[1], NEW i \in DOMAIN req[v].todo,
             req[v].todo[i] \in {Audit(d[2]), Skip}
      PROVE  Known(d[1], d[2])'
  <2>1. CASE v = w
    BY <1>3, <1>6, <2>1 DEF Known
  <2>2. CASE v # w
    <3>1. req'[v] = req[v]
      BY <1>2, <2>2
    <3>2. \E x \in Workers : req'[x].id = d[1]
             /\ \E k \in DOMAIN req'[x].todo : req'[x].todo[k] \in {Audit(d[2]), Skip}
      BY <1>6, <3>1
    <3> QED BY <3>2 DEF Known
  <2> QED BY <2>1, <2>2
<1> QED BY <1>4, <1>5, <1>6 DEF NothingForgotten

\* What has happened is in the audit log, about to be written there, or its
\* record was lost to a failure or to an address typed in another case
\* (views.py:535): no step of any view forgets it.
THEOREM NothingEverForgotten == TrailSpec => []NothingForgotten
<1>1. TrailInit => NothingForgotten
  BY DEF TrailInit, NothingForgotten
<1>2. Base /\ NothingForgotten /\ [TrailNext]_trailVars => NothingForgotten'
  <2> SUFFICES ASSUME Base, NothingForgotten, [TrailNext]_trailVars PROVE NothingForgotten'
    OBVIOUS
  <2>1. CASE Elsewhere \/ UNCHANGED trailVars
    <3>1. UNCHANGED <<req, skipped, auditRows, done>>
      BY <2>1, ElsewhereKeeps DEF reqVars, tableVars
    <3> QED BY <3>1 DEF NothingForgotten
  <2> QED BY <2>1, NextIs, StepForgetsNothing, ComingAndGoing
<1> QED BY <1>1, <1>2, BaseInductive, PTL DEF TrailSpec

-----------------------------------------------------------------------------
(***************************************************************************)
(* What users are told of their codes.                                     *)
(***************************************************************************)

\* A code that waits to be announced is no newer than the one in Redis, and
\* older only if the two crossed.
CodeInv ==
    \A w \in Workers, ns \in Namespaces :
        Announcing(w, ns) =>
            /\ req[w].code <= minted
            /\ otp[ns] # 0 => req[w].code <= otp[ns]
            /\ otp[ns] # 0 /\ req[w].code < otp[ns] => ns \in crossed

CodesInv == CodeInv /\ LastToldIsCurrent

\* The facts about codes that are numbers.
LEMMA CodesAreNat ==
    ASSUME Base
    PROVE  /\ minted \in Nat /\ \A ns \in Namespaces : otp[ns] \in Nat /\ told[ns] \in Nat
           /\ \A w \in Workers : req[w].code \in Nat /\ req[w].ns \in Namespaces
           /\ DOMAIN otp = Namespaces /\ DOMAIN told = Namespaces
<1>1. /\ minted \in 0..MaxCodes /\ otp \in [Namespaces -> 0..MaxCodes]
      /\ told \in [Namespaces -> 0..MaxCodes] /\ MaxCodes \in Nat
      /\ req \in [Workers -> Request]
  BY OtpAssumption DEF Base, TrailTypeOK, OtpTypeOK
<1> QED BY <1>1 DEF Request

\* A step that leaves Redis and what was told alone, and nobody's code.
LEMMA CodesKept ==
    ASSUME CodesInv, \A ns \in Namespaces : otp'[ns] \in {0, otp[ns]},
           UNCHANGED <<minted, told, untold, crossed>>,
           \A v \in Workers, ns \in Namespaces :
               Announcing(v, ns)' <=> (Announcing(v, ns) /\ req'[v].code = req[v].code),
           \A v \in Workers, ns \in Namespaces : Announcing(v, ns) => Announcing(v, ns)',
           Base
    PROVE  CodesInv'
<1>1. CodeInv'
  BY DEF CodesInv, CodeInv
<1>2. LastToldIsCurrent'
  BY CodesAreNat DEF CodesInv, LastToldIsCurrent
<1> QED BY <1>1, <1>2 DEF CodesInv

\* A worker that has not a code to announce, before and after.
LEMMA NoCodeMoves ==
    ASSUME Base, CodesInv, NEW w \in Workers, NEW r, req' = [req EXCEPT ![w] = r],
           req[w].code = 0, r.code = 0, UNCHANGED <<otp, minted, told, untold, crossed>>
    PROVE  CodesInv'
<1>1. \A v \in Workers : req'[v] = IF v = w THEN r ELSE req[v]
  BY DEF Base, TrailTypeOK
<1>2. \A v \in Workers, ns \in Namespaces :
          /\ Announcing(v, ns)' <=> (Announcing(v, ns) /\ req'[v].code = req[v].code)
          /\ Announcing(v, ns) => Announcing(v, ns)'
  BY <1>1 DEF Announcing
<1>3. \A ns \in Namespaces : otp'[ns] \in {0, otp[ns]}
  OBVIOUS
<1> QED BY <1>2, <1>3, CodesKept

\* The new code is announced next; others that wait have crossed it.
LEMMA StoreCodes ==
    ASSUME Base, CodesInv, NEW w \in Workers, StoreCode(w)
    PROVE  CodesInv'
<1>1. PICK q : /\ Moves(w, q) /\ req[w].code = 0 /\ q.code = minted + 1 /\ q.ns = Operand(w)
               /\ q.ns \in Namespaces
  BY StepMoves DEF Publishes, PublishEvent, PublishFails, StoreCode, AtStep
<1>2. PICK ns \in Namespaces : ns = Operand(w)
  BY <1>1
<1>3. /\ \A v \in Workers : req'[v] = IF v = w THEN q ELSE req[v]
      /\ \A x \in Namespaces : otp'[x] = IF x = ns THEN minted + 1 ELSE otp[x]
      /\ minted' = minted + 1 /\ told' = told /\ untold' = untold /\ crossed \subseteq crossed'
      /\ (\E v \in Workers : Announcing(v, ns)) => ns \in crossed'
  BY <1>1, <1>2, CodesAreNat DEF Moves, Base, TrailTypeOK, StoreCode, Setex
<1>4. CodeInv'
  <2> SUFFICES ASSUME NEW v \in Workers, NEW x \in Namespaces, Announcing(v, x)'
               PROVE  /\ req'[v].code <= minted'
                      /\ otp'[x] # 0 => req'[v].code <= otp'[x]
                      /\ otp'[x] # 0 /\ req'[v].code < otp'[x] => x \in crossed'
    BY DEF CodeInv
  <2>1. CASE v = w
    <3>1. x = ns /\ req'[v].code = minted + 1
      BY <1>1, <1>2, <1>3, <2>1 DEF Announcing
    <3> QED BY <1>3, <3>1, CodesAreNat
  <2>2. CASE v # w
    <3>1. Announcing(v, x) /\ req'[v].code = req[v].code
      BY <1>3, <2>2 DEF Announcing
    <3>2. req[v].code <= minted
      BY <3>1 DEF CodesInv, CodeInv
    <3>3. CASE x = ns
      BY <1>3, <3>1, <3>2, <3>3, CodesAreNat
    <3>4. CASE x # ns
      BY <1>3, <3>1, <3>2, <3>4, CodesAreNat DEF CodesInv, CodeInv
    <3> QED BY <3>3, <3>4
  <2> QED BY <2>1, <2>2
<1>5. LastToldIsCurrent'
  <2> SUFFICES ASSUME NEW x \in Namespaces, told'[x] < otp'[x]
               PROVE  \/ otp'[x] \in untold' \/ x \in crossed'
                      \/ \E v \in Workers : Announcing(v, x)'
    BY DEF LastToldIsCurrent
  <2>1. CASE x = ns
    <3>1. Announcing(w, ns)'
      BY <1>1, <1>2, <1>3, CodesAreNat DEF Announcing
    <3> QED BY <2>1, <3>1
  <2>2. CASE x # ns
    <3>1. otp[x] \in untold \/ x \in crossed \/ \E v \in Workers : Announcing(v, x)
      BY <1>3, <2>2 DEF CodesInv, LastToldIsCurrent
    <3>2. \A v \in Workers : Announcing(v, x) => Announcing(v, x)'
      BY <1>1, <1>3 DEF Announcing
    <3> QED BY <1>3, <2>2, <3>1, <3>2
  <2> QED BY <2>1, <2>2
<1> QED BY <1>4, <1>5 DEF CodesInv

\* A code that is announced, or lost, waits no longer.
LEMMA CodeLeaves ==
    ASSUME Base, CodesInv, NEW w \in Workers, NEW r, req' = [req EXCEPT ![w] = r], r.code = 0,
           UNCHANGED <<otp, minted, crossed>>,
           \/ /\ told' = IF req[w].code # 0 THEN [told EXCEPT ![req[w].ns] = req[w].code] ELSE told
              /\ untold' = untold
           \/ told' = told /\ LeaveCode(w)
    PROVE  CodesInv'
<1>1. \A v \in Workers : req'[v] = IF v = w THEN r ELSE req[v]
  BY DEF Base, TrailTypeOK
<1>2. CodeInv'
  BY <1>1, CodesAreNat DEF CodesInv, CodeInv, Announcing
<1>3. LastToldIsCurrent'
  <2> SUFFICES ASSUME NEW x \in Namespaces, told'[x] < otp'[x]
               PROVE  \/ otp'[x] \in untold' \/ x \in crossed'
                      \/ \E v \in Workers : Announcing(v, x)'
    BY DEF LastToldIsCurrent
  <2>1. CASE Announcing(w, x)
    <3>1. /\ req[w].code # 0 /\ req[w].ns = x /\ otp[x] \in Nat /\ told[x] \in Nat
          /\ req[w].code \in Nat /\ otp'[x] = otp[x]
      BY <2>1, CodesAreNat DEF Announcing
    <3>2. CASE told' = told
      <4>1. otp[x] # 0 /\ req[w].code <= otp[x]
            /\ (req[w].code < otp[x] => x \in crossed)
        BY <2>1, <3>1, <3>2 DEF CodesInv, CodeInv
      <4>2. CASE LeaveCode(w)
        BY <3>1, <4>1, <4>2 DEF LeaveCode
      <4>3. CASE told' = [told EXCEPT ![req[w].ns] = req[w].code]
        <5>1. told'[x] = req[w].code
          BY <3>1, <4>3, CodesAreNat
        <5> QED BY <3>1, <4>1, <5>1
      <4> QED BY <3>1, <4>2, <4>3
    <3>3. CASE told' = [told EXCEPT ![req[w].ns] = req[w].code]
      <4>1. told'[x] = req[w].code
        BY <3>1, <3>3, CodesAreNat
      <4>2. x \in crossed
        BY <2>1, <3>1, <4>1 DEF CodesInv, CodeInv
      <4> QED BY <4>2
    <3> QED BY <3>1, <3>2, <3>3
  <2>2. CASE ~Announcing(w, x)
    <3>1. told'[x] = told[x] /\ untold \subseteq untold'
      BY <2>2, CodesAreNat DEF Announcing, LeaveCode
    <3>2. otp[x] \in untold \/ x \in crossed \/ \E v \in Workers : Announcing(v, x)
      BY <3>1 DEF CodesInv, LastToldIsCurrent
    <3>3. \A v \in Workers : Announcing(v, x) => Announcing(v, x)'
      BY <1>1, <2>2 DEF Announcing
    <3> QED BY <3>1, <3>2, <3>3
  <2> QED BY <2>1, <2>2
<1> QED BY <1>2, <1>3 DEF CodesInv

\* Codes and what is told of them, through every step.
THEOREM CodesInductive == TrailSpec => []CodesInv
<1>1. TrailInit => CodesInv
  <2> SUFFICES ASSUME TrailInit PROVE CodesInv
    OBVIOUS
  <2>1. /\ \A w \in Workers : req[w].code = 0
        /\ \A ns \in Namespaces : told[ns] = 0 /\ otp[ns] = 0
    BY IdleProper DEF TrailInit, OtpInit
  <2> QED BY <2>1 DEF CodesInv, CodeInv, LastToldIsCurrent, Announcing
<1>2. Base /\ CodesInv /\ [TrailNext]_trailVars => CodesInv'
  <2> SUFFICES ASSUME Base, CodesInv, [TrailNext]_trailVars PROVE CodesInv'
    OBVIOUS
  <2>1. ASSUME NEW w \in Workers, Take(w) PROVE CodesInv'
    <3>1. PICK view \in Views : req' = [req EXCEPT ![w] = [Idle EXCEPT !.id = served + 1, !.todo = view]]
      BY <2>1 DEF Take
    <3>2. PICK n : n = served + 1
      OBVIOUS
    <3> DEFINE r == [Idle EXCEPT !.id = n, !.todo = view]
    <3>3. r.code = 0 /\ req[w].code = 0 /\ UNCHANGED <<otp, minted, told, untold, crossed>>
      BY <2>1 DEF Take, Idle, codeVars, otpVars
    <3>4. req' = [req EXCEPT ![w] = r]
      BY <3>1, <3>2
    <3> HIDE DEF r
    <3> QED BY <3>3, <3>4, NoCodeMoves
  <2>2. ASSUME NEW w \in Workers, Plain(w) PROVE CodesInv'
    <3>1. PICK q : Moves(w, q) /\ req[w].code = 0 /\ q.code = 0
      BY <2>2, StepMoves DEF Plain, Publishes, SettleRequest, RestOfUseCase, WriteAudit,
         MissAudit, PublishEvent, PublishFails, StoreCode, AtStep
    <3>2. UNCHANGED <<otp, minted, told, untold, crossed>>
      BY <2>2 DEF Plain, SettleRequest, RestOfUseCase, WriteAudit, MissAudit, codeVars, otpVars
    <3> QED BY <3>1, <3>2, NoCodeMoves DEF Moves
  <2>3. ASSUME NEW w \in Workers, Publishes(w) PROVE CodesInv'
    <3>1. PICK q : Moves(w, q) /\ q.code = 0
      BY <2>3, StepMoves DEF Publishes, PublishEvent, PublishFails, StoreCode, AtStep
    <3>2. /\ UNCHANGED <<otp, minted, crossed>>
          /\ \/ /\ told' = IF req[w].code # 0 THEN [told EXCEPT ![req[w].ns] = req[w].code]
                                             ELSE told
                /\ untold' = untold
             \/ told' = told /\ LeaveCode(w)
      BY <2>3 DEF Publishes, PublishEvent, PublishFails, otpVars
    <3> QED BY <3>1, <3>2, CodeLeaves DEF Moves
  <2>4. ASSUME NEW w \in Workers, Abandon(w) PROVE CodesInv'
    <3>1. /\ req' = [req EXCEPT ![w] = Idle] /\ UNCHANGED <<otp, minted, crossed>>
          /\ told' = told /\ LeaveCode(w)
      BY <2>4 DEF Abandon, otpVars
    <3> QED BY <3>1, CodeLeaves, IdleProper
  <2>5. CASE Elsewhere \/ UNCHANGED trailVars
    <3>1. UNCHANGED <<req, told, untold, crossed, minted>>
          /\ \A ns \in Namespaces : otp'[ns] \in {0, otp[ns]}
      <4>1. UNCHANGED <<req, told, untold, crossed>>
        BY <2>5, ElsewhereKeeps DEF reqVars, codeVars
      <4>2. UNCHANGED otpVars \/ \E ns \in Namespaces : Expire(ns)
        BY <2>5 DEF Elsewhere, CodeGoes, ForeignAudit, ConsumerStarts, Deliver, HandleEvent,
           HandlerFails, ConsumerStops, workerVars, trailVars
      <4> QED BY <4>1, <4>2, CodesAreNat DEF Expire, otpVars
    <3>2. \A v \in Workers, ns \in Namespaces :
              /\ Announcing(v, ns)' <=> (Announcing(v, ns) /\ req'[v].code = req[v].code)
              /\ Announcing(v, ns) => Announcing(v, ns)'
      BY <3>1 DEF Announcing
    <3> QED BY <3>1, <3>2, CodesKept
  <2> QED BY <2>1, <2>2, <2>3, <2>4, <2>5, NextIs, StoreCodes
<1> QED BY <1>1, <1>2, BaseInductive, PTL DEF TrailSpec

\* The code a user was told last is older than the one in Redis only if the
\* newer one was never announced, or two requests crossed (otp_service.py:34).
THEOREM LastToldAlwaysCurrent == TrailSpec => []LastToldIsCurrent
<1>1. CodesInv => LastToldIsCurrent
  BY DEF CodesInv
<1> QED BY <1>1, CodesInductive, PTL
=============================================================================
