-------------------------- MODULE TextDelivery_proofs --------------------------
(***************************************************************************)
(* The HTTP profile of TextDelivery keeps PostedInOrder, for any number of *)
(* sessions and threads and any capacity.                                  *)
(***************************************************************************)
EXTENDS TextDelivery, Ordering_proofs, TLAPS

(* The HTTP profile. *)

Event == [source : Sources, n : Nat]
Thread == {Unstarted, Looking, Waiting} \union {Working(event) : event \in Event}

WorksFor(t, s) == threads[t].at = "working" /\ threads[t].item.source = s
Busy(s) == IF s \in inFlight THEN 1 ELSE 0

\* The types of the profile's state.
HttpTypeOK ==
  /\ queues \in [Sources -> Seq(Event)]
  /\ readySources \in Seq(Sources)
  /\ inFlight \subseteq Sources
  /\ reserved \in Nat
  /\ threads \in [Threads -> Thread]
  /\ accepted \in [Sources -> Nat]
  /\ posted \in [Sources -> Nat]

\* inFlight names the sessions that the threads work for, one thread each.
Claimed ==
  /\ \A t \in Threads : \A s \in Sources : WorksFor(t, s) => s \in inFlight
  /\ \A s \in inFlight : \E t \in Threads : WorksFor(t, s)
  /\ \A s \in Sources : \A t, u \in Threads : WorksFor(t, s) /\ WorksFor(u, s) => t = u

\* Posted, being sent and queued are the accepted events, in their order.
Numbered ==
  /\ \A s \in Sources : \A t \in Threads :
       WorksFor(t, s) => threads[t].item.n = posted[s] + 1
  /\ \A s \in Sources : \A i \in DOMAIN queues[s] :
       queues[s][i] = TextEvent(s, posted[s] + Busy(s) + i)
  /\ \A s \in Sources : accepted[s] = posted[s] + Busy(s) + Len(queues[s])

\* The limit.
Counted ==
  /\ reserved <= Capacity
  /\ IsFiniteSet(UnderWay)
  /\ reserved = Cardinality(UnderWay)

HttpInv == HttpTypeOK /\ Claimed /\ Numbered /\ Counted

\* The translation thread works for a session.
TranslatorOK ==
  /\ translations.ready \in Seq(Sources)
  /\ translator.at = "working" => translator.source \in Sources

IInv == HttpInv /\ TranslatorOK

-----------------------------------------------------------------------------
\* The states of a thread are told apart by `at'.
LEMMA ThreadStates ==
  /\ Unstarted.at # "working" /\ Looking.at # "working" /\ Waiting.at # "working"
  /\ \A item : Working(item).at = "working" /\ Working(item).item = item
  /\ \A s, item : Translating(s, item).at = "working" /\ Translating(s, item).source = s
  BY DEF Unstarted, Looking, Waiting, Working, Translating

LEMMA EventFields ==
  \A s, n : TextEvent(s, n).source = s /\ TextEvent(s, n).n = n
  BY DEF TextEvent

LEMMA EventInjective ==
  ASSUME NEW s, NEW n, NEW u, NEW m, TextEvent(s, n) = TextEvent(u, m)
  PROVE  s = u /\ n = m
<1>1. TextEvent(s, n).source = TextEvent(u, m).source /\ TextEvent(s, n).n = TextEvent(u, m).n
  OBVIOUS
<1>2. TextEvent(s, n).source = s /\ TextEvent(u, m).source = u
  BY EventFields
<1>3. TextEvent(s, n).n = n /\ TextEvent(u, m).n = m
  BY EventFields
<1> QED BY <1>1, <1>2, <1>3

\* A range of numbers grows at its end and shrinks at its start.
LEMMA Ranges ==
  ASSUME NEW a \in Nat, NEW b \in Nat
  PROVE  /\ a <= b => (a + 1)..(b + 1) = ((a + 1)..b) \union {b + 1}
         /\ a < b => (a + 1 + 1)..b = ((a + 1)..b) \ {a + 1}
         /\ a < b => a + 1 \in (a + 1)..b
  OBVIOUS

\* What follows position n of a sequence.
LEMMA RestOfSeq ==
  ASSUME NEW S, NEW s \in Seq(S), NEW n \in DOMAIN s
  PROVE  SubSeq(s, n + 1, Len(s)) \in Seq(S)
  OBVIOUS

\* A notification neither starts nor ends any work.
LEMMA NotifiedWorks ==
  ASSUME NEW ts \in [Threads -> Thread], NEW x \in Notified(ts)
  PROVE  /\ x \in [Threads -> Thread]
         /\ \A t \in Threads : (x[t].at = "working") = (ts[t].at = "working")
         /\ \A t \in Threads : ts[t].at = "working" => x[t] = ts[t]
<1>1. CASE x = ts
  BY <1>1
<1>2. CASE x # ts
  <2>1. PICK t \in {u \in Threads : ts[u] = Waiting} : x = [ts EXCEPT ![t] = Looking]
    BY <1>2 DEF Notified
  <2>2. Looking \in Thread
    BY DEF Thread
  <2> QED BY <2>1, <2>2, ThreadStates
<1> QED BY <1>1, <1>2

\* Starting the threads neither starts nor ends any work.
LEMMA StartedWorks ==
  ASSUME threads \in [Threads -> Thread]
  PROVE  /\ Started \in [Threads -> Thread]
         /\ \A t \in Threads : (Started[t].at = "working") = (threads[t].at = "working")
         /\ \A t \in Threads : threads[t].at = "working" => Started[t] = threads[t]
<1>1. Looking \in Thread
  BY DEF Thread
<1> QED BY <1>1, ThreadStates DEF Started

\* The inductive invariant implies the property.
LEMMA InvImpliesOrder ==
  ASSUME IInv
  PROVE  PostedInOrder
<1> USE DEF IInv, HttpInv
<1>1. ASSUME NEW s \in Sources
      PROVE  /\ Cardinality(Sending(s)) = Busy(s)
             /\ \A t \in Sending(s) : threads[t].item.n = posted[s] + 1
             /\ \A i \in DOMAIN queues[s] : queues[s][i].n = posted[s] + Busy(s) + i
             /\ accepted[s] = posted[s] + Busy(s) + Len(queues[s])
  <2>1. Cardinality(Sending(s)) = Busy(s)
    <3>1. CASE s \in inFlight
      <4>1. PICK t \in Threads : WorksFor(t, s)
        BY <3>1 DEF Claimed
      <4>2. Sending(s) = {t}
        BY <4>1 DEF Claimed, Sending, WorksFor
      <4> QED BY <4>2, <3>1, FS_Singleton DEF Busy
    <3>2. CASE s \notin inFlight
      <4>1. Sending(s) = {}
        BY <3>2 DEF Claimed, Sending, WorksFor
      <4> QED BY <4>1, <3>2, FS_EmptySet DEF Busy
    <3> QED BY <3>1, <3>2
  <2>2. \A t \in Sending(s) : threads[t].item.n = posted[s] + 1
    BY DEF Sending, Numbered, WorksFor
  <2>3. \A i \in DOMAIN queues[s] : queues[s][i].n = posted[s] + Busy(s) + i
    <3>1. ASSUME NEW i \in DOMAIN queues[s]
          PROVE  queues[s][i].n = posted[s] + Busy(s) + i
      <4>1. queues[s][i] = TextEvent(s, posted[s] + Busy(s) + i)
        BY DEF Numbered
      <4> QED BY <4>1, EventFields
    <3> QED BY <3>1
  <2>4. accepted[s] = posted[s] + Busy(s) + Len(queues[s])
    BY DEF Numbered
  <2> QED BY <2>1, <2>2, <2>3, <2>4
<1> QED BY <1>1 DEF PostedInOrder, Busy, Counted

-----------------------------------------------------------------------------
\* What a step does to the work of the threads carries over to Claimed.
LEMMA SameWork ==
  ASSUME \A t \in Threads : (threads'[t].at = "working") = (threads[t].at = "working"),
         \A t \in Threads : threads[t].at = "working" => threads'[t] = threads[t]
  PROVE  \A t \in Threads : \A s :
           /\ WorksFor(t, s)' = WorksFor(t, s)
           /\ WorksFor(t, s) => threads'[t].item = threads[t].item
  BY DEF WorksFor

\* The events under way when one more is accepted or the first one is posted.
LEMMA UnderWayMore ==
  ASSUME HttpTypeOK, NEW s \in Sources, posted' = posted, posted[s] <= accepted[s],
         accepted' = [accepted EXCEPT ![s] = @ + 1]
  PROVE  /\ UnderWay' = UnderWay \union {TextEvent(s, accepted[s] + 1)}
         /\ TextEvent(s, accepted[s] + 1) \notin UnderWay
<1> USE DEF HttpTypeOK
<1>1. ASSUME NEW x
      PROVE  x \in UnderWay' <=> x \in UnderWay \/ x = TextEvent(s, accepted[s] + 1)
  <2>1. x \in UnderWay' <=> \E u \in Sources : \E n \in (posted[u] + 1)..accepted'[u] : x = TextEvent(u, n)
    BY DEF UnderWay
  <2>2. x \in UnderWay <=> \E u \in Sources : \E n \in (posted[u] + 1)..accepted[u] : x = TextEvent(u, n)
    BY DEF UnderWay
  <2>3. \A u \in Sources : u # s => accepted'[u] = accepted[u]
    OBVIOUS
  <2>4. (posted[s] + 1)..accepted'[s] = ((posted[s] + 1)..accepted[s]) \union {accepted[s] + 1}
    <3>1. accepted'[s] = accepted[s] + 1 /\ accepted[s] \in Nat /\ posted[s] \in Nat
      OBVIOUS
    <3> QED BY <3>1, Ranges
  <2> QED BY <2>1, <2>2, <2>3, <2>4
<1>2. TextEvent(s, accepted[s] + 1) \notin UnderWay
  <2>1. ASSUME NEW u \in Sources, NEW n \in (posted[u] + 1)..accepted[u],
               TextEvent(s, accepted[s] + 1) = TextEvent(u, n)
        PROVE  FALSE
    <3>1. u = s /\ n = accepted[s] + 1
      <4>1. TextEvent(u, n) = TextEvent(s, accepted[s] + 1)
        BY <2>1
      <4> QED BY <4>1, EventInjective
    <3> QED BY <3>1
  <2> QED BY <2>1 DEF UnderWay
<1> QED BY <1>1, <1>2

LEMMA UnderWayLess ==
  ASSUME HttpTypeOK, NEW s \in Sources, accepted' = accepted, posted[s] < accepted[s],
         posted' = [posted EXCEPT ![s] = posted[s] + 1]
  PROVE  /\ UnderWay' = UnderWay \ {TextEvent(s, posted[s] + 1)}
         /\ TextEvent(s, posted[s] + 1) \in UnderWay
<1> USE DEF HttpTypeOK
<1> DEFINE first == TextEvent(s, posted[s] + 1)
<1>1. ASSUME NEW x
      PROVE  x \in UnderWay' <=> x \in UnderWay /\ x # first
  <2>1. x \in UnderWay' <=> \E u \in Sources : \E n \in (posted'[u] + 1)..accepted[u] : x = TextEvent(u, n)
    BY DEF UnderWay
  <2>2. x \in UnderWay <=> \E u \in Sources : \E n \in (posted[u] + 1)..accepted[u] : x = TextEvent(u, n)
    BY DEF UnderWay
  <2>3. \A u \in Sources : u # s => posted'[u] = posted[u]
    OBVIOUS
  <2>4. (posted'[s] + 1)..accepted[s] = ((posted[s] + 1)..accepted[s]) \ {posted[s] + 1}
    <3>1. posted'[s] = posted[s] + 1 /\ accepted[s] \in Nat /\ posted[s] \in Nat
      OBVIOUS
    <3> QED BY <3>1, Ranges
  <2>5. \A u, n : TextEvent(u, n) = first <=> u = s /\ n = posted[s] + 1
    <3>1. ASSUME NEW u, NEW n, TextEvent(u, n) = first
          PROVE  u = s /\ n = posted[s] + 1
      BY <3>1, EventInjective
    <3> QED BY <3>1
  <2> HIDE DEF first
  <2> QED BY <2>1, <2>2, <2>3, <2>4, <2>5
<1>2. first \in UnderWay
  <2>1. posted[s] + 1 \in (posted[s] + 1)..accepted[s]
    OBVIOUS
  <2> QED BY <2>1 DEF UnderWay
<1> QED BY <1>1, <1>2

-----------------------------------------------------------------------------
(* The steps of the profile. *)

LEMMA HttpUnchanged ==
  ASSUME HttpInv, UNCHANGED httpVars
  PROVE  HttpInv'
  BY DEF HttpInv, HttpTypeOK, Claimed, Numbered, Counted, UnderWay, WorksFor, Busy, httpVars

\* Threads come and go from the condition variable, nothing else changes.
LEMMA ThreadsOnly ==
  ASSUME HttpInv, threads' \in [Threads -> Thread],
         \A t \in Threads : (threads'[t].at = "working") = (threads[t].at = "working"),
         \A t \in Threads : threads[t].at = "working" => threads'[t] = threads[t],
         UNCHANGED <<queues, inFlight, reserved, accepted, posted>>,
         readySources' \in Seq(Sources)
  PROVE  HttpInv'
<1> USE DEF HttpInv
<1>1. HttpTypeOK'
  BY DEF HttpTypeOK
<1>2. Claimed'
  BY SameWork DEF Claimed
<1>3. Numbered'
  BY SameWork DEF Numbered, Busy
<1>4. Counted'
  BY DEF Counted, UnderWay
<1> QED BY <1>1, <1>2, <1>3, <1>4

LEMMA AcceptedEnough ==
  ASSUME HttpInv, NEW s \in Sources
  PROVE  /\ posted[s] <= accepted[s]
         /\ s \in inFlight => posted[s] < accepted[s]
         /\ Busy(s) \in 0..1
         /\ Len(queues[s]) \in Nat
  BY DEF HttpInv, HttpTypeOK, Numbered, Busy

LEMMA EnqueueKeeps ==
  ASSUME HttpInv, NEW s \in Sources, Enqueue(s)
  PROVE  HttpInv'
<1>1. CASE UNCHANGED httpVars
  BY <1>1, HttpUnchanged
<1>2. CASE ~ UNCHANGED httpVars
  <2> USE DEF HttpInv
  <2> DEFINE event == TextEvent(s, accepted[s] + 1)
  <2>1. /\ reserved < Capacity
        /\ queues' = [queues EXCEPT ![s] = Append(@, event)]
        /\ reserved' = reserved + 1
        /\ accepted' = [accepted EXCEPT ![s] = @ + 1]
        /\ \/ readySources' = Append(readySources, s) /\ threads' \in Notified(Started)
           \/ threads' = Started /\ UNCHANGED readySources
        /\ UNCHANGED <<inFlight, posted>>
    BY <1>2 DEF Enqueue
  <2>2. /\ threads' \in [Threads -> Thread]
        /\ \A t \in Threads : (threads'[t].at = "working") = (threads[t].at = "working")
        /\ \A t \in Threads : threads[t].at = "working" => threads'[t] = threads[t]
    <3>1. CASE threads' = Started
      BY <3>1, StartedWorks DEF HttpTypeOK
    <3>2. CASE threads' \in Notified(Started)
      <4>1. PICK ts \in [Threads -> Thread] : ts = Started
        BY StartedWorks DEF HttpTypeOK
      <4>2. threads' \in Notified(ts)
        BY <3>2, <4>1
      <4> QED BY <4>1, <4>2, StartedWorks, NotifiedWorks DEF HttpTypeOK
    <3> QED BY <2>1, <3>1, <3>2
  <2>3. event \in Event
    BY DEF Event, TextEvent, HttpTypeOK
  <2>4. HttpTypeOK'
    <3> HIDE DEF event
    <3>1. queues' \in [Sources -> Seq(Event)]
      BY <2>1, <2>3 DEF HttpTypeOK
    <3>2. readySources' \in Seq(Sources)
      <4>1. readySources \in Seq(Sources)
        BY DEF HttpTypeOK
      <4>2. Append(readySources, s) \in Seq(Sources)
        BY <4>1
      <4>3. readySources' = Append(readySources, s) \/ readySources' = readySources
        BY <2>1
      <4> QED BY <4>1, <4>2, <4>3
    <3>3. accepted' \in [Sources -> Nat] /\ posted' \in [Sources -> Nat] /\ inFlight' \subseteq Sources
      BY <2>1 DEF HttpTypeOK
    <3>4. reserved' \in Nat
      BY <2>1 DEF HttpTypeOK
    <3> QED BY <2>2, <3>1, <3>2, <3>3, <3>4 DEF HttpTypeOK
  <2>5. Claimed'
    BY <2>1, <2>2, SameWork DEF Claimed
  <2>6. Numbered'
    <3>1. \A u \in Sources : \A t \in Threads :
            WorksFor(t, u)' => threads'[t].item.n = posted'[u] + 1
      BY <2>1, <2>2, SameWork DEF Numbered
    <3>2. ASSUME NEW u \in Sources
          PROVE  /\ \A i \in DOMAIN queues'[u] :
                      queues'[u][i] = TextEvent(u, posted'[u] + Busy(u)' + i)
                 /\ accepted'[u] = posted'[u] + Busy(u)' + Len(queues'[u])
      <4>1. Busy(u)' = Busy(u) /\ posted'[u] = posted[u]
        BY <2>1 DEF Busy
      <4>2. CASE u # s
        BY <2>1, <4>1, <4>2 DEF Numbered, HttpTypeOK
      <4>3. CASE u = s
        <5>1. queues[s] \in Seq(Event) /\ queues'[s] = Append(queues[s], event)
          BY <2>1 DEF HttpTypeOK
        <5>2. accepted[s] = posted[s] + Busy(s) + Len(queues[s])
          BY DEF Numbered
        <5>3. accepted'[s] = accepted[s] + 1 /\ posted[s] \in Nat /\ accepted[s] \in Nat
          BY <2>1 DEF HttpTypeOK
        <5>4. Busy(s) \in 0..1 /\ Len(queues[s]) \in Nat
          BY AcceptedEnough
        <5>5. event = TextEvent(s, posted[s] + Busy(s) + (Len(queues[s]) + 1))
          <6>1. accepted[s] + 1 = posted[s] + Busy(s) + (Len(queues[s]) + 1)
            BY <5>2, <5>3, <5>4
          <6> QED BY <6>1
        <5>6. \A i \in DOMAIN queues[s] : queues[s][i] = TextEvent(s, posted[s] + Busy(s) + i)
          BY DEF Numbered
        <5> HIDE DEF event
        <5>7. \A i \in DOMAIN queues'[s] : queues'[s][i] = TextEvent(s, posted[s] + Busy(s) + i)
          BY <5>1, <5>5, <5>6, <2>3
        <5>8. Len(queues'[s]) = Len(queues[s]) + 1
          BY <5>1, <2>3
        <5>9. accepted'[s] = posted[s] + Busy(s) + Len(queues'[s])
          BY <5>2, <5>3, <5>4, <5>8
        <5> QED BY <4>1, <4>3, <5>7, <5>9
      <4> QED BY <4>2, <4>3
    <3> QED BY <3>1, <3>2 DEF Numbered
  <2>7. Counted'
    <3>1. /\ UnderWay' = UnderWay \union {event}
          /\ event \notin UnderWay
      BY <2>1, AcceptedEnough, UnderWayMore
    <3>2. IsFiniteSet(UnderWay')
      BY <3>1, FS_AddElement DEF Counted
    <3>3. Cardinality(UnderWay') = Cardinality(UnderWay) + 1
      BY <3>1, FS_AddElement DEF Counted
    <3> QED BY <2>1, <3>2, <3>3, DeliveryAssumption DEF Counted, HttpTypeOK
  <2> QED BY <2>4, <2>5, <2>6, <2>7
<1> QED BY <1>1, <1>2

LEMMA TakeNextKeeps ==
  ASSUME HttpInv, NEW t \in Threads, TakeNext(t)
  PROVE  HttpInv'
<1> USE DEF HttpInv
<1>1. ASSUME NEW n \in DOMAIN readySources, Available(readySources[n]),
             readySources' = SubSeq(readySources, n + 1, Len(readySources)),
             queues' = [queues EXCEPT ![readySources[n]] = Tail(@)],
             inFlight' = inFlight \union {readySources[n]},
             threads' = [threads EXCEPT ![t] = Working(Head(queues[readySources[n]]))]
      PROVE  HttpInv'
  <2>1. PICK s \in Sources : s = readySources[n]
    BY DEF HttpTypeOK
  <2>2. s \notin inFlight /\ queues[s] # << >> /\ queues[s] \in Seq(Event)
    BY <1>1, <2>1 DEF Available, HttpTypeOK
  <2>3. PICK event \in Event : event = Head(queues[s])
    BY <2>2
  <2>4. event = TextEvent(s, posted[s] + 1)
    <3>1. 1 \in DOMAIN queues[s] /\ event = queues[s][1]
      BY <2>2, <2>3
    <3>2. queues[s][1] = TextEvent(s, posted[s] + Busy(s) + 1)
      BY <3>1 DEF Numbered
    <3>3. posted[s] + Busy(s) + 1 = posted[s] + 1
      BY <2>2 DEF Busy, HttpTypeOK
    <3> QED BY <3>1, <3>2, <3>3
  <2>5. /\ threads' = [threads EXCEPT ![t] = Working(event)]
        /\ queues' = [queues EXCEPT ![s] = Tail(@)]
        /\ inFlight' = inFlight \union {s}
        /\ UNCHANGED <<reserved, accepted, posted>>
    BY <1>1, <2>1, <2>3, TakeNext(t) DEF TakeNext
  <2>6. threads[t].at # "working"
    BY ThreadStates DEF TakeNext
  <2>7. \A u \in Threads : \A x : WorksFor(u, x)' <=> WorksFor(u, x) \/ (u = t /\ x = s)
    <3>1. threads'[t] = Working(event)
      BY <2>5 DEF HttpTypeOK
    <3>2. \A u \in Threads \ {t} : threads'[u] = threads[u]
      BY <2>5 DEF HttpTypeOK
    <3>3. event.source = s
      BY <2>4, EventFields
    <3>4. threads'[t].at = "working" /\ threads'[t].item.source = s
      BY <3>1, <3>3, ThreadStates
    <3>5. \A x : WorksFor(t, x)' <=> x = s
      BY <3>4 DEF WorksFor
    <3> QED BY <3>2, <3>5, <2>6 DEF WorksFor
  <2>8. HttpTypeOK'
    <3>1. Working(event) \in Thread
      BY DEF Thread
    <3>2. threads' \in [Threads -> Thread]
      BY <2>5, <3>1 DEF HttpTypeOK
    <3>3. Tail(queues[s]) \in Seq(Event)
      BY <2>2
    <3>4. queues' \in [Sources -> Seq(Event)]
      BY <2>5, <3>3 DEF HttpTypeOK
    <3>5. readySources' \in Seq(Sources)
      BY <1>1, RestOfSeq DEF HttpTypeOK
    <3> QED BY <2>5, <3>2, <3>4, <3>5 DEF HttpTypeOK
  <2>9. Claimed'
    BY <2>2, <2>5, <2>7 DEF Claimed
  <2>10. Numbered'
    <3>1. \A u \in Sources : \A v \in Threads :
            WorksFor(v, u)' => threads'[v].item.n = posted'[u] + 1
      <4>1. ASSUME NEW u \in Sources, NEW v \in Threads, WorksFor(v, u)'
            PROVE  threads'[v].item.n = posted'[u] + 1
        <5>1. CASE v = t
          <6>1. threads'[v] = Working(event) /\ u = s
            BY <2>5, <2>6, <2>7, <4>1, <5>1 DEF HttpTypeOK, WorksFor
          <6>2. event.n = posted[s] + 1
            BY <2>4, EventFields
          <6> QED BY <2>5, <6>1, <6>2, ThreadStates
        <5>2. CASE v # t
          <6>1. threads'[v] = threads[v] /\ WorksFor(v, u)
            BY <2>5, <2>7, <4>1, <5>2 DEF HttpTypeOK
          <6> QED BY <2>5, <6>1 DEF Numbered
        <5> QED BY <5>1, <5>2
      <4> QED BY <4>1
    <3>2. ASSUME NEW u \in Sources
          PROVE  /\ \A i \in DOMAIN queues'[u] :
                      queues'[u][i] = TextEvent(u, posted'[u] + Busy(u)' + i)
                 /\ accepted'[u] = posted'[u] + Busy(u)' + Len(queues'[u])
      <4>1. CASE u # s
        <5>1. Busy(u)' = Busy(u) /\ queues'[u] = queues[u]
          BY <2>5, <4>1 DEF Busy, HttpTypeOK
        <5> QED BY <2>5, <5>1 DEF Numbered
      <4>2. CASE u = s
        <5>1. Busy(s)' = 1 /\ Busy(s) = 0
          BY <2>2, <2>5 DEF Busy
        <5>2. queues'[s] = Tail(queues[s])
          BY <2>5 DEF HttpTypeOK
        <5>3. Len(queues'[s]) = Len(queues[s]) - 1 /\ Len(queues[s]) \in Nat
          BY <2>2, <5>2
        <5>4. posted[s] \in Nat /\ accepted[s] = posted[s] + 0 + Len(queues[s])
          BY <5>1 DEF HttpTypeOK, Numbered
        <5>5. ASSUME NEW i \in DOMAIN queues'[s]
              PROVE  queues'[s][i] = TextEvent(s, posted[s] + 1 + i)
          <6>1. i \in Int /\ i + 1 \in DOMAIN queues[s] /\ queues'[s][i] = queues[s][i + 1]
            BY <2>2, <5>2
          <6>2. queues[s][i + 1] = TextEvent(s, posted[s] + 0 + (i + 1))
            BY <5>1, <6>1 DEF Numbered
          <6>3. posted[s] + 0 + (i + 1) = posted[s] + 1 + i
            BY <5>4, <6>1
          <6> QED BY <6>1, <6>2, <6>3
        <5> QED BY <2>5, <4>2, <5>1, <5>3, <5>4, <5>5
      <4> QED BY <4>1, <4>2
    <3> QED BY <3>1, <3>2 DEF Numbered
  <2>11. Counted'
    BY <2>5 DEF Counted, UnderWay
  <2> QED BY <2>8, <2>9, <2>10, <2>11
<1>2. ASSUME readySources' = << >>, threads' = [threads EXCEPT ![t] = Waiting],
             UNCHANGED <<queues, inFlight>>
      PROVE  HttpInv'
  <2>1. threads[t].at # "working" /\ UNCHANGED <<reserved, accepted, posted>>
    BY ThreadStates DEF TakeNext
  <2>2. Waiting \in Thread
    BY DEF Thread
  <2>3. /\ threads' \in [Threads -> Thread]
        /\ \A u \in Threads : (threads'[u].at = "working") = (threads[u].at = "working")
        /\ \A u \in Threads : threads[u].at = "working" => threads'[u] = threads[u]
    BY <1>2, <2>1, <2>2, ThreadStates DEF HttpTypeOK
  <2> QED BY <1>2, <2>1, <2>3, ThreadsOnly
<1> QED BY <1>1, <1>2 DEF TakeNext

LEMMA PostKeeps ==
  ASSUME HttpInv, NEW t \in Threads, Post(t)
  PROVE  HttpInv'
<1> USE DEF HttpInv
<1>1. PICK event \in Event : threads[t] = Working(event)
  <2>1. PICK thread \in Thread : threads[t] = thread
    BY DEF HttpTypeOK
  <2>2. thread.at = "working"
    BY <2>1 DEF Post
  <2>3. thread # Unstarted /\ thread # Looking /\ thread # Waiting
    BY <2>2, ThreadStates
  <2> QED BY <2>1, <2>3 DEF Thread
<1>2. PICK s \in Sources : s = event.source
  BY DEF Event
<1>3. WorksFor(t, s) /\ threads[t].item = event
  BY <1>1, <1>2, ThreadStates DEF WorksFor
<1>4. s \in inFlight /\ event.n = posted[s] + 1 /\ Busy(s) = 1
  BY <1>3 DEF Claimed, Numbered, Busy
<1> DEFINE others == [threads EXCEPT ![t] = Looking]
<1>5. /\ inFlight' = inFlight \ {s}
      /\ posted' = [posted EXCEPT ![s] = posted[s] + 1]
      /\ \/ readySources' = Append(readySources, s) /\ threads' \in Notified(others)
         \/ threads' = others /\ UNCHANGED readySources
      /\ reserved' = reserved - 1
      /\ UNCHANGED <<queues, accepted>>
  BY <1>2, <1>3, <1>4 DEF Post
<1>6. /\ others \in [Threads -> Thread]
      /\ others[t].at # "working"
      /\ \A u \in Threads \ {t} : others[u] = threads[u]
  <2>1. Looking \in Thread
    BY DEF Thread
  <2> QED BY <2>1, ThreadStates DEF HttpTypeOK
<1> HIDE DEF others
<1>7. /\ threads' \in [Threads -> Thread]
      /\ \A u \in Threads : (threads'[u].at = "working") = (others[u].at = "working")
      /\ \A u \in Threads : others[u].at = "working" => threads'[u] = others[u]
  <2>1. CASE threads' = others
    BY <2>1, <1>6
  <2>2. CASE threads' \in Notified(others)
    BY <2>2, <1>6, NotifiedWorks
  <2> QED BY <1>5, <2>1, <2>2
<1>8. \A u \in Threads : \A x : WorksFor(u, x)' <=> u # t /\ WorksFor(u, x)
  BY <1>6, <1>7 DEF WorksFor
<1>9. HttpTypeOK'
  <2>1. readySources' \in Seq(Sources)
    <3>1. readySources \in Seq(Sources)
      BY DEF HttpTypeOK
    <3>2. Append(readySources, s) \in Seq(Sources)
      BY <3>1
    <3>3. readySources' = Append(readySources, s) \/ readySources' = readySources
      BY <1>5
    <3> QED BY <3>1, <3>2, <3>3
  <2>2. reserved' \in Nat
    <3>1. posted[s] < accepted[s]
      BY <1>4, AcceptedEnough
    <3>2. PICK n \in (posted[s] + 1)..accepted[s] : TRUE
      <4>1. posted[s] \in Nat /\ accepted[s] \in Nat
        BY DEF HttpTypeOK
      <4>2. posted[s] + 1 \in (posted[s] + 1)..accepted[s]
        BY <3>1, <4>1
      <4> QED BY <4>2
    <3>3. UnderWay # {}
      BY <3>2 DEF UnderWay
    <3>4. reserved # 0
      BY <3>3, FS_EmptySet DEF Counted
    <3> QED BY <3>4, <1>5 DEF HttpTypeOK
  <2>3. posted' \in [Sources -> Nat]
    BY <1>5 DEF HttpTypeOK
  <2> QED BY <1>5, <1>7, <2>1, <2>2, <2>3 DEF HttpTypeOK
<1>10. Claimed'
  <2>1. \A u \in Threads : WorksFor(u, s) => u = t
    BY <1>3 DEF Claimed
  <2>2. \A u \in Threads : \A x \in Sources : WorksFor(u, x)' => x \in inFlight'
    BY <1>5, <1>8, <2>1 DEF Claimed
  <2>3. ASSUME NEW x \in inFlight'
        PROVE  \E u \in Threads : WorksFor(u, x)'
    <3>1. x \in inFlight /\ x # s
      BY <1>5, <2>3
    <3>2. PICK u \in Threads : WorksFor(u, x)
      BY <3>1 DEF Claimed
    <3>3. u # t
      BY <3>1, <3>2, <1>3 DEF WorksFor
    <3> QED BY <3>2, <3>3, <1>8
  <2>4. \A x \in Sources : \A u, v \in Threads : WorksFor(u, x)' /\ WorksFor(v, x)' => u = v
    BY <1>8 DEF Claimed
  <2> QED BY <2>2, <2>3, <2>4 DEF Claimed
<1>11. Numbered'
  <2>1. ASSUME NEW x \in Sources, NEW u \in Threads, WorksFor(u, x)'
        PROVE  threads'[u].item.n = posted'[x] + 1
    <3>1. u # t /\ WorksFor(u, x)
      BY <1>8, <2>1
    <3>2. threads'[u] = threads[u]
      BY <1>6, <1>7, <3>1 DEF WorksFor
    <3>3. x # s
      BY <1>3, <3>1 DEF Claimed
    <3>4. posted'[x] = posted[x]
      BY <1>5, <3>3 DEF HttpTypeOK
    <3> QED BY <3>1, <3>2, <3>4 DEF Numbered
  <2>2. ASSUME NEW x \in Sources
        PROVE  posted'[x] + Busy(x)' = posted[x] + Busy(x)
    <3>1. CASE x = s
      <4>1. Busy(x)' = 0 /\ Busy(x) = 1 /\ posted'[x] = posted[x] + 1 /\ posted[x] \in Nat
        BY <1>4, <1>5, <3>1 DEF Busy, HttpTypeOK
      <4> QED BY <4>1
    <3>2. CASE x # s
      BY <1>5, <3>2 DEF Busy, HttpTypeOK
    <3> QED BY <3>1, <3>2
  <2> QED BY <1>5, <2>1, <2>2 DEF Numbered
<1>12. Counted'
  <2>1. posted[s] < accepted[s]
    BY <1>4, AcceptedEnough
  <2>2. PICK first : first = TextEvent(s, posted[s] + 1)
    OBVIOUS
  <2>3. UnderWay' = UnderWay \ {first} /\ first \in UnderWay
    BY <1>5, <2>1, <2>2, UnderWayLess
  <2>4. IsFiniteSet(UnderWay') /\ Cardinality(UnderWay') = Cardinality(UnderWay) - 1
    BY <2>3, FS_RemoveElement DEF Counted
  <2> QED BY <1>5, <2>4, DeliveryAssumption DEF Counted, HttpTypeOK
<1> QED BY <1>9, <1>10, <1>11, <1>12

LEMMA WakeKeeps ==
  ASSUME HttpInv, NEW t \in Threads, WakeSpuriously(t)
  PROVE  HttpInv'
<1>1. Looking \in Thread
  BY DEF Thread
<1>2. /\ threads' \in [Threads -> Thread]
      /\ \A u \in Threads : (threads'[u].at = "working") = (threads[u].at = "working")
      /\ \A u \in Threads : threads[u].at = "working" => threads'[u] = threads[u]
  BY <1>1, ThreadStates DEF WakeSpuriously, HttpInv, HttpTypeOK
<1>3. readySources' \in Seq(Sources) /\ UNCHANGED <<queues, inFlight, reserved, accepted, posted>>
  BY DEF WakeSpuriously, HttpInv, HttpTypeOK
<1> QED BY <1>2, <1>3, ThreadsOnly

-----------------------------------------------------------------------------
(* The translation thread. *)

LEMMA SubmitKeepsTranslator ==
  ASSUME TranslatorOK, NEW s \in Sources, NEW request, SubmitTranslation(s, request)
  PROVE  TranslatorOK'
<1>1. translations'.ready = translations.ready \/ translations'.ready = Append(translations.ready, s)
  BY DEF SubmitTranslation, PushTranslation
<1>2. Append(translations.ready, s) \in Seq(Sources)
  BY DEF TranslatorOK
<1>3. translator'.at = "working" => translator' = translator
  BY ThreadStates DEF SubmitTranslation, Woken
<1> QED BY <1>1, <1>2, <1>3 DEF TranslatorOK

LEMMA TakeKeepsTranslator ==
  ASSUME TranslatorOK, TakeTranslation
  PROVE  TranslatorOK'
<1>1. PICK ready \in Seq(Sources) : ready = translations.ready
  BY DEF TranslatorOK
<1>2. CASE /\ ready # << >>
           /\ translator' = Translating(Head(ready), Head(translations.by_source[Head(ready)]))
           /\ translations' =
                LET s == Head(ready)
                    rest == Tail(translations.by_source[s])
                IN  [by_source |-> [translations.by_source EXCEPT ![s] = rest],
                     ready |-> IF rest = << >> THEN Tail(ready) ELSE Append(Tail(ready), s)]
  <2>1. Head(ready) \in Sources /\ Tail(ready) \in Seq(Sources)
    BY <1>2
  <2>2. translations'.ready = Tail(ready) \/ translations'.ready = Append(Tail(ready), Head(ready))
    BY <1>2
  <2>3. translations'.ready \in Seq(Sources)
    BY <2>1, <2>2
  <2>4. translator'.source = Head(ready)
    BY <1>2, ThreadStates
  <2> QED BY <2>1, <2>3, <2>4 DEF TranslatorOK
<1>3. CASE translator' = Waiting /\ UNCHANGED translations
  BY <1>3, ThreadStates DEF TranslatorOK
<1> QED BY <1>1, <1>2, <1>3 DEF TakeTranslation

-----------------------------------------------------------------------------
LEMMA InitInv ==
  ASSUME Init
  PROVE  IInv
<1>1. HttpTypeOK
  BY DEF Init, HttpTypeOK, Thread
<1>2. \A t \in Threads : threads[t].at # "working"
  BY ThreadStates DEF Init
<1>3. Claimed
  BY <1>2 DEF Claimed, WorksFor, Init
<1>4. Numbered
  BY <1>2 DEF Numbered, WorksFor, Busy, Init
<1>5. Counted
  <2>1. UnderWay = {}
    BY DEF UnderWay, Init
  <2> QED BY <2>1, FS_EmptySet, DeliveryAssumption DEF Counted, Init
<1>6. TranslatorOK
  BY ThreadStates DEF TranslatorOK, Init, Queues
<1> QED BY <1>1, <1>3, <1>4, <1>5, <1>6 DEF IInv, HttpInv

LEMMA NextInv ==
  ASSUME IInv, [Next]_vars
  PROVE  IInv'
<1> USE DEF IInv
<1>1. ASSUME UNCHANGED httpVars, UNCHANGED translationVars
      PROVE  IInv'
  BY <1>1, HttpUnchanged DEF TranslatorOK, translationVars
<1>2. CASE UNCHANGED vars \/ Produce \/ TakeSpeech \/ Speak
  BY <1>1, <1>2 DEF vars, Produce, TakeSpeech, Speak
<1>3. ASSUME NEW s \in Sources, NEW output, Dispatch(s, output)
      PROVE  IInv'
  BY <1>3, EnqueueKeeps, SubmitKeepsTranslator DEF Dispatch
<1>4. CASE DispatchMain
  <2>1. Main \in Sources
    BY DEF Sources
  <2> QED BY <1>3, <1>4, <2>1 DEF DispatchMain
<1>5. CASE \E s \in Earlier : DispatchEarlier(s)
  <2>1. Earlier \subseteq Sources
    BY DEF Sources
  <2> QED BY <1>3, <1>5, <2>1 DEF DispatchEarlier
<1>6. ASSUME NEW t \in Threads, ThreadStep(t) \/ WakeSpuriously(t)
      PROVE  IInv'
  <2>1. HttpInv'
    BY <1>6, TakeNextKeeps, PostKeeps, WakeKeeps DEF ThreadStep
  <2>2. UNCHANGED translationVars
    BY <1>6 DEF ThreadStep, TakeNext, Post, WakeSpuriously
  <2> QED BY <2>1, <2>2 DEF TranslatorOK, translationVars
<1>7. CASE TakeTranslation
  <2>1. UNCHANGED httpVars
    BY <1>7 DEF TakeTranslation
  <2> QED BY <1>7, <2>1, HttpUnchanged, TakeKeepsTranslator
<1>8. CASE Translate
  <2>1. translator.source \in Sources /\ Enqueue(translator.source)
    BY <1>8 DEF Translate, TranslatorOK
  <2>2. translator' = Looking /\ UNCHANGED translations
    BY <1>8 DEF Translate
  <2> QED BY <2>1, <2>2, EnqueueKeeps, ThreadStates DEF TranslatorOK
<1> QED BY <1>2, <1>4, <1>5, <1>6, <1>7, <1>8 DEF Next, TranslatorStep, SpeakerStep

(***************************************************************************)
(* The profile sends the accepted events of every session in their order   *)
(* and one at a time, and counts what is under way, for any number of      *)
(* sessions and threads and any capacity.                                  *)
(***************************************************************************)
THEOREM PostedInOrderAlways == Spec => []PostedInOrder
<1>1. Init => IInv
  BY InitInv
<1>2. IInv /\ [Next]_vars => IInv'
  BY NextInv
<1>3. IInv => PostedInOrder
  BY InvImpliesOrder
<1> QED BY <1>1, <1>2, <1>3, PTL DEF Spec
=============================================================================
