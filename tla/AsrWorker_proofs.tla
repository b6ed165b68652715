--------------------------- MODULE AsrWorker_proofs ---------------------------
(***************************************************************************)
(* Proofs about AsrWorker, for any lanes and models: every request that a  *)
(* lane waits for is in one place, and nobody monopolizes the worker.      *)
(***************************************************************************)
EXTENDS AsrWorker, Ordering_proofs, TLAPS

-----------------------------------------------------------------------------
(* The rotation.  Every queue that holds something is listed, once, under  *)
(* its model, and so is every model that has such a queue.                 *)

KeysOwn ==
  \A k \in Keys : Once(queues[k]) /\ \A r : IsIn(r, queues[k]) => KeyOf(r) = k

Rotation ==
  /\ Once(readyModels) /\ \A m \in Models : Once(readySources[m])
  /\ \A m \in Models, s \in Sources : queues[<<m, s>>] # << >> <=> IsIn(s, readySources[m])
  /\ \A m \in Models : readySources[m] # << >> <=> IsIn(m, readyModels)

PendingType ==
  /\ queues \in [Keys -> Seq(Requests)]
  /\ readyModels \in Seq(Models)
  /\ readySources \in [Models -> Seq(Sources)]

PendingOK == PendingType /\ KeysOwn /\ Rotation

(* Where a request can be. *)
Answers == {r \in Requests : IsIn(r, results[r.source])}

Apart ==
  /\ InChannel \intersect (QueuedRequests \union Started \union Answers \union dropped) = {}
  /\ QueuedRequests \intersect (Started \union Answers \union dropped) = {}
  /\ Started \intersect (Answers \union dropped) = {}
  /\ Answers \intersect dropped = {}

Places == InChannel \union QueuedRequests \union Started \union Answers \union dropped

Numbered == \A r \in Places : r \in Requests /\ r.n <= sent[r.source]

AwaitedSomewhere == \A s \in open : \A r \in awaited[s] : r.source = s /\ r \in Places

\* A command that holds a request is in the channel once.
RequestsOnce(c) ==
  \A i, j \in 1..Len(c) : c[i].type = "RequestFor" /\ c[i] = c[j] => i = j

ResetsAsked(c) ==
  \A i \in 1..Len(c) :
    c[i].type = "ResetStreamingSessionsForSource" => resets[c[i].source] > 0

ChannelOK == RequestsOnce(channel) /\ ResetsAsked(channel)

ResultsOK == \A s \in Sources : Once(results[s]) /\ \A r : IsIn(r, results[s]) => r.source = s

DroppedOK == \A d \in dropped : resets[d.source] > 0

IInv == /\ TypeOK /\ KeysOwn /\ Rotation /\ ChannelOK /\ ResultsOK /\ DroppedOK
        /\ Apart /\ Numbered /\ AwaitedSomewhere

-----------------------------------------------------------------------------
(* What waited while it was passed. *)

PassedOK ==
  /\ DOMAIN passed = QueuedRequests
  /\ \A r \in DOMAIN passed : passed[r] \in Seq(Keys)

\* A source ahead in the rotation has had no more turns than the request's own.
SourcesFair ==
  \A r \in DOMAIN passed : \A s \in Sources \ {r.source} :
    /\ TimesPassed(r, <<r.model, s>>) <= TimesPassed(r, KeyOf(r)) + 1
    /\ Before(s, r.source, readySources[r.model])
         => TimesPassed(r, <<r.model, s>>) <= TimesPassed(r, KeyOf(r))

\* The request's own model has had its turn since that of a model ahead.
ModelsFair ==
  \A r \in DOMAIN passed :
    /\ \A i, j \in 1..Len(passed[r]) :
         i < j /\ passed[r][i][1] = passed[r][j][1] /\ passed[r][i][1] # r.model
           => \E k \in i..j : passed[r][k][1] = r.model
    /\ \A i \in 1..Len(passed[r]) :
         Before(passed[r][i][1], r.model, readyModels)
           => \E k \in i..Len(passed[r]) : passed[r][k][1] = r.model

FairInv == PassedOK /\ SourcesFair /\ ModelsFair

-----------------------------------------------------------------------------
(* What the sets of places have. *)

LEMMA RangeIs ==
  ASSUME NEW T, NEW q \in Seq(T)
  PROVE  \A x : x \in Range(q) <=> IsIn(x, q)
BY DEF Range, IsIn

LEMMA KeyIn ==
  ASSUME NEW r \in Requests
  PROVE  KeyOf(r) \in Keys /\ r.model \in Models /\ r.source \in Sources
BY DEF Requests, KeyOf, Keys

LEMMA UnionIs ==
  ASSUME NEW qs \in [Keys -> Seq(Requests)]
  PROVE  \A r : r \in UNION {Range(qs[k]) : k \in Keys} <=> \E k \in Keys : IsIn(r, qs[k])
<1>1. \A k \in Keys : qs[k] \in Seq(Requests)
  OBVIOUS
<1>2. \A k \in Keys : \A r : r \in Range(qs[k]) <=> IsIn(r, qs[k])
  BY <1>1, RangeIs
<1> QED
  BY <1>2

LEMMA QueuedIs ==
  ASSUME PendingType, KeysOwn
  PROVE  /\ \A r \in QueuedRequests : r \in Requests /\ IsIn(r, queues[KeyOf(r)])
         /\ \A r, k : k \in Keys /\ IsIn(r, queues[k]) => r \in QueuedRequests
<1>1. queues \in [Keys -> Seq(Requests)] /\ \A k \in Keys : queues[k] \in Seq(Requests)
  BY DEF PendingType
<1>2. \A r : r \in QueuedRequests <=> \E k \in Keys : IsIn(r, queues[k])
  BY <1>1, UnionIs DEF QueuedRequests
<1>3. \A k \in Keys : \A r : IsIn(r, queues[k]) => r \in Requests
  BY <1>1, ListedIs
<1> QED
  BY <1>2, <1>3 DEF KeysOwn

RequestsOf(c) == {x.request : x \in {y \in Range(c) : y.type = "RequestFor"}}

LEMMA RequestsOfIs ==
  ASSUME NEW c \in Seq(Command)
  PROVE  /\ \A r : r \in RequestsOf(c) <=> \E i \in 1..Len(c) :
                     c[i].type = "RequestFor" /\ c[i].request = r
         /\ RequestsOf(c) \subseteq Requests
<1>1. \A x : x \in Range(c) <=> \E i \in 1..Len(c) : c[i] = x
  BY DEF Range
<1>2. \A i \in 1..Len(c) : c[i] \in Command
  OBVIOUS
<1>3. \A x \in Command : x.type = "RequestFor" => x.request \in Requests
  BY DEF Command
<1> QED
  BY <1>1, <1>2, <1>3 DEF RequestsOf

LEMMA CommandSent ==
  ASSUME NEW c \in Seq(Command), NEW x \in Command, RequestsOnce(c),
         x.type = "RequestFor" => x.request \notin RequestsOf(c)
  PROVE  /\ Append(c, x) \in Seq(Command) /\ RequestsOnce(Append(c, x))
         /\ \A r : r \in RequestsOf(Append(c, x)) <=> r \in RequestsOf(c)
                                             \/ (x.type = "RequestFor" /\ r = x.request)
<1> DEFINE w == Append(c, x)
           n == Len(c)
<1>1. /\ n \in Nat /\ w \in Seq(Command) /\ Len(w) = n + 1 /\ w[n + 1] = x
      /\ \A i \in 1..n : w[i] = c[i]
  OBVIOUS
<1>2. \A i \in 1..(n + 1) : i \in 1..n \/ i = n + 1
  BY <1>1
<1>3. 1..n \subseteq 1..(n + 1) /\ n + 1 \in 1..(n + 1)
  BY <1>1
<1>4. \A r : r \in RequestsOf(c) <=> \E i \in 1..n : c[i].type = "RequestFor" /\ c[i].request = r
  BY RequestsOfIs
<1> HIDE DEF w, n
<1>5. \A r : r \in RequestsOf(w) <=> \E i \in 1..(n + 1) :
               w[i].type = "RequestFor" /\ w[i].request = r
  BY <1>1, RequestsOfIs
<1>6. \A r : r \in RequestsOf(w) <=> r \in RequestsOf(c) \/ (x.type = "RequestFor" /\ r = x.request)
  BY <1>1, <1>2, <1>3, <1>4, <1>5
<1>7. RequestsOnce(w)
  <2> SUFFICES ASSUME NEW i \in 1..(n + 1), NEW j \in 1..(n + 1),
                      w[i].type = "RequestFor", w[i] = w[j]
               PROVE  i = j
    BY <1>1 DEF RequestsOnce
  <2>1. CASE i \in 1..n /\ j \in 1..n
    BY <1>1, <2>1 DEF RequestsOnce, n
  <2>2. CASE i = n + 1 /\ j \in 1..n
    BY <1>1, <1>4, <2>2
  <2>3. CASE j = n + 1 /\ i \in 1..n
    BY <1>1, <1>4, <2>3
  <2> QED
    BY <1>2, <2>1, <2>2, <2>3
<1> QED
  BY <1>1, <1>6, <1>7 DEF w

LEMMA CommandTaken ==
  ASSUME NEW c \in Seq(Command), c # << >>, RequestsOnce(c)
  PROVE  /\ Head(c) \in Command /\ Tail(c) \in Seq(Command) /\ RequestsOnce(Tail(c))
         /\ \A r : r \in RequestsOf(Tail(c)) <=>
                     r \in RequestsOf(c) /\ ~(Head(c).type = "RequestFor" /\ r = Head(c).request)
         /\ Head(c).type = "RequestFor" => Head(c).request \in RequestsOf(c)
         /\ ResetsAsked(c) => /\ ResetsAsked(Tail(c))
                              /\ Head(c).type = "ResetStreamingSessionsForSource"
                                   => resets[Head(c).source] > 0
<1> DEFINE w == Tail(c)
           h == Head(c)
           n == Len(c)
<1>1. /\ n \in Nat \ {0} /\ w \in Seq(Command) /\ Len(w) = n - 1 /\ h = c[1] /\ h \in Command
      /\ \A i \in 1..(n - 1) : w[i] = c[i + 1]
      /\ \A i \in 1..n : c[i] \in Command
  OBVIOUS
<1>2. \A r : r \in RequestsOf(c) <=> \E i \in 1..n : c[i].type = "RequestFor" /\ c[i].request = r
  BY RequestsOfIs
<1>3. \A i, j \in 1..n : c[i].type = "RequestFor" /\ c[i] = c[j] => i = j
  BY DEF RequestsOnce
<1>4. ResetsAsked(c) => \A i \in 1..n :
        c[i].type = "ResetStreamingSessionsForSource" => resets[c[i].source] > 0
  BY DEF ResetsAsked
<1> HIDE DEF w, h, n
<1>5. 1 \in 1..n /\ \A i \in 1..(n - 1) : i + 1 \in 1..n /\ i + 1 # 1
  BY <1>1
<1>6. \A i \in 1..n : i = 1 \/ (i - 1 \in 1..(n - 1) /\ c[i] = w[i - 1])
  BY <1>1
<1>7. \A r : r \in RequestsOf(w) <=> \E i \in 1..(n - 1) :
               w[i].type = "RequestFor" /\ w[i].request = r
  BY <1>1, RequestsOfIs
<1>8. \A x, y \in Command : x.type = "RequestFor" /\ y.type = "RequestFor"
                              /\ x.request = y.request => x = y
  BY DEF Command
<1>9. ASSUME NEW r
      PROVE  r \in RequestsOf(w) <=> r \in RequestsOf(c) /\ ~(h.type = "RequestFor" /\ r = h.request)
  <2>1. ASSUME r \in RequestsOf(w)
        PROVE  r \in RequestsOf(c) /\ ~(h.type = "RequestFor" /\ r = h.request)
    <3>1. PICK i \in 1..(n - 1) : w[i].type = "RequestFor" /\ w[i].request = r
      BY <1>7, <2>1
    <3>2. i + 1 \in 1..n /\ i + 1 # 1 /\ w[i] = c[i + 1]
      BY <1>1, <1>5
    <3> QED
      BY <1>1, <1>2, <1>3, <1>5, <1>8, <3>1, <3>2
  <2>2. ASSUME r \in RequestsOf(c), ~(h.type = "RequestFor" /\ r = h.request)
        PROVE  r \in RequestsOf(w)
    <3>1. PICK i \in 1..n : c[i].type = "RequestFor" /\ c[i].request = r
      BY <1>2, <2>2
    <3> QED
      BY <1>1, <1>6, <1>7, <2>2, <3>1
  <2> QED
    BY <2>1, <2>2
<1>10. RequestsOnce(w)
  <2> SUFFICES ASSUME NEW i \in 1..(n - 1), NEW j \in 1..(n - 1),
                      w[i].type = "RequestFor", w[i] = w[j]
               PROVE  i = j
    BY <1>1 DEF RequestsOnce
  <2>1. i + 1 = j + 1
    BY <1>1, <1>3, <1>5
  <2> QED
    BY <2>1
<1>11. h.type = "RequestFor" => h.request \in RequestsOf(c)
  BY <1>1, <1>2, <1>5
<1>12. ResetsAsked(c) => ResetsAsked(w) /\ (h.type = "ResetStreamingSessionsForSource"
                                              => resets[h.source] > 0)
  BY <1>1, <1>4, <1>5 DEF ResetsAsked
<1> QED
  BY <1>1, <1>9, <1>10, <1>11, <1>12 DEF w, h

LEMMA InChannelIs ==
  InChannel = RequestsOf(channel)
BY DEF InChannel, RequestsOf

LEMMA StartedIs ==
  Started = IF worker.at = "executing" THEN {worker.request} ELSE {}
BY DEF Started

-----------------------------------------------------------------------------
(***************************************************************************)
(* A request pushed is queued, and the rotation still has every queue.     *)
(***************************************************************************)
LEMMA PushPending ==
  ASSUME PendingOK, NEW r \in Requests, r \notin QueuedRequests, Push(r)
  PROVE  /\ PendingOK' /\ QueuedRequests' = QueuedRequests \union {r}
         /\ \A m \in Models : \A x, y :
              Before(x, y, readySources'[m]) => Before(x, y, readySources[m])
                                                  \/ ~IsIn(y, readySources[m])
         /\ \A x, y : Before(x, y, readyModels') => Before(x, y, readyModels)
                                                      \/ ~IsIn(y, readyModels)
<1> DEFINE m == r.model
           s == r.source
           k == <<m, s>>
           wasEmpty == queues[k] = << >>
<1>0. PendingType /\ KeysOwn /\ Rotation
  BY DEF PendingOK
<1>1. m \in Models /\ s \in Sources /\ k \in Keys /\ KeyOf(r) = k
  BY KeyIn DEF KeyOf, Keys
<1>2. /\ queues' = [queues EXCEPT ![k] = Append(@, r)]
      /\ readyModels' = IF wasEmpty /\ readySources[m] = << >>
                        THEN Append(readyModels, m) ELSE readyModels
      /\ readySources' = IF wasEmpty THEN [readySources EXCEPT ![m] = Append(@, s)]
                         ELSE readySources
  BY <1>1 DEF Push
<1>3. /\ queues \in [Keys -> Seq(Requests)] /\ readyModels \in Seq(Models)
      /\ readySources \in [Models -> Seq(Sources)]
  BY <1>0 DEF PendingType
<1>4. ~IsIn(r, queues[k])
  BY <1>0, <1>1, QueuedIs
<1> HIDE DEF m, s, k
<1>5. /\ queues'[k] = Append(queues[k], r) /\ queues[k] \in Seq(Requests)
      /\ \A l \in Keys \ {k} : queues'[l] = queues[l]
  BY <1>1, <1>2, <1>3
<1>6. /\ queues'[k] \in Seq(Requests) /\ queues'[k] # << >>
      /\ \A y : IsIn(y, queues'[k]) <=> IsIn(y, queues[k]) \/ y = r
      /\ Once(queues[k]) => Once(queues'[k])
  BY <1>4, <1>5, ListAppend
<1>7. KeysOwn'
  BY <1>0, <1>1, <1>5, <1>6 DEF KeysOwn
<1>8. queues' \in [Keys -> Seq(Requests)]
  BY <1>1, <1>2, <1>3, <1>5, <1>6
<1>9. QueuedRequests' = QueuedRequests \union {r}
  <2>1. \A x : x \in QueuedRequests <=> \E l \in Keys : IsIn(x, queues[l])
    BY <1>3, UnionIs DEF QueuedRequests
  <2>2. \A x : x \in QueuedRequests' <=> \E l \in Keys : IsIn(x, queues'[l])
    BY <1>8, UnionIs DEF QueuedRequests
  <2> QED
    BY <1>1, <1>5, <1>6, <2>1, <2>2
<1>10. \A n \in Models, t \in Sources : <<n, t>> \in Keys
  BY DEF Keys
<1>11. CASE ~wasEmpty
  <2>1. readyModels' = readyModels /\ readySources' = readySources
    BY <1>2, <1>11
  <2>2. \A l \in Keys : queues'[l] # << >> <=> queues[l] # << >>
    BY <1>5, <1>6, <1>11
  <2>3. Rotation'
    BY <1>0, <1>10, <2>1, <2>2 DEF Rotation
  <2> QED
    BY <1>3, <1>7, <1>8, <1>9, <2>1, <2>3 DEF PendingType, PendingOK
<1>12. CASE wasEmpty
  <2>1. /\ \A n \in Models \ {m} : readySources'[n] = readySources[n]
        /\ readySources'[m] = Append(readySources[m], s)
        /\ readySources' \in [Models -> Seq(Sources)]
    BY <1>1, <1>2, <1>3, <1>12
  <2>2. ~IsIn(s, readySources[m])
    BY <1>0, <1>1, <1>12 DEF Rotation, k
  <2>3. readySources[m] \in Seq(Sources) /\ s \in Sources /\ m \in Models
    BY <1>1, <1>3
  <2>4. /\ readySources'[m] # << >>
        /\ \A y : IsIn(y, readySources'[m]) <=> IsIn(y, readySources[m]) \/ y = s
        /\ Once(readySources'[m])
        /\ \A y, z : Before(y, z, readySources'[m]) => Before(y, z, readySources[m]) \/ z = s
    BY <1>0, <2>1, <2>2, <2>3, ListAppend DEF Rotation
  <2>5. \A n \in Models : \A x, y : Before(x, y, readySources'[n])
          => Before(x, y, readySources[n]) \/ ~IsIn(y, readySources[n])
    BY <2>1, <2>2, <2>4
  <2>6. \A n \in Models, t \in Sources : queues'[<<n, t>>] # << >> <=> IsIn(t, readySources'[n])
    <3> SUFFICES ASSUME NEW n \in Models, NEW t \in Sources
                 PROVE  queues'[<<n, t>>] # << >> <=> IsIn(t, readySources'[n])
      OBVIOUS
    <3>1. CASE n = m /\ t = s
      BY <1>6, <2>4, <3>1 DEF k
    <3>2. CASE ~(n = m /\ t = s)
      <4>1. <<n, t>> # k /\ <<n, t>> \in Keys
        BY <1>10, <3>2 DEF k
      <4> QED
        BY <1>0, <1>5, <2>1, <2>4, <3>2, <4>1 DEF Rotation
    <3> QED
      BY <3>1, <3>2
  <2>7. /\ readyModels' \in Seq(Models) /\ Once(readyModels')
        /\ \A n \in Models : readySources'[n] # << >> <=> IsIn(n, readyModels')
        /\ \A x, y : Before(x, y, readyModels') => Before(x, y, readyModels) \/ ~IsIn(y, readyModels)
    <3>1. CASE readySources[m] = << >>
      <4>1. readyModels' = Append(readyModels, m) /\ ~IsIn(m, readyModels)
        BY <1>0, <1>2, <1>12, <2>3, <3>1 DEF Rotation
      <4>2. /\ readyModels' \in Seq(Models)
            /\ \A y : IsIn(y, readyModels') <=> IsIn(y, readyModels) \/ y = m
            /\ Once(readyModels')
            /\ \A y, z : Before(y, z, readyModels') => Before(y, z, readyModels) \/ z = m
        BY <1>0, <1>3, <2>3, <4>1, ListAppend DEF Rotation
      <4> QED
        BY <1>0, <2>1, <2>4, <4>1, <4>2 DEF Rotation
    <3>2. CASE readySources[m] # << >>
      <4>1. readyModels' = readyModels
        BY <1>2, <3>2
      <4> QED
        BY <1>0, <1>3, <2>1, <2>3, <2>4, <3>2, <4>1 DEF Rotation
    <3> QED
      BY <3>1, <3>2
  <2>8. \A n \in Models : Once(readySources'[n])
    BY <1>0, <2>1, <2>4 DEF Rotation
  <2>9. PendingOK'
    BY <1>7, <1>8, <2>1, <2>6, <2>7, <2>8 DEF PendingType, PendingOK, Rotation
  <2> QED
    BY <1>9, <2>5, <2>7, <2>9
<1> QED
  BY <1>11, <1>12

(***************************************************************************)
(* A request popped is the first of the first queue of the first model,    *)
(* and those go to the end of their lists.                                 *)
(***************************************************************************)
LEMMA PopPending ==
  ASSUME PendingOK, NEW r \in QueuedRequests, Pop(r)
  PROVE  /\ PendingOK' /\ QueuedRequests' = QueuedRequests \ {r}
         /\ \A n \in Models \ {r.model} : readySources'[n] = readySources[n]
         /\ \A x : IsIn(x, readySources[r.model]) /\ x # r.source
                     => Before(r.source, x, readySources[r.model])
         /\ \A x, y : Before(x, y, readySources'[r.model])
                        => (Before(x, y, readySources[r.model]) /\ x # r.source) \/ y = r.source
         /\ \A x : IsIn(x, readyModels) /\ x # r.model => Before(r.model, x, readyModels)
         /\ \A x, y : Before(x, y, readyModels')
                        => (Before(x, y, readyModels) /\ x # r.model) \/ y = r.model
<1> DEFINE m == Head(readyModels)
           s == Head(readySources[m])
           k == <<m, s>>
           hasMore == Tail(queues[k]) # << >>
           sources == Tail(readySources[m]) \o (IF hasMore THEN <<s>> ELSE << >>)
<1>0. PendingType /\ KeysOwn /\ Rotation
  BY DEF PendingOK
<1>1. /\ readyModels # << >> /\ r = Head(queues[k])
      /\ queues' = [queues EXCEPT ![k] = Tail(@)]
      /\ readySources' = [readySources EXCEPT ![m] = sources]
      /\ readyModels' = Tail(readyModels) \o (IF sources # << >> THEN <<m>> ELSE << >>)
  BY DEF Pop
<1>2. /\ queues \in [Keys -> Seq(Requests)] /\ readyModels \in Seq(Models)
      /\ readySources \in [Models -> Seq(Sources)]
  BY <1>0 DEF PendingType
<1>3. m \in Models /\ readySources[m] # << >> /\ readySources[m] \in Seq(Sources)
  <2>1. m \in Models /\ IsIn(m, readyModels)
    BY <1>1, <1>2, ListTail
  <2> HIDE DEF m
  <2> QED
    BY <1>0, <1>2, <2>1 DEF Rotation
<1>4. s \in Sources /\ queues[k] # << >> /\ k \in Keys /\ queues[k] \in Seq(Requests)
  <2> HIDE DEF m
  <2>1. s \in Sources /\ IsIn(s, readySources[m])
    BY <1>3, ListTail
  <2> HIDE DEF s
  <2> QED
    BY <1>0, <1>2, <1>3, <2>1 DEF Rotation, Keys
<1> HIDE DEF m, s
<1>5. r.model = m /\ r.source = s /\ Once(queues[k])
  <2>1. IsIn(r, queues[k])
    BY <1>1, <1>4, ListTail
  <2>2. KeyOf(r) = k /\ Once(queues[k])
    BY <1>0, <1>4, <2>1 DEF KeysOwn
  <2> QED
    BY <2>2 DEF KeyOf
<1> HIDE DEF k
<1>6. /\ queues'[k] = Tail(queues[k]) /\ queues'[k] \in Seq(Requests) /\ Once(queues'[k])
      /\ \A y : IsIn(y, queues'[k]) <=> IsIn(y, queues[k]) /\ y # r
      /\ \A l \in Keys \ {k} : queues'[l] = queues[l]
  <2>1. queues'[k] = Tail(queues[k]) /\ \A l \in Keys \ {k} : queues'[l] = queues[l]
    BY <1>1, <1>2, <1>4
  <2>2. /\ Tail(queues[k]) \in Seq(Requests) /\ Once(Tail(queues[k]))
        /\ \A y : IsIn(y, Tail(queues[k])) <=> IsIn(y, queues[k]) /\ y # r
    BY <1>1, <1>4, <1>5, ListTail
  <2> QED
    BY <2>1, <2>2
<1>7. queues' \in [Keys -> Seq(Requests)]
  BY <1>1, <1>2, <1>4, <1>6
<1>8. KeysOwn'
  BY <1>0, <1>6 DEF KeysOwn
<1>9. QueuedRequests' = QueuedRequests \ {r}
  <2>1. \A x : x \in QueuedRequests <=> \E l \in Keys : IsIn(x, queues[l])
    BY <1>2, UnionIs DEF QueuedRequests
  <2>2. \A x : x \in QueuedRequests' <=> \E l \in Keys : IsIn(x, queues'[l])
    BY <1>7, UnionIs DEF QueuedRequests
  <2>3. \A l \in Keys \ {k} : ~IsIn(r, queues[l])
    BY <1>0, <1>4, <1>5 DEF KeysOwn, KeyOf, k
  <2> QED
    BY <1>4, <1>6, <2>1, <2>2, <2>3
<1>10. /\ sources \in Seq(Sources) /\ Once(sources)
       /\ \A y : IsIn(y, sources) <=> IsIn(y, readySources[m]) /\ (hasMore \/ y # s)
       /\ \A y, z : Before(y, z, sources)
            => (Before(y, z, readySources[m]) /\ y # s) \/ z = s
       /\ \A x : IsIn(x, readySources[m]) /\ x # s => Before(s, x, readySources[m])
  <2> DEFINE w == sources
             q == readySources[m]
  <2>1. s = Head(q) /\ Once(q) /\ q \in Seq(Sources) /\ q # << >>
    BY <1>0, <1>3 DEF Rotation, s
  <2>2. w = Tail(q) \o (IF hasMore THEN <<Head(q)>> ELSE << >>) /\ hasMore \in BOOLEAN
    BY <2>1
  <2> HIDE DEF w, q, hasMore
  <2>3. /\ w \in Seq(Sources) /\ Once(w)
        /\ \A y : IsIn(y, w) <=> IsIn(y, q) /\ (hasMore \/ y # s)
        /\ \A y, z : Before(y, z, w) => (Before(y, z, q) /\ y # s) \/ z = s
    BY <2>1, <2>2, ListRotated
  <2>4. \A x : IsIn(x, q) /\ x # s => Before(s, x, q)
    BY <2>1, ListTail
  <2> QED
    BY <2>3, <2>4 DEF w, q
<1> HIDE DEF sources
<1>11. /\ readySources' \in [Models -> Seq(Sources)] /\ readySources'[m] = sources
       /\ \A n \in Models \ {m} : readySources'[n] = readySources[n]
  BY <1>1, <1>2, <1>3, <1>10
<1>12. /\ readyModels' \in Seq(Models) /\ Once(readyModels')
       /\ \A y : IsIn(y, readyModels') <=> IsIn(y, readyModels) /\ (sources # << >> \/ y # m)
       /\ \A y, z : Before(y, z, readyModels') => (Before(y, z, readyModels) /\ y # m) \/ z = m
       /\ \A x : IsIn(x, readyModels) /\ x # m => Before(m, x, readyModels)
  <2> DEFINE w == readyModels'
             more == sources # << >>
  <2>1. m = Head(readyModels) /\ Once(readyModels)
    BY <1>0 DEF Rotation, m
  <2>2. w = Tail(readyModels) \o (IF more THEN <<Head(readyModels)>> ELSE << >>) /\ more \in BOOLEAN
    BY <1>1, <2>1
  <2> HIDE DEF w, more
  <2>3. /\ w \in Seq(Models) /\ Once(w)
        /\ \A y : IsIn(y, w) <=> IsIn(y, readyModels) /\ (more \/ y # m)
        /\ \A y, z : Before(y, z, w) => (Before(y, z, readyModels) /\ y # m) \/ z = m
    BY <1>1, <1>2, <2>1, <2>2, ListRotated
  <2>4. \A x : IsIn(x, readyModels) /\ x # m => Before(m, x, readyModels)
    BY <1>1, <1>2, <2>1, ListTail
  <2> QED
    BY <2>3, <2>4 DEF w, more
<1>13. Rotation'
  <2>1. \A n \in Models, t \in Sources : queues'[<<n, t>>] # << >> <=> IsIn(t, readySources'[n])
    <3> SUFFICES ASSUME NEW n \in Models, NEW t \in Sources
                 PROVE  queues'[<<n, t>>] # << >> <=> IsIn(t, readySources'[n])
      OBVIOUS
    <3>1. CASE n = m /\ t = s
      <4>1. <<n, t>> = k /\ IsIn(s, readySources[m])
        BY <1>0, <1>3, <1>4, <3>1 DEF k, Rotation
      <4> QED
        BY <1>6, <1>10, <1>11, <3>1, <4>1
    <3>2. CASE ~(n = m /\ t = s)
      <4>1. <<n, t>> # k /\ <<n, t>> \in Keys
        BY <3>2 DEF k, Keys
      <4> QED
        BY <1>0, <1>6, <1>10, <1>11, <3>2, <4>1 DEF Rotation
    <3> QED
      BY <3>1, <3>2
  <2>2. \A n \in Models : readySources'[n] # << >> <=> IsIn(n, readyModels')
    BY <1>0, <1>3, <1>11, <1>12 DEF Rotation
  <2>3. \A n \in Models : Once(readySources'[n])
    BY <1>0, <1>10, <1>11 DEF Rotation
  <2> QED
    BY <1>12, <2>1, <2>2, <2>3 DEF Rotation
<1>14. PendingOK'
  BY <1>7, <1>8, <1>11, <1>12, <1>13 DEF PendingOK, PendingType
<1> QED
  BY <1>5, <1>9, <1>10, <1>11, <1>12, <1>14

(***************************************************************************)
(* The reset of a source takes its requests, and only those, and leaves    *)
(* the order of the others.                                                *)
(***************************************************************************)
LEMMA RemovePending ==
  ASSUME PendingOK, NEW s \in Sources, RemoveSource(s)
  PROVE  /\ PendingOK' /\ QueuedRequests' = {r \in QueuedRequests : r.source # s}
         /\ \A m \in Models : \A x, y :
              Before(x, y, readySources'[m]) => Before(x, y, readySources[m])
         /\ \A x, y : Before(x, y, readyModels') => Before(x, y, readyModels)
<1> DEFINE left(m) == IF queues[<<m, s>>] = << >> THEN readySources[m]
                      ELSE Only(readySources[m], Sources \ {s})
           sources == [m \in Models |-> left(m)]
<1>0. PendingType /\ KeysOwn /\ Rotation
  BY DEF PendingOK
<1>1. /\ queues' = [k \in Keys |-> IF k[2] = s THEN << >> ELSE queues[k]]
      /\ readySources' = sources
      /\ readyModels' = Only(readyModels, {m \in Models : sources[m] # << >>})
  BY DEF RemoveSource
<1>2. /\ queues \in [Keys -> Seq(Requests)] /\ readyModels \in Seq(Models)
      /\ readySources \in [Models -> Seq(Sources)]
  BY <1>0 DEF PendingType
<1>3. /\ \A k \in Keys : queues'[k] = IF k[2] = s THEN << >> ELSE queues[k]
      /\ queues' \in [Keys -> Seq(Requests)]
  BY <1>1, <1>2
<1>4. KeysOwn'
  <2>1. Once(<< >>) /\ \A r : ~IsIn(r, << >>)
    BY DEF Once, IsIn
  <2> QED
    BY <1>0, <1>3, <2>1 DEF KeysOwn
<1>5. QueuedRequests' = {r \in QueuedRequests : r.source # s}
  <2>1. \A x : x \in QueuedRequests <=> \E l \in Keys : IsIn(x, queues[l])
    BY <1>2, UnionIs DEF QueuedRequests
  <2>2. \A x : x \in QueuedRequests' <=> \E l \in Keys : IsIn(x, queues'[l])
    BY <1>3, UnionIs DEF QueuedRequests
  <2>3. \A r : ~IsIn(r, << >>)
    BY DEF IsIn
  <2>4. \A k \in Keys : \A r : IsIn(r, queues[k]) => r.source = k[2]
    BY <1>0 DEF KeysOwn, KeyOf
  <2> QED
    BY <1>3, <2>1, <2>2, <2>3, <2>4
<1>6. ASSUME NEW m \in Models
      PROVE  /\ left(m) \in Seq(Sources) /\ Once(left(m))
             /\ \A y : IsIn(y, left(m)) <=> IsIn(y, readySources[m]) /\ y # s
             /\ \A y, z : Before(y, z, left(m)) => Before(y, z, readySources[m])
  <2>1. readySources[m] \in Seq(Sources) /\ Once(readySources[m])
    BY <1>0, <1>2 DEF Rotation
  <2>2. CASE queues[<<m, s>>] = << >>
    BY <1>0, <2>1, <2>2 DEF Rotation
  <2>3. CASE queues[<<m, s>>] # << >>
    <3> DEFINE w == Only(readySources[m], Sources \ {s})
    <3>1. /\ w \in Seq(Sources) /\ Once(w)
          /\ \A y : IsIn(y, w) <=> IsIn(y, readySources[m]) /\ y \in Sources \ {s}
          /\ \A y, z : Before(y, z, w) => Before(y, z, readySources[m])
      BY <2>1, ListOnly
    <3>2. \A y : IsIn(y, readySources[m]) => y \in Sources
      BY <2>1, ListedIs
    <3>3. left(m) = w
      BY <2>3
    <3> HIDE DEF w, left
    <3> QED
      BY <3>1, <3>2, <3>3
  <2> QED
    BY <2>2, <2>3
<1> HIDE DEF left
<1>7. /\ \A m \in Models : readySources'[m] = left(m) /\ sources[m] = left(m)
      /\ readySources' \in [Models -> Seq(Sources)]
  BY <1>1, <1>6
<1>8. /\ readyModels' \in Seq(Models) /\ Once(readyModels')
      /\ \A m \in Models : IsIn(m, readyModels') <=> IsIn(m, readyModels) /\ left(m) # << >>
      /\ \A x, y : Before(x, y, readyModels') => Before(x, y, readyModels)
  <2> DEFINE S == {m \in Models : sources[m] # << >>}
  <2>1. Once(readyModels) /\ \A m \in Models : m \in S <=> left(m) # << >>
    BY <1>0, <1>7 DEF Rotation
  <2>2. readyModels' = Only(readyModels, S)
    BY <1>1
  <2> HIDE DEF S
  <2> QED
    BY <1>2, <2>1, <2>2, ListOnly
<1>9. \A m \in Models : left(m) # << >> => readySources[m] # << >>
  <2> SUFFICES ASSUME NEW m \in Models, left(m) # << >> PROVE readySources[m] # << >>
    OBVIOUS
  <2>1. PICK y : IsIn(y, left(m))
    BY <1>6, ListedIs
  <2>2. IsIn(y, readySources[m])
    BY <1>6, <2>1
  <2> QED
    BY <1>2, <2>2, ListedIs
<1>10. Rotation'
  <2>1. \A m \in Models, t \in Sources : queues'[<<m, t>>] # << >> <=> IsIn(t, readySources'[m])
    <3>1. \A m \in Models, t \in Sources : <<m, t>> \in Keys /\ <<m, t>>[2] = t
      BY DEF Keys
    <3> QED
      BY <1>0, <1>3, <1>6, <1>7, <3>1 DEF Rotation
  <2> QED
    BY <1>0, <1>6, <1>7, <1>8, <1>9, <2>1 DEF Rotation
<1>11. PendingOK'
  BY <1>3, <1>4, <1>7, <1>8, <1>10 DEF PendingOK, PendingType
<1> QED
  BY <1>5, <1>6, <1>7, <1>8, <1>11

-----------------------------------------------------------------------------
(* Each request is in one place. *)

LEMMA InitIInv ==
  ASSUME Init
  PROVE  IInv
<1>1. Once(<< >>) /\ \A x : ~IsIn(x, << >>)
  BY DEF Once, IsIn
<1>2. channel = << >> /\ \A k \in Keys : queues[k] = << >>
  BY DEF Init
<1>3. TypeOK
  BY DEF Init, TypeOK, Idle
<1>4. InChannel = {} /\ QueuedRequests = {} /\ Started = {} /\ Answers = {} /\ dropped = {}
  <2>1. InChannel = {}
    BY <1>2 DEF InChannel, Range
  <2>2. QueuedRequests = {}
    BY <1>2 DEF QueuedRequests, Range
  <2>3. Started = {}
    BY DEF Init, Idle, Started
  <2>4. \A r \in Requests : results[r.source] = << >>
    BY DEF Requests, Init
  <2>5. Answers = {}
    BY <1>1, <2>4 DEF Answers
  <2> QED
    BY <2>1, <2>2, <2>3, <2>5 DEF Init
<1>5. KeysOwn /\ ResultsOK
  BY <1>1, <1>2 DEF KeysOwn, ResultsOK, Init
<1>6. Rotation
  BY <1>1 DEF Init, Rotation, Keys
<1>7. ChannelOK
  BY <1>2 DEF ChannelOK, RequestsOnce, ResetsAsked
<1>8. DroppedOK /\ Apart /\ Numbered /\ AwaitedSomewhere
  BY <1>4 DEF DroppedOK, Apart, Numbered, AwaitedSomewhere, Places, Init
<1> QED
  BY <1>3, <1>5, <1>6, <1>7, <1>8 DEF IInv

\* A step that leaves the queues alone leaves what is queued and the rotation.
LEMMA PendingUnchanged ==
  ASSUME UNCHANGED pendingVars
  PROVE  /\ QueuedRequests' = QueuedRequests
         /\ KeysOwn => KeysOwn'
         /\ Rotation => Rotation'
BY DEF pendingVars, QueuedRequests, KeysOwn, Rotation

LEMMA SubmitIInv ==
  ASSUME IInv, NEW s \in Sources, NEW m \in Models, Submit(s, m)
  PROVE  IInv'
<1> DEFINE new == Request(s, m, sent[s] + 1)
           command == [type |-> "RequestFor", request |-> new]
<1>0. /\ TypeOK /\ KeysOwn /\ Rotation /\ ChannelOK /\ ResultsOK /\ DroppedOK
      /\ Apart /\ Numbered /\ AwaitedSomewhere
  BY DEF IInv
<1>1. /\ channel' = Append(channel, command)
      /\ awaited' = [awaited EXCEPT ![s] = @ \union {new}]
      /\ sent' = [sent EXCEPT ![s] = @ + 1]
      /\ UNCHANGED <<pendingVars, worker, results, open, resets, passed, dropped>>
  BY DEF Submit
<1>2. /\ new \in Requests /\ command \in Command /\ new.source = s /\ new.n = sent[s] + 1
      /\ command.type = "RequestFor" /\ command.request = new
  BY <1>0 DEF TypeOK, Requests, Request, Command
<1> HIDE DEF new, command
<1>3. sent \in [Sources -> Nat] /\ \A t \in Sources : sent[t] <= sent'[t] /\ sent'[t] \in Nat
  BY <1>0, <1>1 DEF TypeOK
<1>4. new \notin Places
  BY <1>0, <1>2, <1>3 DEF Numbered
<1>5. QueuedRequests' = QueuedRequests /\ KeysOwn' /\ Rotation'
  BY <1>0, <1>1, PendingUnchanged
<1>6. Started' = Started /\ Answers' = Answers /\ dropped' = dropped /\ ResultsOK'
  BY <1>0, <1>1 DEF Started, Answers, ResultsOK
<1>7. channel' \in Seq(Command) /\ RequestsOnce(channel') /\ InChannel' = InChannel \union {new}
  <2>1. new \notin RequestsOf(channel)
    BY <1>4, InChannelIs DEF Places
  <2>2. /\ channel' \in Seq(Command) /\ RequestsOnce(channel')
        /\ \A r : r \in RequestsOf(channel') <=> r \in RequestsOf(channel) \/ r = new
    BY <1>0, <1>1, <1>2, <2>1, CommandSent DEF TypeOK, ChannelOK
  <2>3. InChannel' = RequestsOf(channel')
    BY DEF InChannel, RequestsOf
  <2> QED
    BY <2>2, <2>3, InChannelIs
<1>8. ResetsAsked(channel)'
  <2> SUFFICES ASSUME NEW i \in 1..Len(channel'),
                      channel'[i].type = "ResetStreamingSessionsForSource"
               PROVE  resets[channel'[i].source] > 0
    BY <1>1 DEF ResetsAsked
  <2>1. CASE i \in 1..Len(channel)
    <3>1. channel'[i] = channel[i]
      BY <1>0, <1>1, <2>1 DEF TypeOK
    <3> QED
      BY <1>0, <2>1, <3>1 DEF ChannelOK, ResetsAsked
  <2>2. CASE i = Len(channel) + 1
    BY <1>0, <1>1, <1>2, <2>2 DEF TypeOK
  <2> QED
    BY <1>0, <1>1, <2>1, <2>2 DEF TypeOK
<1>9. TypeOK'
  <2>1. awaited' \in [Sources -> SUBSET Requests] /\ sent' \in [Sources -> Nat]
    BY <1>0, <1>1, <1>2 DEF TypeOK
  <2> QED
    BY <1>0, <1>1, <1>7, <2>1 DEF TypeOK, pendingVars
<1>10. ChannelOK' /\ DroppedOK'
  BY <1>0, <1>1, <1>7, <1>8 DEF ChannelOK, DroppedOK
<1>11. Places' = Places \union {new}
  BY <1>5, <1>6, <1>7 DEF Places
<1>12. Apart'
  BY <1>0, <1>4, <1>5, <1>6, <1>7 DEF Apart, Places
<1>13. Numbered'
  <2> SUFFICES ASSUME NEW r \in Places' PROVE r \in Requests /\ r.n <= sent'[r.source]
    BY DEF Numbered
  <2>1. CASE r = new
    BY <1>1, <1>2, <1>3, <2>1
  <2>2. CASE r \in Places
    <3>1. r \in Requests /\ r.n <= sent[r.source]
      BY <1>0, <2>2 DEF Numbered
    <3>2. r.source \in Sources /\ r.n \in Nat
      BY <3>1 DEF Requests
    <3> QED
      BY <1>3, <3>1, <3>2
  <2> QED
    BY <1>11, <2>1, <2>2
<1>14. AwaitedSomewhere'
  <2>1. \A t \in Sources : awaited'[t] \subseteq awaited[t] \union (IF t = s THEN {new} ELSE {})
    BY <1>0, <1>1 DEF TypeOK
  <2>2. open' = open /\ open \subseteq Sources
    BY <1>0, <1>1 DEF TypeOK
  <2> QED
    BY <1>0, <1>2, <1>11, <2>1, <2>2 DEF AwaitedSomewhere
<1> QED
  BY <1>5, <1>6, <1>9, <1>10, <1>12, <1>13, <1>14 DEF IInv

LEMMA ResetIInv ==
  ASSUME IInv, NEW s \in Sources, Reset(s)
  PROVE  IInv'
<1> DEFINE command == [type |-> "ResetStreamingSessionsForSource", source |-> s]
<1>0. /\ TypeOK /\ KeysOwn /\ Rotation /\ ChannelOK /\ ResultsOK /\ DroppedOK
      /\ Apart /\ Numbered /\ AwaitedSomewhere
  BY DEF IInv
<1>1. /\ channel' = Append(channel, command)
      /\ resets' = [resets EXCEPT ![s] = @ + 1]
      /\ UNCHANGED <<pendingVars, worker, results, open, awaited, sent, passed, dropped>>
  BY DEF Reset
<1>2. command \in Command /\ command.type # "RequestFor" /\ command.source = s
  BY DEF Command
<1> HIDE DEF command
<1>3. /\ resets \in [Sources -> Nat] /\ resets' \in [Sources -> Nat] /\ resets'[s] > 0
      /\ \A t \in Sources : resets[t] > 0 => resets'[t] > 0
  BY <1>0, <1>1 DEF TypeOK
<1>4. QueuedRequests' = QueuedRequests /\ KeysOwn' /\ Rotation'
  BY <1>0, <1>1, PendingUnchanged
<1>5. Started' = Started /\ Answers' = Answers /\ dropped' = dropped /\ ResultsOK'
  BY <1>0, <1>1 DEF Started, Answers, ResultsOK
<1>6. channel' \in Seq(Command) /\ RequestsOnce(channel') /\ InChannel' = InChannel
  <2>1. /\ channel' \in Seq(Command) /\ RequestsOnce(channel')
        /\ \A r : r \in RequestsOf(channel') <=> r \in RequestsOf(channel)
    BY <1>0, <1>1, <1>2, CommandSent DEF TypeOK, ChannelOK
  <2>2. InChannel' = RequestsOf(channel')
    BY DEF InChannel, RequestsOf
  <2>3. RequestsOf(channel') = RequestsOf(channel)
    BY <2>1 DEF RequestsOf
  <2> QED
    BY <2>1, <2>2, <2>3, InChannelIs
<1>7. ResetsAsked(channel)'
  <2> SUFFICES ASSUME NEW i \in 1..Len(channel'),
                      channel'[i].type = "ResetStreamingSessionsForSource"
               PROVE  resets'[channel'[i].source] > 0
    BY DEF ResetsAsked
  <2>1. CASE i \in 1..Len(channel)
    <3>1. channel'[i] = channel[i] /\ channel[i] \in Command
      BY <1>0, <1>1, <2>1 DEF TypeOK
    <3>2. channel[i].source \in Sources
      BY <3>1 DEF Command
    <3> QED
      BY <1>0, <1>3, <2>1, <3>1, <3>2 DEF ChannelOK, ResetsAsked
  <2>2. CASE i = Len(channel) + 1
    BY <1>0, <1>1, <1>2, <1>3, <2>2 DEF TypeOK
  <2> QED
    BY <1>0, <1>1, <2>1, <2>2 DEF TypeOK
<1>8. TypeOK'
  BY <1>0, <1>1, <1>3, <1>6 DEF TypeOK, pendingVars
<1>9. DroppedOK'
  <2>1. \A r \in Requests : r.source \in Sources
    BY DEF Requests
  <2> QED
    BY <1>0, <1>1, <1>3, <2>1 DEF DroppedOK, TypeOK
<1>10. Places' = Places /\ Apart'
  BY <1>0, <1>4, <1>5, <1>6 DEF Places, Apart
<1>11. Numbered' /\ AwaitedSomewhere'
  BY <1>0, <1>1, <1>10 DEF Numbered, AwaitedSomewhere
<1> QED
  BY <1>4, <1>5, <1>6, <1>7, <1>8, <1>9, <1>10, <1>11 DEF IInv, ChannelOK

LEMMA ReceiveIInv ==
  ASSUME IInv, NEW s \in Sources, Receive(s)
  PROVE  IInv'
<1> DEFINE h == Head(results[s])
<1>0. /\ TypeOK /\ KeysOwn /\ Rotation /\ ChannelOK /\ ResultsOK /\ DroppedOK
      /\ Apart /\ Numbered /\ AwaitedSomewhere
  BY DEF IInv
<1>1. /\ results[s] # << >>
      /\ awaited' = [awaited EXCEPT ![s] = @ \ {h}]
      /\ results' = [results EXCEPT ![s] = Tail(@)]
      /\ UNCHANGED <<channel, pendingVars, worker, open, sent, resets, passed, dropped>>
  BY DEF Receive
<1>2. results \in [Sources -> Seq(Requests)] /\ results[s] \in Seq(Requests) /\ Once(results[s])
  BY <1>0 DEF TypeOK, ResultsOK
<1>3. /\ h \in Requests /\ Tail(results[s]) \in Seq(Requests) /\ Once(Tail(results[s]))
      /\ \A y : IsIn(y, Tail(results[s])) <=> IsIn(y, results[s]) /\ y # h
      /\ IsIn(h, results[s])
  BY <1>1, <1>2, ListTail
<1>4. h.source = s
  BY <1>0, <1>3 DEF ResultsOK
<1> HIDE DEF h
<1>5. /\ results'[s] = Tail(results[s]) /\ \A t \in Sources \ {s} : results'[t] = results[t]
      /\ results' \in [Sources -> Seq(Requests)]
  BY <1>1, <1>2, <1>3
<1>6. ResultsOK'
  BY <1>0, <1>3, <1>5 DEF ResultsOK
<1>7. Answers' = Answers \ {h}
  <2>1. \A r \in Requests : r.source \in Sources
    BY DEF Requests
  <2> QED
    BY <1>3, <1>4, <1>5, <2>1 DEF Answers
<1>8. QueuedRequests' = QueuedRequests /\ KeysOwn' /\ Rotation'
  BY <1>0, <1>1, PendingUnchanged
<1>9. Started' = Started /\ InChannel' = InChannel /\ dropped' = dropped
  BY <1>1 DEF Started, InChannel
<1>10. ChannelOK' /\ DroppedOK'
  BY <1>0, <1>1 DEF ChannelOK, RequestsOnce, ResetsAsked, DroppedOK
<1>11. \A t \in Sources : awaited'[t] = IF t = s THEN awaited[t] \ {h} ELSE awaited[t]
  BY <1>0, <1>1 DEF TypeOK
<1>12. TypeOK'
  <2>1. awaited' \in [Sources -> SUBSET Requests]
    BY <1>0, <1>1 DEF TypeOK
  <2> QED
    BY <1>0, <1>1, <1>5, <2>1 DEF TypeOK, pendingVars
<1>13. Places' \subseteq Places /\ Places \ {h} \subseteq Places' /\ Apart'
  BY <1>0, <1>7, <1>8, <1>9 DEF Places, Apart
<1>14. Numbered'
  BY <1>0, <1>1, <1>13 DEF Numbered
<1>15. AwaitedSomewhere'
  <2> SUFFICES ASSUME NEW t \in open, NEW r \in awaited'[t] PROVE r.source = t /\ r \in Places'
    BY <1>1 DEF AwaitedSomewhere
  <2>1. t \in Sources /\ r \in awaited[t] /\ (t = s => r # h)
    BY <1>0, <1>11 DEF TypeOK
  <2>2. r.source = t /\ r \in Places
    BY <1>0, <2>1 DEF AwaitedSomewhere
  <2> QED
    BY <1>4, <1>13, <2>1, <2>2
<1> QED
  BY <1>6, <1>8, <1>10, <1>12, <1>13, <1>14, <1>15 DEF IInv

LEMMA CloseLaneIInv ==
  ASSUME IInv, NEW s \in Sources, CloseLane(s)
  PROVE  IInv'
<1>0. /\ TypeOK /\ KeysOwn /\ Rotation /\ ChannelOK /\ ResultsOK /\ DroppedOK
      /\ Apart /\ Numbered /\ AwaitedSomewhere
  BY DEF IInv
<1>1. /\ open' = open \ {s}
      /\ awaited' = [awaited EXCEPT ![s] = {}]
      /\ results' = [results EXCEPT ![s] = << >>]
      /\ UNCHANGED <<channel, pendingVars, worker, sent, resets, passed, dropped>>
  BY DEF CloseLane
<1>2. \A x : ~IsIn(x, << >>)
  BY DEF IsIn
<1>3. /\ \A t \in Sources : results'[t] = IF t = s THEN << >> ELSE results[t]
      /\ results' \in [Sources -> Seq(Requests)]
  BY <1>0, <1>1 DEF TypeOK
<1>4. ResultsOK'
  <2>1. Once(<< >>)
    BY DEF Once
  <2> QED
    BY <1>0, <1>2, <1>3, <2>1 DEF ResultsOK
<1>5. Answers' = {r \in Answers : r.source # s}
  <2>1. \A r \in Requests : r.source \in Sources
    BY DEF Requests
  <2> QED
    BY <1>2, <1>3, <2>1 DEF Answers
<1>6. QueuedRequests' = QueuedRequests /\ KeysOwn' /\ Rotation'
  BY <1>0, <1>1, PendingUnchanged
<1>7. Started' = Started /\ InChannel' = InChannel /\ dropped' = dropped
  BY <1>1 DEF Started, InChannel
<1>8. ChannelOK' /\ DroppedOK'
  BY <1>0, <1>1 DEF ChannelOK, RequestsOnce, ResetsAsked, DroppedOK
<1>9. \A t \in Sources \ {s} : awaited'[t] = awaited[t]
  BY <1>0, <1>1 DEF TypeOK
<1>10. TypeOK'
  <2>1. awaited' \in [Sources -> SUBSET Requests]
    BY <1>0, <1>1 DEF TypeOK
  <2> QED
    BY <1>0, <1>1, <1>3, <2>1 DEF TypeOK, pendingVars
<1>11. /\ Places' \subseteq Places /\ Apart'
       /\ \A r \in Places : r.source # s => r \in Places'
  BY <1>0, <1>5, <1>6, <1>7 DEF Places, Apart
<1>12. Numbered'
  BY <1>0, <1>1, <1>11 DEF Numbered
<1>13. AwaitedSomewhere'
  BY <1>0, <1>1, <1>9, <1>11 DEF AwaitedSomewhere, TypeOK
<1> QED
  BY <1>4, <1>6, <1>8, <1>10, <1>11, <1>12, <1>13 DEF IInv

\* The two kinds of command that the worker applies.
TakeRequest(r) ==
  /\ Head(channel).type = "RequestFor" /\ r = Head(channel).request
  /\ Push(r)
  /\ passed' = [x \in DOMAIN passed \union {r} |-> IF x \in DOMAIN passed THEN passed[x] ELSE << >>]
  /\ UNCHANGED dropped

TakeReset(s) ==
  /\ Head(channel).type = "ResetStreamingSessionsForSource" /\ s = Head(channel).source
  /\ RemoveSource(s)
  /\ dropped' = dropped \union {r \in QueuedRequests : r.source = s}
  /\ passed' = [r \in {x \in DOMAIN passed : x.source # s} |-> passed[r]]

LEMMA CommandKinds ==
  ASSUME IInv, ApplyCommand
  PROVE  \/ \E r \in InChannel : TakeRequest(r)
         \/ \E s \in Sources : TakeReset(s) /\ resets[s] > 0
<1>1. /\ channel \in Seq(Command) /\ channel # << >> /\ RequestsOnce(channel)
      /\ ResetsAsked(channel)
  BY DEF ApplyCommand, IInv, TypeOK, ChannelOK
<1>2. /\ Head(channel) \in Command
      /\ Head(channel).type = "RequestFor" => Head(channel).request \in RequestsOf(channel)
      /\ Head(channel).type = "ResetStreamingSessionsForSource" => resets[Head(channel).source] > 0
  BY <1>1, CommandTaken
<1>3. Head(channel).type = "ResetStreamingSessionsForSource" => Head(channel).source \in Sources
  BY <1>2 DEF Command
<1> QED
  BY <1>2, <1>3, InChannelIs DEF ApplyCommand, Apply, TakeRequest, TakeReset

LEMMA ChannelTaken ==
  ASSUME IInv, ApplyCommand
  PROVE  /\ channel' \in Seq(Command) /\ ChannelOK'
         /\ \A r : r \in InChannel' <=> r \in InChannel /\ ~(Head(channel).type = "RequestFor"
                                                              /\ r = Head(channel).request)
         /\ UNCHANGED <<worker, laneVars>>
         /\ Started' = Started /\ Answers' = Answers /\ ResultsOK'
<1>1. channel' = Tail(channel) /\ channel # << >> /\ UNCHANGED <<worker, laneVars>>
  BY DEF ApplyCommand
<1>2. /\ channel \in Seq(Command) /\ RequestsOnce(channel) /\ ResetsAsked(channel)
      /\ ResultsOK
  BY DEF IInv, TypeOK, ChannelOK
<1>3. /\ Tail(channel) \in Seq(Command) /\ RequestsOnce(Tail(channel)) /\ ResetsAsked(Tail(channel))
      /\ \A r : r \in RequestsOf(Tail(channel)) <=>
                  r \in RequestsOf(channel) /\ ~(Head(channel).type = "RequestFor"
                                                  /\ r = Head(channel).request)
  BY <1>1, <1>2, CommandTaken
<1>4. InChannel' = RequestsOf(channel') /\ InChannel = RequestsOf(channel)
  BY DEF InChannel, RequestsOf
<1>5. ChannelOK'
  BY <1>1, <1>3 DEF ChannelOK, RequestsOnce, ResetsAsked, laneVars
<1>6. Started' = Started /\ Answers' = Answers /\ ResultsOK'
  BY <1>1, <1>2 DEF Started, Answers, ResultsOK, laneVars
<1> QED
  BY <1>1, <1>3, <1>4, <1>5, <1>6

LEMMA TakeRequestIInv ==
  ASSUME IInv, ApplyCommand, NEW r \in InChannel, TakeRequest(r)
  PROVE  /\ IInv'
         /\ QueuedRequests' = QueuedRequests \union {r} /\ r \notin QueuedRequests
<1>0. /\ TypeOK /\ KeysOwn /\ Rotation /\ ChannelOK /\ ResultsOK /\ DroppedOK
      /\ Apart /\ Numbered /\ AwaitedSomewhere
  BY DEF IInv
<1>1. /\ Head(channel).type = "RequestFor" /\ r = Head(channel).request
      /\ Push(r) /\ UNCHANGED dropped
  BY DEF TakeRequest
<1>2. r \in Requests /\ r \notin QueuedRequests
  BY <1>0 DEF Numbered, Places, Apart
<1>3. PendingOK
  BY <1>0 DEF PendingOK, PendingType, TypeOK
<1>4. PendingOK' /\ QueuedRequests' = QueuedRequests \union {r}
  BY <1>1, <1>2, <1>3, PushPending
<1>5. /\ channel' \in Seq(Command) /\ ChannelOK' /\ UNCHANGED <<worker, laneVars>>
      /\ Started' = Started /\ Answers' = Answers /\ ResultsOK'
      /\ \A x : x \in InChannel' <=> x \in InChannel /\ x # r
  BY <1>1, ChannelTaken
<1>6. TypeOK'
  BY <1>0, <1>1, <1>4, <1>5 DEF TypeOK, PendingOK, PendingType, laneVars
<1>7. Places' = Places /\ Apart'
  BY <1>0, <1>1, <1>4, <1>5 DEF Places, Apart
<1>8. Numbered' /\ AwaitedSomewhere' /\ DroppedOK'
  BY <1>0, <1>1, <1>5, <1>7 DEF Numbered, AwaitedSomewhere, DroppedOK, laneVars
<1> QED
  BY <1>2, <1>4, <1>5, <1>6, <1>7, <1>8 DEF IInv, PendingOK

LEMMA TakeResetIInv ==
  ASSUME IInv, ApplyCommand, NEW s \in Sources, TakeReset(s), resets[s] > 0
  PROVE  IInv'
<1>0. /\ TypeOK /\ KeysOwn /\ Rotation /\ ChannelOK /\ ResultsOK /\ DroppedOK
      /\ Apart /\ Numbered /\ AwaitedSomewhere
  BY DEF IInv
<1>1. /\ Head(channel).type = "ResetStreamingSessionsForSource" /\ RemoveSource(s)
      /\ dropped' = dropped \union {r \in QueuedRequests : r.source = s}
  BY DEF TakeReset
<1>2. PendingOK
  BY <1>0 DEF PendingOK, PendingType, TypeOK
<1>3. PendingOK' /\ QueuedRequests' = {r \in QueuedRequests : r.source # s}
  BY <1>1, <1>2, RemovePending
<1>4. /\ channel' \in Seq(Command) /\ ChannelOK' /\ UNCHANGED <<worker, laneVars>>
      /\ Started' = Started /\ Answers' = Answers /\ ResultsOK'
      /\ InChannel' = InChannel
  <2>1. \A x : x \in InChannel' <=> x \in InChannel
    BY <1>1, ChannelTaken
  <2> QED
    BY <2>1, ChannelTaken DEF InChannel
<1>5. QueuedRequests \subseteq Requests
  BY <1>0 DEF Numbered, Places
<1>6. TypeOK'
  BY <1>0, <1>1, <1>3, <1>4, <1>5 DEF TypeOK, PendingOK, PendingType, laneVars
<1>7. Places' = Places /\ Apart'
  BY <1>0, <1>1, <1>3, <1>4 DEF Places, Apart
<1>8. Numbered' /\ AwaitedSomewhere' /\ DroppedOK'
  BY <1>0, <1>1, <1>4, <1>7 DEF Numbered, AwaitedSomewhere, DroppedOK, laneVars
<1> QED
  BY <1>3, <1>4, <1>6, <1>7, <1>8 DEF IInv, PendingOK

LEMMA DrainedIInv ==
  ASSUME IInv, Drained
  PROVE  IInv'
<1>0. /\ TypeOK /\ KeysOwn /\ Rotation /\ ChannelOK /\ ResultsOK /\ DroppedOK
      /\ Apart /\ Numbered /\ AwaitedSomewhere
  BY DEF IInv
<1>1. /\ worker.at = "draining" /\ worker' = [at |-> "selecting"]
      /\ UNCHANGED <<channel, pendingVars, laneVars, passed, dropped>>
  BY DEF Drained
<1>2. Started = {} /\ Started' = {}
  BY <1>1 DEF Started
<1>3. QueuedRequests' = QueuedRequests /\ KeysOwn' /\ Rotation'
  BY <1>0, <1>1, PendingUnchanged
<1>4. Answers' = Answers /\ InChannel' = InChannel /\ dropped' = dropped /\ ResultsOK'
  BY <1>0, <1>1 DEF Answers, InChannel, ResultsOK, laneVars
<1>5. ChannelOK' /\ DroppedOK'
  BY <1>0, <1>1 DEF ChannelOK, RequestsOnce, ResetsAsked, DroppedOK, laneVars
<1>6. TypeOK'
  BY <1>0, <1>1 DEF TypeOK, pendingVars, laneVars
<1>7. Places' = Places /\ Apart'
  BY <1>0, <1>2, <1>3, <1>4 DEF Places, Apart
<1>8. Numbered' /\ AwaitedSomewhere'
  BY <1>0, <1>1, <1>7 DEF Numbered, AwaitedSomewhere, laneVars
<1> QED
  BY <1>3, <1>4, <1>5, <1>6, <1>7, <1>8 DEF IInv

LEMMA SelectIInv ==
  ASSUME IInv, Select
  PROVE  IInv'
<1>0. /\ TypeOK /\ KeysOwn /\ Rotation /\ ChannelOK /\ ResultsOK /\ DroppedOK
      /\ Apart /\ Numbered /\ AwaitedSomewhere
  BY DEF IInv
<1>1. PICK r \in QueuedRequests : Pop(r) /\ worker' = [at |-> "executing", request |-> r]
  BY DEF Select
<1>2. worker.at = "selecting" /\ UNCHANGED <<channel, laneVars, dropped>>
  BY DEF Select
<1>3. PendingOK
  BY <1>0 DEF PendingOK, PendingType, TypeOK
<1>4. PendingOK' /\ QueuedRequests' = QueuedRequests \ {r}
  BY <1>1, <1>3, PopPending
<1>5. r \in Requests
  BY <1>0 DEF Numbered, Places
<1>6. Started = {} /\ Started' = {r}
  BY <1>1, <1>2 DEF Started
<1>7. Answers' = Answers /\ InChannel' = InChannel /\ dropped' = dropped /\ ResultsOK'
  BY <1>0, <1>2 DEF Answers, InChannel, ResultsOK, laneVars
<1>8. ChannelOK' /\ DroppedOK'
  BY <1>0, <1>2 DEF ChannelOK, RequestsOnce, ResetsAsked, DroppedOK, laneVars
<1>9. TypeOK'
  BY <1>0, <1>1, <1>2, <1>4, <1>5 DEF TypeOK, PendingOK, PendingType, laneVars
<1>10. Places' = Places /\ Apart'
  BY <1>0, <1>1, <1>4, <1>6, <1>7 DEF Places, Apart
<1>11. Numbered' /\ AwaitedSomewhere'
  BY <1>0, <1>2, <1>10 DEF Numbered, AwaitedSomewhere, laneVars
<1> QED
  BY <1>4, <1>7, <1>8, <1>9, <1>10, <1>11 DEF IInv, PendingOK

LEMMA FinishIInv ==
  ASSUME IInv, Finish
  PROVE  IInv'
<1> DEFINE r == worker.request
           s == r.source
<1>0. /\ TypeOK /\ KeysOwn /\ Rotation /\ ChannelOK /\ ResultsOK /\ DroppedOK
      /\ Apart /\ Numbered /\ AwaitedSomewhere
  BY DEF IInv
<1>1. /\ worker.at = "executing" /\ worker' = Idle
      /\ results' = IF s \in open THEN [results EXCEPT ![s] = Append(@, r)] ELSE results
      /\ UNCHANGED <<channel, pendingVars, open, awaited, sent, resets, passed, dropped>>
  BY DEF Finish
<1>2. r \in Requests /\ s \in Sources
  BY <1>0, <1>1 DEF TypeOK, Requests
<1>3. Started = {r} /\ Started' = {}
  BY <1>1 DEF Started, Idle
<1>4. r \notin Answers
  BY <1>0, <1>3 DEF Apart
<1> HIDE DEF r
<1>5. QueuedRequests' = QueuedRequests /\ KeysOwn' /\ Rotation'
  BY <1>0, <1>1, PendingUnchanged
<1>6. InChannel' = InChannel /\ dropped' = dropped
  BY <1>1 DEF InChannel
<1>7. ChannelOK' /\ DroppedOK'
  BY <1>0, <1>1 DEF ChannelOK, RequestsOnce, ResetsAsked, DroppedOK
<1>8. /\ results' \in [Sources -> Seq(Requests)] /\ ResultsOK'
      /\ Answers' = IF s \in open THEN Answers \union {r} ELSE Answers
  <2>1. CASE s \notin open
    <3>1. results' = results
      BY <1>1, <2>1
    <3> QED
      BY <1>0, <2>1, <3>1 DEF TypeOK, ResultsOK, Answers
  <2>2. CASE s \in open
    <3>1. /\ results[s] \in Seq(Requests) /\ Once(results[s]) /\ ~IsIn(r, results[s])
      BY <1>0, <1>2, <1>4 DEF TypeOK, ResultsOK, Answers
    <3>2. /\ Append(results[s], r) \in Seq(Requests) /\ Once(Append(results[s], r))
          /\ \A y : IsIn(y, Append(results[s], r)) <=> IsIn(y, results[s]) \/ y = r
      BY <1>2, <3>1, ListAppend
    <3>3. /\ results'[s] = Append(results[s], r)
          /\ \A t \in Sources \ {s} : results'[t] = results[t]
          /\ results' \in [Sources -> Seq(Requests)]
      BY <1>0, <1>1, <1>2, <2>2, <3>2 DEF TypeOK
    <3>4. ResultsOK'
      BY <1>0, <3>2, <3>3 DEF ResultsOK
    <3>5. \A x \in Requests : x.source \in Sources
      BY DEF Requests
    <3>6. Answers' = Answers \union {r}
      BY <1>2, <3>2, <3>3, <3>5 DEF Answers
    <3> QED
      BY <2>2, <3>3, <3>4, <3>6
  <2> QED
    BY <2>1, <2>2
<1>9. TypeOK'
  BY <1>0, <1>1, <1>8 DEF TypeOK, pendingVars, Idle
<1>10. /\ Places' \subseteq Places /\ Apart'
       /\ \A x \in Places : x # r \/ s \in open => x \in Places'
  BY <1>0, <1>3, <1>5, <1>6, <1>8 DEF Places, Apart
<1>11. Numbered' /\ AwaitedSomewhere'
  BY <1>0, <1>1, <1>10 DEF Numbered, AwaitedSomewhere
<1> QED
  BY <1>5, <1>7, <1>8, <1>9, <1>10, <1>11 DEF IInv

LEMMA Inductive ==
  ASSUME IInv, [Next]_vars
  PROVE  IInv'
<1>1. CASE \E s \in Sources, m \in Models : Submit(s, m)
  BY <1>1, SubmitIInv
<1>2. CASE \E s \in Sources : Reset(s) \/ Receive(s) \/ CloseLane(s)
  BY <1>2, ResetIInv, ReceiveIInv, CloseLaneIInv
<1>3. CASE ApplyCommand
  BY <1>3, CommandKinds, TakeRequestIInv, TakeResetIInv
<1>4. CASE Drained \/ Select \/ Finish
  BY <1>4, DrainedIInv, SelectIInv, FinishIInv
<1>5. CASE UNCHANGED vars
  <2>1. UNCHANGED <<channel, pendingVars, worker, laneVars, dropped>>
    BY <1>5 DEF vars
  <2>2. UNCHANGED <<queues, readyModels, readySources, results, open, awaited, sent, resets>>
    BY <2>1 DEF pendingVars, laneVars
  <2>3. /\ Started' = Started /\ Answers' = Answers /\ InChannel' = InChannel
        /\ QueuedRequests' = QueuedRequests
    BY <2>1, <2>2 DEF Started, Answers, InChannel, QueuedRequests
  <2>4. Places' = Places
    BY <2>1, <2>3 DEF Places
  <2>5. TypeOK' /\ KeysOwn' /\ Rotation' /\ ChannelOK' /\ ResultsOK'
    BY <2>1, <2>2 DEF IInv, TypeOK, KeysOwn, Rotation, ChannelOK, RequestsOnce, ResetsAsked,
                      ResultsOK
  <2>6. DroppedOK' /\ Apart' /\ Numbered' /\ AwaitedSomewhere'
    BY <2>1, <2>2, <2>3, <2>4 DEF IInv, DroppedOK, Apart, Numbered, AwaitedSomewhere
  <2> QED
    BY <2>5, <2>6 DEF IInv
<1> QED
  BY <1>1, <1>2, <1>3, <1>4, <1>5 DEF Next, WorkerStep

LEMMA AccountedFollows ==
  ASSUME IInv
  PROVE  EachRequestAccounted
<1> SUFFICES ASSUME NEW s \in open, NEW r \in awaited[s]
             PROVE  Cardinality({p \in 1..5 :
                       r \in CASE p = 1 -> InChannel
                               [] p = 2 -> QueuedRequests
                               [] p = 3 -> Started
                               [] p = 4 -> Range(results[s])
                               [] p = 5 -> {d \in dropped : resets[d.source] > 0}}) = 1
  BY DEF EachRequestAccounted
<1> DEFINE place(p) == CASE p = 1 -> InChannel
                         [] p = 2 -> QueuedRequests
                         [] p = 3 -> Started
                         [] p = 4 -> Range(results[s])
                         [] p = 5 -> {d \in dropped : resets[d.source] > 0}
           P == {p \in 1..5 : r \in place(p)}
<1>1. r.source = s /\ r \in Places /\ r \in Requests /\ s \in Sources
  BY DEF IInv, AwaitedSomewhere, Numbered, TypeOK
<1>2. r \in Range(results[s]) <=> r \in Answers
  <2>1. results[s] \in Seq(Requests)
    BY <1>1 DEF IInv, TypeOK
  <2>2. r \in Range(results[s]) <=> IsIn(r, results[s])
    BY <2>1, RangeIs
  <2> QED
    BY <1>1, <2>2 DEF Answers
<1>3. r \in {d \in dropped : resets[d.source] > 0} <=> r \in dropped
  BY DEF IInv, DroppedOK
<1>4. /\ 1 \in P <=> r \in InChannel
      /\ 2 \in P <=> r \in QueuedRequests
      /\ 3 \in P <=> r \in Started
      /\ 4 \in P <=> r \in Answers
      /\ 5 \in P <=> r \in dropped
  BY <1>2, <1>3
<1>5. P \subseteq {1, 2, 3, 4, 5}
  OBVIOUS
<1> HIDE DEF P
<1>6. \E p : P = {p}
  <2>1. Apart
    BY DEF IInv
  <2>2. CASE r \in InChannel
    <3>1. P = {1}
      BY <1>4, <1>5, <2>1, <2>2 DEF Apart
    <3> QED
      BY <3>1
  <2>3. CASE r \in QueuedRequests
    <3>1. P = {2}
      BY <1>4, <1>5, <2>1, <2>3 DEF Apart
    <3> QED
      BY <3>1
  <2>4. CASE r \in Started
    <3>1. P = {3}
      BY <1>4, <1>5, <2>1, <2>4 DEF Apart
    <3> QED
      BY <3>1
  <2>5. CASE r \in Answers
    <3>1. P = {4}
      BY <1>4, <1>5, <2>1, <2>5 DEF Apart
    <3> QED
      BY <3>1
  <2>6. CASE r \in dropped
    <3>1. P = {5}
      BY <1>4, <1>5, <2>1, <2>6 DEF Apart
    <3> QED
      BY <3>1
  <2> QED
    BY <1>1, <2>2, <2>3, <2>4, <2>5, <2>6 DEF Places
<1>7. Cardinality(P) = 1
  BY <1>6, FS_Singleton
<1> QED
  BY <1>7 DEF P

-----------------------------------------------------------------------------
(* Nobody monopolizes the worker. *)

LEMMA QueuedListed ==
  ASSUME PendingOK, NEW r \in QueuedRequests
  PROVE  r \in Requests /\ IsIn(r.source, readySources[r.model]) /\ IsIn(r.model, readyModels)
<1>0. PendingType /\ KeysOwn /\ Rotation
  BY DEF PendingOK
<1>1. r \in Requests /\ IsIn(r, queues[KeyOf(r)])
  BY <1>0, QueuedIs
<1>2. r.model \in Models /\ r.source \in Sources /\ KeyOf(r) = <<r.model, r.source>>
  BY <1>1 DEF Requests, KeyOf
<1>3. queues[<<r.model, r.source>>] \in Seq(Requests) /\ readySources[r.model] \in Seq(Sources)
  BY <1>0, <1>2 DEF PendingType, Keys
<1>4. queues[<<r.model, r.source>>] # << >>
  BY <1>1, <1>2, <1>3, ListedIs
<1>5. IsIn(r.source, readySources[r.model])
  BY <1>0, <1>2, <1>4 DEF Rotation
<1>6. readySources[r.model] # << >>
  BY <1>3, <1>5, ListedIs
<1> QED
  BY <1>0, <1>1, <1>2, <1>5, <1>6 DEF Rotation

Count(q, key) == Cardinality({i \in DOMAIN q : q[i] = key})

LEMMA CountIs ==
  ASSUME NEW T, NEW q \in Seq(T), NEW x \in T, NEW key
  PROVE  /\ Count(q, key) \in Nat /\ Count(<< >>, key) = 0
         /\ Count(Append(q, x), key) = Count(q, key) + (IF x = key THEN 1 ELSE 0)
<1> DEFINE w == Append(q, x)
           n == Len(q)
           P == {i \in 1..n : q[i] = key}
<1>1. /\ n \in Nat /\ Len(w) = n + 1 /\ w[n + 1] = x /\ \A i \in 1..n : w[i] = q[i]
      /\ DOMAIN q = 1..n /\ DOMAIN w = 1..(n + 1)
  OBVIOUS
<1> HIDE DEF w, n
<1>2. IsFiniteSet(P) /\ Cardinality(P) \in Nat
  <2>1. IsFiniteSet(1..n)
    BY <1>1, FS_Interval
  <2>2. P \subseteq 1..n
    OBVIOUS
  <2> QED
    BY <2>1, <2>2, FS_Subset, FS_CardinalityType
<1>3. {i \in 1..(n + 1) : w[i] = key} = IF x = key THEN P \union {n + 1} ELSE P
  <2>1. \A i \in 1..(n + 1) : i \in 1..n \/ i = n + 1
    BY <1>1
  <2>2. 1..n \subseteq 1..(n + 1) /\ n + 1 \in 1..(n + 1) /\ n + 1 \notin 1..n
    BY <1>1
  <2> QED
    BY <1>1, <2>1, <2>2
<1>4. n + 1 \notin P
  BY <1>1
<1>5. Count(q, key) = Cardinality(P)
  BY <1>1 DEF Count
<1>6. Count(w, key) = Cardinality(IF x = key THEN P \union {n + 1} ELSE P)
  BY <1>1, <1>3 DEF Count
<1> HIDE DEF P
<1>7. Cardinality(P \union {n + 1}) = Cardinality(P) + 1
  BY <1>2, <1>4, FS_AddElement
<1>8. Count(<< >>, key) = 0
  <2>1. {i \in DOMAIN << >> : << >>[i] = key} = {}
    OBVIOUS
  <2> QED
    BY <2>1, FS_EmptySet DEF Count
<1> QED
  BY <1>2, <1>5, <1>6, <1>7, <1>8 DEF w

LEMMA InitFair ==
  ASSUME Init
  PROVE  FairInv
<1>1. DOMAIN passed = {}
  BY DEF Init
<1>2. QueuedRequests = {}
  BY DEF Init, QueuedRequests, Range
<1> QED
  BY <1>1, <1>2 DEF FairInv, PassedOK, SourcesFair, ModelsFair

LEMMA FairUnchanged ==
  ASSUME FairInv, UNCHANGED <<pendingVars, passed>>
  PROVE  FairInv'
<1>1. QueuedRequests' = QueuedRequests
  BY PendingUnchanged
<1> QED
  BY <1>1 DEF FairInv, PassedOK, SourcesFair, ModelsFair, TimesPassed, pendingVars

(***************************************************************************)
(* Requests that stay queued, and nobody gets ahead of them.               *)
(***************************************************************************)
LEMMA FairFor ==
  ASSUME FairInv, NEW x \in DOMAIN passed, x \in DOMAIN passed', passed'[x] = passed[x],
         \A s : Before(s, x.source, readySources'[x.model])
                  => Before(s, x.source, readySources[x.model]),
         \A m : Before(m, x.model, readyModels') => Before(m, x.model, readyModels)
  PROVE  /\ \A s \in Sources \ {x.source} :
              /\ TimesPassed(x, <<x.model, s>>)' <= TimesPassed(x, KeyOf(x))' + 1
              /\ Before(s, x.source, readySources'[x.model])
                   => TimesPassed(x, <<x.model, s>>)' <= TimesPassed(x, KeyOf(x))'
         /\ \A i, j \in 1..Len(passed'[x]) :
              i < j /\ passed'[x][i][1] = passed'[x][j][1] /\ passed'[x][i][1] # x.model
                => \E k \in i..j : passed'[x][k][1] = x.model
         /\ \A i \in 1..Len(passed'[x]) :
              Before(passed'[x][i][1], x.model, readyModels')
                => \E k \in i..Len(passed'[x]) : passed'[x][k][1] = x.model
<1>1. \A key : TimesPassed(x, key)' = TimesPassed(x, key)
  BY DEF TimesPassed
<1>2. SourcesFair /\ ModelsFair
  BY DEF FairInv
<1>3. \A s \in Sources \ {x.source} :
        /\ TimesPassed(x, <<x.model, s>>) <= TimesPassed(x, KeyOf(x)) + 1
        /\ Before(s, x.source, readySources[x.model])
             => TimesPassed(x, <<x.model, s>>) <= TimesPassed(x, KeyOf(x))
  BY <1>2 DEF SourcesFair
<1>4. /\ \A i, j \in 1..Len(passed[x]) :
           i < j /\ passed[x][i][1] = passed[x][j][1] /\ passed[x][i][1] # x.model
             => \E k \in i..j : passed[x][k][1] = x.model
      /\ \A i \in 1..Len(passed[x]) :
           Before(passed[x][i][1], x.model, readyModels)
             => \E k \in i..Len(passed[x]) : passed[x][k][1] = x.model
  BY <1>2 DEF ModelsFair
<1> QED
  BY <1>1, <1>3, <1>4

LEMMA TakeRequestFair ==
  ASSUME IInv, FairInv, ApplyCommand, NEW r \in InChannel, TakeRequest(r)
  PROVE  FairInv'
<1>1. /\ PendingOK /\ r \in Requests /\ r \notin QueuedRequests
      /\ QueuedRequests' = QueuedRequests \union {r}
  <2>1. r \in Requests
    BY DEF IInv, Numbered, Places
  <2> QED
    BY <2>1, TakeRequestIInv DEF IInv, PendingOK, PendingType, TypeOK
<1>2. /\ \A m \in Models : \A x, y : Before(x, y, readySources'[m])
           => Before(x, y, readySources[m]) \/ ~IsIn(y, readySources[m])
      /\ \A x, y : Before(x, y, readyModels')
           => Before(x, y, readyModels) \/ ~IsIn(y, readyModels)
  BY <1>1, PushPending DEF TakeRequest
<1>3. DOMAIN passed = QueuedRequests /\ \A x \in QueuedRequests : passed[x] \in Seq(Keys)
  BY DEF FairInv, PassedOK
<1>4. /\ DOMAIN passed' = QueuedRequests'
      /\ \A x \in QueuedRequests : passed'[x] = passed[x]
      /\ passed'[r] = << >>
  BY <1>1, <1>3 DEF TakeRequest
<1>5. PassedOK'
  <2>1. << >> \in Seq(Keys)
    OBVIOUS
  <2>2. \A x \in QueuedRequests' : passed'[x] \in Seq(Keys)
    BY <1>1, <1>3, <1>4, <2>1
  <2> QED
    BY <1>4, <2>2 DEF PassedOK
<1>6. \A x \in QueuedRequests : /\ x.model \in Models /\ IsIn(x.source, readySources[x.model])
                                /\ IsIn(x.model, readyModels)
  BY <1>1, QueuedListed DEF Requests
<1>7. ASSUME NEW x \in QueuedRequests
      PROVE  /\ x \in DOMAIN passed /\ x \in DOMAIN passed' /\ passed'[x] = passed[x]
             /\ \A s : Before(s, x.source, readySources'[x.model])
                         => Before(s, x.source, readySources[x.model])
             /\ \A m : Before(m, x.model, readyModels') => Before(m, x.model, readyModels)
  BY <1>1, <1>2, <1>3, <1>4, <1>6
<1>8. SourcesFair'
  <2> SUFFICES ASSUME NEW x \in DOMAIN passed', NEW s \in Sources \ {x.source}
               PROVE  /\ TimesPassed(x, <<x.model, s>>)' <= TimesPassed(x, KeyOf(x))' + 1
                      /\ Before(s, x.source, readySources'[x.model])
                           => TimesPassed(x, <<x.model, s>>)' <= TimesPassed(x, KeyOf(x))'
    BY DEF SourcesFair
  <2>1. CASE x \in QueuedRequests
    BY <1>7, <2>1, FairFor
  <2>2. CASE x = r
    <3>1. \A key : TimesPassed(x, key)' = 0
      <4>1. \A key : {i \in DOMAIN << >> : << >>[i] = key} = {}
        OBVIOUS
      <4> QED
        BY <1>4, <2>2, <4>1, FS_EmptySet DEF TimesPassed
    <3> QED
      BY <3>1
  <2> QED
    BY <1>1, <1>4, <2>1, <2>2
<1>9. ModelsFair'
  <2> SUFFICES ASSUME NEW x \in DOMAIN passed'
               PROVE  /\ \A i, j \in 1..Len(passed'[x]) :
                           i < j /\ passed'[x][i][1] = passed'[x][j][1]
                             /\ passed'[x][i][1] # x.model
                               => \E k \in i..j : passed'[x][k][1] = x.model
                      /\ \A i \in 1..Len(passed'[x]) :
                           Before(passed'[x][i][1], x.model, readyModels')
                             => \E k \in i..Len(passed'[x]) : passed'[x][k][1] = x.model
    BY DEF ModelsFair
  <2>1. CASE x \in QueuedRequests
    BY <1>7, <2>1, FairFor
  <2>2. CASE x = r
    <3>1. 1..Len(passed'[x]) = {}
      BY <1>4, <2>2
    <3> QED
      BY <3>1
  <2> QED
    BY <1>1, <1>4, <2>1, <2>2
<1> QED
  BY <1>5, <1>8, <1>9 DEF FairInv

LEMMA TakeResetFair ==
  ASSUME IInv, FairInv, NEW s \in Sources, TakeReset(s)
  PROVE  FairInv'
<1>1. PendingOK
  BY DEF IInv, PendingOK, PendingType, TypeOK
<1>2. /\ QueuedRequests' = {r \in QueuedRequests : r.source # s}
      /\ \A m \in Models : \A x, y :
           Before(x, y, readySources'[m]) => Before(x, y, readySources[m])
      /\ \A x, y : Before(x, y, readyModels') => Before(x, y, readyModels)
  BY <1>1, RemovePending DEF TakeReset
<1>3. DOMAIN passed = QueuedRequests /\ \A x \in QueuedRequests : passed[x] \in Seq(Keys)
  BY DEF FairInv, PassedOK
<1>4. DOMAIN passed' = QueuedRequests' /\ \A x \in QueuedRequests' : passed'[x] = passed[x]
  BY <1>2, <1>3 DEF TakeReset
<1>5. PassedOK'
  BY <1>2, <1>3, <1>4 DEF PassedOK
<1>6. ASSUME NEW x \in DOMAIN passed'
      PROVE  /\ x \in DOMAIN passed /\ passed'[x] = passed[x]
             /\ \A t : Before(t, x.source, readySources'[x.model])
                         => Before(t, x.source, readySources[x.model])
             /\ \A m : Before(m, x.model, readyModels') => Before(m, x.model, readyModels)
  <2>1. x.model \in Models
    BY <1>1, <1>2, <1>4, QueuedListed DEF Requests
  <2> QED
    BY <1>2, <1>3, <1>4, <2>1
<1>7. SourcesFair'
  BY <1>6, FairFor DEF SourcesFair
<1>8. ModelsFair'
  BY <1>6, FairFor DEF ModelsFair
<1> QED
  BY <1>5, <1>7, <1>8 DEF FairInv

LEMMA SelectFair ==
  ASSUME IInv, FairInv, Select
  PROVE  FairInv'
<1>1. PICK r \in QueuedRequests :
        Pop(r) /\ passed' = [x \in DOMAIN passed \ {r} |-> Append(passed[x], KeyOf(r))]
  BY DEF Select
<1>2. PendingOK
  BY DEF IInv, PendingOK, PendingType, TypeOK
<1> DEFINE m == r.model
           s == r.source
<1>3. /\ QueuedRequests' = QueuedRequests \ {r}
      /\ \A n \in Models \ {m} : readySources'[n] = readySources[n]
      /\ \A x : IsIn(x, readySources[m]) /\ x # s => Before(s, x, readySources[m])
      /\ \A x, y : Before(x, y, readySources'[m])
           => (Before(x, y, readySources[m]) /\ x # s) \/ y = s
      /\ \A x : IsIn(x, readyModels) /\ x # m => Before(m, x, readyModels)
      /\ \A x, y : Before(x, y, readyModels') => (Before(x, y, readyModels) /\ x # m) \/ y = m
  BY <1>1, <1>2, PopPending
<1>4. /\ r \in Requests /\ m \in Models /\ s \in Sources /\ KeyOf(r) = <<m, s>>
      /\ KeyOf(r) \in Keys
  BY <1>2, QueuedListed DEF Requests, KeyOf, Keys
<1> HIDE DEF m, s
<1>5. DOMAIN passed = QueuedRequests /\ \A x \in QueuedRequests : passed[x] \in Seq(Keys)
  BY DEF FairInv, PassedOK
<1>6. /\ DOMAIN passed' = QueuedRequests'
      /\ \A x \in QueuedRequests' : x \in QueuedRequests
                                      /\ passed'[x] = Append(passed[x], KeyOf(r))
  BY <1>1, <1>3, <1>5
<1>7. \A x \in QueuedRequests' : /\ x.model \in Models /\ x.source \in Sources
                                 /\ KeyOf(x) = <<x.model, x.source>>
                                 /\ IsIn(x.source, readySources[x.model])
                                 /\ IsIn(x.model, readyModels)
  BY <1>2, <1>6, QueuedListed DEF Requests, KeyOf
<1>8. PassedOK'
  <2>1. \A q \in Seq(Keys) : Append(q, KeyOf(r)) \in Seq(Keys)
    BY <1>4
  <2>2. \A x \in QueuedRequests' : passed'[x] \in Seq(Keys)
    BY <1>5, <1>6, <2>1
  <2> QED
    BY <1>6, <2>2 DEF PassedOK
<1>9. SourcesFair'
  <2> SUFFICES ASSUME NEW x \in QueuedRequests', NEW t \in Sources \ {x.source}
               PROVE  /\ TimesPassed(x, <<x.model, t>>)' <= TimesPassed(x, KeyOf(x))' + 1
                      /\ Before(t, x.source, readySources'[x.model])
                           => TimesPassed(x, <<x.model, t>>)' <= TimesPassed(x, KeyOf(x))'
    BY <1>6 DEF SourcesFair
  <2> DEFINE theirs == TimesPassed(x, <<x.model, t>>)
             own == TimesPassed(x, KeyOf(x))
  <2>1. /\ theirs \in Nat /\ own \in Nat
        /\ TimesPassed(x, <<x.model, t>>)' = theirs + (IF KeyOf(r) = <<x.model, t>> THEN 1 ELSE 0)
        /\ TimesPassed(x, KeyOf(x))' = own + (IF KeyOf(r) = KeyOf(x) THEN 1 ELSE 0)
    <3>1. passed[x] \in Seq(Keys) /\ passed'[x] = Append(passed[x], KeyOf(r))
      BY <1>5, <1>6
    <3>2. \A key : /\ TimesPassed(x, key) = Count(passed[x], key)
                   /\ TimesPassed(x, key)' = Count(passed'[x], key)
      BY DEF TimesPassed, Count
    <3>3. \A key : /\ Count(passed[x], key) \in Nat
                   /\ Count(Append(passed[x], KeyOf(r)), key)
                        = Count(passed[x], key) + (IF KeyOf(r) = key THEN 1 ELSE 0)
      BY <1>4, <3>1, CountIs
    <3> QED
      BY <3>1, <3>2, <3>3, Zenon
  <2>2. /\ theirs <= own + 1
        /\ Before(t, x.source, readySources[x.model]) => theirs <= own
    BY <1>5, <1>6 DEF FairInv, SourcesFair
  <2> HIDE DEF theirs, own
  <2>3. CASE x.model # m
    <3>1. KeyOf(r) # <<x.model, t>> /\ KeyOf(r) # KeyOf(x)
      BY <1>4, <1>7, <2>3
    <3>2. readySources'[x.model] = readySources[x.model]
      BY <1>3, <1>7, <2>3
    <3> QED
      BY <2>1, <2>2, <3>1, <3>2
  <2>4. CASE x.model = m /\ x.source = s
    <3>1. KeyOf(r) # <<x.model, t>> /\ KeyOf(r) = KeyOf(x)
      BY <1>4, <1>7, <2>4
    <3> QED
      BY <2>1, <2>2, <3>1
  <2>5. CASE x.model = m /\ x.source # s /\ t = s
    <3>1. KeyOf(r) = <<x.model, t>> /\ KeyOf(r) # KeyOf(x)
      BY <1>4, <1>7, <2>5
    <3>2. Before(t, x.source, readySources[x.model])
      BY <1>3, <1>7, <2>5
    <3>3. ~Before(t, x.source, readySources'[x.model])
      BY <1>3, <2>5
    <3> QED
      BY <2>1, <2>2, <3>1, <3>2, <3>3
  <2>6. CASE x.model = m /\ x.source # s /\ t # s
    <3>1. KeyOf(r) # <<x.model, t>> /\ KeyOf(r) # KeyOf(x)
      BY <1>4, <1>7, <2>6
    <3>2. Before(t, x.source, readySources'[x.model]) => Before(t, x.source, readySources[x.model])
      BY <1>3, <2>6
    <3> QED
      BY <2>1, <2>2, <3>1, <3>2
  <2> QED
    BY <2>3, <2>4, <2>5, <2>6
<1>10. ModelsFair'
  <2> SUFFICES ASSUME NEW x \in QueuedRequests'
               PROVE  /\ \A i, j \in 1..Len(passed'[x]) :
                           i < j /\ passed'[x][i][1] = passed'[x][j][1]
                             /\ passed'[x][i][1] # x.model
                               => \E k \in i..j : passed'[x][k][1] = x.model
                      /\ \A i \in 1..Len(passed'[x]) :
                           Before(passed'[x][i][1], x.model, readyModels')
                             => \E k \in i..Len(passed'[x]) : passed'[x][k][1] = x.model
    BY <1>6 DEF ModelsFair
  <2> DEFINE w == passed'[x]
             q == passed[x]
             n == Len(q)
  <2>1. /\ n \in Nat /\ Len(w) = n + 1 /\ w[n + 1][1] = m /\ \A i \in 1..n : w[i] = q[i]
    BY <1>4, <1>5, <1>6
  <2>2. /\ \A i, j \in 1..n : i < j /\ q[i][1] = q[j][1] /\ q[i][1] # x.model
             => \E k \in i..j : q[k][1] = x.model
        /\ \A i \in 1..n : Before(q[i][1], x.model, readyModels)
             => \E k \in i..n : q[k][1] = x.model
    BY <1>5, <1>6 DEF FairInv, ModelsFair
  <2> HIDE DEF w, q, n
  <2>3. \A i, j \in 1..n : \A k \in i..j : k \in 1..n
    BY <2>1
  <2>4. ASSUME NEW i \in 1..(n + 1), NEW j \in 1..(n + 1), i < j,
               w[i][1] = w[j][1], w[i][1] # x.model
        PROVE  \E k \in i..j : w[k][1] = x.model
    <3>1. i \in 1..n
      BY <2>1, <2>4
    <3>2. CASE j \in 1..n
      BY <2>1, <2>2, <2>3, <2>4, <3>1, <3>2
    <3>3. CASE j = n + 1
      <4>1. q[i][1] = m /\ m # x.model
        BY <2>1, <2>4, <3>1, <3>3
      <4>2. Before(m, x.model, readyModels)
        BY <1>3, <1>7, <4>1
      <4>3. PICK k \in i..n : q[k][1] = x.model
        BY <2>2, <3>1, <4>1, <4>2
      <4>4. k \in 1..n /\ k \in i..j
        BY <2>1, <3>1, <3>3
      <4> QED
        BY <2>1, <4>3, <4>4
    <3> QED
      BY <2>1, <3>2, <3>3
  <2>5. ASSUME NEW i \in 1..(n + 1), Before(w[i][1], x.model, readyModels')
        PROVE  \E k \in i..(n + 1) : w[k][1] = x.model
    <3>1. CASE x.model = m
      <4>1. n + 1 \in i..(n + 1)
        BY <2>1
      <4> QED
        BY <2>1, <3>1, <4>1
    <3>2. CASE x.model # m
      <4>1. Before(w[i][1], x.model, readyModels) /\ w[i][1] # m
        BY <1>3, <2>5, <3>2
      <4>2. i \in 1..n
        BY <2>1, <4>1
      <4>3. PICK k \in i..n : q[k][1] = x.model
        BY <2>1, <2>2, <4>1, <4>2
      <4>4. k \in 1..n /\ k \in i..(n + 1)
        BY <2>1, <4>2
      <4> QED
        BY <2>1, <4>3, <4>4
    <3> QED
      BY <3>1, <3>2
  <2> QED
    BY <2>1, <2>4, <2>5 DEF w
<1> QED
  BY <1>8, <1>9, <1>10 DEF FairInv

LEMMA InductiveFair ==
  ASSUME IInv, FairInv, [Next]_vars
  PROVE  FairInv'
<1>1. CASE \E s \in Sources, m \in Models : Submit(s, m)
  BY <1>1, FairUnchanged DEF Submit
<1>2. CASE \E s \in Sources : Reset(s) \/ Receive(s) \/ CloseLane(s)
  BY <1>2, FairUnchanged DEF Reset, Receive, CloseLane
<1>3. CASE ApplyCommand
  BY <1>3, CommandKinds, TakeRequestFair, TakeResetFair
<1>4. CASE Drained \/ Finish
  BY <1>4, FairUnchanged DEF Drained, Finish
<1>5. CASE Select
  BY <1>5, SelectFair
<1>6. CASE UNCHANGED vars
  BY <1>6, FairUnchanged DEF vars
<1> QED
  BY <1>1, <1>2, <1>3, <1>4, <1>5, <1>6 DEF Next, WorkerStep

LEMMA FairFollows ==
  ASSUME FairInv
  PROVE  NoMonopoly
<1> SUFFICES ASSUME NEW r \in DOMAIN passed
             PROVE  /\ \A s \in Sources \ {r.source} :
                         TimesPassed(r, <<r.model, s>>) <= TimesPassed(r, KeyOf(r)) + 1
                    /\ \A i, j \in DOMAIN passed[r] :
                         i < j /\ passed[r][i][1] = passed[r][j][1] /\ passed[r][i][1] # r.model
                           => \E k \in i..j : passed[r][k][1] = r.model
  BY DEF NoMonopoly
<1>1. DOMAIN passed[r] = 1..Len(passed[r])
  BY DEF FairInv, PassedOK
<1> QED
  BY <1>1 DEF FairInv, SourcesFair, ModelsFair

(***************************************************************************)
(* The types of the worker's state hold in every reachable state.          *)
(***************************************************************************)
THEOREM TypeCorrect == Spec => []TypeOK
<1>1. IInv => TypeOK
  BY DEF IInv
<1> QED
  BY <1>1, InitIInv, Inductive, PTL DEF Spec

(***************************************************************************)
(* Whatever is submitted, reset and closed, each request that an open lane *)
(* waits for is in exactly one place: in the channel, in its queue, with   *)
(* the worker, among the lane's results, or forgotten by a reset that the  *)
(* lane asked for.                                                         *)
(***************************************************************************)
THEOREM RequestsAccounted == Spec => []EachRequestAccounted
BY InitIInv, Inductive, AccountedFollows, PTL DEF Spec

(***************************************************************************)
(* Whatever pushes, pops and resets do to the rotation lists, a request is *)
(* overtaken by each other lane of its model at most once more than its    *)
(* own lane is served, and no other model is served twice before its own.  *)
(***************************************************************************)
THEOREM NobodyMonopolizes == Spec => []NoMonopoly
<1>1. Init => IInv /\ FairInv
  BY InitIInv, InitFair
<1>2. IInv /\ FairInv /\ [Next]_vars => (IInv /\ FairInv)'
  BY Inductive, InductiveFair
<1>3. IInv /\ FairInv => NoMonopoly
  BY FairFollows
<1> QED
  BY <1>1, <1>2, <1>3, PTL DEF Spec

-----------------------------------------------------------------------------
(* A reset does not reach what was submitted after it. *)

\* What a reset still in the channel will find queued was submitted before it.
ResetsCover ==
  \A i \in 1..Len(channel) :
     channel[i].type = "ResetStreamingSessionsForSource" =>
       /\ \A r \in QueuedRequests : r.source = channel[i].source => r.n <= covered[r.source]
       /\ \A j \in 1..(i - 1) :
            channel[j].type = "RequestFor" /\ channel[j].request.source = channel[i].source
              => channel[j].request.n <= covered[channel[i].source]

OrderInv ==
  /\ covered \in [Sources -> Nat]
  /\ \A s \in Sources : covered[s] <= sent[s]
  /\ ResetsCover
  /\ ResetIsInOrder

LEMMA InitOrder == Init => OrderInv
<1> SUFFICES ASSUME Init PROVE OrderInv
  OBVIOUS
<1>1. Len(channel) = 0 /\ dropped = {}
  BY DEF Init
<1> QED
  BY <1>1 DEF Init, OrderInv, ResetsCover, ResetIsInOrder

LEMMA OrderKept ==
  ASSUME OrderInv, QueuedRequests' \subseteq QueuedRequests,
         UNCHANGED <<channel, covered, sent, dropped>>
  PROVE  OrderInv'
BY DEF OrderInv, ResetsCover, ResetIsInOrder

LEMMA SubmitOrder ==
  ASSUME IInv, OrderInv, NEW s \in Sources, NEW m \in Models, Submit(s, m)
  PROVE  OrderInv'
<1> DEFINE command == [type |-> "RequestFor", request |-> Request(s, m, sent[s] + 1)]
<1>1. /\ channel' = Append(channel, command)
      /\ sent' = [sent EXCEPT ![s] = @ + 1]
      /\ UNCHANGED <<pendingVars, covered, dropped>>
  BY DEF Submit
<1>2. command.type = "RequestFor"
  OBVIOUS
<1> HIDE DEF command
<1>3. channel \in Seq(Command) /\ sent \in [Sources -> Nat]
  BY DEF IInv, TypeOK
<1>4. /\ Len(channel') = Len(channel) + 1 /\ channel'[Len(channel) + 1] = command
      /\ \A i \in 1..Len(channel) : channel'[i] = channel[i]
  BY <1>1, <1>3
<1>5. QueuedRequests' = QueuedRequests
  BY <1>1, PendingUnchanged
<1>6. \A t \in Sources : covered'[t] <= sent'[t]
  BY <1>1, <1>3 DEF OrderInv
<1>7. ResetsCover'
  <2> SUFFICES ASSUME NEW i \in 1..Len(channel'),
                      channel'[i].type = "ResetStreamingSessionsForSource"
               PROVE  /\ \A r \in QueuedRequests :
                            r.source = channel'[i].source => r.n <= covered[r.source]
                      /\ \A j \in 1..(i - 1) :
                           channel'[j].type = "RequestFor"
                             /\ channel'[j].request.source = channel'[i].source
                           => channel'[j].request.n <= covered[channel'[i].source]
    BY <1>1, <1>5 DEF ResetsCover
  <2>1. i \in 1..Len(channel) /\ \A j \in 1..(i - 1) : j \in 1..Len(channel)
    BY <1>2, <1>3, <1>4
  <2> QED
    BY <1>4, <2>1 DEF OrderInv, ResetsCover
<1> QED
  BY <1>1, <1>6, <1>7 DEF OrderInv, ResetIsInOrder

\* What a lane has submitted so far is before the reset it sends now.
LEMMA ResetOrder ==
  ASSUME IInv, OrderInv, NEW s \in Sources, Reset(s)
  PROVE  OrderInv'
<1> DEFINE command == [type |-> "ResetStreamingSessionsForSource", source |-> s]
<1>1. /\ channel' = Append(channel, command)
      /\ covered' = [covered EXCEPT ![s] = sent[s]]
      /\ UNCHANGED <<pendingVars, sent, dropped>>
  BY DEF Reset
<1>2. command.source = s
  OBVIOUS
<1> HIDE DEF command
<1>3. channel \in Seq(Command) /\ sent \in [Sources -> Nat] /\ covered \in [Sources -> Nat]
  BY DEF IInv, TypeOK, OrderInv
<1>4. /\ Len(channel') = Len(channel) + 1 /\ channel'[Len(channel) + 1] = command
      /\ \A i \in 1..Len(channel) : channel'[i] = channel[i]
  BY <1>1, <1>3
<1>5. QueuedRequests' = QueuedRequests
  BY <1>1, PendingUnchanged
<1>6. /\ covered' \in [Sources -> Nat]
      /\ \A t \in Sources : covered[t] <= covered'[t] /\ covered'[t] <= sent'[t]
      /\ covered'[s] = sent[s]
  BY <1>1, <1>3 DEF OrderInv
<1>7. \A r \in Places : /\ r \in Requests /\ r.n \in Nat /\ r.source \in Sources
                        /\ r.n <= sent[r.source]
  BY DEF IInv, Numbered, Requests
<1>8. \A i \in 1..Len(channel) :
        channel[i].type = "RequestFor" => channel[i].request \in Places
  BY <1>3, RequestsOfIs, InChannelIs DEF Places
<1>9. ResetsCover'
  <2> SUFFICES ASSUME NEW i \in 1..Len(channel'),
                      channel'[i].type = "ResetStreamingSessionsForSource"
               PROVE  /\ \A r \in QueuedRequests :
                            r.source = channel'[i].source => r.n <= covered'[r.source]
                      /\ \A j \in 1..(i - 1) :
                           channel'[j].type = "RequestFor"
                             /\ channel'[j].request.source = channel'[i].source
                           => channel'[j].request.n <= covered'[channel'[i].source]
    BY <1>5 DEF ResetsCover
  <2>1. /\ \A j \in 1..(i - 1) : j \in 1..Len(channel) /\ channel'[j] = channel[j]
        /\ QueuedRequests \subseteq Places
    BY <1>3, <1>4 DEF Places
  <2>2. CASE i = Len(channel) + 1
    BY <1>2, <1>4, <1>6, <1>7, <1>8, <2>1, <2>2
  <2>3. CASE i \in 1..Len(channel)
    <3>1. channel'[i] = channel[i]
      BY <1>4, <2>3
    <3>2. /\ \A r \in QueuedRequests : r.source = channel[i].source => r.n <= covered[r.source]
          /\ \A j \in 1..(i - 1) :
               channel[j].type = "RequestFor" /\ channel[j].request.source = channel[i].source
                 => channel[j].request.n <= covered[channel[i].source]
      BY <2>3, <3>1 DEF OrderInv, ResetsCover
    <3>3. \A r \in Places : r.n <= covered[r.source] => r.n <= covered'[r.source]
      BY <1>3, <1>6, <1>7
    <3> QED
      BY <1>8, <2>1, <3>1, <3>2, <3>3
  <2> QED
    BY <1>3, <1>4, <2>2, <2>3
<1>10. ResetIsInOrder'
  <2>1. dropped \subseteq Places
    BY DEF Places
  <2>2. \A r \in Places : r.n <= covered[r.source] => r.n <= covered'[r.source]
    BY <1>3, <1>6, <1>7
  <2> QED
    BY <1>1, <2>1, <2>2 DEF OrderInv, ResetIsInOrder
<1> QED
  BY <1>6, <1>9, <1>10 DEF OrderInv

LEMMA ApplyOrder ==
  ASSUME IInv, OrderInv, ApplyCommand
  PROVE  OrderInv'
<1>1. channel \in Seq(Command) /\ channel # << >> /\ channel' = Tail(channel)
      /\ UNCHANGED <<covered, sent>>
  BY DEF IInv, TypeOK, ApplyCommand, laneVars
<1>2. /\ Len(channel') = Len(channel) - 1 /\ Head(channel) = channel[1] /\ 1 \in 1..Len(channel)
      /\ \A i \in 1..Len(channel') : i + 1 \in 1..Len(channel) /\ channel'[i] = channel[i + 1]
  BY <1>1
<1>3. \A i \in 1..Len(channel') : \A j \in 1..(i - 1) :
        channel'[i].type = "ResetStreamingSessionsForSource"
          /\ channel'[j].type = "RequestFor" /\ channel'[j].request.source = channel'[i].source
        => channel'[j].request.n <= covered[channel'[i].source]
  <2> SUFFICES ASSUME NEW i \in 1..Len(channel'), NEW j \in 1..(i - 1),
                      channel'[i].type = "ResetStreamingSessionsForSource",
                      channel'[j].type = "RequestFor",
                      channel'[j].request.source = channel'[i].source
               PROVE  channel'[j].request.n <= covered[channel'[i].source]
    OBVIOUS
  <2>1. j \in 1..Len(channel') /\ j + 1 \in 1..((i + 1) - 1)
    BY <1>2
  <2>2. channel'[i] = channel[i + 1] /\ channel'[j] = channel[j + 1] /\ i + 1 \in 1..Len(channel)
    BY <1>2, <2>1
  <2> QED
    BY <2>1, <2>2 DEF OrderInv, ResetsCover
<1>4. ASSUME NEW r \in InChannel, TakeRequest(r) PROVE OrderInv'
  <2>1. /\ QueuedRequests' = QueuedRequests \union {r}
        /\ channel[1].type = "RequestFor" /\ r = channel[1].request /\ dropped' = dropped
    BY <1>2, <1>4, TakeRequestIInv DEF TakeRequest
  <2>2. ASSUME NEW i \in 1..Len(channel'),
               channel'[i].type = "ResetStreamingSessionsForSource"
        PROVE  \A x \in QueuedRequests' :
                  x.source = channel'[i].source => x.n <= covered[x.source]
    <3>1. /\ channel'[i] = channel[i + 1] /\ i + 1 \in 1..Len(channel)
          /\ 1 \in 1..((i + 1) - 1)
      BY <1>2
    <3> QED
      BY <2>1, <2>2, <3>1 DEF OrderInv, ResetsCover
  <2>3. ResetsCover'
    BY <1>1, <1>3, <2>2 DEF ResetsCover
  <2> QED
    BY <1>1, <2>1, <2>3 DEF OrderInv, ResetIsInOrder
<1>5. ASSUME NEW s \in Sources, TakeReset(s), resets[s] > 0 PROVE OrderInv'
  <2>1. PendingOK
    BY DEF IInv, PendingOK, PendingType, TypeOK
  <2>2. /\ QueuedRequests' = {r \in QueuedRequests : r.source # s}
        /\ channel[1].type = "ResetStreamingSessionsForSource" /\ s = channel[1].source
        /\ dropped' = dropped \union {r \in QueuedRequests : r.source = s}
    BY <1>2, <1>5, <2>1, RemovePending DEF TakeReset
  <2>3. \A r \in QueuedRequests : r.source = s => r.n <= covered[r.source]
    BY <1>2, <2>2 DEF OrderInv, ResetsCover
  <2>4. ResetIsInOrder'
    BY <1>1, <2>2, <2>3 DEF OrderInv, ResetIsInOrder
  <2>5. ResetsCover'
    BY <1>1, <1>2, <1>3, <2>2 DEF OrderInv, ResetsCover
  <2> QED
    BY <1>1, <2>4, <2>5 DEF OrderInv
<1> QED
  BY <1>4, <1>5, CommandKinds

LEMMA InductiveOrder ==
  ASSUME IInv, OrderInv, [Next]_vars
  PROVE  OrderInv'
<1>1. CASE \E s \in Sources, m \in Models : Submit(s, m)
  BY <1>1, SubmitOrder
<1>2. CASE \E s \in Sources : Reset(s)
  BY <1>2, ResetOrder
<1>3. CASE \E s \in Sources : Receive(s) \/ CloseLane(s)
  <2>1. UNCHANGED <<channel, pendingVars, covered, sent, dropped>>
    BY <1>3 DEF Receive, CloseLane
  <2> QED
    BY <2>1, PendingUnchanged, OrderKept
<1>4. CASE ApplyCommand
  BY <1>4, ApplyOrder
<1>5. CASE Drained \/ Finish
  <2>1. UNCHANGED <<channel, pendingVars, covered, sent, dropped>>
    BY <1>5 DEF Drained, Finish, laneVars
  <2> QED
    BY <2>1, PendingUnchanged, OrderKept
<1>6. CASE Select
  <2>1. PICK r \in QueuedRequests : Pop(r)
    BY <1>6 DEF Select
  <2>2. PendingOK /\ UNCHANGED <<channel, covered, sent, dropped>>
    BY <1>6 DEF Select, laneVars, IInv, PendingOK, PendingType, TypeOK
  <2>3. QueuedRequests' = QueuedRequests \ {r}
    BY <2>1, <2>2, PopPending
  <2> QED
    BY <2>2, <2>3, OrderKept
<1>7. CASE UNCHANGED vars
  <2>1. UNCHANGED <<channel, pendingVars, covered, sent, dropped>>
    BY <1>7 DEF vars, laneVars
  <2> QED
    BY <2>1, PendingUnchanged, OrderKept
<1> QED
  BY <1>1, <1>2, <1>3, <1>4, <1>5, <1>6, <1>7 DEF Next, WorkerStep

(***************************************************************************)
(* A reset takes only what its lane submitted before it, however far the   *)
(* worker is behind and for any number of lanes, models and requests.      *)
(***************************************************************************)
THEOREM ResetsInOrder == Spec => []ResetIsInOrder
<1>1. Init => IInv /\ OrderInv
  BY InitIInv, InitOrder
<1>2. IInv /\ OrderInv /\ [Next]_vars => IInv' /\ OrderInv'
  BY Inductive, InductiveOrder
<1>3. OrderInv => ResetIsInOrder
  BY DEF OrderInv
<1> QED
  BY <1>1, <1>2, <1>3, PTL DEF Spec
=============================================================================
