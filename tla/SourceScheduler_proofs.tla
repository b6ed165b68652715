------------------------ MODULE SourceScheduler_proofs ------------------------
(***************************************************************************)
(* Proofs about SourceScheduler, for any number of sources and endpoints:  *)
(* every source has its turn, and a graceful stop loses nothing.           *)
(***************************************************************************)
EXTENDS SourceScheduler, Ordering_proofs, TLAPS

-----------------------------------------------------------------------------
(* The inductive invariant. *)

TypeOK ==
  /\ streaming \subseteq Endpoints /\ demuxing \subseteq Endpoints /\ lost \subseteq Endpoints
  /\ captured \in [Endpoints -> Nat] /\ demuxed \in [Endpoints -> Nat]
  /\ lane \in [Sources -> Seq(Nat)] /\ dropped \in [Sources -> SUBSET Nat]
  /\ pending \in [Sources -> Seq(Nat)] /\ heard \in [Sources -> Seq(Nat)]
  /\ ready \in Seq(Sources) /\ passed \in [Sources -> Nat]
  /\ closed \subseteq Sources /\ stopped \subseteq Sources
  /\ working \subseteq Sources /\ openTurn \subseteq Sources
  /\ mode \in {"Running", "Graceful", "Cancel"} /\ pc \in {"collect", "finish"}
  /\ result \in {"none", "Cancelled", "Completed"}

\* A source listed at i waits for i - 1 turns at most, and it has what to do.
TurnsOK ==
  /\ Once(ready)
  /\ \A i \in 1..Len(ready) : passed[ready[i]] + i <= N
  /\ \A s \in Sources : ~IsIn(s, ready) => passed[s] = 0
  /\ \A s \in Sources : IsIn(s, ready) => pending[s] # << >> /\ s \notin closed

\* A source whose input has ended has nothing left, and gets nothing more.
EndedOK ==
  \A s \in closed : pending[s] = << >> /\ lane[s] = << >> /\ EndpointOf[s] \notin demuxing

\* What a source was offered is heard, then pending, then in its channel.
Numbers(d) == [n \in 1..d |-> n]

ChunksOK ==
  \A s \in Sources :
    /\ heard[s] \o pending[s] \o lane[s]
         = Only(Numbers(demuxed[EndpointOf[s]]), Nat \ dropped[s])
    /\ dropped[s] \subseteq 1..demuxed[EndpointOf[s]]

\* A demux that has ended without an error has offered all that was captured.
CapturesOK ==
  /\ mode = "Running" => streaming = Endpoints
  /\ \A e \in Endpoints \ demuxing :
       e \in lost \/ (e \notin streaming /\ (demuxed[e] = captured[e] \/ mode = "Cancel"))

StopsOK ==
  /\ stopped \subseteq closed
  /\ stopped \intersect (working \union openTurn) = {}
  /\ forgotten \subseteq working
  /\ result = "Completed" => stopped = Sources
  /\ result = "Cancelled" => mode = "Cancel" \/ lost # {}

IInv == TypeOK /\ TurnsOK /\ EndedOK /\ ChunksOK /\ CapturesOK /\ StopsOK

-----------------------------------------------------------------------------
(* Lists. *)

LEMMA ListConcat ==
  ASSUME NEW T, NEW p \in Seq(T), NEW q \in Seq(T), Once(p), Once(q),
         \A x : IsIn(x, p) => ~IsIn(x, q)
  PROVE  /\ p \o q \in Seq(T) /\ Once(p \o q) /\ Len(p \o q) = Len(p) + Len(q)
         /\ \A x : IsIn(x, p \o q) <=> IsIn(x, p) \/ IsIn(x, q)
         /\ \A i \in 1..Len(p) : (p \o q)[i] = p[i]
         /\ \A i \in (Len(p) + 1)..(Len(p) + Len(q)) : IsIn((p \o q)[i], q)
<1> DEFINE w == p \o q
           m == Len(p)
           n == Len(q)
<1>1. /\ m \in Nat /\ n \in Nat /\ w \in Seq(T) /\ Len(w) = m + n
      /\ \A i \in 1..m : w[i] = p[i]
      /\ \A i \in (m + 1)..(m + n) : w[i] = q[i - m]
  OBVIOUS
<1> HIDE DEF w, m, n
<1>2. \A i \in 1..(m + n) : i \in 1..m \/ (i \in (m + 1)..(m + n) /\ i - m \in 1..n)
  BY <1>1
<1>3. \A j \in 1..n : m + j \in (m + 1)..(m + n) /\ m + j \in 1..(m + n) /\ m + j - m = j
  BY <1>1
<1>4. 1..m \subseteq 1..(m + n)
  BY <1>1
<1>5. \A i \in (m + 1)..(m + n) : i - m \in 1..n
  BY <1>1
<1>6. \A i \in (m + 1)..(m + n) : IsIn(w[i], q)
  BY <1>1, <1>5 DEF IsIn, n
<1>7. \A x : IsIn(x, w) <=> IsIn(x, p) \/ IsIn(x, q)
  <2>1. ASSUME NEW x, IsIn(x, w) PROVE IsIn(x, p) \/ IsIn(x, q)
    <3>1. PICK i \in 1..(m + n) : w[i] = x
      BY <1>1, <2>1 DEF IsIn
    <3> QED
      BY <1>1, <1>2, <1>6, <3>1 DEF IsIn, m
  <2>2. ASSUME NEW x, IsIn(x, p) PROVE IsIn(x, w)
    BY <1>1, <1>4, <2>2 DEF IsIn, m
  <2>3. ASSUME NEW x, IsIn(x, q) PROVE IsIn(x, w)
    <3>1. PICK j \in 1..n : q[j] = x
      BY <2>3 DEF IsIn, n
    <3>2. w[m + j] = x /\ m + j \in 1..Len(w)
      BY <1>1, <1>3, <3>1
    <3> QED
      BY <3>2 DEF IsIn
  <2> QED
    BY <2>1, <2>2, <2>3
<1>8. Once(w)
  <2> SUFFICES ASSUME NEW i \in 1..(m + n), NEW j \in 1..(m + n), w[i] = w[j] PROVE i = j
    BY <1>1 DEF Once
  <2>1. \A k \in 1..m : IsIn(w[k], p)
    BY <1>1 DEF IsIn, m
  <2>2. CASE i \in 1..m /\ j \in 1..m
    BY <1>1, <2>2 DEF Once, m
  <2>3. CASE i \in (m + 1)..(m + n) /\ j \in (m + 1)..(m + n)
    <3>1. q[i - m] = q[j - m] /\ i - m \in 1..n /\ j - m \in 1..n
      BY <1>1, <1>5, <2>3
    <3>2. i - m = j - m
      BY <3>1 DEF Once, n
    <3> QED
      BY <1>1, <3>2
  <2> QED
    BY <1>2, <1>6, <2>1, <2>2, <2>3
<1> QED
  BY <1>1, <1>6, <1>7, <1>8 DEF w, m, n

LEMMA ConcatAppend ==
  ASSUME NEW T, NEW h \in Seq(T), NEW l \in Seq(T), NEW x \in T
  PROVE  h \o Append(l, x) = Append(h \o l, x)
OBVIOUS

LEMMA ConcatLast ==
  ASSUME NEW T, NEW h \in Seq(T), NEW p \in Seq(T), NEW l \in Seq(T), NEW x \in T
  PROVE  h \o p \o Append(l, x) = Append(h \o p \o l, x)
<1> DEFINE a == h \o p
<1>1. a \in Seq(T)
  OBVIOUS
<1> HIDE DEF a
<1>2. a \o Append(l, x) = Append(a \o l, x)
  BY <1>1, ConcatAppend
<1> QED
  BY <1>2 DEF a

LEMMA ConcatAssoc ==
  ASSUME NEW h \in Seq(Nat), NEW p \in Seq(Nat), NEW l \in Seq(Nat)
  PROVE  h \o (p \o l) = (h \o p) \o l
OBVIOUS

LEMMA ConcatEmpty ==
  ASSUME NEW T, NEW h \in Seq(T)
  PROVE  h \o << >> = h
OBVIOUS

\* The first element of a sequence moves to the end of the one before it.
LEMMA ConcatHead ==
  ASSUME NEW T, NEW h \in Seq(T), NEW c \in Seq(T), c # << >>
  PROVE  Append(h, Head(c)) \o Tail(c) = h \o c
OBVIOUS

LEMMA ListLength ==
  ASSUME NEW q \in Seq(Sources), Once(q)
  PROVE  Len(q) <= N
<1>1. N \in Nat /\ Len(q) \in Nat
  BY SchedulerAssumption
<1> SUFFICES ASSUME N < Len(q) PROVE FALSE
  BY <1>1
<1>2. /\ IsFiniteSet(1..Len(q)) /\ Cardinality(1..Len(q)) = Len(q)
      /\ IsFiniteSet(1..N) /\ Cardinality(1..N) = N
  <2>1. /\ 1 \in Int /\ N \in Int /\ Len(q) \in Int /\ 1 <= N /\ 1 <= Len(q)
        /\ N - 1 + 1 = N /\ Len(q) - 1 + 1 = Len(q)
    BY <1>1, SchedulerAssumption
  <2>2. \A a, b \in Int : IsFiniteSet(a..b)
                          /\ Cardinality(a..b) = IF a > b THEN 0 ELSE b - a + 1
    BY FS_Interval
  <2> QED
    BY <2>1, <2>2
<1>3. q \in [1..Len(q) -> Sources]
  OBVIOUS
<1>4. \E x, y \in 1..Len(q) : x # y /\ q[x] = q[y]
  BY <1>1, <1>2, <1>3, FS_PigeonHole DEF Sources
<1> QED
  BY <1>4 DEF Once

LEMMA NumbersIs ==
  ASSUME NEW d \in Nat
  PROVE  /\ Numbers(d) \in Seq(Nat) /\ Len(Numbers(d)) = d
         /\ \A i \in 1..d : Numbers(d)[i] = i
BY DEF Numbers

LEMMA OnlyOfOneMore ==
  ASSUME NEW T, NEW p \in Seq(T), NEW q \in Seq(T), Extends(q, p), NEW R, NEW U,
         q[Len(q)] \in R, q[Len(q)] \notin U, Only(p, R) = Only(p, U)
  PROVE  Only(q, R) = Append(Only(p, R), q[Len(q)]) /\ Only(q, U) = Only(p, R)
<1>1. Only(q, R) = Append(Only(p, R), q[Len(q)])
  BY OnlyOfNext, Zenon
<1>2. Only(q, U) = Only(p, U)
  BY OnlyOfNext, Zenon
<1> QED
  BY <1>1, <1>2, Zenon

\* One more chunk is offered, and it is kept or dropped.
LEMMA OneMoreNumber ==
  ASSUME NEW d \in Nat, NEW D \in SUBSET Nat, D \subseteq 1..d
  PROVE  /\ Only(Numbers(d + 1), Nat \ D) = Append(Only(Numbers(d), Nat \ D), d + 1)
         /\ Only(Numbers(d + 1), Nat \ (D \union {d + 1})) = Only(Numbers(d), Nat \ D)
<1> DEFINE p == Numbers(d)
           q == Numbers(d + 1)
           R == Nat \ D
           U == Nat \ (D \union {d + 1})
<1>1. /\ p \in Seq(Nat) /\ Len(p) = d /\ \A i \in 1..d : p[i] = i
      /\ q \in Seq(Nat) /\ Len(q) = d + 1 /\ \A i \in 1..(d + 1) : q[i] = i
  BY NumbersIs
<1>2. d + 1 \in R /\ d + 1 \notin U /\ \A i \in 1..d : i \in R <=> i \in U
  OBVIOUS
<1> HIDE DEF p, q, R, U
<1>3. Extends(q, p) /\ q[Len(q)] = d + 1
  BY <1>1 DEF Extends
<1>4. Only(p, R) = Only(p, U)
  BY <1>1, <1>2, OnlyAgrees
<1>5. p \in Seq(Nat) /\ q \in Seq(Nat) /\ Extends(q, p)
      /\ q[Len(q)] \in R /\ q[Len(q)] \notin U
  BY <1>1, <1>2, <1>3
<1>6. Only(q, R) = Append(Only(p, R), q[Len(q)]) /\ Only(q, U) = Only(p, R)
  <2>1. \A a, b \in Seq(Nat) : \A V, W :
          Extends(b, a) /\ b[Len(b)] \in V /\ b[Len(b)] \notin W /\ Only(a, V) = Only(a, W)
            => Only(b, V) = Append(Only(a, V), b[Len(b)]) /\ Only(b, W) = Only(a, V)
    BY OnlyOfOneMore
  <2> QED
    BY <1>4, <1>5, <2>1
<1>7. Only(q, R) = Append(Only(p, R), d + 1) /\ Only(q, U) = Only(p, R)
  BY <1>3, <1>6, Zenon
<1> QED
  BY <1>7, Zenon DEF p, q, R, U

-----------------------------------------------------------------------------
LEMMA InitIInv ==
  ASSUME Init
  PROVE  IInv
<1>1. TypeOK
  BY DEF Init, TypeOK
<1>2. Once(<< >>) /\ \A x : ~IsIn(x, << >>)
  BY DEF Once, IsIn
<1>3. TurnsOK
  BY <1>2 DEF Init, TurnsOK
<1>4. ChunksOK
  <2>1. Numbers(0) = << >> /\ \A S : Only(<< >>, S) = << >>
    BY OnlyOfEmpty DEF Numbers
  <2>2. \A s \in Sources : demuxed[EndpointOf[s]] = 0
    BY SchedulerAssumption DEF Init
  <2>3. \A s \in Sources : Only(Numbers(demuxed[EndpointOf[s]]), Nat \ dropped[s]) = << >>
    BY <2>1, <2>2, Zenon
  <2>4. \A s \in Sources : heard[s] \o pending[s] \o lane[s] = << >> /\ dropped[s] = {}
    BY DEF Init
  <2> QED
    BY <2>2, <2>3, <2>4 DEF ChunksOK
<1>5. EndedOK /\ CapturesOK /\ StopsOK
  BY DEF Init, EndedOK, CapturesOK, StopsOK
<1> QED
  BY <1>1, <1>3, <1>4, <1>5 DEF IInv

LEMMA CaptureIInv ==
  ASSUME IInv, NEW e \in Endpoints, Capture(e)
  PROVE  IInv'
<1>1. /\ e \in streaming /\ captured' = [captured EXCEPT ![e] = @ + 1]
      /\ UNCHANGED <<streaming, demuxing, lost, demuxed, queueVars, engineVars, mode, pc, result>>
  BY DEF Capture
<1>2. TypeOK'
  BY <1>1 DEF IInv, TypeOK, queueVars, engineVars
<1>3. TurnsOK' /\ EndedOK' /\ ChunksOK' /\ StopsOK'
  BY <1>1 DEF IInv, TurnsOK, EndedOK, ChunksOK, StopsOK, queueVars, engineVars
<1>4. CapturesOK'
  <2>1. \A f \in Endpoints \ {e} : captured'[f] = captured[f]
    BY <1>1 DEF IInv, TypeOK
  <2> QED
    BY <1>1, <2>1 DEF IInv, CapturesOK
<1> QED
  BY <1>2, <1>3, <1>4 DEF IInv

LEMMA DemuxIInv ==
  ASSUME IInv, NEW e \in Endpoints, Demux(e)
  PROVE  IInv'
<1> DEFINE d == demuxed[e]
<1>1. /\ e \in demuxing
      /\ demuxed' = [demuxed EXCEPT ![e] = @ + 1]
      /\ lane' = [s \in Sources |->
                    IF EndpointOf[s] = e /\ Fits(s) THEN Append(lane[s], d + 1) ELSE lane[s]]
      /\ dropped' = [s \in Sources |->
                       IF EndpointOf[s] = e /\ ~Fits(s)
                       THEN dropped[s] \union {d + 1} ELSE dropped[s]]
      /\ UNCHANGED <<streaming, demuxing, lost, captured, pending, heard, ready,
                     passed, engineVars, mode, pc, result>>
  BY DEF Demux
<1>2. d \in Nat /\ demuxed'[e] = d + 1 /\ \A f \in Endpoints \ {e} : demuxed'[f] = demuxed[f]
  BY <1>1 DEF IInv, TypeOK
<1> HIDE DEF d
<1>3. TypeOK'
  BY <1>1, <1>2 DEF IInv, TypeOK, engineVars
<1>4. TurnsOK' /\ StopsOK'
  BY <1>1 DEF IInv, TurnsOK, StopsOK, engineVars
<1>5. EndedOK'
  BY <1>1 DEF IInv, TypeOK, EndedOK, engineVars
<1>6. CapturesOK'
  BY <1>1, <1>2 DEF IInv, CapturesOK
<1>7. ChunksOK'
  <2> SUFFICES ASSUME NEW s \in Sources
               PROVE  /\ heard'[s] \o pending'[s] \o lane'[s]
                           = Only(Numbers(demuxed'[EndpointOf[s]]), Nat \ dropped'[s])
                      /\ dropped'[s] \subseteq 1..demuxed'[EndpointOf[s]]
    BY DEF ChunksOK
  <2>1. /\ heard[s] \o pending[s] \o lane[s]
             = Only(Numbers(demuxed[EndpointOf[s]]), Nat \ dropped[s])
        /\ dropped[s] \subseteq 1..demuxed[EndpointOf[s]]
        /\ heard'[s] = heard[s] /\ pending'[s] = pending[s]
    BY <1>1 DEF IInv, ChunksOK
  <2>2. EndpointOf[s] \in Endpoints
    BY SchedulerAssumption
  <2>3. CASE EndpointOf[s] # e
    <3>1. lane'[s] = lane[s] /\ dropped'[s] = dropped[s]
          /\ demuxed'[EndpointOf[s]] = demuxed[EndpointOf[s]]
      BY <1>1, <1>2, <2>2, <2>3
    <3> QED
      BY <2>1, <3>1
  <2>4. CASE EndpointOf[s] = e /\ Fits(s)
    <3>1. lane'[s] = Append(lane[s], d + 1) /\ dropped'[s] = dropped[s]
      BY <1>1, <2>4
    <3>2. heard[s] \in Seq(Nat) /\ pending[s] \in Seq(Nat) /\ lane[s] \in Seq(Nat)
          /\ dropped[s] \in SUBSET Nat
      BY DEF IInv, TypeOK
    <3>3. heard[s] \o pending[s] \o Append(lane[s], d + 1)
            = Append(heard[s] \o pending[s] \o lane[s], d + 1)
      <4>1. d + 1 \in Nat
        BY <1>2
      <4>2. \A h, p, l \in Seq(Nat), x \in Nat :
               h \o p \o Append(l, x) = Append(h \o p \o l, x)
        BY ConcatLast
      <4> QED
        BY <3>2, <4>1, <4>2, Zenon
    <3>4. Only(Numbers(d + 1), Nat \ dropped[s])
            = Append(Only(Numbers(d), Nat \ dropped[s]), d + 1)
      BY <1>2, <2>1, <2>4, <3>2, OneMoreNumber DEF d
    <3>5. heard'[s] \o pending'[s] \o lane'[s] = Only(Numbers(d + 1), Nat \ dropped'[s])
      BY <2>1, <2>4, <3>1, <3>3, <3>4, Zenon DEF d
    <3>6. dropped'[s] \subseteq 1..(d + 1)
      BY <1>2, <2>1, <2>4, <3>1 DEF d
    <3> QED
      BY <1>2, <2>4, <3>5, <3>6, Zenon
  <2>5. CASE EndpointOf[s] = e /\ ~Fits(s)
    <3>1. lane'[s] = lane[s] /\ dropped'[s] = dropped[s] \union {d + 1}
      BY <1>1, <2>5
    <3>2. dropped[s] \in SUBSET Nat
      BY DEF IInv, TypeOK
    <3>3. Only(Numbers(d + 1), Nat \ (dropped[s] \union {d + 1}))
            = Only(Numbers(d), Nat \ dropped[s])
      BY <1>2, <2>1, <2>5, <3>2, OneMoreNumber DEF d
    <3>4. heard'[s] \o pending'[s] \o lane'[s] = Only(Numbers(d + 1), Nat \ dropped'[s])
      BY <2>1, <2>5, <3>1, <3>3, Zenon DEF d
    <3>5. dropped'[s] \subseteq 1..(d + 1)
      BY <1>2, <2>1, <2>5, <3>1 DEF d
    <3> QED
      BY <1>2, <2>5, <3>4, <3>5, Zenon
  <2> QED
    BY <2>3, <2>4, <2>5
<1> QED
  BY <1>3, <1>4, <1>5, <1>6, <1>7 DEF IInv

LEMMA DemuxEndsIInv ==
  ASSUME IInv, NEW e \in Endpoints, DemuxEnds(e) \/ DemuxFails(e)
  PROVE  IInv'
<1>1. /\ demuxing' = demuxing \ {e}
      /\ UNCHANGED <<streaming, captured, demuxed, queueVars, engineVars, mode, pc, result>>
      /\ \/ lost' = lost \union {e}
         \/ /\ lost' = lost /\ e \notin streaming
            /\ demuxed[e] = captured[e] \/ mode = "Cancel"
  BY DEF DemuxEnds, DemuxFails
<1>2. TypeOK'
  BY <1>1 DEF IInv, TypeOK, queueVars, engineVars
<1>3. TurnsOK' /\ EndedOK' /\ ChunksOK' /\ StopsOK'
  BY <1>1 DEF IInv, TurnsOK, EndedOK, ChunksOK, StopsOK, queueVars, engineVars
<1>4. CapturesOK'
  BY <1>1 DEF IInv, CapturesOK
<1> QED
  BY <1>2, <1>3, <1>4 DEF IInv

LEMMA StopIInv ==
  ASSUME IInv, (\E m \in {"Graceful", "Cancel"} : RequestStop(m))
                 \/ (\E e \in Endpoints : CloseCapture(e)) \/ CancelStep
                 \/ UNCHANGED vars
  PROVE  IInv'
<1>1. CASE \E m \in {"Graceful", "Cancel"} : RequestStop(m)
  <2>1. /\ mode = "Running" /\ mode' \in {"Graceful", "Cancel"}
        /\ UNCHANGED <<captureVars, queueVars, engineVars, pc, result>>
    BY <1>1 DEF RequestStop
  <2>2. TypeOK' /\ StopsOK' /\ CapturesOK'
    BY <2>1 DEF IInv, TypeOK, StopsOK, CapturesOK, captureVars, queueVars, engineVars
  <2>3. TurnsOK' /\ EndedOK' /\ ChunksOK'
    BY <2>1 DEF IInv, TurnsOK, EndedOK, ChunksOK, captureVars, queueVars, engineVars
  <2> QED
    BY <2>2, <2>3 DEF IInv
<1>2. CASE \E e \in Endpoints : CloseCapture(e)
  <2>1. /\ mode # "Running" /\ streaming' \subseteq streaming
        /\ UNCHANGED <<demuxing, lost, captured, demuxed, queueVars, engineVars, mode, pc, result>>
    BY <1>2 DEF CloseCapture
  <2>2. TypeOK' /\ StopsOK' /\ CapturesOK'
    BY <2>1 DEF IInv, TypeOK, StopsOK, CapturesOK, queueVars, engineVars
  <2>3. TurnsOK' /\ EndedOK' /\ ChunksOK'
    BY <2>1 DEF IInv, TurnsOK, EndedOK, ChunksOK, queueVars, engineVars
  <2> QED
    BY <2>2, <2>3 DEF IInv
<1>3. CASE CancelStep
  <2>1. /\ mode = "Cancel" /\ result' = "Cancelled"
        /\ UNCHANGED <<captureVars, queueVars, engineVars, mode, pc>>
    BY <1>3 DEF CancelStep
  <2>2. TypeOK' /\ StopsOK' /\ CapturesOK'
    BY <2>1 DEF IInv, TypeOK, StopsOK, CapturesOK, captureVars, queueVars, engineVars
  <2>3. TurnsOK' /\ EndedOK' /\ ChunksOK'
    BY <2>1 DEF IInv, TurnsOK, EndedOK, ChunksOK, captureVars, queueVars, engineVars
  <2> QED
    BY <2>2, <2>3 DEF IInv
<1>4. CASE UNCHANGED vars
  <2>1. UNCHANGED <<captureVars, queueVars, engineVars, mode, pc, result>>
    BY <1>4 DEF vars
  <2>2. TypeOK' /\ StopsOK' /\ CapturesOK'
    BY <2>1 DEF IInv, TypeOK, StopsOK, CapturesOK, captureVars, queueVars, engineVars
  <2>3. TurnsOK' /\ EndedOK' /\ ChunksOK'
    BY <2>1 DEF IInv, TurnsOK, EndedOK, ChunksOK, captureVars, queueVars, engineVars
  <2> QED
    BY <2>2, <2>3 DEF IInv
<1> QED
  BY <1>1, <1>2, <1>3, <1>4

LEMMA RecognizedIInv ==
  ASSUME IInv, NEW s \in Sources, Recognized(s)
  PROVE  IInv'
<1>1. /\ working' \subseteq working /\ forgotten' \subseteq working'
      /\ UNCHANGED <<captureVars, queueVars, closed, stopped, forgotten, openTurn, mode, pc, result>>
  BY DEF Recognized, IInv, StopsOK
<1>2. TypeOK' /\ StopsOK' /\ CapturesOK'
  BY <1>1 DEF IInv, TypeOK, StopsOK, CapturesOK, captureVars, queueVars
<1>3. TurnsOK' /\ EndedOK' /\ ChunksOK'
  BY <1>1 DEF IInv, TurnsOK, EndedOK, ChunksOK, captureVars, queueVars
<1> QED
  BY <1>2, <1>3 DEF IInv

\* All sources are shut down while nobody asked for it: a demux was lost.
LEMMA FinishStepIInv ==
  ASSUME IInv, FinishStep
  PROVE  IInv'
<1> DEFINE drained == {s \in closed \ stopped : Drained(s)}
<1>1. PICK more \in SUBSET (drained \intersect openTurn) :
        /\ openTurn' = openTurn \ drained
        /\ working' = working \union more
        /\ stopped' = stopped \union (drained \ more)
        /\ forgotten' = forgotten
  BY DEF FinishStep
<1>2. /\ result' = IF stopped' # Sources THEN "none"
                   ELSE IF mode = "Running" THEN "Cancelled" ELSE "Completed"
      /\ pc' = "collect"
      /\ UNCHANGED <<captureVars, queueVars, closed, mode>>
  BY DEF FinishStep
<1>3. drained \subseteq closed \ stopped /\ drained \intersect working = {}
  BY DEF Drained
<1> HIDE DEF drained
<1>4. stopped' \subseteq closed /\ stopped' \intersect (working' \union openTurn') = {}
  BY <1>1, <1>3 DEF IInv, StopsOK
<1>5. TypeOK'
  BY <1>1, <1>2, <1>3, <1>4 DEF IInv, TypeOK, captureVars, queueVars
<1>6. ASSUME result' = "Cancelled" PROVE lost' # {}
  <2>1. mode = "Running" /\ Sources \subseteq closed /\ lost' = lost
    BY <1>2, <1>4, <1>6 DEF captureVars
  <2>2. 1 \in Sources
    BY SchedulerAssumption DEF Sources
  <2>3. EndpointOf[1] \in Endpoints \ demuxing
    BY <2>1, <2>2, SchedulerAssumption DEF IInv, EndedOK
  <2>4. streaming = Endpoints
    BY <2>1 DEF IInv, CapturesOK
  <2> QED
    BY <2>1, <2>3, <2>4 DEF IInv, CapturesOK
<1>7. StopsOK'
  <2>1. forgotten' \subseteq working'
    BY <1>1 DEF IInv, StopsOK
  <2> QED
    BY <1>2, <1>4, <1>6, <2>1 DEF StopsOK
<1>8. TurnsOK' /\ EndedOK' /\ ChunksOK' /\ CapturesOK'
  BY <1>2 DEF IInv, TurnsOK, EndedOK, ChunksOK, CapturesOK, captureVars, queueVars
<1> QED
  BY <1>5, <1>7, <1>8 DEF IInv

-----------------------------------------------------------------------------
(***************************************************************************)
(* A step of the scheduler.  The sources that wait are the listed ones and *)
(* those with chunks, in a list of at most N; none of them has ended.      *)
(***************************************************************************)
LEMMA NewlyReadyIs ==
  ASSUME IInv
  PROVE  /\ NewlyReady \in Seq(Sources) /\ Once(NewlyReady)
         /\ \A t : IsIn(t, NewlyReady) <=>
                     t \in Sources \ closed /\ Collected(t) # << >> /\ ~IsIn(t, ready)
<1> DEFINE all == [s \in Sources |-> s]
           new == {s \in Sources \ closed : Collected(s) # <<>> /\ ~Disconnected(s) /\ ~Listed(s)}
<1>1. all \in Seq(Sources) /\ Once(all) /\ \A t : IsIn(t, all) <=> t \in Sources
  BY SchedulerAssumption DEF Sources, Once, IsIn
<1>2. \A t : Listed(t) <=> IsIn(t, ready)
  BY DEF Listed, IsIn, IInv, TypeOK
<1>3. \A t : t \in new <=> t \in Sources \ closed /\ Collected(t) # << >> /\ ~IsIn(t, ready)
  BY <1>2 DEF Disconnected
<1>4. NewlyReady = Only(all, new)
  BY DEF NewlyReady
<1> HIDE DEF all, new
<1>5. /\ Only(all, new) \in Seq(Sources) /\ Once(Only(all, new))
      /\ \A t : IsIn(t, Only(all, new)) <=> IsIn(t, all) /\ t \in new
  BY <1>1, ListOnly
<1> QED
  BY <1>1, <1>3, <1>4, <1>5

LEMMA CollectedIs ==
  ASSUME IInv, NEW t \in Sources
  PROVE  /\ Collected(t) \in Seq(Nat)
         /\ t \in closed => Collected(t) = << >>
         /\ pending[t] # << >> => Collected(t) # << >>
<1>1. pending[t] \in Seq(Nat) /\ lane[t] \in Seq(Nat)
  BY DEF IInv, TypeOK
<1>2. t \in closed => pending[t] = << >>
  BY DEF IInv, EndedOK
<1> QED
  BY <1>1, <1>2 DEF Collected

LEMMA WaitingIs ==
  ASSUME IInv
  PROVE  LET waiting == ready \o NewlyReady
         IN  /\ waiting \in Seq(Sources) /\ Once(waiting) /\ Len(waiting) <= N
             /\ \A t \in Sources : IsIn(t, waiting) <=> Collected(t) # << >>
             /\ \A t : IsIn(t, ready) => IsIn(t, waiting)
             /\ \A t : IsIn(t, waiting) => t \in Sources \ closed
             /\ \A i \in 1..Len(waiting) : passed[waiting[i]] + i <= N
<1> DEFINE p == ready
           q == NewlyReady
           w == p \o q
<1>1. /\ p \in Seq(Sources) /\ Once(p)
      /\ \A t : IsIn(t, p) => t \in Sources \ closed
      /\ \A t : IsIn(t, p) => Collected(t) # << >>
  <2>1. p \in Seq(Sources) /\ Once(p)
    BY DEF IInv, TypeOK, TurnsOK
  <2>2. ASSUME NEW t, IsIn(t, p) PROVE t \in Sources \ closed /\ Collected(t) # << >>
    <3>1. t \in Sources
      BY <2>1, <2>2, ListedIs
    <3>2. pending[t] # << >> /\ t \notin closed
      BY <2>2, <3>1 DEF IInv, TurnsOK
    <3> QED
      BY <3>1, <3>2, CollectedIs
  <2> QED
    BY <2>1, <2>2
<1>2. /\ q \in Seq(Sources) /\ Once(q)
      /\ \A t : IsIn(t, q) <=> t \in Sources \ closed /\ Collected(t) # << >> /\ ~IsIn(t, p)
  BY NewlyReadyIs
<1>3. /\ \A i \in 1..Len(p) : passed[p[i]] + i <= N
      /\ \A s \in Sources : ~IsIn(s, p) => passed[s] = 0
  BY DEF IInv, TurnsOK
<1> HIDE DEF p, q
<1>4. /\ w \in Seq(Sources) /\ Once(w) /\ Len(w) = Len(p) + Len(q)
      /\ \A x : IsIn(x, w) <=> IsIn(x, p) \/ IsIn(x, q)
      /\ \A i \in 1..Len(p) : w[i] = p[i]
      /\ \A i \in (Len(p) + 1)..(Len(p) + Len(q)) : IsIn(w[i], q)
  BY <1>1, <1>2, ListConcat
<1> HIDE DEF w
<1>5. Len(w) <= N
  BY <1>4, ListLength
<1>6. \A t \in Sources : t \in closed => Collected(t) = << >>
  BY CollectedIs
<1>7. \A t \in Sources : IsIn(t, w) <=> Collected(t) # << >>
  BY <1>1, <1>2, <1>4, <1>6
<1>8. ASSUME NEW i \in 1..Len(w) PROVE passed[w[i]] + i <= N
  <2>1. Len(p) \in Nat /\ Len(q) \in Nat /\ N \in Nat
    BY <1>1, <1>2, SchedulerAssumption
  <2>2. CASE i \in 1..Len(p)
    BY <1>3, <1>4, <2>2
  <2>3. CASE i \notin 1..Len(p)
    <3>1. IsIn(w[i], q)
      BY <1>4, <2>1, <2>3
    <3>2. passed[w[i]] = 0
      BY <1>2, <1>3, <3>1
    <3> QED
      BY <1>4, <1>5, <2>1, <3>2
  <2> QED
    BY <2>2, <2>3
<1>9. \A t : IsIn(t, w) => t \in Sources \ closed
  BY <1>1, <1>2, <1>4
<1> QED
  BY <1>4, <1>5, <1>7, <1>8, <1>9 DEF w, p, q

\* What a step does to the sources that have no turn, and to those that end.
LEMMA StepCommon ==
  ASSUME IInv, Step
  PROVE  /\ result = "none" /\ result' = result /\ mode' = mode /\ pc' = "finish"
         /\ UNCHANGED <<captureVars, dropped, stopped>>
         /\ closed' \subseteq Sources /\ closed \subseteq closed'
         /\ \A t \in Sources : Collected(t) # << >> => t \notin closed'
         /\ \A t \in closed' \ closed : EndpointOf[t] \notin demuxing
         /\ lane' = [t \in Sources |-> IF t \in closed THEN lane[t] ELSE << >>]
<1> DEFINE ended == {s \in Sources \ closed : Disconnected(s)}
<1>1. /\ result = "none" /\ result' = result /\ mode' = mode /\ pc' = "finish"
      /\ UNCHANGED <<captureVars, dropped, stopped>>
      /\ closed' = closed \union ended
      /\ lane' = [t \in Sources |-> IF t \in closed THEN lane[t] ELSE << >>]
  BY DEF Step, Running
<1>2. closed \subseteq Sources
  BY DEF IInv, TypeOK
<1>3. \A t \in ended : EndpointOf[t] \notin demuxing /\ Collected(t) = << >>
  BY DEF Disconnected
<1>4. \A t \in Sources : t \in closed => Collected(t) = << >>
  BY CollectedIs
<1> QED
  BY <1>1, <1>2, <1>3, <1>4

\* What follows for a step from how it changes the chunks of each source.
LEMMA StepChunks ==
  ASSUME IInv, Step,
         pending' \in [Sources -> Seq(Nat)], heard' \in [Sources -> Seq(Nat)],
         \A t \in Sources : Collected(t) = << >> => pending'[t] = << >>,
         \A t \in Sources : heard'[t] \o pending'[t] = heard[t] \o Collected(t)
  PROVE  EndedOK' /\ ChunksOK' /\ lane' \in [Sources -> Seq(Nat)]
<1>1. /\ UNCHANGED <<captureVars, dropped>>
      /\ closed' \subseteq Sources /\ closed \subseteq closed'
      /\ \A t \in Sources : Collected(t) # << >> => t \notin closed'
      /\ \A t \in closed' \ closed : EndpointOf[t] \notin demuxing
      /\ lane' = [t \in Sources |-> IF t \in closed THEN lane[t] ELSE << >>]
  BY StepCommon
<1>2. \A t \in closed : lane[t] = << >> /\ EndpointOf[t] \notin demuxing
  BY DEF IInv, EndedOK
<1>3. \A t \in Sources : lane'[t] = << >>
  BY <1>1, <1>2
<1>4. lane' \in [Sources -> Seq(Nat)]
  BY <1>1 DEF IInv, TypeOK
<1>5. EndedOK'
  BY <1>1, <1>2, <1>3 DEF EndedOK, captureVars
<1>6. ChunksOK'
  <2> SUFFICES ASSUME NEW s \in Sources
               PROVE  heard'[s] \o pending'[s] \o lane'[s]
                        = Only(Numbers(demuxed[EndpointOf[s]]), Nat \ dropped[s])
    BY <1>1 DEF ChunksOK, IInv, captureVars
  <2>1. /\ heard[s] \in Seq(Nat) /\ pending[s] \in Seq(Nat) /\ lane[s] \in Seq(Nat)
        /\ heard'[s] \in Seq(Nat) /\ pending'[s] \in Seq(Nat) /\ Collected(s) \in Seq(Nat)
    BY CollectedIs DEF IInv, TypeOK
  <2>2. heard[s] \o pending[s] \o lane[s]
          = Only(Numbers(demuxed[EndpointOf[s]]), Nat \ dropped[s])
    BY DEF IInv, ChunksOK
  <2>3. heard[s] \o Collected(s) = heard[s] \o pending[s] \o lane[s]
    <3>1. CASE s \in closed
      <4>1. lane[s] = << >> /\ Collected(s) = pending[s]
        BY <1>2, <3>1 DEF Collected
      <4>2. \A h \in Seq(Nat) : h \o << >> = h
        BY ConcatEmpty
      <4>3. \A h, p \in Seq(Nat) : h \o p \in Seq(Nat)
        OBVIOUS
      <4> QED
        BY <2>1, <4>1, <4>2, <4>3, Zenon
    <3>2. CASE s \notin closed
      <4>1. Collected(s) = pending[s] \o lane[s]
        BY <3>2 DEF Collected
      <4>2. heard[s] \o (pending[s] \o lane[s]) = (heard[s] \o pending[s]) \o lane[s]
        BY <2>1, ConcatAssoc, Zenon
      <4> QED
        BY <4>1, <4>2, Zenon
    <3> QED
      BY <3>1, <3>2
  <2>4. heard'[s] \o pending'[s] \o lane'[s] = heard'[s] \o pending'[s]
    <3>1. \A h \in Seq(Nat) : h \o << >> = h
      BY ConcatEmpty
    <3>2. \A h, p \in Seq(Nat) : h \o p \in Seq(Nat)
      OBVIOUS
    <3> QED
      BY <1>3, <2>1, <3>1, <3>2, Zenon
  <2>5. heard'[s] \o pending'[s] = heard[s] \o Collected(s)
    OBVIOUS
  <2> QED
    BY <2>2, <2>3, <2>4, <2>5, Zenon
<1> QED
  BY <1>4, <1>5, <1>6

\* An engine whose request was dropped has work.
LEMMA WorkIs ==
  ASSUME IInv, NEW S, Work(S)
  PROVE  working' \subseteq working \union S /\ forgotten' \subseteq working'
  BY DEF Work, IInv, StopsOK

\* What follows from the sources that get work or an open turn.
LEMMA StepEngines ==
  ASSUME IInv, Step, working' \subseteq Sources, openTurn' \subseteq Sources,
         (working' \union openTurn') \intersect stopped \subseteq working \union openTurn,
         forgotten' \subseteq working'
  PROVE  StopsOK' /\ CapturesOK'
<1>1. /\ result = "none" /\ result' = result /\ mode' = mode
      /\ UNCHANGED <<captureVars, stopped>> /\ closed \subseteq closed'
  BY StepCommon
<1>2. StopsOK'
  BY <1>1 DEF IInv, StopsOK
<1>3. CapturesOK'
  BY <1>1 DEF IInv, CapturesOK, captureVars
<1> QED
  BY <1>2, <1>3

\* No source waits.
LEMMA IdleStepIInv ==
  ASSUME IInv, Step, ready \o NewlyReady = << >>
  PROVE  IInv'
<1> DEFINE ended == {s \in Sources \ closed : Disconnected(s)}
<1>1. /\ pending' = [t \in Sources |-> Collected(t)]
      /\ ready' = << >> /\ heard' = heard /\ passed' = passed /\ openTurn' = openTurn
      /\ Work(ended \intersect openTurn)
  BY DEF Step
<1>2. /\ result = "none" /\ result' = result /\ mode' = mode /\ pc' = "finish"
      /\ UNCHANGED <<captureVars, dropped, stopped>>
      /\ closed' \subseteq Sources /\ closed \subseteq closed'
  BY StepCommon
<1>3. ended \subseteq Sources \ closed /\ stopped \subseteq closed
  BY DEF IInv, StopsOK
<1> HIDE DEF ended
<1>4. pending' \in [Sources -> Seq(Nat)] /\ heard' \in [Sources -> Seq(Nat)]
  BY <1>1, CollectedIs DEF IInv, TypeOK
<1>5. EndedOK' /\ ChunksOK' /\ lane' \in [Sources -> Seq(Nat)]
  BY <1>1, <1>4, StepChunks
<1>6. /\ working' \subseteq Sources /\ openTurn' \subseteq Sources
      /\ (working' \union openTurn') \intersect stopped \subseteq working \union openTurn
      /\ forgotten' \subseteq working'
  <2>1. /\ working' \subseteq working \union (ended \intersect openTurn)
        /\ forgotten' \subseteq working'
    BY <1>1, WorkIs
  <2> QED
    BY <1>1, <1>3, <2>1 DEF IInv, TypeOK
<1>7. StopsOK' /\ CapturesOK'
  BY <1>6, StepEngines
<1>8. TypeOK'
  BY <1>1, <1>2, <1>4, <1>5, <1>6 DEF IInv, TypeOK, captureVars
<1>9. TurnsOK'
  <2>1. \A x : ~IsIn(x, << >>)
    BY DEF IsIn
  <2>2. \A t : ~IsIn(t, ready)
    BY <2>1, WaitingIs, Zenon
  <2> QED
    BY <1>1, <2>1, <2>2 DEF IInv, TurnsOK, Once
<1> QED
  BY <1>5, <1>7, <1>8, <1>9 DEF IInv

\* The first source of a list has its turn, and is put at its end if it is
\* still waiting: the others move up by one.
LEMMA RequeuedIs ==
  ASSUME NEW w \in Seq(Sources), w # << >>, Once(w), NEW still \in BOOLEAN
  PROVE  LET rest == Requeued(Tail(w), Head(w), still)
         IN  /\ rest \in Seq(Sources) /\ Once(rest)
             /\ \A t : IsIn(t, rest) <=> (IsIn(t, w) /\ t # Head(w)) \/ (still /\ t = Head(w))
             /\ Len(rest) <= Len(w)
             /\ \A i \in 1..Len(rest) :
                  \/ i + 1 \in 1..Len(w) /\ rest[i] = w[i + 1] /\ rest[i] # Head(w)
                  \/ rest[i] = Head(w)
<1> DEFINE s == Head(w)
           b == Tail(w)
           r == Append(b, s)
<1>1. /\ s \in Sources /\ b \in Seq(Sources) /\ Once(b) /\ ~IsIn(s, b) /\ IsIn(s, w)
      /\ \A t : IsIn(t, b) <=> IsIn(t, w) /\ t # s
  BY ListTail
<1>2. /\ Len(b) + 1 = Len(w) /\ Len(b) \in Nat
      /\ \A i \in 1..Len(b) : b[i] = w[i + 1] /\ i + 1 \in 1..Len(w)
  OBVIOUS
<1> HIDE DEF s, b
<1>3. \A i \in 1..Len(b) : b[i] # s
  BY <1>1 DEF IsIn
<1>4. /\ r \in Seq(Sources) /\ Once(r)
      /\ \A t : IsIn(t, r) <=> IsIn(t, b) \/ t = s
  BY <1>1, ListAppend
<1>5. /\ Len(r) = Len(b) + 1 /\ r[Len(b) + 1] = s
      /\ \A i \in 1..Len(b) : r[i] = b[i]
  BY <1>1
<1> HIDE DEF r
<1>6. CASE still
  <2>1. Requeued(b, s, still) = r
    BY <1>6 DEF Requeued, r
  <2>2. \A i \in 1..Len(r) : i \in 1..Len(b) \/ i = Len(b) + 1
    BY <1>2, <1>5
  <2>3. ASSUME NEW i \in 1..Len(r)
        PROVE  \/ i + 1 \in 1..Len(w) /\ r[i] = w[i + 1] /\ r[i] # s
               \/ r[i] = s
    BY <1>2, <1>3, <1>5, <2>2
  <2>4. Len(r) <= Len(w) /\ \A t : IsIn(t, r) <=> (IsIn(t, w) /\ t # s) \/ (still /\ t = s)
    BY <1>1, <1>2, <1>4, <1>5, <1>6
  <2> QED
    BY <1>4, <2>1, <2>3, <2>4, Zenon DEF s, b
<1>7. CASE ~still
  <2>1. Requeued(b, s, still) = b
    BY <1>7 DEF Requeued
  <2>2. ASSUME NEW i \in 1..Len(b)
        PROVE  \/ i + 1 \in 1..Len(w) /\ b[i] = w[i + 1] /\ b[i] # s
               \/ b[i] = s
    BY <1>2, <1>3
  <2>3. Len(b) <= Len(w) /\ \A t : IsIn(t, b) <=> (IsIn(t, w) /\ t # s) \/ (still /\ t = s)
    BY <1>1, <1>2, <1>7
  <2> QED
    BY <1>1, <2>1, <2>2, <2>3, Zenon DEF s, b
<1> QED
  BY <1>6, <1>7

\* The first source that waits has its turn.
LEMMA TurnStepIInv ==
  ASSUME IInv, Step, ready \o NewlyReady # << >>
  PROVE  IInv'
<1> DEFINE waiting == ready \o NewlyReady
           s == Head(waiting)
           ended == {t \in Sources \ closed : Disconnected(t)}
           collected == [t \in Sources |-> Collected(t)]
           still == Len(collected[s]) > 1 /\ s \notin closed'
<1>1. /\ pending' = [collected EXCEPT ![s] = Tail(@)]
      /\ heard' = [heard EXCEPT ![s] = Append(@, Head(collected[s]))]
      /\ ready' = Requeued(Tail(waiting), s, still)
      /\ passed' = [t \in Sources |->
                      IF t # s /\ (Listed(t) \/ Collected(t) # << >>) THEN passed[t] + 1 ELSE 0]
  BY DEF Step
<1>2. /\ Work((ended \intersect openTurn) \union {s})
      /\ \E turn \in SUBSET {s} : openTurn' = openTurn \union turn
  BY DEF Step
<1>3. /\ result = "none" /\ result' = result /\ mode' = mode /\ pc' = "finish"
      /\ UNCHANGED <<captureVars, dropped, stopped>>
      /\ closed' \subseteq Sources /\ closed \subseteq closed'
      /\ \A t \in Sources : Collected(t) # << >> => t \notin closed'
  BY StepCommon
<1>4. ended \subseteq Sources \ closed /\ stopped \subseteq closed
  BY DEF IInv, StopsOK
<1>5. still \in BOOLEAN
  OBVIOUS
<1>6. /\ waiting \in Seq(Sources) /\ Once(waiting) /\ Len(waiting) <= N
      /\ \A t \in Sources : IsIn(t, waiting) <=> Collected(t) # << >>
      /\ \A t : IsIn(t, ready) => IsIn(t, waiting)
      /\ \A t : IsIn(t, waiting) => t \in Sources \ closed
      /\ \A i \in 1..Len(waiting) : passed[waiting[i]] + i <= N
  BY WaitingIs
<1>7. waiting # << >>
  OBVIOUS
<1>8. \A t \in Sources : collected[t] = Collected(t) /\ Collected(t) \in Seq(Nat)
  BY CollectedIs
<1>9. collected \in [Sources -> Seq(Nat)]
  BY <1>8
<1>10. still => Len(collected[s]) > 1
  OBVIOUS
<1> HIDE DEF waiting, s, ended, collected, still
<1>11. s \in Sources /\ s \notin closed /\ s \notin closed' /\ IsIn(s, waiting)
       /\ collected[s] # << >> /\ collected[s] \in Seq(Nat)
  <2>1. s \in Sources /\ IsIn(s, waiting)
    BY <1>6, <1>7, ListTail DEF s
  <2> QED
    BY <1>3, <1>6, <1>8, <2>1
<1>12. /\ Tail(collected[s]) \in Seq(Nat) /\ Head(collected[s]) \in Nat
       /\ still => Tail(collected[s]) # << >>
  <2>1. \A c \in Seq(Nat) : c # << >> =>
          Tail(c) \in Seq(Nat) /\ Head(c) \in Nat /\ (Len(c) > 1 => Tail(c) # << >>)
    OBVIOUS
  <2> QED
    BY <1>10, <1>11, <2>1
<1>13. /\ pending'[s] = Tail(collected[s])
       /\ \A t \in Sources \ {s} : pending'[t] = Collected(t)
       /\ pending' \in [Sources -> Seq(Nat)]
  BY <1>1, <1>8, <1>9, <1>11, <1>12
<1>14. /\ heard'[s] = Append(heard[s], Head(collected[s]))
       /\ \A t \in Sources \ {s} : heard'[t] = heard[t]
       /\ heard' \in [Sources -> Seq(Nat)]
  <2> DEFINE x == Head(collected[s])
  <2>1. heard' = [heard EXCEPT ![s] = Append(@, x)] /\ x \in Nat
    BY <1>1, <1>12
  <2>2. heard \in [Sources -> Seq(Nat)]
    BY DEF IInv, TypeOK
  <2> HIDE DEF x
  <2>3. Append(heard[s], x) \in Seq(Nat)
    BY <1>11, <2>1, <2>2
  <2>4. /\ heard'[s] = Append(heard[s], x)
        /\ \A t \in Sources \ {s} : heard'[t] = heard[t]
        /\ heard' \in [Sources -> Seq(Nat)]
    BY <1>11, <2>1, <2>2, <2>3
  <2> QED
    BY <2>4 DEF x
<1>15. EndedOK' /\ ChunksOK' /\ lane' \in [Sources -> Seq(Nat)]
  <2>1. \A t \in Sources : Collected(t) = << >> => pending'[t] = << >>
    BY <1>8, <1>11, <1>13
  <2>2. ASSUME NEW t \in Sources PROVE heard'[t] \o pending'[t] = heard[t] \o Collected(t)
    <3>1. CASE t = s
      <4>1. heard[s] \in Seq(Nat)
        BY <1>11 DEF IInv, TypeOK
      <4>2. \A h, c \in Seq(Nat) : c # << >> => Append(h, Head(c)) \o Tail(c) = h \o c
        BY ConcatHead
      <4>3. Append(heard[s], Head(collected[s])) \o Tail(collected[s]) = heard[s] \o collected[s]
        BY <1>11, <4>1, <4>2
      <4>4. collected[s] = Collected(s)
        BY <1>8, <1>11
      <4> QED
        BY <1>13, <1>14, <3>1, <4>3, <4>4, Zenon
    <3>2. CASE t # s
      BY <1>13, <1>14, <3>2
    <3> QED
      BY <3>1, <3>2
  <2> QED
    BY <1>13, <1>14, <2>1, <2>2, StepChunks
<1>16. /\ working' \subseteq Sources /\ openTurn' \subseteq Sources
       /\ (working' \union openTurn') \intersect stopped \subseteq working \union openTurn
       /\ forgotten' \subseteq working'
  <2>1. /\ working' \subseteq working \union (ended \intersect openTurn) \union {s}
        /\ forgotten' \subseteq working'
    BY <1>2, WorkIs
  <2> QED
    BY <1>2, <1>4, <1>11, <2>1 DEF IInv, TypeOK
<1>17. StopsOK' /\ CapturesOK'
  BY <1>16, StepEngines
<1>18. /\ ready' \in Seq(Sources) /\ Once(ready')
       /\ \A t : IsIn(t, ready') <=> (IsIn(t, waiting) /\ t # s) \/ (still /\ t = s)
       /\ Len(ready') <= Len(waiting)
       /\ \A i \in 1..Len(ready') :
            \/ i + 1 \in 1..Len(waiting) /\ ready'[i] = waiting[i + 1] /\ ready'[i] # s
            \/ ready'[i] = s
  BY <1>1, <1>5, <1>6, <1>7, RequeuedIs, Zenon DEF s
<1>19. \A t : Listed(t) <=> IsIn(t, ready)
  BY DEF Listed, IsIn, IInv, TypeOK
<1>20. /\ passed' \in [Sources -> Nat] /\ passed'[s] = 0
       /\ \A t \in Sources : IsIn(t, waiting) /\ t # s => passed'[t] = passed[t] + 1
       /\ \A t \in Sources : ~IsIn(t, waiting) => passed'[t] = 0
  <2>1. \A t \in Sources : t # s /\ (Listed(t) \/ Collected(t) # << >>)
                             <=> IsIn(t, waiting) /\ t # s
    BY <1>6, <1>19, Zenon
  <2>2. passed' = [t \in Sources |-> IF IsIn(t, waiting) /\ t # s THEN passed[t] + 1 ELSE 0]
    BY <1>1, <2>1
  <2>3. \A t \in Sources : passed[t] \in Nat /\ passed[t] + 1 \in Nat
    BY DEF IInv, TypeOK
  <2> QED
    BY <1>11, <2>2, <2>3
<1>21. TypeOK'
  BY <1>3, <1>13, <1>14, <1>15, <1>16, <1>18, <1>20 DEF IInv, TypeOK, captureVars
<1>22. TurnsOK'
  <2>1. ASSUME NEW i \in 1..Len(ready') PROVE passed'[ready'[i]] + i <= N
    <3>1. i \in Nat /\ Len(ready') \in Nat /\ Len(waiting) \in Nat /\ N \in Nat
      BY <1>6, <1>18, SchedulerAssumption
    <3>2. CASE ready'[i] = s
      BY <1>6, <1>18, <1>20, <3>1, <3>2
    <3>3. CASE i + 1 \in 1..Len(waiting) /\ ready'[i] = waiting[i + 1] /\ ready'[i] # s
      <4>1. IsIn(ready'[i], waiting) /\ ready'[i] \in Sources
        BY <1>6, <3>3 DEF IsIn
      <4>2. passed'[ready'[i]] = passed[ready'[i]] + 1 /\ passed[ready'[i]] \in Nat
        BY <1>20, <3>3, <4>1 DEF IInv, TypeOK
      <4>3. passed[ready'[i]] + (i + 1) <= N
        BY <1>6, <3>3
      <4> QED
        BY <3>1, <4>2, <4>3
    <3> QED
      BY <1>18, <3>2, <3>3
  <2>2. ASSUME NEW t \in Sources, ~IsIn(t, ready') PROVE passed'[t] = 0
    BY <1>18, <1>20, <2>2
  <2>3. ASSUME NEW t \in Sources, IsIn(t, ready') PROVE pending'[t] # << >> /\ t \notin closed'
    BY <1>3, <1>6, <1>11, <1>12, <1>13, <1>18, <2>3
  <2> QED
    BY <1>18, <2>1, <2>2, <2>3 DEF TurnsOK
<1> QED
  BY <1>15, <1>17, <1>21, <1>22 DEF IInv

-----------------------------------------------------------------------------
LEMMA Inductive ==
  ASSUME IInv, [Next]_vars
  PROVE  IInv'
<1>1. CASE \E e \in Endpoints : Capture(e)
  BY <1>1, CaptureIInv
<1>2. CASE \E e \in Endpoints : Demux(e)
  BY <1>2, DemuxIInv
<1>3. CASE \E e \in Endpoints : DemuxEnds(e) \/ DemuxFails(e)
  BY <1>3, DemuxEndsIInv
<1>4. CASE \/ \E m \in {"Graceful", "Cancel"} : RequestStop(m)
           \/ \E e \in Endpoints : CloseCapture(e)
           \/ CancelStep \/ UNCHANGED vars
  BY <1>4, StopIInv
<1>5. CASE \E s \in Sources : Recognized(s)
  BY <1>5, RecognizedIInv
<1>6. CASE Step
  BY <1>6, IdleStepIInv, TurnStepIInv
<1>7. CASE FinishStep
  BY <1>7, FinishStepIInv
<1> QED
  BY <1>1, <1>2, <1>3, <1>4, <1>5, <1>6, <1>7 DEF Next, Scheduler

LEMMA ServedFollows ==
  ASSUME IInv
  PROVE  SourceIsServed
<1> SUFFICES ASSUME NEW s \in Sources PROVE passed[s] < N
  BY DEF SourceIsServed
<1>1. N \in Nat /\ N > 0 /\ passed[s] \in Nat
  BY SchedulerAssumption DEF IInv, TypeOK
<1>2. CASE IsIn(s, ready)
  <2>1. PICK i \in 1..Len(ready) : ready[i] = s
    BY <1>2 DEF IsIn
  <2>2. passed[s] + i <= N
    BY <2>1 DEF IInv, TurnsOK
  <2> QED
    BY <1>1, <2>1, <2>2
<1>3. CASE ~IsIn(s, ready)
  BY <1>1, <1>3 DEF IInv, TurnsOK
<1> QED
  BY <1>2, <1>3

LEMMA StopFollows ==
  ASSUME IInv
  PROVE  StopLosesNothing
<1> SUFFICES ASSUME result # "none", mode = "Graceful", lost = {}
             PROVE  /\ result = "Completed"
                    /\ working = {} /\ openTurn = {}
                    /\ \A s \in Sources : heard[s] = Only(Offered(s), Nat \ dropped[s])
  BY DEF StopLosesNothing, Running
<1>1. result = "Completed" /\ stopped = Sources /\ closed = Sources
      /\ working = {} /\ openTurn = {}
  BY DEF IInv, TypeOK, StopsOK
<1>2. ASSUME NEW s \in Sources PROVE heard[s] = Only(Offered(s), Nat \ dropped[s])
  <2>1. EndpointOf[s] \in Endpoints \ demuxing /\ pending[s] = << >> /\ lane[s] = << >>
    BY <1>1, SchedulerAssumption DEF IInv, EndedOK
  <2>2. demuxed[EndpointOf[s]] = captured[EndpointOf[s]]
    BY <2>1 DEF IInv, CapturesOK
  <2>3. heard[s] \o pending[s] \o lane[s]
          = Only(Numbers(demuxed[EndpointOf[s]]), Nat \ dropped[s])
    BY DEF IInv, ChunksOK
  <2>4. Offered(s) = Numbers(demuxed[EndpointOf[s]])
    BY <2>2, Zenon DEF Offered, Numbers
  <2>5. heard[s] \o << >> \o << >> = heard[s]
    <3>1. heard[s] \in Seq(Nat)
      BY DEF IInv, TypeOK
    <3>2. \A h \in Seq(Nat) : h \o << >> = h
      BY ConcatEmpty
    <3> QED
      BY <3>1, <3>2, Zenon
  <2> QED
    BY <2>1, <2>3, <2>4, <2>5, Zenon
<1> QED
  BY <1>1, <1>2

-----------------------------------------------------------------------------
(***************************************************************************)
(* The inductive invariant holds in every state.                           *)
(***************************************************************************)
THEOREM Invariant == Spec => []IInv
<1>1. Init => IInv
  BY InitIInv
<1>2. IInv /\ [Next]_vars => IInv'
  BY Inductive
<1> QED
  BY <1>1, <1>2, PTL DEF Spec

(***************************************************************************)
(* Every variable keeps its type: a source is listed, waits and ends as    *)
(* one of the sources, and all chunks are counted ones.                    *)
(***************************************************************************)
THEOREM TypeCorrect == Spec => []TypeOK
<1>1. IInv => TypeOK
  BY DEF IInv
<1> QED
  BY <1>1, Invariant, PTL

(***************************************************************************)
(* SourceIsServed: in ready_sources every source with chunks waits for at  *)
(* most one turn of each other source, for any number of them.             *)
(***************************************************************************)
THEOREM EverySourceServed == Spec => []SourceIsServed
<1>1. IInv => SourceIsServed
  BY ServedFollows
<1> QED
  BY <1>1, Invariant, PTL

(***************************************************************************)
(* StopLosesNothing: a graceful stop with no device lost completes, and    *)
(* every captured chunk was processed in order or recorded as an overrun,  *)
(* for any number of sources, endpoints and chunks and any queue limit.    *)
(***************************************************************************)
THEOREM GracefulStopLosesNothing == Spec => []StopLosesNothing
<1>1. IInv => StopLosesNothing
  BY StopFollows
<1> QED
  BY <1>1, Invariant, PTL

(***************************************************************************)
(* A source whose request the worker dropped is never drained: its stop    *)
(* can only be a cancel, whatever the other sources do.                    *)
(***************************************************************************)
THEOREM ForgottenIsNeverDrained ==
  Spec => [](forgotten # {} => forgotten \intersect stopped = {} /\ result # "Completed")
<1>1. IInv => (forgotten # {} => forgotten \intersect stopped = {} /\ result # "Completed")
  BY DEF IInv, TypeOK, StopsOK
<1> QED
  BY <1>1, Invariant, PTL
=============================================================================
