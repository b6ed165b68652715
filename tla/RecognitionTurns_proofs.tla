----------------------- MODULE RecognitionTurns_proofs -----------------------
(***************************************************************************)
(* What becomes of the turns of RecognitionEngine: a completed drain       *)
(* leaves no draft behind, and the finals have the segments in the order   *)
(* they were spoken, for every number of frames and setting.               *)
(*                                                                         *)
(* Owed says which work will finalize each draft: the open turn, a         *)
(* deferred finalization or a whole-turn request.  A completed drain has   *)
(* none of this work left.  Told says why only the newest turn gets more   *)
(* text, so that the segments of older turns are the earlier ones.         *)
(***************************************************************************)
EXTENDS RecognitionEngine_proofs

-----------------------------------------------------------------------------
(***************************************************************************)
(* NoTurnLeftBehind.  A draft is finalized with the open turn, with a      *)
(* deferred finalization or by a whole-turn request, and each of them      *)
(* finalizes every older draft.  Owed says that every draft is covered by  *)
(* one of the three (CoveredAbove), which holds only because no text       *)
(* reaches a turn above what is deferred or asked for.  That takes:        *)
(*   Numbered        new turns, segments and turns are numbered in order,  *)
(*   Lined           the segments of the queue end in their order,         *)
(*   DraftsBefore    drafts end before what is still to be recognized,     *)
(*   ConfirmedBefore what is confirmed does too,                           *)
(*   Ordered         drafts end in the order of their turns, and after     *)
(*                   what is confirmed, unless a finalization covers them, *)
(*   Aimed           what is in flight is for the open turn, and no newer  *)
(*                   than what is deferred,                                *)
(*   Deferred        a deferred turn still has its draft, or nothing that  *)
(*                   is queued or recorded continues it,                   *)
(*   CheckEnds       nothing continues the segment of a turn check,        *)
(*   Rested          the timeout started no earlier than the pause of the  *)
(*                   builder did.                                          *)
(* All of this is about the session r and the place b of its builder.  A   *)
(* timeout keeps it when no child of the open turn may follow: a pause     *)
(* inside a chain of segments ends before the timeout (PauseEndsFirst).    *)
(***************************************************************************)
LongestStart == Max({c.start : c \in Configs})
ShortestInterim == Min({c.interim : c \in Configs} \ {0})

\* The parent of the segment that is active or comes next, if it has one.
Chain == IF state.kind = "Idle" THEN pendingPrevious ELSE state.previous

\* A pause inside a chain, and the longest it may have lasted.
Pausing == PauseEndsFirst /\ state.kind # "Active" /\ Chain # NoSegment
PauseOf(st) ==
  IF st.kind = "AfterInterimSilence"
  THEN Len(st.pending) + LongestStart * (st.silence - ShortestInterim)
  ELSE Len(st.pending)

Place == [next |-> Position.next, active |-> Position.active, tick |-> frames,
          chain |-> Chain, pausing |-> Pausing, pause |-> IF Pausing THEN PauseOf(state) ELSE 0]

PlaceOK(b) ==
  /\ b.next \in Turn /\ b.tick \in Nat /\ b.active \in BOOLEAN
  /\ b.chain \in {0, b.next - 1} /\ b.pausing \in BOOLEAN /\ b.pause \in Nat

OfSegments(q) == q.kind \in {"InterimDisplay", "CompletionCheck"}
OfTurn(q) == q.kind = "Rerecognition"

\* No segment that is queued, active or to come is a child of what turn t began with.
QueueSettled(r, t) == \A i \in DOMAIN r.segments : SegmentTurn(r.segments[i]) > t
Beyond(b, t) == b.chain # NoSegment => b.chain > t

Numbered(r, b) ==
  LET q == r.inFlight IN
  /\ r.nextTurn <= b.next
  /\ \A i \in DOMAIN r.segments : r.nextTurn <= r.segments[i].id
  /\ OfSegments(q) =>
       /\ q.last \in Ids(q.segments)
       /\ \A x \in Ids(q.segments) : r.nextTurn <= x /\ x <= q.last /\ q.first <= x
  /\ \A s \in DOMAIN r.newTurns :
       /\ s < b.next
       /\ \A i \in DOMAIN r.segments : s < r.segments[i].id
       /\ OfSegments(q) => \A x \in Ids(q.segments) : s < x
  /\ \A t \in DOMAIN r.turns :
       /\ r.turns[t].latest \in Ids(r.turns[t].audio)
       /\ \A a \in Ids(r.turns[t].audio) : t <= a

\* Nothing that is queued or active ends before position to, and only a child of id there.
EndsBefore(id, to, r, b) ==
  /\ to <= b.tick /\ (to = b.tick /\ b.active => b.chain = id)
  /\ \A i \in DOMAIN r.segments :
       to <= r.segments[i].to /\ (to = r.segments[i].to => r.segments[i].previous = id)

Lined(r, b) ==
  \A i \in DOMAIN r.segments :
    /\ r.segments[i].to <= b.tick
    /\ r.segments[i].to = b.tick /\ b.active => b.chain = r.segments[i].id
    /\ \A j \in DOMAIN r.segments : i < j =>
         /\ r.segments[i].to <= r.segments[j].to
         /\ r.segments[i].to = r.segments[j].to => r.segments[j].previous = r.segments[i].id

DraftsBefore(r, b) ==
  LET q == r.inFlight IN
  /\ \A t \in DOMAIN r.turns :
       /\ EndsBefore(r.turns[t].latest, r.turns[t].to, r, b)
       /\ OfSegments(q) =>
            /\ r.turns[t].to <= q.to
            /\ r.turns[t].to = q.to => q.first = r.turns[t].latest
  /\ OfSegments(q) => EndsBefore(q.last, q.to, r, b)

InDraft(r, a) == \E t \in DOMAIN r.turns : a \in Ids(r.turns[t].audio)

ConfirmedBefore(r, b) ==
  /\ r.confirmed <= b.tick /\ (r.confirmed = b.tick /\ b.active => ~InDraft(r, b.chain))
  /\ \A i \in DOMAIN r.segments :
       /\ r.confirmed <= r.segments[i].to
       /\ r.confirmed = r.segments[i].to => ~InDraft(r, r.segments[i].previous)

Ordered(r) ==
  /\ \A t \in DOMAIN r.turns : r.finalization >= t \/ r.confirmed < r.turns[t].to
  /\ \A u, t \in DOMAIN r.turns :
       u < t => r.finalization >= t \/ r.turns[u].to < r.turns[t].to

Aimed(r, b) ==
  LET q == r.inFlight IN
  /\ OfSegments(q) =>
       /\ q.target # New => r.openTurn \in {NoTurn, q.target}
       /\ q.target = New => r.openTurn = NoTurn \/ (q.turn = q.first /\ q.first \in Ids(q.segments))
       /\ r.finalization # NoTurn => q.target # New /\ q.target <= r.finalization
  /\ OfTurn(q) =>
       /\ r.openTurn <= q.turn
       /\ r.finalization # NoTurn => q.turn <= r.finalization
       /\ q.revision = 0
       /\ q.turn \in DOMAIN r.turns => q.to = r.turns[q.turn].to
       /\ q.turn \in {r.openTurn, r.finalization} =>
            /\ Beyond(b, q.turn)
            /\ q.purpose = "GrammarAfterCompletion" => QueueSettled(r, q.turn)

Deferred(r, b) ==
  r.finalization # NoTurn =>
    /\ r.openTurn <= r.finalization /\ r.finalization < r.nextTurn
    /\ r.finalization \in DOMAIN r.turns
         \/ (QueueSettled(r, r.finalization) /\ Beyond(b, r.finalization))

CheckEnds(r, b) ==
  r.turnCheck # NoCheck =>
    /\ r.turnCheck.previous >= 1 /\ r.turnCheck.previous < b.next
    /\ Beyond(b, r.turnCheck.previous)
    /\ \A i \in DOMAIN r.segments : r.segments[i].previous # r.turnCheck.previous

Rested(r, b) ==
  b.pausing /\ r.openEpoch = r.epoch /\ r.openSince # NoTick => b.tick - r.openSince <= b.pause

\* Every draft above t will be finalized: it is the open turn or an older one,
\* or what a finalization waits for or a whole-turn request is about, or older.
CoveredAbove(r, t) ==
  \A u \in DOMAIN r.turns :
    \/ u <= t \/ u <= r.openTurn \/ u <= r.finalization
    \/ OfTurn(r.inFlight) /\ u <= r.inFlight.turn

Ledger(r, b) ==
  /\ Numbered(r, b) /\ Lined(r, b) /\ DraftsBefore(r, b) /\ ConfirmedBefore(r, b)
  /\ Ordered(r) /\ Aimed(r, b) /\ Deferred(r, b) /\ CheckEnds(r, b) /\ Rested(r, b)

Owed(r, b) == Ledger(r, b) /\ CoveredAbove(r, NoTurn)

Guarded == rt.turn.detector = "Simple" \/ PauseEndsFirst

\* A pause of the builder, when pauses end before a timeout.
PauseOK(st) ==
  PauseEndsFirst =>
    /\ st.kind # "Active" => Len(st.pending) < LongestStart
    /\ st.kind = "AfterInterimSilence" =>
         /\ \E e \in Configs : e.interim # 0
         /\ ShortestInterim <= st.silence
         /\ \E d \in Configs : st.silence < d.turnCheck

Good(r, b) == PlaceOK(b) /\ Consistent(r) /\ Sound(r, b)

-----------------------------------------------------------------------------
(* What a sound session has. *)

LEMMA TurnsAre ==
  ASSUME NEW r, NEW b, Good(r, b)
  PROVE  /\ r.nextTurn \in Nat /\ r.nextTurn >= 1 /\ r.finalization \in Nat /\ r.openTurn \in Nat
         /\ r.openTurn # NoTurn => r.openTurn \in DOMAIN r.turns
         /\ r.openTurn < r.nextTurn
         /\ r.confirmed \in Int
         /\ \A t \in DOMAIN r.turns :
              /\ t \in Nat /\ t >= 1 /\ t < r.nextTurn
              /\ r.turns[t].to \in Int /\ r.turns[t].latest \in Turn
              /\ r.turns[t].audio \in Seq(Turn)
              /\ \A a \in Ids(r.turns[t].audio) : a \in Turn /\ a < b.next
<1>1. /\ r.nextTurn \in Nat \ {0} /\ r.finalization \in Nat /\ r.openTurn \in Nat
      /\ r.openTurn # NoTurn => r.openTurn \in DOMAIN r.turns
      /\ DOMAIN r.turns \subseteq 1..(r.nextTurn - 1)
      /\ r.confirmed \in Int
      /\ \A t \in DOMAIN r.turns : r.turns[t] \in TurnDraft
      /\ HeardBefore(r, b.next)
  BY OpenTurnIsNumber DEF Good, Consistent, Known, Sound, Typed, Spoken
<1>2. r.openTurn < r.nextTurn
  BY <1>1 DEF NoTurn
<1>3. ASSUME NEW t \in DOMAIN r.turns
      PROVE  /\ t \in Nat /\ t >= 1 /\ t < r.nextTurn
             /\ r.turns[t].to \in Int /\ r.turns[t].latest \in Turn
             /\ r.turns[t].audio \in Seq(Turn)
             /\ \A a \in Ids(r.turns[t].audio) : a \in Turn /\ a < b.next
  <2>1. r.turns[t].to \in Int /\ r.turns[t].latest \in Turn /\ r.turns[t].audio \in Seq(Turn)
    BY <1>1 DEF TurnDraft
  <2>2. \A a \in Ids(r.turns[t].audio) : a \in Turn
    <3>1. PICK q \in Seq(Turn) : q = r.turns[t].audio
      BY <2>1
    <3>2. \A i \in DOMAIN q : q[i] \in Turn
      OBVIOUS
    <3> QED BY <3>1, <3>2 DEF Ids
  <2> QED BY <1>1, <2>1, <2>2 DEF HeardBefore
<1> QED BY <1>1, <1>2, <1>3

LEMMA QueueIs ==
  ASSUME NEW r, NEW b, Good(r, b)
  PROVE  /\ r.segments \in Seq(Segment) /\ Len(r.segments) \in Nat
         /\ DOMAIN r.segments = 1..Len(r.segments)
         /\ \A i \in DOMAIN r.segments :
              /\ r.segments[i] \in Segment
              /\ r.segments[i].id \in Nat /\ r.segments[i].id >= 1 /\ r.segments[i].id < b.next
              /\ r.segments[i].previous \in {0, r.segments[i].id - 1}
              /\ r.segments[i].to \in Int
              /\ SegmentTurn(r.segments[i]) \in Nat
              /\ SegmentTurn(r.segments[i]) =
                   IF r.segments[i].previous = 0 THEN r.segments[i].id ELSE r.segments[i].id - 1
         /\ \A i, j \in DOMAIN r.segments : i < j => r.segments[i].id < r.segments[j].id
<1>1. /\ r.segments \in Seq(Segment) /\ InLine(r.segments)
      /\ \A i \in DOMAIN r.segments : r.segments[i].id < b.next
  BY DEF Good, Sound, Typed, Spoken
<1>2. \A i \in DOMAIN r.segments : r.segments[i] \in Segment
  BY <1>1
<1>3. \A i \in DOMAIN r.segments : r.segments[i].id \in Turn /\ r.segments[i].to \in Int
  BY <1>2 DEF Segment
<1> QED BY <1>1, <1>2, <1>3 DEF InLine, SegmentTurn, Turn

\* What is queued or to come is never of a turn older than the newest one.
LEMMA QueueTurns ==
  ASSUME NEW r, NEW b, Good(r, b), Numbered(r, b), NEW t \in Nat, t < r.nextTurn
  PROVE  /\ \A i \in DOMAIN r.segments : SegmentTurn(r.segments[i]) >= t
         /\ ~QueueSettled(r, t) =>
              /\ r.nextTurn = t + 1 /\ Len(r.segments) >= 1
              /\ r.segments[1].id = t + 1 /\ r.segments[1].previous = t /\ t >= 1
<1>1. \A i \in DOMAIN r.segments : SegmentTurn(r.segments[i]) >= t
  BY QueueIs, TurnsAre DEF Numbered
<1>2. ASSUME NEW i \in DOMAIN r.segments, ~(SegmentTurn(r.segments[i]) > t)
      PROVE  /\ r.nextTurn = t + 1 /\ i = 1
             /\ r.segments[i].id = t + 1 /\ r.segments[i].previous = t /\ t >= 1
  <2>1. /\ r.segments[i].id = t + 1 /\ r.segments[i].previous = t /\ t >= 1 /\ r.nextTurn = t + 1
    <3>1. PICK n, p, x, m : /\ n = r.segments[i].id /\ p = r.segments[i].previous
                            /\ x = SegmentTurn(r.segments[i]) /\ m = r.nextTurn
      OBVIOUS
    <3>2. n \in Nat /\ p \in {0, n - 1} /\ x \in Nat /\ x = IF p = 0 THEN n ELSE n - 1
      BY <3>1, QueueIs
    <3>3. m \in Nat /\ m <= n /\ t < m
      BY <3>1, TurnsAre DEF Numbered
    <3>4. ~(x > t)
      BY <1>2, <3>1
    <3>5. n = t + 1 /\ p = t /\ t >= 1 /\ m = t + 1
      BY <3>2, <3>3, <3>4
    <3> QED BY <3>1, <3>5
  <2>2. 1 < i => r.segments[1].id < r.segments[i].id /\ 1 \in DOMAIN r.segments
    BY QueueIs
  <2>3. 1 \in DOMAIN r.segments => r.segments[1].id >= r.nextTurn
    BY DEF Numbered
  <2>4. i \in 1..Len(r.segments) /\ Len(r.segments) \in Nat
    BY QueueIs
  <2>5. ~(1 < i)
    <3> SUFFICES ASSUME 1 < i PROVE FALSE
      OBVIOUS
    <3>1. 1 \in DOMAIN r.segments /\ r.segments[1].id \in Nat /\ r.segments[1].id < t + 1
          /\ r.segments[1].id >= t + 1
      BY <2>1, <2>2, <2>3, QueueIs
    <3> QED BY <3>1
  <2> QED BY <2>1, <2>4, <2>5
<1>3. ~QueueSettled(r, t) => \E i \in DOMAIN r.segments : ~(SegmentTurn(r.segments[i]) > t)
  BY DEF QueueSettled
<1>4. \A i \in DOMAIN r.segments : Len(r.segments) >= 1
  BY QueueIs
<1> QED BY <1>1, <1>2, <1>3, <1>4

-----------------------------------------------------------------------------
(* Finalizing. *)

\* s is r after the drafts up to t became final; a finalization may be done with.
Finalized(r, s, t) ==
  /\ s.segments = r.segments /\ s.turnCheck = r.turnCheck /\ s.inFlight = r.inFlight
  /\ s.newTurns = r.newTurns /\ s.nextTurn = r.nextTurn
  /\ s.openTurn = NoTurn /\ s.openSince = NoTick
  /\ s.finalization \in {r.finalization, NoTurn}
  /\ DOMAIN s.turns = {u \in DOMAIN r.turns : ~(u <= t)}
  /\ \A u \in DOMAIN s.turns : s.turns[u] = r.turns[u]
  /\ \/ s.confirmed = r.confirmed
     \/ \E u \in DOMAIN r.turns : u <= t /\ s.confirmed = r.turns[u].to

LEMMA FinalizeIs ==
  ASSUME NEW r, NEW b, NEW t \in Nat, Good(r, b)
  PROVE  /\ Finalized(r, FinalizeTurnNow(r, t), t)
         /\ FinalizeTurnNow(r, t).finalization = r.finalization
<1> DEFINE due == {u \in DOMAIN r.turns : u <= t}
           outputs == {Output(r.nextSeq + Cardinality({v \in due : v < u}), u, TRUE, r.turns[u])
                        : u \in due}
           I == {r.turns[u].to : u \in due}
           confirmed == Max({r.confirmed} \union I)
           s == [r EXCEPT !.out = @ \union outputs, !.nextSeq = @ + Cardinality(due),
                          !.finalized = @ \union due, !.confirmed = confirmed,
                          !.turns = Without(@, due), !.openTurn = NoTurn,
                          !.acceptsRoot = FALSE, !.openSince = NoTick]
<1>1. FinalizeTurnNow(r, t) = s
  BY DEF FinalizeTurnNow, FinalizeUpTo, ClearOpenTurn
<1>2. /\ s.segments = r.segments /\ s.turnCheck = r.turnCheck /\ s.inFlight = r.inFlight
      /\ s.newTurns = r.newTurns /\ s.nextTurn = r.nextTurn
      /\ s.openTurn = NoTurn /\ s.openSince = NoTick /\ s.finalization = r.finalization
      /\ s.confirmed = confirmed /\ s.turns = Without(r.turns, due)
  BY DEF Good, Consistent, Fields
<1>3. /\ DOMAIN s.turns = DOMAIN r.turns \ due
      /\ \A u \in DOMAIN s.turns : s.turns[u] = r.turns[u]
  BY <1>2 DEF Without
<1>4. confirmed \in {r.confirmed} \union I
  <2>1. PICK c, n, f : c = r.confirmed /\ n = r.nextTurn - 1 /\ f = [u \in due |-> r.turns[u].to]
    OBVIOUS
  <2>2. /\ c \in Int /\ n \in Nat /\ due \in SUBSET (1..n)
        /\ \A u \in due : f[u] \in Int /\ f[u] = r.turns[u].to
    BY <2>1, TurnsAre
  <2>3. (\A u \in due : f[u] \in I) /\ (\A x \in I : \E u \in due : x = f[u])
    BY <2>2
  <2> HIDE DEF due, I
  <2>4. Max({c} \union I) \in {c} \union I
    BY <2>2, <2>3, GreatestOf
  <2> QED BY <2>1, <2>4
<1>5. s.confirmed = r.confirmed \/ \E u \in DOMAIN r.turns : u <= t /\ s.confirmed = r.turns[u].to
  <2> HIDE DEF s, confirmed
  <2> QED BY <1>2, <1>4
<1>6. DOMAIN s.turns = {u \in DOMAIN r.turns : ~(u <= t)}
  <2> HIDE DEF s
  <2> QED BY <1>3
<1> HIDE DEF s
<1> QED BY <1>1, <1>2, <1>3, <1>5, <1>6 DEF Finalized

LEMMA FinalizeOwed ==
  ASSUME NEW r, NEW s, NEW b, NEW t \in Nat, Good(r, b), Ledger(r, b), CoveredAbove(r, t),
         Finalized(r, s, t), r.openTurn <= t,
         s.finalization # r.finalization => r.finalization <= t,
         s.finalization = r.finalization => r.finalization = NoTurn \/ t <= r.finalization,
         s.finalization = t => QueueSettled(r, t) /\ Beyond(b, t)
  PROVE  Owed(s, b)
<1> DEFINE q == r.inFlight
<1>1. /\ s.segments = r.segments /\ s.turnCheck = r.turnCheck /\ s.inFlight = r.inFlight
      /\ s.newTurns = r.newTurns /\ s.nextTurn = r.nextTurn
      /\ s.openTurn = NoTurn /\ s.openSince = NoTick
      /\ s.finalization \in {r.finalization, NoTurn}
      /\ DOMAIN s.turns = {u \in DOMAIN r.turns : ~(u <= t)}
      /\ \A u \in DOMAIN s.turns : s.turns[u] = r.turns[u]
  BY DEF Finalized
<1>2. s.confirmed = r.confirmed \/ \E u \in DOMAIN r.turns : u <= t /\ s.confirmed = r.turns[u].to
  BY DEF Finalized
<1>3. Numbered(s, b)
  BY <1>1 DEF Ledger, Numbered
<1>4. Lined(s, b)
  BY <1>1 DEF Ledger, Lined
<1>5. DraftsBefore(s, b)
  BY <1>1 DEF Ledger, DraftsBefore, EndsBefore
\* The last segment of a draft is in no other.
<1>6. ASSUME NEW u \in DOMAIN r.turns, u <= t PROVE ~InDraft(s, r.turns[u].latest)
  <2>1. r.turns[u].latest \in Ids(r.turns[u].audio)
    BY DEF Ledger, Numbered
  <2>2. ASSUME NEW x \in DOMAIN s.turns
        PROVE  Ids(r.turns[u].audio) \intersect Ids(s.turns[x].audio) = {}
    <3>1. x \in DOMAIN r.turns /\ x # u /\ s.turns[x] = r.turns[x]
      BY <1>1, <1>6
    <3> QED BY <3>1 DEF Good, Sound, Spoken, AudioOK
  <2> QED BY <2>1, <2>2 DEF InDraft
<1>7. \A a : InDraft(s, a) => InDraft(r, a)
  BY <1>1 DEF InDraft
<1>8. ConfirmedBefore(s, b)
  <2>1. CASE s.confirmed = r.confirmed
    BY <1>1, <1>7, <2>1 DEF Ledger, ConfirmedBefore
  <2>2. CASE \E u \in DOMAIN r.turns : u <= t /\ s.confirmed = r.turns[u].to
    <3>1. PICK u \in DOMAIN r.turns : u <= t /\ s.confirmed = r.turns[u].to
      BY <2>2
    <3>2. ~InDraft(s, r.turns[u].latest)
      BY <1>6, <3>1
    <3>3. EndsBefore(r.turns[u].latest, r.turns[u].to, r, b)
      BY DEF Ledger, DraftsBefore
    <3> QED BY <1>1, <3>1, <3>2, <3>3 DEF EndsBefore, ConfirmedBefore
  <2> QED BY <1>2, <2>1, <2>2
<1>9. Ordered(s)
  <2>1. ASSUME NEW x \in DOMAIN s.turns
        PROVE  /\ x \in DOMAIN r.turns /\ s.turns[x] = r.turns[x] /\ x \in Nat /\ x > t
               /\ s.finalization >= x \/ ~(r.finalization >= x)
    <3>1. x \in DOMAIN r.turns /\ ~(x <= t) /\ s.turns[x] = r.turns[x]
      BY <1>1
    <3>2. x \in Nat /\ r.finalization \in Nat
      BY <3>1, TurnsAre
    <3> QED BY <1>1, <3>1, <3>2
  <2>2. ASSUME NEW x \in DOMAIN s.turns
        PROVE  s.finalization >= x \/ s.confirmed < s.turns[x].to
    <3>1. CASE s.confirmed = r.confirmed
      BY <2>1, <3>1 DEF Ledger, Ordered
    <3>2. CASE \E u \in DOMAIN r.turns : u <= t /\ s.confirmed = r.turns[u].to
      <4>1. PICK u \in DOMAIN r.turns : u <= t /\ s.confirmed = r.turns[u].to
        BY <3>2
      <4>2. u < x
        BY <2>1, <4>1, TurnsAre
      <4> QED BY <2>1, <4>1, <4>2 DEF Ledger, Ordered
    <3> QED BY <1>2, <3>1, <3>2
  <2>3. ASSUME NEW u \in DOMAIN s.turns, NEW x \in DOMAIN s.turns, u < x
        PROVE  s.finalization >= x \/ s.turns[u].to < s.turns[x].to
    BY <2>1, <2>3 DEF Ledger, Ordered
  <2> QED BY <2>2, <2>3 DEF Ordered
<1>10. Aimed(s, b)
  <2>1. r.finalization # NoTurn \/ s.finalization = NoTurn
    BY <1>1
  <2>2. ASSUME OfTurn(q)
        PROVE  /\ s.openTurn <= q.turn
               /\ s.finalization # NoTurn => q.turn <= s.finalization
               /\ q.revision = 0
               /\ q.turn \in DOMAIN s.turns => q.to = s.turns[q.turn].to
               /\ q.turn \in {s.openTurn, s.finalization} =>
                    /\ Beyond(b, q.turn)
                    /\ q.purpose = "GrammarAfterCompletion" => QueueSettled(s, q.turn)
    <3>1. q.turn \in Nat /\ q.turn >= 1
      <4>1. q \in Request
        BY <2>2 DEF Good, Sound, Typed, NoRequest, OfTurn
      <4> QED BY <4>1 DEF Request, Turn
    <3>2. \A x : QueueSettled(r, x) <=> QueueSettled(s, x)
      BY <1>1 DEF QueueSettled
    <3>3. q.turn \in {s.openTurn, s.finalization} => q.turn \in {r.openTurn, r.finalization}
      BY <1>1, <3>1 DEF NoTurn
    <3> QED BY <1>1, <2>2, <3>1, <3>2, <3>3 DEF Ledger, Aimed, NoTurn
  <2>3. ASSUME OfSegments(q)
        PROVE  /\ q.target # New => s.openTurn \in {NoTurn, q.target}
               /\ q.target = New => s.openTurn = NoTurn \/ (q.turn = q.first /\ q.first \in Ids(q.segments))
               /\ s.finalization # NoTurn => q.target # New /\ q.target <= s.finalization
    BY <1>1, <2>3 DEF Ledger, Aimed
  <2> HIDE DEF q
  <2> QED BY <1>1, <2>2, <2>3 DEF Aimed, q
<1>11. Deferred(s, b)
  <2> SUFFICES ASSUME s.finalization # NoTurn
               PROVE  /\ s.openTurn <= s.finalization /\ s.finalization < s.nextTurn
                      /\ s.finalization \in DOMAIN s.turns
                           \/ (QueueSettled(s, s.finalization) /\ Beyond(b, s.finalization))
    BY DEF Deferred
  <2>1. /\ s.finalization = r.finalization /\ r.finalization \in Nat
        /\ r.finalization < r.nextTurn
        /\ r.finalization \in DOMAIN r.turns
             \/ (QueueSettled(r, r.finalization) /\ Beyond(b, r.finalization))
    BY <1>1, TurnsAre DEF Ledger, Deferred
  <2>2. \A x : QueueSettled(r, x) <=> QueueSettled(s, x)
    BY <1>1 DEF QueueSettled
  <2>3. r.finalization \in DOMAIN r.turns => r.finalization \in DOMAIN s.turns \/ r.finalization <= t
    BY <1>1
  <2>4. ASSUME r.finalization \in DOMAIN r.turns, r.finalization <= t
        PROVE  QueueSettled(r, r.finalization) /\ Beyond(b, r.finalization)
    <3>1. CASE r.finalization = t
      BY <2>1, <3>1
    <3>2. ~(r.finalization < t)
      BY <2>1
    <3> QED BY <2>1, <2>4, <3>1, <3>2
  <2> QED BY <1>1, <2>1, <2>2, <2>3, <2>4 DEF NoTurn
<1>12. CheckEnds(s, b)
  BY <1>1 DEF Ledger, CheckEnds
<1>13. Rested(s, b)
  BY <1>1 DEF Rested
<1>14. CoveredAbove(s, NoTurn)
  <2> SUFFICES ASSUME NEW u \in DOMAIN s.turns
               PROVE  u <= s.finalization \/ (OfTurn(s.inFlight) /\ u <= s.inFlight.turn)
    BY DEF CoveredAbove
  <2>1. u \in DOMAIN r.turns /\ ~(u <= t) /\ u \in Nat
    BY <1>1, TurnsAre
  <2>2. u <= r.openTurn \/ u <= r.finalization \/ (OfTurn(q) /\ u <= q.turn)
    BY <2>1 DEF CoveredAbove
  <2>3. ~(u <= r.openTurn)
    BY <2>1, TurnsAre
  <2>4. u <= r.finalization => u <= s.finalization
    BY <2>1, TurnsAre, <1>1
  <2> QED BY <1>1, <2>2, <2>3, <2>4
<1> QED BY <1>3, <1>4, <1>5, <1>8, <1>9, <1>10, <1>11, <1>12, <1>13, <1>14 DEF Owed, Ledger

-----------------------------------------------------------------------------
(* Steps that leave the turns, the queue and the finalization alone. *)

Alike(r, s) ==
  /\ s.segments = r.segments /\ s.newTurns = r.newTurns /\ s.nextTurn = r.nextTurn
  /\ s.confirmed = r.confirmed /\ s.openTurn = r.openTurn /\ s.finalization = r.finalization
  /\ s.turnCheck \in {r.turnCheck, NoCheck} /\ s.inFlight \in {r.inFlight, NoRequest}
  /\ DOMAIN s.turns = DOMAIN r.turns
  /\ \A t \in DOMAIN r.turns :
       /\ s.turns[t].audio = r.turns[t].audio /\ s.turns[t].latest = r.turns[t].latest
       /\ s.turns[t].to = r.turns[t].to

SameTimer(r, s) ==
  s.epoch = r.epoch /\ s.openEpoch = r.openEpoch /\ s.openSince = r.openSince

LEMMA NothingAsked == ~OfSegments(NoRequest) /\ ~OfTurn(NoRequest)
  BY DEF OfSegments, OfTurn, NoRequest

LEMMA AlikeLedger ==
  ASSUME NEW r, NEW s, NEW b, Ledger(r, b), Alike(r, s), Rested(s, b)
  PROVE  Ledger(s, b)
<1>1. Numbered(s, b)
  BY NothingAsked DEF Ledger, Numbered, Alike
<1>2. Lined(s, b)
  BY DEF Ledger, Lined, Alike
<1>3. DraftsBefore(s, b)
  BY NothingAsked DEF Ledger, DraftsBefore, EndsBefore, Alike
<1>4. ConfirmedBefore(s, b)
  BY DEF Ledger, ConfirmedBefore, InDraft, Alike
<1>5. Ordered(s)
  BY DEF Ledger, Ordered, Alike
<1>6. Aimed(s, b)
  <2>1. \A t : QueueSettled(r, t) => QueueSettled(s, t)
    BY DEF QueueSettled, Alike
  <2>2. CASE s.inFlight = NoRequest
    BY <2>2, NothingAsked DEF Aimed
  <2>3. CASE s.inFlight = r.inFlight
    BY <2>1, <2>3 DEF Ledger, Aimed, Alike
  <2> QED BY <2>2, <2>3 DEF Alike
<1>7. Deferred(s, b)
  BY DEF Ledger, Deferred, QueueSettled, Alike
<1>8. CheckEnds(s, b)
  BY DEF Ledger, CheckEnds, Alike
<1> QED BY <1>1, <1>2, <1>3, <1>4, <1>5, <1>6, <1>7, <1>8 DEF Ledger

LEMMA AlikeCovered ==
  ASSUME NEW r, NEW s, NEW t, CoveredAbove(r, t), Alike(r, s),
         s.inFlight = r.inFlight \/ ~OfTurn(r.inFlight)
  PROVE  CoveredAbove(s, t)
  BY DEF CoveredAbove, Alike

LEMMA AlikeOwed ==
  ASSUME NEW r, NEW s, NEW b, Owed(r, b), Alike(r, s), SameTimer(r, s),
         s.inFlight = r.inFlight \/ ~OfTurn(r.inFlight)
  PROVE  Owed(s, b)
<1>1. Rested(s, b)
  BY DEF Owed, Ledger, Rested, SameTimer
<1> QED BY <1>1, AlikeLedger, AlikeCovered DEF Owed

-----------------------------------------------------------------------------
(* Steps that only drop the front of the queue. *)

Shorter(r, s) ==
  /\ \E k \in Nat : \A i \in DOMAIN s.segments :
       /\ i \in Nat /\ i + k \in DOMAIN r.segments
       /\ s.segments[i].id = r.segments[i + k].id
       /\ s.segments[i].previous = r.segments[i + k].previous
       /\ s.segments[i].to = r.segments[i + k].to
  /\ s.newTurns = r.newTurns /\ s.nextTurn = r.nextTurn
  /\ s.confirmed = r.confirmed /\ s.openTurn = r.openTurn /\ s.finalization = r.finalization
  /\ s.turnCheck = r.turnCheck /\ s.inFlight = r.inFlight /\ s.turns = r.turns
  /\ SameTimer(r, s)

LEMMA ShorterOwed ==
  ASSUME NEW r, NEW s, NEW b, Owed(r, b), Shorter(r, s)
  PROVE  Owed(s, b)
<1>1. PICK k \in Nat : \A i \in DOMAIN s.segments :
        /\ i \in Nat /\ i + k \in DOMAIN r.segments
        /\ s.segments[i].id = r.segments[i + k].id
        /\ s.segments[i].previous = r.segments[i + k].previous
        /\ s.segments[i].to = r.segments[i + k].to
  BY DEF Shorter
<1>2. /\ s.newTurns = r.newTurns /\ s.nextTurn = r.nextTurn
      /\ s.confirmed = r.confirmed /\ s.openTurn = r.openTurn /\ s.finalization = r.finalization
      /\ s.turnCheck = r.turnCheck /\ s.inFlight = r.inFlight /\ s.turns = r.turns
      /\ s.epoch = r.epoch /\ s.openEpoch = r.openEpoch /\ s.openSince = r.openSince
  BY DEF Shorter, SameTimer
<1>3. \A i, j \in DOMAIN s.segments : i < j => i + k < j + k
  BY <1>1
<1>4. \A t : QueueSettled(r, t) => QueueSettled(s, t)
  BY <1>1 DEF QueueSettled, SegmentTurn
<1>5. Numbered(s, b)
  BY <1>1, <1>2 DEF Owed, Ledger, Numbered
<1>6. Lined(s, b)
  BY <1>1, <1>2, <1>3 DEF Owed, Ledger, Lined
<1>7. \A n, to : EndsBefore(n, to, r, b) => EndsBefore(n, to, s, b)
  BY <1>1 DEF EndsBefore
<1>8. DraftsBefore(s, b)
  BY <1>2, <1>7 DEF Owed, Ledger, DraftsBefore
<1>9. ConfirmedBefore(s, b)
  BY <1>1, <1>2 DEF Owed, Ledger, ConfirmedBefore, InDraft
<1>10. Ordered(s) /\ CoveredAbove(s, NoTurn)
  BY <1>2 DEF Owed, Ledger, Ordered, CoveredAbove
<1>11. Aimed(s, b)
  BY <1>2, <1>4 DEF Owed, Ledger, Aimed
<1>12. Deferred(s, b)
  BY <1>2, <1>4 DEF Owed, Ledger, Deferred
<1>13. CheckEnds(s, b)
  BY <1>1, <1>2 DEF Owed, Ledger, CheckEnds
<1>14. Rested(s, b)
  BY <1>2 DEF Owed, Ledger, Rested
<1> QED BY <1>5, <1>6, <1>8, <1>9, <1>10, <1>11, <1>12, <1>13, <1>14 DEF Owed, Ledger

-----------------------------------------------------------------------------
(* Submitting a request. *)

Asked(r, q, b) ==
  /\ OfSegments(q) =>
       /\ q.last \in Ids(q.segments)
       /\ \A x \in Ids(q.segments) :
            /\ r.nextTurn <= x /\ x <= q.last /\ q.first <= x
            /\ \A n \in DOMAIN r.newTurns : n < x
       /\ \A t \in DOMAIN r.turns :
            /\ r.turns[t].to <= q.to
            /\ r.turns[t].to = q.to => q.first = r.turns[t].latest
       /\ EndsBefore(q.last, q.to, r, b)
       /\ q.target # New => r.openTurn \in {NoTurn, q.target}
       /\ q.target = New => r.openTurn = NoTurn \/ (q.turn = q.first /\ q.first \in Ids(q.segments))
       /\ r.finalization # NoTurn => q.target # New /\ q.target <= r.finalization
  /\ OfTurn(q) =>
       /\ r.openTurn <= q.turn
       /\ r.finalization # NoTurn => q.turn <= r.finalization
       /\ q.revision = 0
       /\ q.turn \in DOMAIN r.turns => q.to = r.turns[q.turn].to
       /\ q.turn \in {r.openTurn, r.finalization} =>
            /\ Beyond(b, q.turn)
            /\ q.purpose = "GrammarAfterCompletion" => QueueSettled(r, q.turn)

LEMMA SubmitIs ==
  ASSUME NEW r, NEW q, DOMAIN r = Fields, r.up
  PROVE  LET s == Submit(r, q)
         IN  /\ s.inFlight = q /\ s.segments = r.segments
             /\ s.newTurns = r.newTurns /\ s.nextTurn = r.nextTurn
             /\ s.confirmed = r.confirmed /\ s.openTurn = r.openTurn
             /\ s.finalization = r.finalization /\ s.turnCheck = r.turnCheck
             /\ s.turns = r.turns /\ SameTimer(r, s)
  BY DEF Submit, Fields, SameTimer

LEMMA SubmitOwed ==
  ASSUME NEW r, NEW q, NEW b, NEW t, Good(r, b), r.up, Ledger(r, b), Asked(r, q, b),
         CoveredAbove(r, t), ~OfTurn(r.inFlight), t = NoTurn \/ (OfTurn(q) /\ q.turn = t)
  PROVE  Owed(Submit(r, q), b)
<1>1. PICK s : s = Submit(r, q)
  OBVIOUS
<1>2. /\ s.inFlight = q /\ s.segments = r.segments
      /\ s.newTurns = r.newTurns /\ s.nextTurn = r.nextTurn
      /\ s.confirmed = r.confirmed /\ s.openTurn = r.openTurn
      /\ s.finalization = r.finalization /\ s.turnCheck = r.turnCheck
      /\ s.turns = r.turns /\ SameTimer(r, s)
  BY <1>1, SubmitIs DEF Good, Consistent
<1>3. Numbered(s, b)
  BY <1>2 DEF Ledger, Numbered, Asked
<1>4. Lined(s, b)
  BY <1>2 DEF Ledger, Lined
<1>5. DraftsBefore(s, b)
  BY <1>2 DEF Ledger, DraftsBefore, EndsBefore, Asked
<1>6. ConfirmedBefore(s, b)
  BY <1>2 DEF Ledger, ConfirmedBefore, InDraft
<1>7. Ordered(s)
  BY <1>2 DEF Ledger, Ordered
<1>8. Aimed(s, b)
  <2>1. \A u : QueueSettled(r, u) => QueueSettled(s, u)
    BY <1>2 DEF QueueSettled
  <2> QED BY <1>2, <2>1 DEF Aimed, Asked
<1>9. Deferred(s, b)
  BY <1>2 DEF Ledger, Deferred, QueueSettled
<1>10. CheckEnds(s, b)
  BY <1>2 DEF Ledger, CheckEnds
<1>11. Rested(s, b)
  BY <1>2 DEF Ledger, Rested, SameTimer
<1>12. CoveredAbove(s, NoTurn)
  <2> SUFFICES ASSUME NEW u \in DOMAIN s.turns
               PROVE  \/ u <= NoTurn \/ u <= s.openTurn \/ u <= s.finalization
                      \/ OfTurn(s.inFlight) /\ u <= s.inFlight.turn
    BY DEF CoveredAbove
  <2>1. u <= t \/ u <= r.openTurn \/ u <= r.finalization
    BY <1>2 DEF CoveredAbove
  <2> QED BY <1>2, <2>1
<1> QED BY <1>1, <1>3, <1>4, <1>5, <1>6, <1>7, <1>8, <1>9, <1>10, <1>11, <1>12 DEF Owed, Ledger

-----------------------------------------------------------------------------
(* What becomes of a turn whose result is applied. *)

\* Nothing is in flight, and what happens next to turn t covers it.
Resolving(r, t, b) ==
  /\ r.inFlight = NoRequest /\ Ledger(r, b) /\ CoveredAbove(r, t)
  /\ t \in DOMAIN r.turns /\ r.openTurn <= t
  /\ r.finalization # NoTurn => t <= r.finalization
  /\ t \in {r.openTurn, r.finalization} => Beyond(b, t)

LEMMA RequestIs ==
  ASSUME NEW r, NEW b, Good(r, b)
  PROVE  /\ r.inFlight \in Request \union {NoRequest}
         /\ OfSegments(r.inFlight) \/ OfTurn(r.inFlight) => r.inFlight \in Request
         /\ OfTurn(r.inFlight) => /\ r.inFlight.turn \in Nat /\ r.inFlight.turn >= 1
                                  /\ r.inFlight.turn < r.nextTurn
                                  /\ r.inFlight.target = r.inFlight.turn
                                  /\ r.inFlight.turn \in Known(r)
         /\ OfSegments(r.inFlight) => /\ r.inFlight.turn \in Nat /\ r.inFlight.target \in Nat
                                      /\ r.inFlight.to \in Int /\ r.inFlight.first \in Nat
                                      /\ r.inFlight.segments \in Seq(Turn)
<1> DEFINE q == r.inFlight
<1>1. q \in Request \union {NoRequest}
  BY DEF Good, Sound, Typed
<1>2. OfSegments(q) \/ OfTurn(q) => q \in Request
  BY <1>1, NothingAsked
<1>3. ASSUME OfTurn(q)
      PROVE  q.turn \in Nat /\ q.turn >= 1 /\ q.turn < r.nextTurn /\ q.target = q.turn
             /\ q.turn \in Known(r)
  <2>1. q.turn \in Known(r) /\ q.target = q.turn
    BY <1>3 DEF Good, Consistent, KnownTarget, OfTurn
  <2>2. q.turn \in 1..(r.nextTurn - 1) /\ r.nextTurn \in Nat
    BY <2>1 DEF Good, Consistent
  <2> QED BY <2>1, <2>2
<1>4. ASSUME OfSegments(q)
      PROVE  q.turn \in Nat /\ q.target \in Nat /\ q.to \in Int /\ q.first \in Nat
             /\ q.segments \in Seq(Turn)
  <2>1. q \in Request
    BY <1>2, <1>4
  <2> QED BY <2>1 DEF Request, Turn
<1> QED BY <1>1, <1>2, <1>3, <1>4

LEMMA DeferOwed ==
  ASSUME NEW r, NEW b, NEW t \in DOMAIN r.turns, Good(r, b), Ledger(r, b), CoveredAbove(r, t),
         r.openTurn <= t,
         r.inFlight = NoRequest \/ (t = r.openTurn /\ FinalizationIsBlocked(r, t))
  PROVE  Owed([r EXCEPT !.finalization = IF @ # NoTurn /\ @ >= t THEN @ ELSE t], b)
<1> DEFINE q == r.inFlight
<1>1. PICK n : n = IF r.finalization # NoTurn /\ r.finalization >= t THEN r.finalization ELSE t
  OBVIOUS
<1>2. PICK s : s = [r EXCEPT !.finalization = n]
  OBVIOUS
<1>3. /\ s.segments = r.segments /\ s.newTurns = r.newTurns /\ s.nextTurn = r.nextTurn
      /\ s.confirmed = r.confirmed /\ s.openTurn = r.openTurn /\ s.finalization = n
      /\ s.turnCheck = r.turnCheck /\ s.inFlight = r.inFlight /\ s.turns = r.turns
      /\ SameTimer(r, s)
  BY <1>2 DEF Good, Consistent, Fields, SameTimer
<1>4. /\ t \in Nat /\ t >= 1 /\ t < r.nextTurn /\ r.nextTurn \in Nat
      /\ r.finalization \in Nat /\ r.openTurn \in Nat
      /\ \A u \in DOMAIN r.turns : u \in Nat
  BY TurnsAre
<1>5. n \in Nat /\ n >= t /\ n >= r.finalization /\ n \in {r.finalization, t} /\ n # NoTurn
      /\ (r.finalization = NoTurn => n = t)
  BY <1>1, <1>4 DEF NoTurn
<1>6. Numbered(s, b) /\ Lined(s, b) /\ DraftsBefore(s, b)
  BY <1>3 DEF Ledger, Numbered, Lined, DraftsBefore, EndsBefore
<1>7. ConfirmedBefore(s, b)
  BY <1>3 DEF Ledger, ConfirmedBefore, InDraft
<1>8. Ordered(s)
  <2>1. \A u \in DOMAIN r.turns : r.finalization >= u => n >= u
    BY <1>4, <1>5
  <2> QED BY <1>3, <2>1 DEF Ledger, Ordered
<1>9. ASSUME r.finalization = NoTurn, r.inFlight # NoRequest
      PROVE  /\ n = t /\ t = r.openTurn
             /\ (InFlight(r) /\ q.turn <= t)
                \/ (r.nextTurn = t + 1 /\ r.segments[1].id = t + 1 /\ 1 \in DOMAIN r.segments)
  <2>1. (InFlight(r) /\ q.turn <= t) \/ ~QueueSettled(r, t)
    <3>1. \A i \in DOMAIN r.segments : SegmentTurn(r.segments[i]) \in Nat
      BY QueueIs
    <3> QED BY <1>4, <1>9, <3>1 DEF FinalizationIsBlocked, QueueSettled
  <2>2. ~QueueSettled(r, t) =>
          r.nextTurn = t + 1 /\ r.segments[1].id = t + 1 /\ 1 \in DOMAIN r.segments
    <3>1. ~QueueSettled(r, t) => /\ r.nextTurn = t + 1 /\ Len(r.segments) >= 1
                                 /\ r.segments[1].id = t + 1
      BY <1>4, QueueTurns DEF Ledger
    <3> QED BY <3>1, QueueIs
  <2> QED BY <1>5, <1>9, <2>1, <2>2
<1>10. Aimed(s, b)
  <2>1. \A u : QueueSettled(r, u) => QueueSettled(s, u)
    BY <1>3 DEF QueueSettled
  <2>2. CASE r.inFlight = NoRequest
    BY <1>3, <2>2, NothingAsked DEF Aimed
  <2>3. ASSUME r.inFlight # NoRequest, OfSegments(q)
        PROVE  /\ q.target # New => r.openTurn \in {NoTurn, q.target}
               /\ q.target = New => r.openTurn = NoTurn \/ (q.turn = q.first /\ q.first \in Ids(q.segments))
               /\ q.target # New /\ q.target <= n
    <3>1. /\ q.target # New => r.openTurn \in {NoTurn, q.target}
          /\ q.target = New => r.openTurn = NoTurn \/ (q.turn = q.first /\ q.first \in Ids(q.segments))
          /\ r.finalization # NoTurn => q.target # New /\ q.target <= r.finalization
      BY <2>3 DEF Ledger, Aimed
    <3>2. CASE r.finalization # NoTurn
      BY <1>4, <1>5, <2>3, <3>1, <3>2, RequestIs
    <3>3. CASE r.finalization = NoTurn
      <4>1. n = t /\ t = r.openTurn /\ r.openTurn # NoTurn
        BY <1>4, <1>9, <2>3, <3>3 DEF NoTurn
      <4>2. ASSUME q.target = New PROVE FALSE
        <5>1. q.turn = q.first /\ q.first \in Ids(q.segments)
          BY <3>1, <4>1, <4>2
        <5>2. q.first >= r.nextTurn /\ q.first \in Nat
          BY <2>3, <5>1, RequestIs DEF Ledger, Numbered
        <5>3. r.nextTurn = t + 1 /\ r.segments[1].id = t + 1 /\ 1 \in DOMAIN r.segments
          BY <1>4, <1>9, <2>3, <3>3, <5>1, <5>2
        <5>4. q.first < r.segments[1].id
          BY <2>3, <5>1, <5>3 DEF Good, Sound, Spoken, InTurn, OfSegments
        <5> QED BY <1>4, <5>2, <5>3, <5>4
      <4>3. q.target = t
        BY <3>1, <4>1, <4>2
      <4> QED BY <1>4, <3>1, <4>1, <4>2, <4>3
    <3> QED BY <3>2, <3>3
  <2>4. ASSUME r.inFlight # NoRequest, OfTurn(q)
        PROVE  /\ r.openTurn <= q.turn
               /\ q.turn <= n
               /\ q.revision = 0
               /\ q.turn \in DOMAIN r.turns => q.to = r.turns[q.turn].to
               /\ q.turn \in {r.openTurn, n} =>
                    /\ Beyond(b, q.turn)
                    /\ q.purpose = "GrammarAfterCompletion" => QueueSettled(r, q.turn)
    <3>1. /\ r.openTurn <= q.turn
          /\ r.finalization # NoTurn => q.turn <= r.finalization
          /\ q.revision = 0
          /\ q.turn \in DOMAIN r.turns => q.to = r.turns[q.turn].to
          /\ q.turn \in {r.openTurn, r.finalization} =>
               /\ Beyond(b, q.turn)
               /\ q.purpose = "GrammarAfterCompletion" => QueueSettled(r, q.turn)
      BY <2>4 DEF Ledger, Aimed
    <3>2. q.turn \in Nat /\ q.turn < r.nextTurn
      BY <2>4, RequestIs
    <3>3. q.turn <= n
      BY <1>4, <1>5, <1>9, <2>4, <3>1, <3>2
    <3>4. n \in {r.openTurn, r.finalization}
      BY <1>5, <2>4
    <3> QED BY <3>1, <3>3, <3>4
  <2> HIDE DEF q
  <2> QED BY <1>3, <2>1, <2>2, <2>3, <2>4 DEF Aimed, q
<1>11. Deferred(s, b)
  <2>1. r.openTurn <= n /\ n < r.nextTurn
    BY <1>4, <1>5 DEF Ledger, Deferred, NoTurn
  <2>2. CASE n = t
    BY <1>3, <2>1, <2>2 DEF Deferred
  <2>3. CASE n = r.finalization
    BY <1>3, <1>5, <2>1, <2>3 DEF Ledger, Deferred, QueueSettled
  <2> QED BY <1>5, <2>2, <2>3
<1>12. CheckEnds(s, b) /\ Rested(s, b)
  BY <1>3 DEF Ledger, CheckEnds, Rested, SameTimer
<1>13. CoveredAbove(s, NoTurn)
  <2> SUFFICES ASSUME NEW u \in DOMAIN s.turns
               PROVE  \/ u <= s.openTurn \/ u <= s.finalization
                      \/ OfTurn(s.inFlight) /\ u <= s.inFlight.turn
    BY DEF CoveredAbove
  <2>1. u \in Nat /\ (u <= t \/ u <= r.openTurn \/ u <= r.finalization
                      \/ (OfTurn(q) /\ u <= q.turn))
    BY <1>3, <1>4 DEF CoveredAbove
  <2> QED BY <1>3, <1>4, <1>5, <2>1
<1> QED BY <1>1, <1>2, <1>6, <1>7, <1>8, <1>10, <1>11, <1>12, <1>13 DEF Owed, Ledger

LEMMA NotBlockedSettled ==
  ASSUME NEW r, NEW b, NEW t \in Nat, Good(r, b), ~FinalizationIsBlocked(r, t)
  PROVE  QueueSettled(r, t)
<1>1. \A i \in DOMAIN r.segments : SegmentTurn(r.segments[i]) \in Nat
  BY QueueIs
<1> QED BY <1>1 DEF FinalizationIsBlocked, QueueSettled

LEMMA FinalizeNowOwed ==
  ASSUME NEW r, NEW b, NEW t, Good(r, b), Resolving(r, t, b),
         t = r.finalization => QueueSettled(r, t)
  PROVE  Owed(FinalizeTurnNow(r, t), b)
<1>1. t \in Nat /\ r.finalization \in Nat
  BY TurnsAre DEF Resolving
<1>2. PICK s : s = FinalizeTurnNow(r, t)
  OBVIOUS
<1>3. Finalized(r, s, t) /\ s.finalization = r.finalization
  BY <1>1, <1>2, FinalizeIs
<1> QED BY <1>1, <1>2, <1>3, FinalizeOwed DEF Resolving

LEMMA CompleteOwed ==
  ASSUME NEW r, NEW b, NEW t, Good(r, b), Resolving(r, t, b)
  PROVE  Owed(CompleteTurn(r, t), b)
<1>1. t \in Nat
  BY TurnsAre DEF Resolving
<1>2. CASE FinalizationIsBlocked(r, t)
  BY <1>2, DeferOwed DEF CompleteTurn, Resolving
<1>3. CASE ~FinalizationIsBlocked(r, t)
  BY <1>1, <1>3, NotBlockedSettled, FinalizeNowOwed DEF CompleteTurn
<1> QED BY <1>2, <1>3

\* The timeout and the end of a drain, also with a request in flight.
LEMMA CompleteOpenOwed ==
  ASSUME NEW r, NEW b, Good(r, b), Owed(r, b), r.openTurn # NoTurn,
         r.finalization # NoTurn => FinalizationIsBlocked(r, r.finalization)
  PROVE  Owed(CompleteTurn(r, r.openTurn), b)
<1>1. PICK t : t = r.openTurn
  OBVIOUS
<1>2. t \in Nat /\ t \in DOMAIN r.turns /\ r.finalization \in Nat /\ t # NoTurn
  BY <1>1, TurnsAre
<1>3. CoveredAbove(r, t)
  <2>1. \A u \in DOMAIN r.turns : u \in Nat /\ (u <= NoTurn => u <= t)
    BY <1>2, TurnsAre DEF NoTurn
  <2> QED BY <2>1 DEF Owed, CoveredAbove
<1>4. CASE FinalizationIsBlocked(r, t)
  BY <1>1, <1>2, <1>3, <1>4, DeferOwed DEF CompleteTurn, Owed
<1>5. CASE ~FinalizationIsBlocked(r, t)
  <2>1. PICK s : s = FinalizeTurnNow(r, t)
    OBVIOUS
  <2>2. Finalized(r, s, t) /\ s.finalization = r.finalization
    BY <1>2, <2>1, FinalizeIs
  <2>3. r.finalization # t
    BY <1>2, <1>5
  <2>4. r.finalization # NoTurn => t <= r.finalization
    BY <1>1 DEF Owed, Ledger, Deferred
  <2>5. Owed(s, b)
    BY <1>1, <1>2, <1>3, <2>2, <2>3, <2>4, FinalizeOwed DEF Owed
  <2> QED BY <1>1, <1>5, <2>1, <2>5 DEF CompleteTurn
<1> QED BY <1>4, <1>5

LEMMA EmitInterimAlike ==
  ASSUME NEW r, NEW t, Consistent(r), \A u \in DOMAIN r.turns : r.turns[u] \in TurnDraft
  PROVE  /\ Alike(r, EmitInterim(r, t)) /\ SameTimer(r, EmitInterim(r, t))
         /\ EmitInterim(r, t).inFlight = r.inFlight
<1>1. CASE t \notin DOMAIN r.turns \/ r.turns[t].emitted = "current"
  BY <1>1 DEF EmitInterim, Alike, SameTimer
<1>2. CASE t \in DOMAIN r.turns /\ r.turns[t].emitted # "current"
  <2> PICK out : out = r.out \union {Output(r.nextSeq, t, FALSE, r.turns[t])}
    OBVIOUS
  <2> PICK seq : seq = r.nextSeq + 1
    OBVIOUS
  <2> PICK s : s = EmitInterim(r, t)
    OBVIOUS
  <2>1. s = [r EXCEPT !.out = out, !.nextSeq = seq, !.turns[t].emitted = "current"]
    BY <1>2 DEF EmitInterim
  <2>2. /\ s.segments = r.segments /\ s.newTurns = r.newTurns /\ s.nextTurn = r.nextTurn
        /\ s.confirmed = r.confirmed /\ s.openTurn = r.openTurn /\ s.finalization = r.finalization
        /\ s.turnCheck = r.turnCheck /\ s.inFlight = r.inFlight
        /\ s.epoch = r.epoch /\ s.openEpoch = r.openEpoch /\ s.openSince = r.openSince
        /\ s.turns = [r.turns EXCEPT ![t].emitted = "current"]
    BY <2>1 DEF Consistent, Fields
  <2>3. \A u \in DOMAIN r.turns :
          /\ s.turns[u].audio = r.turns[u].audio /\ s.turns[u].latest = r.turns[u].latest
          /\ s.turns[u].to = r.turns[u].to
    <3> SUFFICES ASSUME NEW u \in DOMAIN r.turns
                 PROVE  /\ s.turns[u].audio = r.turns[u].audio
                        /\ s.turns[u].latest = r.turns[u].latest
                        /\ s.turns[u].to = r.turns[u].to
      OBVIOUS
    <3>1. CASE u # t
      BY <2>2, <3>1
    <3>2. CASE u = t
      <4>1. s.turns[u] = [r.turns[u] EXCEPT !.emitted = "current"]
        BY <2>2, <3>2
      <4> QED BY <4>1 DEF TurnDraft
    <3> QED BY <3>1, <3>2
  <2>4. DOMAIN s.turns = DOMAIN r.turns
    BY <2>2
  <2>5. Alike(r, s) /\ SameTimer(r, s) /\ s.inFlight = r.inFlight
    BY <2>2, <2>3, <2>4 DEF Alike, SameTimer
  <2> QED BY <2>5
<1> QED BY <1>1, <1>2

\* A turn that stays open, or is opened.
LEMMA OpenedOwed ==
  ASSUME NEW r, NEW s, NEW b, NEW t, Good(r, b), Resolving(r, t, b), Rested(s, b),
         s.openTurn = t, s.segments = r.segments, s.newTurns = r.newTurns,
         s.nextTurn = r.nextTurn, s.confirmed = r.confirmed, s.finalization = r.finalization,
         s.turnCheck = r.turnCheck, s.inFlight = r.inFlight, s.turns = r.turns
  PROVE  Owed(s, b)
<1>1. Numbered(s, b) /\ Lined(s, b) /\ DraftsBefore(s, b)
  BY DEF Resolving, Ledger, Numbered, Lined, DraftsBefore, EndsBefore
<1>2. ConfirmedBefore(s, b)
  BY DEF Resolving, Ledger, ConfirmedBefore, InDraft
<1>3. Ordered(s)
  BY DEF Resolving, Ledger, Ordered
<1>4. Aimed(s, b)
  BY NothingAsked DEF Resolving, Aimed
<1>5. Deferred(s, b)
  BY DEF Resolving, Ledger, Deferred, QueueSettled
<1>6. CheckEnds(s, b)
  BY DEF Resolving, Ledger, CheckEnds
<1>7. CoveredAbove(s, NoTurn)
  <2> SUFFICES ASSUME NEW u \in DOMAIN s.turns PROVE u <= s.openTurn \/ u <= s.finalization
    BY DEF CoveredAbove
  <2>1. u \in Nat /\ t \in Nat /\ r.openTurn \in Nat /\ r.openTurn <= t
    BY TurnsAre DEF Resolving
  <2>2. u <= t \/ u <= r.openTurn \/ u <= r.finalization
    BY NothingAsked DEF Resolving, CoveredAbove
  <2> QED BY <2>1, <2>2
<1> QED BY <1>1, <1>2, <1>3, <1>4, <1>5, <1>6, <1>7 DEF Owed, Ledger

\* The timeout has just begun.
LEMMA JustRested ==
  ASSUME NEW s, NEW b, PlaceOK(b), s.openSince = b.tick
  PROVE  Rested(s, b)
<1>1. b.tick \in Nat /\ b.pause \in Nat
  BY DEF PlaceOK
<1> QED BY <1>1 DEF Rested

LEMMA KeepOpenOwed ==
  ASSUME NEW r, NEW b, NEW t, NEW interim, Good(r, b), Resolving(r, t, b)
  PROVE  Owed(KeepTurnOpen(r, t, b.tick, interim), b)
<1>1. PICK s : s = [r EXCEPT !.openTurn = t, !.acceptsRoot = TRUE,
                             !.openEpoch = r.epoch, !.openSince = b.tick]
  OBVIOUS
<1>2. /\ s.openTurn = t /\ s.segments = r.segments /\ s.newTurns = r.newTurns
      /\ s.nextTurn = r.nextTurn /\ s.confirmed = r.confirmed
      /\ s.finalization = r.finalization /\ s.turnCheck = r.turnCheck
      /\ s.inFlight = r.inFlight /\ s.turns = r.turns /\ s.openSince = b.tick
  BY <1>1 DEF Good, Consistent, Fields
<1>3. s = ResetTimeoutOrigin([r EXCEPT !.openTurn = t, !.acceptsRoot = TRUE], b.tick)
  BY <1>1 DEF ResetTimeoutOrigin, Good, Consistent, Fields
<1>4. Rested(s, b)
  BY <1>2, JustRested DEF Good
<1>5. Owed(s, b)
  BY <1>2, <1>4, OpenedOwed
<1>6. Consistent(s) /\ \A u \in DOMAIN s.turns : s.turns[u] \in TurnDraft
  <2>1. PICK z : z = [r EXCEPT !.openTurn = t, !.acceptsRoot = TRUE]
    OBVIOUS
  <2>2. Consistent(z)
    BY <2>1, OpenQuiet, QuietKeeps DEF Good, Resolving
  <2>3. Consistent(s)
    BY <1>3, <2>1, <2>2, OriginQuiet, QuietKeeps
  <2> QED BY <1>2, <2>3 DEF Good, Sound, Typed
<1>7. Owed(EmitInterim(s, t), b)
  BY <1>5, <1>6, EmitInterimAlike, AlikeOwed
<1>8. KeepTurnOpen(r, t, b.tick, interim) = IF interim THEN EmitInterim(s, t) ELSE s
  BY <1>3 DEF KeepTurnOpen
<1> QED BY <1>5, <1>7, <1>8

LEMMA RerecognizeOwed ==
  ASSUME NEW r, NEW b, NEW t, NEW purpose, Good(r, b), Resolving(r, t, b), r.up,
         purpose = "GrammarAfterCompletion" /\ t \in {r.openTurn, r.finalization}
           => QueueSettled(r, t)
  PROVE  Owed(Rerecognize(r, t, purpose), b)
<1>1. PICK q : q = [kind |-> "Rerecognition", turn |-> t, target |-> t,
             revision |-> Revision(r, t),
             from |-> r.turns[t].from, to |-> r.turns[t].to,
             first |-> r.turns[t].first, last |-> r.turns[t].latest,
             segments |-> r.turns[t].audio, purpose |-> purpose]
  OBVIOUS
<1>2. Rerecognize(r, t, purpose) = Submit(r, q)
  BY <1>1 DEF Rerecognize
<1>3. /\ q.kind = "Rerecognition" /\ q.turn = t /\ q.revision = Revision(r, t)
      /\ q.to = r.turns[t].to /\ q.purpose = purpose
  BY <1>1
<1>4. OfTurn(q) /\ ~OfSegments(q)
  BY <1>3 DEF OfTurn, OfSegments
<1>5. t \notin r.finalized
  <2>1. t \in DOMAIN r.turns /\ t \in Nat
    BY TurnsAre DEF Resolving
  <2> QED BY <2>1 DEF Good, Consistent
<1>6. q.revision = 0
  BY <1>3, <1>5 DEF Revision
<1>7. Asked(r, q, b)
  BY <1>3, <1>4, <1>6 DEF Asked, Resolving
<1>8. Ledger(r, b) /\ CoveredAbove(r, t) /\ ~OfTurn(r.inFlight)
  BY NothingAsked DEF Resolving
<1> QED BY <1>2, <1>3, <1>4, <1>7, <1>8, SubmitOwed

\* complete_turn, or a whole-turn request before it.
LEMMA FollowUpOwed ==
  ASSUME NEW r, NEW b, NEW t, NEW purpose, NEW decision, NEW interim, Good(r, b),
         Resolving(r, t, b),
         purpose = "GrammarAfterCompletion" /\ t \in {r.openTurn, r.finalization}
           => QueueSettled(r, t)
  PROVE  Owed(FollowUp(r, t, purpose, decision, b.tick, interim), b)
<1>1. t \in DOMAIN r.turns
  BY DEF Resolving
<1>2. CASE purpose # "GrammarAfterCompletion"
  BY <1>2, CompleteOwed DEF FollowUp
<1>3. CASE purpose = "GrammarAfterCompletion"
  <2>1. Owed(FinalizeTurnNow(r, t), b)
    BY <1>3, FinalizeNowOwed
  <2> QED BY <1>1, <1>3, <2>1, CompleteOwed, KeepOpenOwed DEF FollowUp
<1> QED BY <1>2, <1>3

LEMMA FallbackOwed ==
  ASSUME NEW r, NEW b, NEW t, NEW decision, NEW interim, Good(r, b), Resolving(r, t, b)
  PROVE  Owed(FallbackCompletion(r, t, decision, b.tick, interim), b)
  BY CompleteOwed, KeepOpenOwed DEF FallbackCompletion

-----------------------------------------------------------------------------
(* The text of a segment. *)

LEMMA JoinIds ==
  ASSUME NEW a \in Seq(Turn), NEW c \in Seq(Turn)
  PROVE  \A x : x \in Ids(a \o c) <=> (x \in Ids(a) \/ x \in Ids(c))
<1>1. PICK m \in Nat, n \in Nat : m = Len(a) /\ n = Len(c)
  OBVIOUS
<1>2. DOMAIN a = 1..m /\ DOMAIN c = 1..n /\ DOMAIN (a \o c) = 1..(m + n)
  BY <1>1
<1>3. /\ \A i \in 1..m : (a \o c)[i] = a[i]
      /\ \A i \in (m + 1)..(m + n) : (a \o c)[i] = c[i - m]
  BY <1>1
<1>4. ASSUME NEW x, x \in Ids(a \o c) PROVE x \in Ids(a) \/ x \in Ids(c)
  <2>1. PICK i \in 1..(m + n) : x = (a \o c)[i]
    BY <1>2, <1>4 DEF Ids
  <2>2. CASE i \in 1..m
    BY <1>2, <1>3, <2>1, <2>2 DEF Ids
  <2>3. CASE i \notin 1..m
    <3>1. i - m \in 1..n /\ i \in (m + 1)..(m + n)
      BY <2>3
    <3> QED BY <1>2, <1>3, <2>1, <3>1 DEF Ids
  <2> QED BY <2>2, <2>3
<1>5. ASSUME NEW x \in Ids(a) PROVE x \in Ids(a \o c)
  <2>1. PICK i \in 1..m : x = a[i]
    BY <1>2 DEF Ids
  <2>2. i \in 1..(m + n)
    OBVIOUS
  <2> QED BY <1>2, <1>3, <2>1, <2>2 DEF Ids
<1>6. ASSUME NEW x \in Ids(c) PROVE x \in Ids(a \o c)
  <2>1. PICK i \in 1..n : x = c[i]
    BY <1>2 DEF Ids
  <2>2. i + m \in (m + 1)..(m + n) /\ (i + m) - m = i
    OBVIOUS
  <2>3. i + m \in 1..(m + n)
    OBVIOUS
  <2>4. (a \o c)[i + m] = c[i]
    BY <1>3, <2>2
  <2> QED BY <1>2, <2>1, <2>3, <2>4 DEF Ids
<1> QED BY <1>4, <1>5, <1>6

\* Where the draft of a turn ended before it heard a request.
EndBefore(r, t, q) == IF t \in DOMAIN r.turns THEN r.turns[t].to ELSE q.to

LEMMA TranscriptIs ==
  ASSUME NEW r, NEW b, NEW q \in Request, NEW t, NEW s, Good(r, b),
         t = TurnOf(r, q), s = ApplyTranscript(r, q)
  PROVE  /\ s.segments = r.segments /\ s.turnCheck = r.turnCheck /\ s.inFlight = r.inFlight
         /\ s.confirmed = r.confirmed /\ s.openTurn = r.openTurn
         /\ s.finalization = r.finalization /\ SameTimer(r, s)
         /\ UnresolvedNew(r, q) => s.newTurns = Put(r.newTurns, q.first, t)
         /\ ~UnresolvedNew(r, q) => s.newTurns = r.newTurns
         /\ q.target = New => UnresolvedNew(r, q) \/ s.nextTurn = r.nextTurn
         /\ DOMAIN s.turns = DOMAIN r.turns \union {t}
         /\ \A u \in DOMAIN r.turns : u # t => s.turns[u] = r.turns[u]
         /\ s.turns[t].latest = q.last
         /\ \A x : x \in Ids(s.turns[t].audio) <=>
                     \/ t \in DOMAIN r.turns /\ x \in Ids(r.turns[t].audio)
                     \/ x \in Ids(q.segments)
<1> DEFINE draft == Draft(r, t, q)
           next == IF UnresolvedNew(r, q) \/ q.target # New
                   THEN Max({r.nextTurn, t + 1}) ELSE r.nextTurn
           given == IF UnresolvedNew(r, q) THEN Put(r.newTurns, q.first, t) ELSE r.newTurns
           heard == [draft EXCEPT !.audio = @ \o q.segments, !.latest = q.last,
                              !.emitted = IF @ = "never" THEN @ ELSE "stale",
                              !.from = Min({@, q.from}), !.to = Max({@, q.to})]
<1>1. s = [r EXCEPT !.turns = Put(@, t, heard), !.nextTurn = next, !.newTurns = given]
  BY Zenon DEF ApplyTranscript
<1>2. /\ s.segments = r.segments /\ s.turnCheck = r.turnCheck /\ s.inFlight = r.inFlight
      /\ s.confirmed = r.confirmed /\ s.openTurn = r.openTurn
      /\ s.finalization = r.finalization
      /\ s.epoch = r.epoch /\ s.openEpoch = r.openEpoch /\ s.openSince = r.openSince
      /\ s.nextTurn = next /\ s.newTurns = given /\ s.turns = Put(r.turns, t, heard)
  BY <1>1 DEF Good, Consistent, Fields
<1> HIDE DEF next, given
<1>3. q.segments \in Seq(Turn) /\ q.last \in Turn /\ q.to \in Int
  BY DEF Request
<1>4. /\ DOMAIN draft = {"audio", "first", "latest", "revision", "emitted", "from", "to"}
      /\ draft.audio \in Seq(Turn)
      /\ \A x : x \in Ids(draft.audio) <=> t \in DOMAIN r.turns /\ x \in Ids(r.turns[t].audio)
  <2>1. CASE t \in DOMAIN r.turns
    <3>1. draft = r.turns[t] /\ r.turns[t] \in TurnDraft
      BY <2>1 DEF Draft, Good, Sound, Typed
    <3> HIDE DEF draft
    <3> QED BY <2>1, <3>1 DEF TurnDraft
  <2>2. CASE t \notin DOMAIN r.turns
    <3>1. draft = [audio |-> << >>, first |-> q.last, latest |-> 0, emitted |-> "never",
                   revision |-> Revision(r, t), from |-> q.from, to |-> q.to]
      BY <2>2 DEF Draft
    <3>2. Ids(<< >>) = {}
      BY DEF Ids
    <3> HIDE DEF draft
    <3> QED BY <2>2, <3>1, <3>2
  <2> QED BY <2>1, <2>2
<1> HIDE DEF draft
<1>5. heard.latest = q.last /\ heard.audio = draft.audio \o q.segments
  BY <1>4
<1>6. \A x : x \in Ids(heard.audio) <=> (x \in Ids(draft.audio) \/ x \in Ids(q.segments))
  <2> HIDE DEF heard
  <2> QED BY <1>3, <1>4, <1>5, JoinIds
<1> HIDE DEF heard
<1>7. /\ DOMAIN s.turns = DOMAIN r.turns \union {t}
      /\ s.turns[t] = heard
      /\ \A u \in DOMAIN r.turns : u # t => s.turns[u] = r.turns[u]
  BY <1>2 DEF Put
<1>8. /\ s.turns[t].latest = q.last
      /\ \A x : x \in Ids(s.turns[t].audio) <=>
                  \/ t \in DOMAIN r.turns /\ x \in Ids(r.turns[t].audio)
                  \/ x \in Ids(q.segments)
  BY <1>4, <1>5, <1>6, <1>7
<1> QED BY <1>2, <1>7, <1>8 DEF SameTimer, next, given

LEMMA TranscriptNumber ==
  ASSUME NEW r, NEW b, NEW q \in Request, NEW t, NEW s, Good(r, b),
         t = TurnOf(r, q), s = ApplyTranscript(r, q), UnresolvedNew(r, q) \/ q.target # New
  PROVE  s.nextTurn = Max({r.nextTurn, t + 1})
<1> DEFINE draft == Draft(r, t, q)
           given == IF UnresolvedNew(r, q) THEN Put(r.newTurns, q.first, t) ELSE r.newTurns
           heard == [draft EXCEPT !.audio = @ \o q.segments, !.latest = q.last,
                              !.emitted = IF @ = "never" THEN @ ELSE "stale",
                              !.from = Min({@, q.from}), !.to = Max({@, q.to})]
           next == IF UnresolvedNew(r, q) \/ q.target # New
                   THEN Max({r.nextTurn, t + 1}) ELSE r.nextTurn
<1>1. s = [r EXCEPT !.turns = Put(@, t, heard), !.nextTurn = next, !.newTurns = given]
  BY Zenon DEF ApplyTranscript
<1>2. next = Max({r.nextTurn, t + 1})
  BY Zenon
<1> HIDE DEF next, given, heard
<1> QED BY <1>1, <1>2 DEF Good, Consistent, Fields

LEMMA TranscriptEnd ==
  ASSUME NEW r, NEW b, NEW q \in Request, NEW t, NEW s, Good(r, b),
         t = TurnOf(r, q), s = ApplyTranscript(r, q)
  PROVE  s.turns[t].to = Max({IF t \in DOMAIN r.turns THEN r.turns[t].to ELSE q.to, q.to})
<1> DEFINE draft == Draft(r, t, q)
           given == IF UnresolvedNew(r, q) THEN Put(r.newTurns, q.first, t) ELSE r.newTurns
           heard == [draft EXCEPT !.audio = @ \o q.segments, !.latest = q.last,
                              !.emitted = IF @ = "never" THEN @ ELSE "stale",
                              !.from = Min({@, q.from}), !.to = Max({@, q.to})]
           next == IF UnresolvedNew(r, q) \/ q.target # New
                   THEN Max({r.nextTurn, t + 1}) ELSE r.nextTurn
<1>1. s = [r EXCEPT !.turns = Put(@, t, heard), !.nextTurn = next, !.newTurns = given]
  BY Zenon DEF ApplyTranscript
<1> HIDE DEF next, given
<1>2. /\ DOMAIN draft = {"audio", "first", "latest", "revision", "emitted", "from", "to"}
      /\ draft.to = IF t \in DOMAIN r.turns THEN r.turns[t].to ELSE q.to
  <2>1. CASE t \in DOMAIN r.turns
    <3>1. draft = r.turns[t] /\ r.turns[t] \in TurnDraft
      BY <2>1 DEF Draft, Good, Sound, Typed
    <3> HIDE DEF draft
    <3> QED BY <2>1, <3>1 DEF TurnDraft
  <2>2. CASE t \notin DOMAIN r.turns
    <3>1. draft = [audio |-> << >>, first |-> q.last, latest |-> 0, emitted |-> "never",
                   revision |-> Revision(r, t), from |-> q.from, to |-> q.to]
      BY <2>2 DEF Draft
    <3> HIDE DEF draft
    <3> QED BY <2>2, <3>1
  <2> QED BY <2>1, <2>2
<1> HIDE DEF draft
<1>3. heard.to = Max({draft.to, q.to})
  BY <1>2
<1> HIDE DEF heard
<1>4. s.turns = Put(r.turns, t, heard)
  BY <1>1 DEF Good, Consistent, Fields
<1>5. s.turns[t] = heard
  BY <1>4 DEF Put
<1> QED BY <1>2, <1>3, <1>5

\* r without the request whose result it applies.
Answered(r) == [r EXCEPT !.inFlight = NoRequest, !.runner = "idle"]

LEMMA AnsweredIs ==
  ASSUME NEW r, NEW b, Good(r, b)
  PROVE  /\ Good(Answered(r), b)
         /\ Alike(r, Answered(r)) /\ SameTimer(r, Answered(r))
         /\ Answered(r).inFlight = NoRequest /\ Answered(r).turns = r.turns
         /\ Answered(r).finalized = r.finalized /\ Answered(r).turn = r.turn
         /\ Answered(r).up = r.up /\ Answered(r).turnCheck = r.turnCheck
<1>1. /\ Answered(r).inFlight = NoRequest /\ Answered(r).turns = r.turns
      /\ Answered(r).finalized = r.finalized /\ Answered(r).turn = r.turn
      /\ Answered(r).up = r.up /\ Answered(r).turnCheck = r.turnCheck
  BY DEF Answered, Good, Consistent, Fields
<1>2. Alike(r, Answered(r)) /\ SameTimer(r, Answered(r))
  BY DEF Answered, Good, Consistent, Fields, Alike, SameTimer
<1>3. Consistent(Answered(r))
  BY AnsweredQuiet, QuietKeeps DEF Good, Answered
<1>4. Sound(Answered(r), b)
  BY AnsweredSound DEF Good, Answered
<1> QED BY <1>1, <1>2, <1>3, <1>4 DEF Good

\* A result that is not stale is about a turn that has a draft, or begins one.
LEMMA HeardTurnIs ==
  ASSUME NEW r, NEW b, NEW q, NEW z, NEW t, Good(r, b), Owed(r, b), q = r.inFlight,
         OfSegments(q), z = Answered(r), ~IsStale(z, q), t = TurnOf(z, q)
  PROVE  \/ /\ q.target # New /\ t = q.target /\ t \in DOMAIN r.turns
            /\ ~UnresolvedNew(z, q) /\ EffectiveTurn(z, q) = t
         \/ /\ q.target = New /\ t = r.nextTurn /\ UnresolvedNew(z, q)
            /\ r.finalization = NoTurn
<1>1. /\ z.turns = r.turns /\ z.finalized = r.finalized /\ z.newTurns = r.newTurns
      /\ z.nextTurn = r.nextTurn /\ Consistent(z)
  BY AnsweredIs DEF Alike, Good
<1>2. KnownTarget(r, q) /\ q.kind # "None"
  BY DEF Good, Consistent, OfSegments
<1>3. KnownTarget(z, q)
  BY <1>1, <1>2 DEF KnownTarget, Known
<1>4. \/ t \in DOMAIN z.turns /\ ~UnresolvedNew(z, q)
      \/ t = z.nextTurn /\ UnresolvedNew(z, q)
  BY <1>1, <1>2, <1>3, TurnOfRequest
<1>5. /\ q.target # New => r.openTurn \in {NoTurn, q.target}
      /\ q.target = New => r.openTurn = NoTurn \/ (q.turn = q.first /\ q.first \in Ids(q.segments))
      /\ r.finalization # NoTurn => q.target # New /\ q.target <= r.finalization
  BY DEF Owed, Ledger, Aimed
<1>6. ~Resolved(z, q)
  <2> SUFFICES ASSUME q.target = New, q.first \in DOMAIN r.newTurns PROVE FALSE
    BY <1>1 DEF Resolved
  <2>1. q.first \in Nat
    BY RequestIs
  <2>2. q.first \notin Ids(q.segments)
    BY <2>1 DEF Owed, Ledger, Numbered
  <2>3. r.openTurn = NoTurn /\ r.finalization = NoTurn
    BY <1>5, <2>2
  <2>4. t \in DOMAIN r.turns
    BY <1>1, <1>4 DEF UnresolvedNew, Resolved
  <2>5. ~OfTurn(q)
    BY DEF OfTurn, OfSegments
  <2>6. t <= NoTurn
    BY <2>3, <2>4, <2>5 DEF Owed, CoveredAbove
  <2> QED BY <2>4, <2>6, TurnsAre DEF NoTurn
<1>7. CASE q.target = New
  BY <1>1, <1>4, <1>5, <1>6, <1>7 DEF UnresolvedNew
<1>8. CASE q.target # New
  <2>1. q.target = q.turn
    BY <1>2, <1>8 DEF KnownTarget
  <2>2. t = q.target /\ EffectiveTurn(z, q) = q.turn /\ ~UnresolvedNew(z, q)
    BY <1>6, <1>8 DEF TurnOf, EffectiveTurn, UnresolvedNew
  <2> QED BY <1>1, <1>4, <1>8, <2>1, <2>2
<1> QED BY <1>7, <1>8

LEMMA TranscriptResolving ==
  ASSUME NEW r, NEW b, NEW q, NEW z, NEW t, Good(r, b), Owed(r, b), q = r.inFlight,
         OfSegments(q), z = Answered(r), ~IsStale(z, q), t = TurnOf(z, q)
  PROVE  /\ Resolving(ApplyTranscript(z, q), t, b)
         /\ t \in {ApplyTranscript(z, q).openTurn, ApplyTranscript(z, q).finalization}
              => QueueSettled(ApplyTranscript(z, q), t)
<1> DEFINE X == Ids(q.segments)
<1>1. /\ z.segments = r.segments /\ z.newTurns = r.newTurns /\ z.nextTurn = r.nextTurn
      /\ z.confirmed = r.confirmed /\ z.openTurn = r.openTurn /\ z.finalization = r.finalization
      /\ z.turns = r.turns /\ z.finalized = r.finalized /\ z.inFlight = NoRequest
      /\ z.turnCheck = r.turnCheck
      /\ SameTimer(r, z) /\ Good(z, b)
  BY AnsweredIs DEF Alike
<1>2. q \in Request /\ q.to \in Int /\ q.first \in Nat /\ q.segments \in Seq(Turn)
  BY RequestIs
<1>3. PICK s : s = ApplyTranscript(z, q)
  OBVIOUS
<1>4. /\ s.segments = r.segments /\ s.turnCheck = r.turnCheck /\ s.inFlight = NoRequest
      /\ s.confirmed = r.confirmed /\ s.openTurn = r.openTurn
      /\ s.finalization = r.finalization /\ SameTimer(z, s)
      /\ UnresolvedNew(z, q) => s.newTurns = Put(r.newTurns, q.first, t)
      /\ ~UnresolvedNew(z, q) => s.newTurns = r.newTurns
      /\ DOMAIN s.turns = DOMAIN r.turns \union {t}
      /\ \A u \in DOMAIN r.turns : u # t => s.turns[u] = r.turns[u]
      /\ s.turns[t].latest = q.last
      /\ \A x : x \in Ids(s.turns[t].audio) <=>
                  \/ t \in DOMAIN r.turns /\ x \in Ids(r.turns[t].audio)
                  \/ x \in X
  <2>1. Good(z, b) /\ q \in Request
    BY <1>1, <1>2
  <2>2. /\ s.segments = z.segments /\ s.turnCheck = z.turnCheck /\ s.inFlight = z.inFlight
        /\ s.confirmed = z.confirmed /\ s.openTurn = z.openTurn
        /\ s.finalization = z.finalization /\ SameTimer(z, s)
        /\ UnresolvedNew(z, q) => s.newTurns = Put(z.newTurns, q.first, t)
        /\ ~UnresolvedNew(z, q) => s.newTurns = z.newTurns
        /\ DOMAIN s.turns = DOMAIN z.turns \union {t}
        /\ \A u \in DOMAIN z.turns : u # t => s.turns[u] = z.turns[u]
        /\ s.turns[t].latest = q.last
        /\ \A x : x \in Ids(s.turns[t].audio) <=>
                    \/ t \in DOMAIN z.turns /\ x \in Ids(z.turns[t].audio)
                    \/ x \in X
    BY <1>3, <2>1, TranscriptIs
  <2> QED BY <1>1, <2>2
<1>5. \/ /\ q.target # New /\ t = q.target /\ t \in DOMAIN r.turns /\ ~UnresolvedNew(z, q)
      \/ /\ q.target = New /\ t = r.nextTurn /\ UnresolvedNew(z, q) /\ r.finalization = NoTurn
  BY HeardTurnIs
<1>6. /\ r.nextTurn \in Nat /\ r.finalization \in Nat /\ r.openTurn \in Nat
      /\ r.openTurn < r.nextTurn /\ r.confirmed \in Int
      /\ r.openTurn # NoTurn => r.openTurn \in DOMAIN r.turns
      /\ \A u \in DOMAIN r.turns :
           /\ u \in Nat /\ u >= 1 /\ u < r.nextTurn /\ r.turns[u].to \in Int
           /\ \A a \in Ids(r.turns[u].audio) : a \in Turn
  BY TurnsAre
<1>7. /\ t \in Nat /\ t >= 1 /\ t <= r.nextTurn /\ (t = r.nextTurn <=> q.target = New)
      /\ (t \in DOMAIN r.turns <=> q.target # New)
  BY <1>5, <1>6, TurnsAre
<1>8. \A x \in X :
        /\ x \in Nat /\ r.nextTurn <= x /\ x <= q.last /\ q.first <= x /\ x < b.next
        /\ HeardBefore(r, x)
        /\ \A i \in DOMAIN r.segments : x < r.segments[i].id
        /\ \A n \in DOMAIN r.newTurns : n < x
  <2>1. \A x \in X : x \in Nat
    <3>1. q.segments \in [1..Len(q.segments) -> Turn]
      BY <1>2
    <3> QED BY <3>1 DEF Ids, Turn
  <2>2. \A x \in X : /\ x < b.next /\ HeardBefore(r, x)
                     /\ \A i \in DOMAIN r.segments : x < r.segments[i].id
    BY DEF Good, Sound, Spoken, InTurn, OfSegments
  <2> QED BY <2>1, <2>2 DEF Owed, Ledger, Numbered
<1>9. q.last \in X
  BY DEF Owed, Ledger, Numbered
<1>10. b.next \in Nat /\ q.last \in Nat /\ \A i \in DOMAIN r.segments : r.segments[i].id \in Nat
  BY <1>8, <1>9, QueueIs DEF Good, PlaceOK, Turn
<1>11. /\ \A u \in DOMAIN r.turns :
            /\ r.turns[u].to <= q.to
            /\ r.turns[u].to = q.to => q.first = r.turns[u].latest
       /\ EndsBefore(q.last, q.to, r, b)
  BY DEF Owed, Ledger, DraftsBefore
<1>12. r.confirmed < q.to
  BY <1>1, <1>2, <1>6 DEF IsStale
<1>13. s.turns[t].to = q.to
  <2>3. s.turns[t].to = Max({IF t \in DOMAIN z.turns THEN z.turns[t].to ELSE q.to, q.to})
    BY <1>1, <1>2, <1>3, TranscriptEnd
  <2>1. CASE t \in DOMAIN r.turns
    <3>1. PICK m \in Int, n \in Int : m = r.turns[t].to /\ n = q.to
      BY <1>2, <1>6, <2>1
    <3>2. m <= n
      BY <1>11, <2>1, <3>1
    <3>3. Max({m, n}) = n
      BY <3>1, <3>2, GreaterIsMax
    <3>4. s.turns[t].to = Max({r.turns[t].to, q.to})
      BY <1>1, <2>1, <2>3
    <3> QED BY <3>1, <3>3, <3>4
  <2>2. CASE t \notin DOMAIN r.turns
    <3>1. Max({q.to, q.to}) = q.to
      BY <1>2, GreaterIsMax
    <3>2. s.turns[t].to = Max({q.to, q.to})
      BY <1>1, <2>2, <2>3
    <3> QED BY <3>1, <3>2
  <2> QED BY <2>1, <2>2
<1>14. s.nextTurn = IF q.target = New THEN r.nextTurn + 1 ELSE r.nextTurn
  <2>1. PICK m \in Int, n \in Int : m = r.nextTurn /\ n = t + 1
    BY <1>6, <1>7
  <2>2. Max({m, n}) = IF q.target = New THEN r.nextTurn + 1 ELSE r.nextTurn
    BY <1>5, <1>6, <1>7, <2>1, GreaterIsMax
  <2>3. UnresolvedNew(z, q) \/ q.target # New
    BY <1>5
  <2>4. s.nextTurn = Max({z.nextTurn, t + 1})
    <3>1. Good(z, b) /\ q \in Request
      BY <1>1, <1>2
    <3> HIDE DEF X
    <3> QED BY <1>3, <2>3, <3>1, TranscriptNumber
  <2> QED BY <1>1, <2>1, <2>2, <2>4
<1>15. r.nextTurn <= q.last /\ q.last < b.next /\ q.first <= q.last
       /\ \A i \in DOMAIN r.segments : q.last < r.segments[i].id
  BY <1>8, <1>9
<1>16. Numbered(s, b)
  <2>1. s.nextTurn <= b.next /\ \A i \in DOMAIN s.segments : s.nextTurn <= s.segments[i].id
    <3>1. s.nextTurn \in Nat /\ s.nextTurn <= q.last + 1
      BY <1>6, <1>10, <1>14, <1>15
    <3>2. s.nextTurn <= b.next
      BY <1>10, <1>15, <3>1
    <3>3. ASSUME NEW i \in DOMAIN r.segments PROVE s.nextTurn <= r.segments[i].id
      <4>1. PICK n \in Nat : n = r.segments[i].id
        BY <1>10
      <4>2. q.last < n
        BY <1>15, <4>1
      <4> QED BY <1>10, <3>1, <4>1, <4>2
    <3> QED BY <1>4, <3>2, <3>3
  <2>2. DOMAIN s.newTurns \subseteq DOMAIN r.newTurns \union {q.first}
    BY <1>4 DEF Put
  <2>3. ASSUME NEW n \in DOMAIN s.newTurns
        PROVE  n < b.next /\ \A i \in DOMAIN s.segments : n < s.segments[i].id
    <3>1. CASE n \in DOMAIN r.newTurns
      BY <1>4, <3>1 DEF Owed, Ledger, Numbered
    <3>2. CASE n = q.first
      BY <1>2, <1>4, <1>10, <1>15, <3>2
    <3> QED BY <2>2, <3>1, <3>2
  <2>4. ASSUME NEW u \in DOMAIN s.turns
        PROVE  /\ s.turns[u].latest \in Ids(s.turns[u].audio)
               /\ \A a \in Ids(s.turns[u].audio) : u <= a
    <3>1. CASE u # t
      BY <1>4, <3>1 DEF Owed, Ledger, Numbered
    <3>2. CASE u = t
      <4>1. \A x \in X : t <= x
        BY <1>6, <1>7, <1>8
      <4>2. t \in DOMAIN r.turns => \A a \in Ids(r.turns[t].audio) : t <= a
        BY DEF Owed, Ledger, Numbered
      <4> QED BY <1>4, <1>9, <3>2, <4>1, <4>2
    <3> QED BY <3>1, <3>2
  <2> QED BY <1>4, <2>1, <2>3, <2>4, NothingAsked DEF Numbered
<1>17. Lined(s, b)
  BY <1>4 DEF Owed, Ledger, Lined
<1>18. DraftsBefore(s, b)
  <2>1. \A n, to : EndsBefore(n, to, r, b) => EndsBefore(n, to, s, b)
    BY <1>4 DEF EndsBefore
  <2>2. ASSUME NEW u \in DOMAIN s.turns PROVE EndsBefore(s.turns[u].latest, s.turns[u].to, s, b)
    <3>1. CASE u # t
      BY <1>4, <2>1, <3>1 DEF Owed, Ledger, DraftsBefore
    <3>2. CASE u = t
      BY <1>4, <1>11, <1>13, <2>1, <3>2
    <3> QED BY <3>1, <3>2
  <2> QED BY <1>4, <2>2, NothingAsked DEF DraftsBefore
<1>19. ConfirmedBefore(s, b)
  <2>1. r.confirmed < b.tick
    <3>1. q.to <= b.tick /\ b.tick \in Int
      BY <1>11 DEF EndsBefore, Good, PlaceOK
    <3> QED BY <1>2, <1>6, <1>12, <3>1
  <2>2. \A i \in DOMAIN r.segments : r.confirmed < r.segments[i].to
    <3>1. \A i \in DOMAIN r.segments : q.to <= r.segments[i].to /\ r.segments[i].to \in Int
      BY <1>11, QueueIs DEF EndsBefore
    <3> QED BY <1>2, <1>6, <1>12, <3>1
  <2>3. b.tick \in Int /\ \A i \in DOMAIN r.segments : r.segments[i].to \in Int
    BY QueueIs DEF Good, PlaceOK
  <2> QED BY <1>4, <1>6, <2>1, <2>2, <2>3 DEF ConfirmedBefore
\* What is above the turn that is heard waits for the finalization.
<1>20. \A u \in DOMAIN r.turns : u > t => r.finalization >= u
  <2> SUFFICES ASSUME NEW u \in DOMAIN r.turns, u > t PROVE r.finalization >= u
    OBVIOUS
  <2>1. q.target # New
    BY <1>6, <1>7
  <2>2. r.openTurn \in {NoTurn, t}
    BY <1>5, <2>1 DEF Owed, Ledger, Aimed
  <2>3. ~OfTurn(q)
    BY DEF OfTurn, OfSegments
  <2>4. u <= NoTurn \/ u <= r.openTurn \/ u <= r.finalization
    BY <2>3 DEF Owed, CoveredAbove
  <2> QED BY <1>6, <1>7, <2>2, <2>4 DEF NoTurn
\* A turn that begins ends after every other.
<1>21. q.target = New => \A u \in DOMAIN r.turns : r.turns[u].to < q.to
  <2> SUFFICES ASSUME q.target = New, NEW u \in DOMAIN r.turns PROVE r.turns[u].to < q.to
    OBVIOUS
  <2>1. r.finalization = NoTurn /\ ~OfTurn(q)
    BY <1>5 DEF OfTurn, OfSegments
  <2>2. r.openTurn # NoTurn
    <3>1. u <= NoTurn \/ u <= r.openTurn \/ u <= r.finalization
      BY <2>1 DEF Owed, CoveredAbove
    <3> QED BY <1>6, <2>1, <3>1 DEF NoTurn
  <2>3. q.first \in X
    BY <2>2 DEF Owed, Ledger, Aimed
  <2>4. r.turns[u].latest \in Ids(r.turns[u].audio)
    BY DEF Owed, Ledger, Numbered
  <2>5. r.turns[u].latest < q.first /\ r.turns[u].latest \in Nat
    BY <1>6, <1>8, <2>3, <2>4 DEF HeardBefore, Turn
  <2>6. r.turns[u].to # q.to
    BY <1>2, <1>11, <2>5
  <2> QED BY <1>2, <1>6, <1>11, <2>6
<1>22. Ordered(s)
  <2>1. ASSUME NEW u \in DOMAIN s.turns
        PROVE  s.finalization >= u \/ s.confirmed < s.turns[u].to
    <3>1. CASE u = t
      BY <1>4, <1>12, <1>13, <3>1
    <3>2. CASE u # t
      BY <1>4, <3>2 DEF Owed, Ledger, Ordered
    <3> QED BY <3>1, <3>2
  <2>2. ASSUME NEW u \in DOMAIN s.turns, NEW v \in DOMAIN s.turns, u < v
        PROVE  s.finalization >= v \/ s.turns[u].to < s.turns[v].to
    <3>1. CASE u = t
      <4>1. v \in DOMAIN r.turns
        BY <1>4, <1>7, <2>2, <3>1
      <4> QED BY <1>4, <1>6, <1>7, <1>20, <2>2, <3>1, <4>1
    <3>2. CASE u # t /\ v = t
      <4>1. u \in DOMAIN r.turns /\ s.turns[u] = r.turns[u] /\ s.turns[v].to = q.to
        BY <1>4, <1>13, <3>2
      <4>2. CASE q.target = New
        BY <1>21, <4>1, <4>2
      <4>3. CASE q.target # New
        <5>1. v \in DOMAIN r.turns
          BY <1>7, <3>2, <4>3
        <5>2. r.finalization >= v \/ r.turns[u].to < r.turns[v].to
          BY <2>2, <4>1, <5>1 DEF Owed, Ledger, Ordered
        <5>3. r.turns[v].to <= q.to
          BY <1>11, <5>1
        <5> QED BY <1>2, <1>4, <1>6, <4>1, <5>1, <5>2, <5>3
      <4> QED BY <4>2, <4>3
    <3>3. CASE u # t /\ v # t
      BY <1>4, <2>2, <3>3 DEF Owed, Ledger, Ordered
    <3> QED BY <3>1, <3>2, <3>3
  <2> QED BY <2>1, <2>2 DEF Ordered
<1>23. Aimed(s, b)
  BY <1>4, NothingAsked DEF Aimed
<1>24. \A u : QueueSettled(r, u) <=> QueueSettled(s, u)
  BY <1>4 DEF QueueSettled
<1>25. Deferred(s, b)
  <2>1. r.finalization # NoTurn => r.finalization < s.nextTurn
    BY <1>6, <1>14 DEF Owed, Ledger, Deferred
  <2> QED BY <1>4, <1>24, <2>1 DEF Owed, Ledger, Deferred
<1>26. CheckEnds(s, b)
  BY <1>4 DEF Owed, Ledger, CheckEnds
<1>27. Rested(s, b)
  BY <1>1, <1>4 DEF Owed, Ledger, Rested, SameTimer
<1>28. Ledger(s, b)
  BY <1>16, <1>17, <1>18, <1>19, <1>22, <1>23, <1>25, <1>26, <1>27 DEF Ledger
<1>29. CoveredAbove(s, t)
  <2> SUFFICES ASSUME NEW u \in DOMAIN s.turns
               PROVE  u <= t \/ u <= s.finalization
    BY DEF CoveredAbove
  <2>1. CASE u \in DOMAIN r.turns
    BY <1>4, <1>6, <1>7, <1>20, <2>1
  <2>2. CASE u = t
    BY <1>7, <2>2
  <2> QED BY <1>4, <2>1, <2>2
<1>30. s.openTurn <= t
  <2>1. CASE q.target = New
    BY <1>4, <1>6, <1>7, <2>1
  <2>2. CASE q.target # New
    <3>1. r.openTurn \in {NoTurn, t}
      BY <1>5, <2>2 DEF Owed, Ledger, Aimed
    <3> QED BY <1>4, <1>7, <3>1 DEF NoTurn
  <2> QED BY <2>1, <2>2
<1>31. s.finalization # NoTurn => t <= s.finalization
  BY <1>4, <1>5 DEF Owed, Ledger, Aimed
<1>32. ASSUME t \in {s.openTurn, s.finalization} PROVE Beyond(b, t) /\ QueueSettled(s, t)
  <2>1. t < r.nextTurn
    <3>1. CASE q.target = New
      <4>1. t = r.nextTurn /\ r.finalization = NoTurn
        BY <1>5, <3>1
      <4> QED BY <1>4, <1>6, <1>7, <1>32, <4>1 DEF NoTurn
    <3>2. CASE q.target # New
      BY <1>6, <1>7, <3>2
    <3> QED BY <3>1, <3>2
  <2>2. b.chain \in {0, b.next - 1}
    BY DEF Good, PlaceOK
  <2>3. Beyond(b, t)
    BY <1>6, <1>7, <1>10, <1>15, <2>1, <2>2 DEF Beyond, NoSegment
  <2>4. QueueSettled(r, t)
    <3> SUFFICES ASSUME ~QueueSettled(r, t) PROVE FALSE
      OBVIOUS
    <3>1. r.nextTurn = t + 1 /\ Len(r.segments) >= 1 /\ r.segments[1].id = t + 1
      BY <1>7, <2>1, QueueTurns DEF Owed, Ledger
    <3>2. 1 \in DOMAIN r.segments
      BY <3>1, QueueIs
    <3> QED BY <1>6, <1>7, <1>10, <1>15, <3>1, <3>2
  <2> QED BY <1>24, <2>3, <2>4
<1>33. t \in DOMAIN s.turns
  BY <1>4
<1> QED BY <1>3, <1>4, <1>28, <1>29, <1>30, <1>31, <1>32, <1>33 DEF Resolving

-----------------------------------------------------------------------------
(* A result is applied. *)

LEMMA AlikeResolving ==
  ASSUME NEW r, NEW s, NEW b, NEW t, Resolving(r, t, b), Alike(r, s), SameTimer(r, s),
         s.inFlight = r.inFlight
  PROVE  /\ Resolving(s, t, b)
         /\ \A u : QueueSettled(r, u) => QueueSettled(s, u)
<1>1. Rested(s, b)
  BY DEF Resolving, Ledger, Rested, SameTimer
<1>2. Ledger(s, b) /\ CoveredAbove(s, t)
  BY <1>1, AlikeLedger, AlikeCovered DEF Resolving
<1> QED BY <1>2 DEF Resolving, Alike, QueueSettled

LEMMA AnsweredAsk ==
  ASSUME NEW r, NEW b, NEW q, NEW z, Good(r, b), q = r.inFlight, q # NoRequest, z = Answered(r)
  PROVE  q \in Request /\ InTurn(z, q, b) /\ KnownTarget(z, q) /\ q.kind # "None"
         /\ (OfSegments(q) \/ OfTurn(q))
<1>1. q \in Request
  BY RequestIs
<1>2. OfSegments(q) \/ OfTurn(q)
  BY <1>1 DEF Request, OfSegments, OfTurn
<1>3. /\ z.turns = r.turns /\ z.out = r.out /\ z.segments = r.segments
      /\ z.finalized = r.finalized
  BY DEF Answered, Good, Consistent, Fields
<1>4. InTurn(z, q, b)
  <2>1. InTurn(r, q, b)
    BY DEF Good, Sound, Spoken
  <2> QED BY <1>3, <2>1, SpokenKept DEF SameAudio, FinalsOf
<1>5. KnownTarget(z, q)
  BY <1>3 DEF Good, Consistent, KnownTarget, Known
<1>6. q.kind # "None"
  BY <1>1 DEF Request
<1> QED BY <1>1, <1>2, <1>4, <1>5, <1>6

LEMMA TranscriptGood ==
  ASSUME NEW r, NEW b, NEW q, NEW z, Good(r, b), q = r.inFlight,
         OfSegments(q), z = Answered(r), ~IsStale(z, q)
  PROVE  Good(ApplyTranscript(z, q), b)
<1>1. /\ q \in Request /\ InTurn(z, q, b) /\ KnownTarget(z, q) /\ q.kind # "None"
      /\ Good(z, b) /\ z.inFlight = NoRequest
  BY AnsweredAsk, AnsweredIs, NothingAsked
<1>2. Consistent(ApplyTranscript(z, q))
  BY <1>1, ApplyTranscriptHeard DEF Good, Heard
<1>3. Sound(ApplyTranscript(z, q), b)
  BY <1>1, ApplyTranscriptSound DEF Good, OfSegments
<1> QED BY <1>1, <1>2, <1>3 DEF Good

LEMMA ApplyInterimOwed ==
  ASSUME NEW r, NEW b, NEW q, NEW z, Good(r, b), Owed(r, b), q = r.inFlight,
         OfSegments(q), z = Answered(r), ~IsStale(z, q)
  PROVE  Owed(ApplyInterim(z, q), b)
<1>1. PICK t : t = TurnOf(z, q)
  OBVIOUS
<1>2. PICK s : s = ApplyTranscript(z, q)
  OBVIOUS
<1>3. PICK e : e = EmitInterim(s, t)
  OBVIOUS
<1>4. Good(s, b) /\ Resolving(s, t, b)
  BY <1>1, <1>2, TranscriptGood, TranscriptResolving
<1>5. Alike(s, e) /\ SameTimer(s, e) /\ e.inFlight = s.inFlight
  BY <1>3, <1>4, EmitInterimAlike DEF Good, Sound, Typed
<1>6. Good(e, b)
  <2>1. Sound(e, b)
    BY <1>3, <1>4, EmitInterimSound DEF Good
  <2>2. Consistent(e)
    BY <1>3, <1>4, EmitInterimMoves DEF Good, Moves, Resolving
  <2> QED BY <1>4, <2>1, <2>2 DEF Good
<1>7. Resolving(e, t, b)
  BY <1>4, <1>5, AlikeResolving
<1>8. ~(z.openTurn > t)
  <2>1. s.openTurn = z.openTurn
    <3>1. Good(z, b) /\ q \in Request
      BY AnsweredIs, AnsweredAsk, NothingAsked
    <3> QED BY <1>1, <1>2, <3>1, TranscriptIs
  <2>2. s.openTurn <= t /\ s.openTurn \in Nat /\ t \in Nat
    BY <1>4, TurnsAre DEF Resolving
  <2> QED BY <2>1, <2>2
<1>9. PICK u : u = [e EXCEPT !.openTurn = t, !.acceptsRoot = @ /\ z.openTurn = t]
  OBVIOUS
<1>10. ApplyInterim(z, q) = u
  BY <1>1, <1>2, <1>3, <1>8, <1>9 DEF ApplyInterim
<1>11. /\ u.openTurn = t /\ u.segments = e.segments /\ u.newTurns = e.newTurns
       /\ u.nextTurn = e.nextTurn /\ u.confirmed = e.confirmed
       /\ u.finalization = e.finalization /\ u.turnCheck = e.turnCheck
       /\ u.inFlight = e.inFlight /\ u.turns = e.turns /\ SameTimer(e, u)
  BY <1>6, <1>9 DEF Good, Consistent, Fields, SameTimer
<1>12. Rested(u, b)
  BY <1>7, <1>11 DEF Resolving, Ledger, Rested, SameTimer
<1> QED BY <1>6, <1>7, <1>10, <1>11, <1>12, OpenedOwed

LEMMA ApplyCompletionOwed ==
  ASSUME NEW r, NEW b, NEW q, NEW z, Good(r, b), Owed(r, b), q = r.inFlight,
         OfSegments(q), z = Answered(r), ~IsStale(z, q)
  PROVE  Owed(ApplyCompletion(z, q), b)
<1>1. PICK t : t = TurnOf(z, q)
  OBVIOUS
<1>2. PICK s : s = ApplyTranscript(z, q)
  OBVIOUS
<1>3. PICK purpose : purpose = CompletionPurpose(z)
  OBVIOUS
<1>4. /\ Good(s, b) /\ Resolving(s, t, b)
      /\ t \in {s.openTurn, s.finalization} => QueueSettled(s, t)
  BY <1>1, <1>2, TranscriptGood, TranscriptResolving
<1>5. ApplyCompletion(z, q) = IF purpose # "None" /\ CanRerecognize(s, t)
                              THEN Rerecognize(s, t, purpose) ELSE CompleteTurn(s, t)
  BY <1>1, <1>2, <1>3 DEF ApplyCompletion
<1>6. CanRerecognize(s, t) => Owed(Rerecognize(s, t, purpose), b)
  BY <1>4, RerecognizeOwed DEF CanRerecognize
<1>7. Owed(CompleteTurn(s, t), b)
  BY <1>4, CompleteOwed
<1> QED BY <1>5, <1>6, <1>7

\* The request about a whole turn: its draft is still there.
LEMMA WholeResolving ==
  ASSUME NEW r, NEW b, NEW q, NEW z, Good(r, b), Owed(r, b), q = r.inFlight,
         OfTurn(q), z = Answered(r), ~IsStale(z, q)
  PROVE  /\ Resolving(z, q.turn, b) /\ EffectiveTurn(z, q) = q.turn
         /\ q.purpose = "GrammarAfterCompletion" /\ q.turn \in {z.openTurn, z.finalization}
              => QueueSettled(z, q.turn)
<1>1. /\ z.turns = r.turns /\ z.inFlight = NoRequest /\ z.openTurn = r.openTurn
      /\ z.finalization = r.finalization /\ z.segments = r.segments
      /\ z.finalized = r.finalized /\ Alike(r, z) /\ SameTimer(r, z)
  BY AnsweredIs DEF Alike
<1>2. /\ q.turn \in Nat /\ q.turn >= 1 /\ q.target = q.turn /\ q.turn \in Known(r)
  BY RequestIs
<1>3. EffectiveTurn(z, q) = q.turn /\ ~UnresolvedNew(z, q)
  BY <1>2 DEF EffectiveTurn, Resolved, UnresolvedNew, New
<1>4. q.turn \in DOMAIN r.turns
  BY <1>1, <1>2, <1>3 DEF IsStale, Known
<1>5. Rested(z, b)
  BY <1>1 DEF Owed, Ledger, Rested, SameTimer
<1>6. Ledger(z, b)
  BY <1>1, <1>5, AlikeLedger DEF Owed
<1>7. /\ r.openTurn <= q.turn
      /\ r.finalization # NoTurn => q.turn <= r.finalization
      /\ q.turn \in {r.openTurn, r.finalization} =>
           /\ Beyond(b, q.turn)
           /\ q.purpose = "GrammarAfterCompletion" => QueueSettled(r, q.turn)
  BY DEF Owed, Ledger, Aimed
<1>8. CoveredAbove(z, q.turn)
  <2>1. \A u \in DOMAIN r.turns : ~(u <= NoTurn)
    BY TurnsAre DEF NoTurn
  <2> QED BY <1>1, <2>1 DEF Owed, CoveredAbove
<1> QED BY <1>1, <1>3, <1>4, <1>6, <1>7, <1>8 DEF Resolving, QueueSettled

\* A stale result is of no use, but nothing waits for it.
LEMMA StaleOwed ==
  ASSUME NEW r, NEW b, NEW q, NEW z, Good(r, b), Owed(r, b), q = r.inFlight,
         OfSegments(q) \/ (OfTurn(q) /\ IsStale(z, q)), z = Answered(r)
  PROVE  Owed(z, b)
<1>1. /\ z.turns = r.turns /\ z.inFlight = NoRequest /\ z.openTurn = r.openTurn
      /\ z.finalization = r.finalization /\ z.finalized = r.finalized
      /\ z.confirmed = r.confirmed /\ Alike(r, z) /\ SameTimer(r, z)
  BY AnsweredIs DEF Alike
<1>2. CASE OfSegments(q)
  <2>1. ~OfTurn(r.inFlight)
    BY <1>2 DEF OfTurn, OfSegments
  <2> QED BY <1>1, <2>1, AlikeOwed
<1>3. CASE OfTurn(q) /\ IsStale(z, q)
  <2>1. Rested(z, b)
    BY <1>1 DEF Owed, Ledger, Rested, SameTimer
  <2>2. Ledger(z, b)
    BY <1>1, <2>1, AlikeLedger DEF Owed
  <2>3. q.turn \in Nat /\ q.turn >= 1 /\ q.target = q.turn /\ q.turn \in Known(r)
    BY <1>3, RequestIs
  <2>4. EffectiveTurn(z, q) = q.turn /\ ~UnresolvedNew(z, q)
    BY <2>3 DEF EffectiveTurn, Resolved, UnresolvedNew, New
  <2>5. q.turn \in r.finalized \/ q.to <= r.confirmed
    <3>1. q.revision = 0
      BY <1>3 DEF Owed, Ledger, Aimed
    <3> QED BY <1>1, <1>3, <2>4, <3>1 DEF IsStale, Revision
  <2>6. q.turn \in r.finalized \/ q.turn <= r.finalization
    <3>1. CASE q.turn \in DOMAIN r.turns /\ q.to <= r.confirmed
      <4>1. q.to = r.turns[q.turn].to /\ q.to \in Int /\ r.confirmed \in Int /\ r.finalization \in Nat
        BY <1>3, <3>1, TurnsAre DEF Owed, Ledger, Aimed
      <4>2. r.finalization >= q.turn \/ r.confirmed < r.turns[q.turn].to
        BY <3>1 DEF Owed, Ledger, Ordered
      <4> QED BY <2>3, <3>1, <4>1, <4>2
    <3> QED BY <2>3, <2>5, <3>1 DEF Known
  <2>7. CoveredAbove(z, NoTurn)
    <3> SUFFICES ASSUME NEW u \in DOMAIN r.turns
                 PROVE  u <= r.openTurn \/ u <= r.finalization
      BY <1>1 DEF CoveredAbove
    <3>1. u \in Nat /\ ~(u <= NoTurn) /\ r.finalization \in Nat
      BY TurnsAre DEF NoTurn
    <3>2. u <= r.openTurn \/ u <= r.finalization \/ u <= q.turn
      BY <3>1 DEF Owed, CoveredAbove
    <3>3. q.turn \in r.finalized => q.turn < u
      BY DEF Good, Consistent
    <3> QED BY <2>3, <2>6, <3>1, <3>2, <3>3
  <2> QED BY <2>2, <2>7 DEF Owed
<1> QED BY <1>2, <1>3

\* A segment without text leaves its request behind, or falls back to the draft.
LEMMA UnusableOwed ==
  ASSUME NEW r, NEW b, NEW q, NEW z, NEW decision, NEW interim, Good(r, b), Owed(r, b),
         q = r.inFlight, q # NoRequest, z = Answered(r), ~IsStale(z, q)
  PROVE  Owed(Unusable(z, q, decision, b.tick, interim), b)
<1> DEFINE u == Unusable(z, q, decision, b.tick, interim)
<1>1. PICK segments : segments = {q.segments[i] : i \in DOMAIN q.segments}
  OBVIOUS
<1>2. PICK s : s = [z EXCEPT !.unheard = @ \union segments]
  OBVIOUS
<1>3. PICK t : t = EffectiveTurn(z, q)
  OBVIOUS
<1>4. \/ /\ q.kind = "Rerecognition"
         /\ u = FollowUp(z, t, q.purpose, decision, b.tick, interim)
      \/ /\ q.kind = "CompletionCheck" /\ ~UnresolvedNew(z, q)
         /\ u = FallbackCompletion(s, t, decision, b.tick, interim)
      \/ q.kind # "Rerecognition" /\ u = s
  BY <1>1, <1>2, <1>3 DEF Unusable
<1> HIDE DEF u
<1>5. OfSegments(q) \/ OfTurn(q)
  BY AnsweredAsk
<1>6. Good(z, b) /\ z.inFlight = NoRequest
  BY AnsweredIs
<1>7. /\ s.segments = z.segments /\ s.newTurns = z.newTurns /\ s.nextTurn = z.nextTurn
      /\ s.confirmed = z.confirmed /\ s.openTurn = z.openTurn
      /\ s.finalization = z.finalization /\ s.turnCheck = z.turnCheck
      /\ s.inFlight = z.inFlight /\ s.turns = z.turns /\ SameTimer(z, s)
  BY <1>2, <1>6 DEF Good, Consistent, Fields, SameTimer
<1>8. Good(s, b)
  <2>1. Sound(s, b) /\ Quiet(z, s)
    BY <1>2, <1>6, UnheardSound, UnheardQuiet DEF Good
  <2> QED BY <1>6, <2>1, QuietKeeps DEF Good
<1>9. CASE q.kind = "Rerecognition"
  <2>1. OfTurn(q)
    BY <1>9 DEF OfTurn
  <2>2. t = q.turn /\ Resolving(z, t, b)
        /\ (q.purpose = "GrammarAfterCompletion" /\ t \in {z.openTurn, z.finalization}
              => QueueSettled(z, t))
    BY <1>3, <2>1, WholeResolving
  <2>3. Owed(FollowUp(z, t, q.purpose, decision, b.tick, interim), b)
    BY <1>6, <2>2, FollowUpOwed
  <2> QED BY <1>4, <1>9, <2>3 DEF u
<1>10. ASSUME q.kind # "Rerecognition" PROVE OfSegments(q) /\ Owed(s, b)
  <2>1. OfSegments(q)
    BY <1>5, <1>10 DEF OfTurn
  <2>2. Owed(z, b)
    BY <2>1, StaleOwed
  <2>3. Alike(z, s)
    BY <1>7 DEF Alike
  <2> QED BY <1>7, <2>1, <2>2, <2>3, AlikeOwed
<1>11. CASE q.kind # "Rerecognition" /\ u = s
  BY <1>10, <1>11 DEF u
<1>12. CASE /\ q.kind = "CompletionCheck" /\ ~UnresolvedNew(z, q)
            /\ u = FallbackCompletion(s, t, decision, b.tick, interim)
  <2>1. OfSegments(q) /\ Owed(s, b)
    BY <1>10, <1>12
  <2>2. PICK w : w = TurnOf(z, q)
    OBVIOUS
  <2>3. q.target # New /\ w = q.target /\ w \in DOMAIN r.turns /\ EffectiveTurn(z, q) = w
    BY <1>12, <2>1, <2>2, HeardTurnIs
  <2>4. t = w
    BY <1>3, <2>3
  <2>5. /\ z.turns = r.turns /\ z.openTurn = r.openTurn /\ z.finalization = r.finalization
    BY AnsweredIs DEF Alike
  <2>6. /\ r.openTurn \in {NoTurn, t}
        /\ r.finalization # NoTurn => t <= r.finalization
    BY <2>1, <2>3, <2>4 DEF Owed, Ledger, Aimed
  <2>7. t \in Nat /\ t >= 1 /\ t < r.nextTurn /\ r.nextTurn \in Nat
    BY <2>3, <2>4, TurnsAre
  <2>8. Beyond(b, t)
    <3>1. q.last \in Ids(q.segments) /\ r.nextTurn <= q.last
      BY <2>1 DEF Owed, Ledger, Numbered
    <3>2. q \in Request
      BY <2>1, RequestIs
    <3>3. q.last \in Nat
      BY <3>2 DEF Request, Turn
    <3>4. q.last < b.next
      <4>1. InTurn(r, q, b)
        BY DEF Good, Sound, Spoken
      <4> QED BY <2>1, <3>1, <4>1 DEF InTurn, OfSegments
    <3>5. b.chain \in {0, b.next - 1} /\ b.next \in Nat
      BY DEF Good, PlaceOK, Turn
    <3> QED BY <2>7, <3>1, <3>3, <3>4, <3>5 DEF Beyond, NoSegment
  <2>9. CoveredAbove(s, t)
    BY <2>1, <2>3, <2>4, <2>7, TurnsAre, <1>7, <2>5 DEF Owed, CoveredAbove, NoTurn
  <2>10. Resolving(s, t, b)
    BY <1>6, <1>7, <2>1, <2>3, <2>4, <2>5, <2>6, <2>7, <2>8, <2>9 DEF Resolving, Owed, NoTurn
  <2> QED BY <1>8, <1>12, <2>10, FallbackOwed DEF u
<1> QED BY <1>4, <1>9, <1>11, <1>12 DEF u

LEMMA ReplaceTextAlike ==
  ASSUME NEW r, NEW b, NEW t, NEW emitted, Good(r, b)
  PROVE  /\ Alike(r, ReplaceText(r, t, emitted)) /\ SameTimer(r, ReplaceText(r, t, emitted))
         /\ ReplaceText(r, t, emitted).inFlight = r.inFlight
<1>1. PICK s : s = ReplaceText(r, t, emitted)
  OBVIOUS
<1>2. CASE ~(t \in DOMAIN r.turns /\ r.turns[t].emitted # "never")
  BY <1>1, <1>2 DEF ReplaceText, Alike, SameTimer
<1>3. CASE t \in DOMAIN r.turns /\ r.turns[t].emitted # "never"
  <2>1. s = [r EXCEPT !.turns[t].emitted = emitted]
    BY <1>1, <1>3 DEF ReplaceText
  <2>2. PICK d : d = [r.turns[t] EXCEPT !.emitted = emitted]
    OBVIOUS
  <2>3. PICK ts : ts = [r.turns EXCEPT ![t] = d]
    OBVIOUS
  <2>4. s = [r EXCEPT !.turns = ts]
    BY <2>1, <2>2, <2>3
  <2>5. /\ d.audio = r.turns[t].audio /\ d.latest = r.turns[t].latest /\ d.to = r.turns[t].to
    <3>1. r.turns[t] \in TurnDraft
      BY <1>3 DEF Good, Sound, Typed
    <3> QED BY <2>2, <3>1 DEF TurnDraft
  <2>6. /\ s.segments = r.segments /\ s.newTurns = r.newTurns /\ s.nextTurn = r.nextTurn
        /\ s.confirmed = r.confirmed /\ s.openTurn = r.openTurn
        /\ s.finalization = r.finalization /\ s.turnCheck = r.turnCheck
        /\ s.inFlight = r.inFlight /\ s.turns = ts /\ SameTimer(r, s)
    BY <2>4 DEF Good, Consistent, Fields, SameTimer
  <2>7. DOMAIN ts = DOMAIN r.turns /\ ts[t] = d /\ \A u \in DOMAIN r.turns : u # t => ts[u] = r.turns[u]
    BY <1>3, <2>3
  <2> QED BY <1>1, <2>5, <2>6, <2>7 DEF Alike
<1> QED BY <1>2, <1>3

LEMMA ApplyResultOwed ==
  ASSUME NEW r, NEW b, NEW decision, NEW emitted \in {"stale", "current"}, NEW interim,
         Good(r, b), Owed(r, b), ResultReady(r)
  PROVE  Owed(ApplyResult(r, decision, emitted, b.tick, interim), b)
<1>1. PICK q : q = r.inFlight
  OBVIOUS
<1>2. PICK s : s = Answered(r)
  OBVIOUS
<1>3. PICK z : z = ReplaceText(s, q.turn, emitted)
  OBVIOUS
<1> DEFINE u == Unusable(s, q, decision, b.tick, interim)
           f == FollowUp(z, q.turn, q.purpose, decision, b.tick, interim)
           ai == ApplyInterim(s, q)
           ac == ApplyCompletion(s, q)
           a == ApplyResult(r, decision, emitted, b.tick, interim)
<1>4. q # NoRequest /\ q \in Request /\ (OfSegments(q) \/ OfTurn(q))
  <2>1. q # NoRequest
    BY <1>1 DEF Good, Sound, Typed, ResultReady, RunnerStates
  <2> QED BY <1>1, <1>2, <2>1, AnsweredAsk
<1>5. Good(s, b)
  BY <1>2, AnsweredIs
<1>6. a = CASE IsStale(s, q) -> s
            [] ~IsStale(s, q) /\ r.runner = "unusable" -> u
            [] OTHER ->
                 CASE q.kind = "InterimDisplay"  -> ai
                   [] q.kind = "CompletionCheck" -> ac
                   [] OTHER -> f
  <2>1. s = [r EXCEPT !.inFlight = NoRequest, !.runner = "idle"]
    BY <1>2 DEF Answered
  <2> QED BY <1>1, <1>3, <2>1, Zenon DEF ApplyResult
<1>7. IsStale(s, q) => Owed(s, b)
  BY <1>1, <1>2, <1>4, StaleOwed
<1>8. ~IsStale(s, q) => Owed(u, b)
  BY <1>1, <1>2, <1>4, UnusableOwed
<1>9. ~IsStale(s, q) /\ q.kind = "InterimDisplay" => Owed(ai, b)
  BY <1>1, <1>2, ApplyInterimOwed DEF OfSegments
<1>10. ~IsStale(s, q) /\ q.kind = "CompletionCheck" => Owed(ac, b)
  BY <1>1, <1>2, ApplyCompletionOwed DEF OfSegments
<1>11. ASSUME ~IsStale(s, q), q.kind \notin {"InterimDisplay", "CompletionCheck"} PROVE Owed(f, b)
  <2>1. OfTurn(q)
    BY <1>4, <1>11 DEF OfSegments
  <2>2. Resolving(s, q.turn, b)
        /\ (q.purpose = "GrammarAfterCompletion" /\ q.turn \in {s.openTurn, s.finalization}
              => QueueSettled(s, q.turn))
    BY <1>1, <1>2, <1>11, <2>1, WholeResolving
  <2>3. Alike(s, z) /\ SameTimer(s, z) /\ z.inFlight = s.inFlight
    BY <1>3, <1>5, ReplaceTextAlike
  <2>4. Resolving(z, q.turn, b)
        /\ (q.purpose = "GrammarAfterCompletion" /\ q.turn \in {z.openTurn, z.finalization}
              => QueueSettled(z, q.turn))
    BY <2>2, <2>3, AlikeResolving DEF Alike
  <2>5. Good(z, b)
    <3>1. Sound(z, b) /\ Quiet(s, z)
      BY <1>3, <1>5, ReplaceTextSound, ReplaceTextQuiet DEF Good
    <3> QED BY <1>5, <3>1, QuietKeeps DEF Good
  <2> QED BY <2>4, <2>5, FollowUpOwed
<1> HIDE DEF u, f, ai, ac, a
<1>12. CASE IsStale(s, q)
  BY <1>6, <1>7, <1>12 DEF a
<1>13. CASE ~IsStale(s, q) /\ r.runner = "unusable"
  BY <1>6, <1>8, <1>13 DEF a
<1>14. CASE ~IsStale(s, q) /\ r.runner # "unusable"
  <2>1. a = CASE q.kind = "InterimDisplay"  -> ai
              [] q.kind = "CompletionCheck" -> ac
              [] OTHER -> f
    BY <1>6, <1>14
  <2>2. Owed(a, b)
    BY <1>9, <1>10, <1>11, <1>14, <2>1
  <2> QED BY <2>2 DEF a
<1> QED BY <1>12, <1>13, <1>14

LEMMA FinalizePendingOwed ==
  ASSUME NEW r, NEW b, Good(r, b), Owed(r, b), r.finalization # NoTurn,
         ~FinalizationIsBlocked(r, r.finalization)
  PROVE  Owed(FinalizeTurnNow([r EXCEPT !.finalization = NoTurn], r.finalization), b)
<1>1. PICK t : t = r.finalization
  OBVIOUS
<1>2. PICK z : z = [r EXCEPT !.finalization = NoTurn]
  OBVIOUS
<1>3. PICK s : s = FinalizeTurnNow(z, t)
  OBVIOUS
<1>4. t \in Nat
  BY <1>1, TurnsAre
<1>5. Good(z, b)
  <2>1. Sound(z, b) /\ Quiet(r, z)
    BY <1>2, DeferredSound, DeferredQuiet DEF Good, NoTurn
  <2> QED BY <2>1, QuietKeeps DEF Good
<1>6. /\ z.segments = r.segments /\ z.newTurns = r.newTurns /\ z.nextTurn = r.nextTurn
      /\ z.confirmed = r.confirmed /\ z.openTurn = r.openTurn
      /\ z.finalization = NoTurn /\ z.turnCheck = r.turnCheck
      /\ z.inFlight = r.inFlight /\ z.turns = r.turns
  BY <1>2 DEF Good, Consistent, Fields
<1>7. Finalized(z, s, t) /\ s.finalization = NoTurn
  BY <1>3, <1>4, <1>5, <1>6, FinalizeIs
<1>8. Finalized(r, s, t)
  BY <1>6, <1>7 DEF Finalized
<1>9. r.openTurn <= t
  BY <1>1 DEF Owed, Ledger, Deferred
<1>10. CoveredAbove(r, t)
  <2>1. OfTurn(r.inFlight) => ~(r.inFlight.turn <= t)
    BY <1>1 DEF FinalizationIsBlocked, InFlight, OfTurn, NoRequest
  <2>2. \A u \in DOMAIN r.turns : ~(u <= NoTurn) /\ u \in Nat
    BY TurnsAre DEF NoTurn
  <2>3. OfTurn(r.inFlight) => r.inFlight.turn <= t
    BY <1>1 DEF Owed, Ledger, Aimed
  <2>4. r.openTurn \in Nat
    BY TurnsAre
  <2> QED BY <1>1, <1>4, <1>9, <2>1, <2>2, <2>3, <2>4 DEF Owed, CoveredAbove
<1>11. s.finalization # r.finalization /\ s.finalization # t
  BY <1>1, <1>7
<1> QED BY <1>1, <1>2, <1>3, <1>4, <1>8, <1>9, <1>10, <1>11, FinalizeOwed DEF Owed

-----------------------------------------------------------------------------
(* Dispatch. *)

\* A first plan that is kept is the next one.
LEMMA FirstPlanIsNext ==
  ASSUME NEW r, NEW T, NEW q \in Seq(T), Len(q) >= 1,
         NEW end, end = 1 + PlanLength(r, q, 1), ~PlanIsDropped(r, q[1], q[end - 1])
  PROVE  NextPlan(r, q) = 1
<1> DEFINE L == Len(q)
           End(i) == i + PlanLength(r, q, i)
<1>1. PICK next : Plans(next, 1, r, q) /\ NextPlan(r, q) = next[1]
  <2>1. \E f : Plans(f, 1, r, q)
    <3>1. L \in Nat /\ L <= L /\ L + 1 - L = 1
      OBVIOUS
    <3>2. \E f : Plans(f, L + 1 - L, r, q)
      BY <3>1, PlansExist
    <3> QED BY <3>1, <3>2
  <2>2. Plans(CHOOSE f : Plans(f, 1, r, q), 1, r, q)
    BY <2>1, Zenon
  <2>3. NextPlan(r, q) = (CHOOSE f : Plans(f, 1, r, q))[1]
    BY Zenon DEF NextPlan, Plans
  <2> QED BY <2>2, <2>3
<1>2. next = [i \in 1..(L + 1) |->
                IF i > L THEN i
                ELSE IF PlanIsDropped(r, q[i], q[End(i) - 1]) THEN next[End(i)] ELSE i]
  BY <1>1, Zenon DEF Plans
<1>3. End(1) = end
  OBVIOUS
<1>4. 1 \in 1..(L + 1) /\ ~(1 > L)
  OBVIOUS
<1> HIDE DEF End, L
<1> QED BY <1>1, <1>2, <1>3, <1>4

\* s is r with the segments of r after the k-th.
LEMMA RestShorter ==
  ASSUME NEW r, NEW b, NEW rest, NEW k \in Nat, Good(r, b), Owed(r, b), rest \in Seq(Segment),
         \A i \in DOMAIN rest :
            /\ i + k \in DOMAIN r.segments
            /\ rest[i].id = r.segments[i + k].id
            /\ rest[i].previous = r.segments[i + k].previous
            /\ rest[i].to = r.segments[i + k].to
  PROVE  Owed([r EXCEPT !.segments = rest], b)
<1>1. PICK s : s = [r EXCEPT !.segments = rest]
  OBVIOUS
<1>2. /\ s.segments = rest /\ s.newTurns = r.newTurns /\ s.nextTurn = r.nextTurn
      /\ s.confirmed = r.confirmed /\ s.openTurn = r.openTurn
      /\ s.finalization = r.finalization /\ s.turnCheck = r.turnCheck
      /\ s.inFlight = r.inFlight /\ s.turns = r.turns /\ SameTimer(r, s)
  BY <1>1 DEF Good, Consistent, Fields, SameTimer
<1>3. \A i \in DOMAIN rest : i \in Nat
  OBVIOUS
<1>4. Shorter(r, s)
  BY <1>2, <1>3 DEF Shorter
<1> QED BY <1>1, <1>4, ShorterOwed

\* The front of the queue is the child that a deferred finalization waits for.
LEMMA AwaitedChild ==
  ASSUME NEW r, NEW b, Good(r, b), Owed(r, b), r.finalization # NoTurn,
         ~QueueSettled(r, r.finalization)
  PROVE  /\ Len(r.segments) >= 1 /\ r.segments[1].previous = r.finalization
         /\ r.finalization \in DOMAIN r.turns /\ r.finalization >= 1
         /\ r.openTurn <= r.finalization /\ r.confirmed < r.segments[1].to
<1>1. PICK t : t = r.finalization
  OBVIOUS
<1>2. r.openTurn <= t /\ t < r.nextTurn /\ t \in DOMAIN r.turns /\ t \in Nat
  BY <1>1, TurnsAre DEF Owed, Ledger, Deferred
<1>3. /\ r.nextTurn = t + 1 /\ Len(r.segments) >= 1
      /\ r.segments[1].id = t + 1 /\ r.segments[1].previous = t /\ t >= 1
  BY <1>1, <1>2, QueueTurns DEF Owed, Ledger
<1>4. 1 \in DOMAIN r.segments
  BY <1>3, QueueIs
<1>5. PICK a : a = r.turns[t].latest
  OBVIOUS
<1>6. a \in Ids(r.turns[t].audio) /\ t <= a
  BY <1>2, <1>5 DEF Owed, Ledger, Numbered
<1>7. a \in Nat
  BY <1>2, <1>5, TurnsAre DEF Turn
<1>8. a < t + 1
  <2>1. HeardBefore(r, r.segments[1].id)
    BY <1>4 DEF Good, Sound, Spoken
  <2> QED BY <1>2, <1>3, <1>6, <2>1 DEF HeardBefore
<1>9. a = t
  BY <1>2, <1>6, <1>7, <1>8
<1>10. InDraft(r, r.segments[1].previous)
  BY <1>2, <1>3, <1>6, <1>9 DEF InDraft
<1>11. r.confirmed <= r.segments[1].to /\ r.confirmed # r.segments[1].to
  BY <1>4, <1>10 DEF Owed, Ledger, ConfirmedBefore
<1>12. r.segments[1].to \in Int /\ r.confirmed \in Int
  BY <1>4, QueueIs, TurnsAre
<1> QED BY <1>1, <1>2, <1>3, <1>11, <1>12

\* The request for the segments from a to e of the queue.
LEMMA PlanAsked ==
  ASSUME NEW r, NEW b, Good(r, b), Owed(r, b), NEW a \in Nat, NEW e \in Nat, a >= 1, a <= e,
         NEW plan \in Seq(Segment), Len(plan) = e - a + 1,
         \A j \in 1..(e - a + 1) : a + j - 1 \in DOMAIN r.segments /\ plan[j] = r.segments[a + j - 1],
         NEW s, s.newTurns = r.newTurns, s.nextTurn = r.nextTurn, s.openTurn = r.openTurn,
         s.finalization = r.finalization, s.turns = r.turns,
         \A i \in DOMAIN s.segments : \E j \in DOMAIN r.segments : e < j /\ s.segments[i] = r.segments[j],
         r.finalization # NoTurn => a = 1 /\ ~QueueSettled(r, r.finalization),
         NEW q, q = SegmentRequest(r, plan)
  PROVE  Asked(s, q, b)
<1> DEFINE n == e - a + 1
<1>1. n \in Nat /\ n >= 1 /\ a + 1 - 1 = a /\ a + n - 1 = e /\ DOMAIN plan = 1..n
  <2>1. n \in Nat /\ n >= 1 /\ a + 1 - 1 = a /\ a + n - 1 = e
    OBVIOUS
  <2>2. DOMAIN plan = 1..Len(plan)
    OBVIOUS
  <2> QED BY <2>1, <2>2
<1>2. PICK first, last : first = r.segments[a] /\ last = r.segments[e]
  OBVIOUS
<1>3. plan[1] = first /\ plan[Len(plan)] = last /\ a \in DOMAIN r.segments /\ e \in DOMAIN r.segments
  BY <1>1, <1>2
<1>4. /\ q.kind = Kind(first) /\ q.turn = ProjectedTurn(r, first) /\ q.target = TargetTurn(r, first)
      /\ q.first = SegmentTurn(first) /\ q.last = last.id
      /\ q.segments = [j \in DOMAIN plan |-> plan[j].id]
  BY <1>3 DEF SegmentRequest
<1>5. q.to = Max({first.to, last.to})
  BY <1>3 DEF SegmentRequest
<1>6. /\ first.id \in Nat /\ first.id >= 1 /\ first.previous \in {0, first.id - 1}
      /\ first.to \in Int /\ last.to \in Int /\ last.id \in Nat /\ last.id < b.next
      /\ SegmentTurn(first) = IF first.previous = 0 THEN first.id ELSE first.id - 1
      /\ r.nextTurn <= first.id
  BY <1>2, <1>3, QueueIs DEF Owed, Ledger, Numbered
<1>7. first.to <= last.to
  <2>1. CASE a = e
    BY <1>2, <1>6, <2>1
  <2>2. CASE a < e
    BY <1>2, <1>3, <2>2 DEF Owed, Ledger, Lined
  <2> QED BY <2>1, <2>2
<1>8. q.to = last.to
  <2>1. PICK x \in Int, y \in Int : x = first.to /\ y = last.to
    BY <1>6
  <2>2. Max({x, y}) = y
    BY <1>7, <2>1, GreaterIsMax
  <2> QED BY <1>5, <2>1, <2>2
<1>9. \A x \in Ids(q.segments) : \E j \in DOMAIN r.segments :
        a <= j /\ j <= e /\ x = r.segments[j].id
  <2> SUFFICES ASSUME NEW x \in Ids(q.segments)
               PROVE  \E j \in DOMAIN r.segments : a <= j /\ j <= e /\ x = r.segments[j].id
    OBVIOUS
  <2>1. PICK j \in 1..n : x = plan[j].id
    BY <1>1, <1>4 DEF Ids
  <2>2. a + j - 1 \in DOMAIN r.segments /\ x = r.segments[a + j - 1].id
    BY <2>1
  <2>3. a <= a + j - 1 /\ a + j - 1 <= e
    OBVIOUS
  <2> QED BY <2>2, <2>3
<1>10. first.id \in Ids(q.segments) /\ last.id \in Ids(q.segments)
  <2>1. 1 \in DOMAIN plan /\ n \in DOMAIN plan /\ Len(plan) = n
    BY <1>1
  <2>2. q.segments[1] = first.id /\ q.segments[n] = last.id /\ DOMAIN q.segments = DOMAIN plan
    BY <1>3, <1>4, <2>1
  <2> QED BY <2>1, <2>2 DEF Ids
<1> HIDE DEF n
<1>11. ASSUME NEW x \in Ids(q.segments)
       PROVE  /\ r.nextTurn <= x /\ x <= q.last /\ q.first <= x
              /\ \A m \in DOMAIN r.newTurns : m < x
  <2>1. PICK j \in DOMAIN r.segments : a <= j /\ j <= e /\ x = r.segments[j].id
    BY <1>9
  <2>2. j \in Nat /\ x \in Nat
    BY <2>1, QueueIs
  <2>3. x <= last.id
    <3>1. CASE j = e
      BY <1>2, <1>6, <2>1, <3>1
    <3>2. CASE j # e
      <4>1. j < e
        BY <2>1, <2>2, <3>2
      <4>2. r.segments[j].id < r.segments[e].id
        BY <1>3, <2>1, <4>1, QueueIs
      <4> QED BY <1>2, <1>6, <2>1, <2>2, <4>2
    <3> QED BY <3>1, <3>2
  <2>4. first.id <= x
    <3>1. CASE j = a
      BY <1>2, <1>6, <2>1, <3>1
    <3>2. CASE j # a
      <4>1. a < j
        BY <2>1, <2>2, <3>2
      <4>2. r.segments[a].id < r.segments[j].id
        BY <1>3, <2>1, <4>1, QueueIs
      <4> QED BY <1>2, <1>6, <2>1, <2>2, <4>2
    <3> QED BY <3>1, <3>2
  <2>5. r.nextTurn <= x /\ \A m \in DOMAIN r.newTurns : m < x
    BY <2>1 DEF Owed, Ledger, Numbered
  <2> QED BY <1>4, <1>6, <2>2, <2>3, <2>4, <2>5
<1>12. ASSUME NEW t \in DOMAIN r.turns
       PROVE  /\ r.turns[t].to <= q.to
              /\ r.turns[t].to = q.to => q.first = r.turns[t].latest
  <2>1. r.turns[t].to \in Int /\ r.turns[t].latest \in Nat /\ r.turns[t].latest >= 1
    BY TurnsAre DEF Turn
  <2>2. r.turns[t].to <= first.to /\ (r.turns[t].to = first.to => first.previous = r.turns[t].latest)
    BY <1>2, <1>3 DEF Owed, Ledger, DraftsBefore, EndsBefore
  <2>3. r.turns[t].to <= q.to
    BY <1>6, <1>7, <1>8, <2>1, <2>2
  <2>4. ASSUME r.turns[t].to = q.to PROVE q.first = r.turns[t].latest
    <3>1. first.previous = r.turns[t].latest
      BY <1>6, <1>7, <1>8, <2>1, <2>2, <2>4
    <3> QED BY <1>4, <1>6, <2>1, <3>1
  <2> QED BY <2>3, <2>4
<1>13. EndsBefore(q.last, q.to, s, b)
  <2>1. last.to <= b.tick /\ (last.to = b.tick /\ b.active => b.chain = last.id)
    BY <1>2, <1>3 DEF Owed, Ledger, Lined
  <2>2. ASSUME NEW i \in DOMAIN s.segments
        PROVE  last.to <= s.segments[i].to /\ (last.to = s.segments[i].to => s.segments[i].previous = last.id)
    <3>1. PICK j \in DOMAIN r.segments : e < j /\ s.segments[i] = r.segments[j]
      OBVIOUS
    <3> QED BY <1>2, <1>3, <3>1 DEF Owed, Ledger, Lined
  <2> QED BY <1>4, <1>8, <2>1, <2>2 DEF EndsBefore
<1>14. ASSUME first.previous = 0, ~(CanConnectInterim(r) /\ r.acceptsRoot)
       PROVE  q.target = New /\ q.turn = first.id /\ q.first = first.id
  <2>1. ProjectedTurn(r, first) = first.id
    BY <1>14 DEF ProjectedTurn
  <2>2. first.id \notin DOMAIN r.turns
    BY <1>6, TurnsAre
  <2>3. TargetTurn(r, first) = New
    BY <1>14, <2>1, <2>2 DEF TargetTurn
  <2> QED BY <1>4, <1>6, <1>14, <2>1, <2>3
<1>15. ASSUME ~(first.previous = 0 /\ ~(CanConnectInterim(r) /\ r.acceptsRoot))
       PROVE  /\ r.openTurn # NoTurn => q.target = r.openTurn
              /\ r.openTurn = NoTurn /\ SegmentTurn(first) \in DOMAIN r.turns
                   => q.target = SegmentTurn(first)
  <2>1. ProjectedTurn(r, first) = IF r.openTurn # NoTurn THEN r.openTurn ELSE SegmentTurn(first)
    BY <1>15 DEF ProjectedTurn
  <2>2. TargetTurn(r, first) = IF r.openTurn = New /\ ProjectedTurn(r, first) \in DOMAIN r.turns
                               THEN ProjectedTurn(r, first) ELSE r.openTurn
    BY <1>15 DEF TargetTurn
  <2> QED BY <1>4, <2>1, <2>2 DEF New, NoTurn
<1>16. q.target # New => r.openTurn \in {NoTurn, q.target}
  BY <1>14, <1>15
<1>17. q.target = New => r.openTurn = NoTurn \/ (q.turn = q.first /\ q.first \in Ids(q.segments))
  BY <1>10, <1>14, <1>15 DEF New, NoTurn
<1>18. ASSUME r.finalization # NoTurn PROVE q.target # New /\ q.target <= r.finalization
  <2>1. /\ first.previous = r.finalization /\ r.finalization \in DOMAIN r.turns
        /\ r.finalization >= 1 /\ r.openTurn <= r.finalization /\ r.finalization \in Nat
    BY <1>2, <1>18, AwaitedChild, TurnsAre
  <2>2. SegmentTurn(first) = r.finalization
    BY <2>1 DEF SegmentTurn
  <2> QED BY <1>15, <2>1, <2>2 DEF New, NoTurn
<1>19. ~OfTurn(q)
  BY <1>4 DEF OfTurn, Kind
<1>20. /\ \A x \in Ids(q.segments) :
            /\ s.nextTurn <= x /\ x <= q.last /\ q.first <= x
            /\ \A m \in DOMAIN s.newTurns : m < x
       /\ \A t \in DOMAIN s.turns :
            /\ s.turns[t].to <= q.to
            /\ s.turns[t].to = q.to => q.first = s.turns[t].latest
  BY <1>11, <1>12
<1> QED BY <1>4, <1>10, <1>13, <1>16, <1>17, <1>18, <1>19, <1>20 DEF Asked

LEMMA GoodSegments ==
  ASSUME NEW r, NEW b, NEW rest \in Seq(Segment), Good(r, b), r.inFlight = NoRequest,
         InLine(rest), \A i \in DOMAIN rest : rest[i].id < b.next /\ HeardBefore(r, rest[i].id)
  PROVE  Good([r EXCEPT !.segments = rest], b)
<1>1. PICK s : s = [r EXCEPT !.segments = rest]
  OBVIOUS
<1>2. Sound(s, b)
  BY <1>1, RestSound DEF Good
<1>3. Quiet(r, s)
  BY <1>1, SegmentsQuiet DEF Good
<1>4. Consistent(s)
  BY <1>3, QuietKeeps DEF Good
<1> QED BY <1>1, <1>2, <1>4 DEF Good

LEMMA DispatchOwed ==
  ASSUME NEW r, NEW b, Good(r, b), Owed(r, b), r.inFlight = NoRequest,
         r.finalization # NoTurn => ~QueueSettled(r, r.finalization)
  PROVE  Owed(Dispatch(r), b)
<1>1. PICK q : q = DropCoveredInterims(r.segments)
  OBVIOUS
<1>2. PICK i : i = NextPlan(r, q)
  OBVIOUS
<1>3. PICK end : end = i + PlanLength(r, q, i)
  OBVIOUS
<1>4. PICK rest, plan : rest = SubSeq(q, end, Len(q)) /\ plan = SubSeq(q, i, end - 1)
  OBVIOUS
<1>5. PICK s, request : s = [r EXCEPT !.segments = rest] /\ request = SegmentRequest(r, plan)
  OBVIOUS
<1>6. Dispatch(r) = IF i > Len(q) THEN [r EXCEPT !.segments = << >>] ELSE Submit(s, request)
  BY <1>1, <1>2, <1>3, <1>4, <1>5 DEF Dispatch, InFlight
<1>7. /\ r.segments \in Seq(Segment) /\ InLine(r.segments) /\ Len(r.segments) \in Nat
      /\ DOMAIN r.segments = 1..Len(r.segments)
      /\ \A j \in DOMAIN r.segments :
           r.segments[j].id < b.next /\ HeardBefore(r, r.segments[j].id)
  BY QueueIs DEF Good, Sound, Typed, Spoken
<1>8. PICK d \in {0, 1} :
        /\ q \in Seq(Segment) /\ InLine(q) /\ DOMAIN q = 1..Len(q) /\ Len(q) \in Nat
        /\ \A j \in DOMAIN q : j + d \in DOMAIN r.segments /\ q[j] = r.segments[j + d]
        /\ r.finalization # NoTurn => d = 0 /\ q = r.segments
  <2>1. CASE q = r.segments
    <3>1. \A j \in DOMAIN q : j + 0 = j
      BY <1>7, <2>1
    <3> QED BY <1>7, <2>1, <3>1
  <2>2. CASE Len(r.segments) >= 2 /\ q = From(r.segments, 2) /\ r.segments[1].previous = 0
    <3>1. 2 \in 1..(Len(r.segments) + 1)
      BY <1>7, <2>2
    <3>2. /\ q \in Seq(Segment) /\ InLine(q)
          /\ \A j \in DOMAIN q : 2 + j - 1 \in DOMAIN r.segments /\ q[j] = r.segments[2 + j - 1]
      BY <1>7, <2>2, <3>1, RestInLine
    <3>3. DOMAIN q = 1..Len(q) /\ Len(q) \in Nat
      BY <3>2
    <3>4. \A j \in DOMAIN q : 2 + j - 1 = j + 1
      BY <3>3
    <3>5. \A j \in DOMAIN q : j + 1 \in DOMAIN r.segments /\ q[j] = r.segments[j + 1]
      BY <3>2, <3>4
    <3>6. r.finalization = NoTurn
      BY <2>2, AwaitedChild DEF NoTurn
    <3> QED BY <3>2, <3>3, <3>5, <3>6
  <2> QED BY <1>1, <1>7, <2>1, <2>2, DropIs
<1>9. \A j \in DOMAIN q : q[j].id < b.next /\ HeardBefore(r, q[j].id)
  BY <1>7, <1>8
<1>10. i \in 1..(Len(q) + 1)
  BY <1>2, <1>8, NextPlanIs
<1>11. CASE i > Len(q)
  <2>1. << >> \in Seq(Segment) /\ DOMAIN << >> = {} /\ 0 \in Nat
    OBVIOUS
  <2>2. Owed([r EXCEPT !.segments = << >>], b)
    BY <2>1, RestShorter
  <2> QED BY <1>6, <1>11, <2>2
<1>12. CASE ~(i > Len(q))
  <2>1. i \in 1..Len(q) /\ i \in Nat /\ Len(q) >= 1
    BY <1>8, <1>10, <1>12
  <2>2. end \in (i + 1)..(Len(q) + 1) /\ end \in Nat
    BY <1>3, <1>8, <2>1, PlanLengthIs
  <2>3. /\ rest \in Seq(Segment) /\ InLine(rest)
        /\ \A j \in DOMAIN rest : end + j - 1 \in DOMAIN q /\ rest[j] = q[end + j - 1]
    <3>1. end \in 1..(Len(q) + 1)
      BY <1>8, <2>1, <2>2
    <3>2. rest = From(q, end)
      BY <1>4 DEF From
    <3> QED BY <1>8, <3>1, <3>2, RestInLine
  <2>4. /\ plan \in Seq(Segment) /\ Len(plan) = end - i
        /\ \A j \in 1..(end - i) : plan[j] = q[i + j - 1]
    <3>1. q \in Seq(Segment) /\ i \in 1..Len(q) /\ end \in (i + 1)..(Len(q) + 1)
      BY <1>8, <2>1, <2>2
    <3> QED BY <1>4, <3>1, PlanIs
  <2>5. \A j \in DOMAIN rest :
          /\ j \in Nat /\ j >= 1
          /\ j + (end - 1 + d) \in DOMAIN r.segments /\ rest[j] = r.segments[j + (end - 1 + d)]
    <3> SUFFICES ASSUME NEW j \in DOMAIN rest
                 PROVE  /\ j \in Nat /\ j >= 1
                        /\ j + (end - 1 + d) \in DOMAIN r.segments
                        /\ rest[j] = r.segments[j + (end - 1 + d)]
      OBVIOUS
    <3>1. j \in Nat /\ j >= 1
      BY <2>3
    <3>2. /\ (end + j - 1) + d \in DOMAIN r.segments
          /\ rest[j] = r.segments[(end + j - 1) + d]
      BY <1>8, <2>3
    <3>3. (end + j - 1) + d = j + (end - 1 + d)
      BY <2>2, <3>1
    <3> QED BY <3>1, <3>2, <3>3
  <2>6. end - 1 + d \in Nat
    BY <2>1, <2>2
  <2>7. Owed(s, b)
    BY <1>5, <2>3, <2>5, <2>6, RestShorter
  <2>8. Good(s, b)
    BY <1>5, <1>9, <2>3, GoodSegments
  <2>9. ~s.up => Submit(s, request) = s
    BY DEF Submit
  <2>10. /\ s.segments = rest /\ s.newTurns = r.newTurns /\ s.nextTurn = r.nextTurn
         /\ s.openTurn = r.openTurn /\ s.finalization = r.finalization /\ s.turns = r.turns
         /\ s.inFlight = NoRequest
    BY <1>5 DEF Good, Consistent, Fields
  <2>11. r.finalization # NoTurn => i = 1
    <3> SUFFICES ASSUME r.finalization # NoTurn PROVE i = 1
      OBVIOUS
    <3>1. q = r.segments
      BY <1>8
    <3>2. /\ r.segments[1].previous = r.finalization
          /\ r.finalization \in DOMAIN r.turns /\ r.finalization >= 1
          /\ r.confirmed < r.segments[1].to
      BY AwaitedChild
    <3>3. PICK stop : stop = 1 + PlanLength(r, q, 1)
      OBVIOUS
    <3>4. 1 \in 1..Len(q) /\ stop \in 2..(Len(q) + 1)
      BY <1>8, <2>1, <3>3, PlanLengthIs
    <3>5. q[1].to <= q[stop - 1].to /\ stop - 1 \in DOMAIN q /\ 1 \in DOMAIN q
      <4>1. stop - 1 \in DOMAIN q /\ 1 \in DOMAIN q /\ (stop - 1 = 1 \/ 1 < stop - 1)
        BY <1>8, <3>4
      <4>2. q[1].to \in Int
        BY <3>1, <4>1, QueueIs
      <4>3. 1 < stop - 1 => q[1].to <= q[stop - 1].to
        BY <3>1, <4>1 DEF Owed, Ledger, Lined
      <4> QED BY <4>1, <4>2, <4>3
    <3>6. ~(q[stop - 1].to <= r.confirmed)
      <4>1. q[1].to \in Int /\ q[stop - 1].to \in Int /\ r.confirmed \in Int
        BY <3>1, <3>5, QueueIs, TurnsAre
      <4> QED BY <3>1, <3>2, <3>5, <4>1
    <3>7. ProjectedTurn(r, q[1]) \notin r.finalized
      <4>1. q[1].previous # 0
        BY <3>1, <3>2
      <4>2. ProjectedTurn(r, q[1]) \in DOMAIN r.turns
        BY <3>1, <3>2, <4>1, TurnsAre DEF ProjectedTurn, SegmentTurn
      <4>3. \A t \in DOMAIN r.turns : t \notin r.finalized
        BY TurnsAre DEF Good, Consistent
      <4> QED BY <4>2, <4>3
    <3>8. ~PlanIsDropped(r, q[1], q[stop - 1])
      BY <3>6, <3>7 DEF PlanIsDropped
    <3> QED BY <1>2, <1>8, <2>1, <3>3, <3>8, FirstPlanIsNext
  <2>12. PICK a \in Nat, e \in Nat : a = i + d /\ e = end - 1 + d
    <3>1. i + d \in Nat /\ end - 1 + d \in Nat
      BY <2>1, <2>6
    <3> QED BY <3>1
  <2>13. a >= 1 /\ a <= e /\ Len(plan) = e - a + 1 /\ e - a + 1 = end - i
    BY <2>1, <2>2, <2>4, <2>12
  <2>14. \A j \in 1..(e - a + 1) : a + j - 1 \in DOMAIN r.segments /\ plan[j] = r.segments[a + j - 1]
    <3> SUFFICES ASSUME NEW j \in 1..(end - i)
                 PROVE  a + j - 1 \in DOMAIN r.segments /\ plan[j] = r.segments[a + j - 1]
      BY <2>13
    <3>1. i + j - 1 \in DOMAIN q /\ (i + j - 1) + d = a + j - 1
      BY <1>8, <2>1, <2>2, <2>12
    <3> QED BY <1>8, <2>4, <3>1
  <2>15. \A j \in DOMAIN s.segments :
           \E k \in DOMAIN r.segments : e < k /\ s.segments[j] = r.segments[k]
    <3> SUFFICES ASSUME NEW j \in DOMAIN rest
                 PROVE  \E k \in DOMAIN r.segments : e < k /\ rest[j] = r.segments[k]
      BY <2>10
    <3>1. e < j + (end - 1 + d)
      BY <2>5, <2>12
    <3> QED BY <2>5, <3>1
  <2>16. r.finalization # NoTurn => a = 1 /\ ~QueueSettled(r, r.finalization)
    BY <1>8, <2>11, <2>12
  <2>17. Asked(s, request, b)
    <3>1. /\ a >= 1 /\ a <= e /\ plan \in Seq(Segment) /\ Len(plan) = e - a + 1
          /\ s.newTurns = r.newTurns /\ s.nextTurn = r.nextTurn /\ s.openTurn = r.openTurn
          /\ s.finalization = r.finalization /\ s.turns = r.turns
          /\ request = SegmentRequest(r, plan)
      BY <1>5, <2>4, <2>10, <2>13
    <3> QED BY <2>14, <2>15, <2>16, <3>1, PlanAsked
  <2>18. s.up => Owed(Submit(s, request), b)
    BY <2>7, <2>8, <2>10, <2>17, NothingAsked, SubmitOwed DEF Owed
  <2> QED BY <1>6, <1>12, <2>7, <2>9, <2>18
<1> QED BY <1>11, <1>12

-----------------------------------------------------------------------------
(* The turn check. *)

LEMMA CheckedOwed ==
  ASSUME NEW r, NEW b, Consistent(r), Owed(r, b)
  PROVE  Owed(Checked(r), b)
<1>1. PICK s : s = Checked(r)
  OBVIOUS
<1>2. /\ s.segments = r.segments /\ s.newTurns = r.newTurns /\ s.nextTurn = r.nextTurn
      /\ s.confirmed = r.confirmed /\ s.openTurn = r.openTurn
      /\ s.finalization = r.finalization /\ s.turnCheck = NoCheck
      /\ s.inFlight = r.inFlight /\ s.turns = r.turns /\ SameTimer(r, s)
  BY <1>1 DEF Checked, Consistent, Fields, SameTimer
<1>3. Alike(r, s)
  BY <1>2 DEF Alike
<1> QED BY <1>1, <1>2, <1>3, AlikeOwed

\* An interim is promoted in front of the queue.
LEMMA PromoteOwed ==
  ASSUME NEW r, NEW b, NEW x, NEW k, Good(r, b), Owed(r, b), r.inFlight = NoRequest,
         k = PromotableInterim(r, x), k # 0,
         r.finalization # NoTurn => ~QueueSettled(r, r.finalization)
  PROVE  Owed(Promote(r, k), b)
<1>1. PICK q : q = r.segments
  OBVIOUS
<1>2. PICK p : p = Promoted(q, k)
  OBVIOUS
<1>3. PICK s : s = [r EXCEPT !.segments = p]
  OBVIOUS
<1>4. Promote(r, k) = Dispatch(s)
  BY <1>1, <1>2, <1>3, Zenon DEF Promote, Promoted
<1>5. /\ q \in Seq(Segment) /\ InLine(q) /\ Len(q) \in Nat /\ DOMAIN q = 1..Len(q)
      /\ \A j \in DOMAIN q : q[j].id < b.next /\ HeardBefore(r, q[j].id)
  BY <1>1, QueueIs DEF Good, Sound, Typed, Spoken
<1>6. k \in 1..Len(q) /\ \A i \in 1..(k - 1) : Covers(q[k], q[i])
  BY <1>1, <1>5, PromotableIs
<1>7. /\ p \in Seq(Segment) /\ InLine(p)
      /\ \A i \in DOMAIN p :
           /\ k + i - 1 \in DOMAIN q /\ p[i].id = q[k + i - 1].id
           /\ p[i].previous = q[k + i - 1].previous /\ p[i].to = q[k + i - 1].to
  BY <1>2, <1>5, <1>6, PromotedInLine
<1>8. \A i \in DOMAIN p : p[i].id < b.next /\ HeardBefore(r, p[i].id)
  BY <1>5, <1>7
<1>9. Good(s, b)
  BY <1>3, <1>7, <1>8, GoodSegments
<1>10. k - 1 \in Nat /\ \A i \in DOMAIN p : k + i - 1 = i + (k - 1)
  <2>1. \A i \in DOMAIN p : i \in Nat
    BY <1>7
  <2> QED BY <1>5, <1>6, <2>1
<1>11. Owed(s, b)
  <2>1. \A i \in DOMAIN p :
          /\ i + (k - 1) \in DOMAIN r.segments
          /\ p[i].id = r.segments[i + (k - 1)].id
          /\ p[i].previous = r.segments[i + (k - 1)].previous
          /\ p[i].to = r.segments[i + (k - 1)].to
    BY <1>1, <1>7, <1>10
  <2>2. PICK n \in Nat : n = k - 1
    BY <1>10
  <2>3. p \in Seq(Segment)
    BY <1>7
  <2> QED BY <1>3, <2>1, <2>2, <2>3, RestShorter
<1>12. s.inFlight = NoRequest /\ s.finalization = r.finalization /\ s.segments = p
  BY <1>3 DEF Good, Consistent, Fields
<1>13. ASSUME r.finalization # NoTurn PROVE ~QueueSettled(s, s.finalization)
  <2>1. PICK t : t = r.finalization
    OBVIOUS
  <2>2. t \in Nat /\ t >= 1 /\ q[1].previous = t /\ Len(q) >= 1
    BY <1>1, <1>13, <2>1, AwaitedChild, TurnsAre
  <2>3. 1 \in 1..Len(q) /\ q[1].id \in Nat /\ q[1].id = t + 1 /\ SegmentTurn(q[1]) = t
    <3>1. 1 \in DOMAIN q
      BY <1>5, <2>2
    <3>2. q[1].id \in Nat /\ q[1].previous \in {0, q[1].id - 1}
      BY <1>1, <3>1, QueueIs
    <3> QED BY <1>5, <2>2, <3>1, <3>2 DEF SegmentTurn
  <2>4. k = 1
    <3> SUFFICES ASSUME k # 1 PROVE FALSE
      OBVIOUS
    <3>1. 1 \in 1..(k - 1) /\ 1 < k
      BY <1>5, <1>6
    <3>2. SegmentTurn(q[k]) = t
      BY <1>6, <2>3, <3>1 DEF Covers
    <3>3. q[1].id < q[k].id /\ q[k].id \in Nat
          /\ SegmentTurn(q[k]) = IF q[k].previous = 0 THEN q[k].id ELSE q[k].id - 1
      BY <1>1, <1>5, <1>6, <2>3, <3>1, QueueIs
    <3> QED BY <2>2, <2>3, <3>2, <3>3
  <2>5. PICK n \in Nat : n = Len(p)
    BY <1>7
  <2>6. 1 \in DOMAIN p
    <3>1. p = Promoted(q, 1)
      BY <1>2, <2>4
    <3>2. PICK first, c : /\ first = [q[1] EXCEPT !.reason = "EndSilenceReached"]
                          /\ c = SubSeq(q, 1 + 1, Len(q))
      OBVIOUS
    <3>3. Promoted(q, 1) = <<first>> \o c
      BY <3>2 DEF Promoted
    <3>4. c \in Seq(Segment)
      BY <1>5, <2>3, <3>2
    <3> QED BY <3>1, <3>3, <3>4
  <2>7. p[1].previous = t
    <3>1. p[1].previous = q[k + 1 - 1].previous
      BY <1>7, <2>6
    <3>2. k + 1 - 1 = 1
      BY <2>4
    <3> QED BY <2>2, <3>1, <3>2
  <2>8. SegmentTurn(p[1]) = t
    BY <2>2, <2>7 DEF SegmentTurn
  <2> QED BY <1>12, <2>1, <2>2, <2>6, <2>8 DEF QueueSettled
<1> QED BY <1>4, <1>9, <1>11, <1>12, <1>13, DispatchOwed

\* The open turn ends with what the silence of the check followed.
LEMMA CheckResolving ==
  ASSUME NEW r, NEW b, NEW t, Good(r, b), Owed(r, b), r.inFlight = NoRequest,
         r.turnCheck # NoCheck, t = r.openTurn, t # NoTurn,
         r.turns[t].latest = r.turnCheck.previous
  PROVE  t \in DOMAIN r.turns /\ Resolving(r, t, b) /\ QueueSettled(r, t)
<1>1. t \in DOMAIN r.turns /\ t \in Nat /\ t >= 1 /\ t < r.nextTurn
  BY TurnsAre
<1>2. PICK a : a = r.turnCheck.previous
  OBVIOUS
<1>3. /\ Beyond(b, a) /\ \A i \in DOMAIN r.segments : r.segments[i].previous # a
      /\ a = r.turns[t].latest
  BY <1>2 DEF Owed, Ledger, CheckEnds
<1>4. a \in Ids(r.turns[t].audio) /\ t <= a /\ a \in Nat
  BY <1>1, <1>3, TurnsAre DEF Owed, Ledger, Numbered, Turn
<1>5. Beyond(b, t)
  <2>1. b.chain \in Nat
    BY DEF Good, PlaceOK, Turn
  <2> QED BY <1>1, <1>3, <1>4, <2>1 DEF Beyond
<1>6. QueueSettled(r, t)
  <2> SUFFICES ASSUME ~QueueSettled(r, t) PROVE FALSE
    OBVIOUS
  <2>1. Len(r.segments) >= 1 /\ r.segments[1].id = t + 1 /\ r.segments[1].previous = t
    BY <1>1, QueueTurns DEF Owed, Ledger
  <2>2. 1 \in DOMAIN r.segments
    BY <2>1, QueueIs
  <2>3. a < t + 1
    <3>1. HeardBefore(r, r.segments[1].id)
      BY <2>2 DEF Good, Sound, Spoken
    <3> QED BY <1>1, <1>4, <2>1, <3>1 DEF HeardBefore
  <2> QED BY <1>1, <1>3, <1>4, <2>1, <2>2, <2>3
<1>7. CoveredAbove(r, t)
  <2>1. \A u \in DOMAIN r.turns : ~(u <= NoTurn)
    BY TurnsAre DEF NoTurn
  <2> QED BY <2>1 DEF Owed, CoveredAbove
<1>8. r.finalization # NoTurn => t <= r.finalization
  BY DEF Owed, Ledger, Deferred
<1> QED BY <1>1, <1>5, <1>6, <1>7, <1>8 DEF Resolving, Owed

LEMMA CheckOpenTurnOwed ==
  ASSUME NEW r, NEW b, NEW t, Good(r, b), Owed(r, b), r.inFlight = NoRequest,
         t \in DOMAIN r.turns, Resolving(r, t, b), QueueSettled(r, t)
  PROVE  Owed(CheckOpenTurn(r, t), b)
<1>1. PICK purpose, c, q : /\ purpose = CompletionPurpose(r) /\ c = CompleteTurn(r, t)
                           /\ q = Rerecognize(r, t, purpose)
  OBVIOUS
<1>2. \/ CheckOpenTurn(r, t) \in {Checked(c), r}
      \/ CanRerecognize(r, t) /\ CheckOpenTurn(r, t) = Checked(q)
  BY <1>1 DEF CheckOpenTurn
<1>3. t \in Nat
  BY TurnsAre
<1>4. Consistent(c) /\ Consistent(q)
  <2>1. Consistent(c)
    BY <1>1, <1>3, CompleteMoves DEF Moves, Good
  <2>2. Quiet(r, q)
    BY <1>1, RerecognizeQuiet DEF Good
  <2> QED BY <2>1, <2>2, QuietKeeps DEF Good
<1>5. Owed(c, b)
  BY <1>1, CompleteOwed
<1>6. CanRerecognize(r, t) => Owed(q, b)
  BY <1>1, RerecognizeOwed DEF CanRerecognize
<1> QED BY <1>2, <1>4, <1>5, <1>6, CheckedOwed

LEMMA TurnCheckOwed ==
  ASSUME NEW r, NEW b, Good(r, b), Owed(r, b), r.turnCheck # NoCheck,
         r.finalization # NoTurn => FinalizationIsBlocked(r, r.finalization)
  PROVE  Owed(HandleTurnCheck(r), b)
<1>1. PICK t, k : t = r.openTurn /\ k = PromotableInterim(r, r.turnCheck.previous)
  OBVIOUS
<1>2. PICK s : s = Promote(r, k)
  OBVIOUS
<1>3. \/ HandleTurnCheck(r) \in {r, Checked(r)}
      \/ ~InFlight(r) /\ k # 0 /\ HandleTurnCheck(r) \in {s, Checked(s)}
      \/ /\ ~InFlight(r) /\ t # NoTurn /\ r.turns[t].latest = r.turnCheck.previous
         /\ HandleTurnCheck(r) = CheckOpenTurn(r, t)
  BY <1>1, <1>2 DEF HandleTurnCheck
<1>4. ASSUME ~InFlight(r), k # 0 PROVE Owed(s, b) /\ Consistent(s)
  <2>1. r.inFlight = NoRequest
    BY <1>4 DEF InFlight
  <2>2. ASSUME r.finalization # NoTurn PROVE ~QueueSettled(r, r.finalization)
    <3>1. PICK i \in DOMAIN r.segments : SegmentTurn(r.segments[i]) <= r.finalization
      BY <1>4, <2>2 DEF FinalizationIsBlocked
    <3>2. SegmentTurn(r.segments[i]) \in Nat /\ r.finalization \in Nat
      BY QueueIs, TurnsAre
    <3> QED BY <3>1, <3>2 DEF QueueSettled
  <2>3. Owed(s, b)
    BY <1>1, <1>2, <1>4, <2>1, <2>2, PromoteOwed
  <2>4. Quiet(r, s)
    BY <1>2, PromoteQuiet DEF Good
  <2> QED BY <2>3, <2>4, QuietKeeps DEF Good
<1>5. ASSUME ~InFlight(r), t # NoTurn, r.turns[t].latest = r.turnCheck.previous
      PROVE  Owed(CheckOpenTurn(r, t), b)
  <2>1. r.inFlight = NoRequest
    BY <1>5 DEF InFlight
  <2>2. t \in DOMAIN r.turns /\ Resolving(r, t, b) /\ QueueSettled(r, t)
    BY <1>1, <1>5, <2>1, CheckResolving
  <2> QED BY <2>1, <2>2, CheckOpenTurnOwed
<1>6. Owed(r, b) /\ Owed(Checked(r), b)
  BY CheckedOwed DEF Good
<1> QED BY <1>3, <1>4, <1>5, <1>6, CheckedOwed

-----------------------------------------------------------------------------
(* The origin of the timeout, and dispatch. *)

LEMMA RefreshOwed ==
  ASSUME NEW r, NEW b, Good(r, b), Owed(r, b),
         r.finalization # NoTurn => FinalizationIsBlocked(r, r.finalization)
  PROVE  Owed(Dispatch(RefreshTimeout(r, b.tick)), b)
<1>1. PICK s : s = RefreshTimeout(r, b.tick)
  OBVIOUS
<1>2. Good(s, b)
  <2>1. Sound(s, b) /\ Consistent(s)
    BY <1>1, OriginSound, OriginQuiet, QuietKeeps DEF RefreshTimeout, Good, PlaceOK
  <2> QED BY <2>1 DEF Good
<1>3. /\ s.segments = r.segments /\ s.newTurns = r.newTurns /\ s.nextTurn = r.nextTurn
      /\ s.confirmed = r.confirmed /\ s.openTurn = r.openTurn
      /\ s.finalization = r.finalization /\ s.turnCheck = r.turnCheck
      /\ s.inFlight = r.inFlight /\ s.turns = r.turns
      /\ s = r \/ s.openSince = b.tick
  BY <1>1 DEF RefreshTimeout, ResetTimeoutOrigin, Good, Consistent, Fields
<1>4. Owed(s, b)
  <2>1. Alike(r, s)
    BY <1>3 DEF Alike
  <2>2. Rested(s, b)
    BY <1>3, JustRested DEF Owed, Ledger, Good
  <2>3. Ledger(s, b)
    BY <2>1, <2>2, AlikeLedger DEF Owed
  <2>4. CoveredAbove(s, NoTurn)
    BY <1>3, <2>1, AlikeCovered DEF Owed
  <2> QED BY <2>3, <2>4 DEF Owed
<1>5. CASE InFlight(s)
  BY <1>1, <1>4, <1>5 DEF Dispatch
<1>6. CASE ~InFlight(s)
  <2>1. s.inFlight = NoRequest /\ ~InFlight(r)
    BY <1>3, <1>6 DEF InFlight
  <2>2. ASSUME s.finalization # NoTurn PROVE ~QueueSettled(s, s.finalization)
    <3>1. PICK i \in DOMAIN r.segments : SegmentTurn(r.segments[i]) <= r.finalization
      BY <1>3, <2>1, <2>2 DEF FinalizationIsBlocked
    <3>2. SegmentTurn(r.segments[i]) \in Nat /\ r.finalization \in Nat
      BY QueueIs, TurnsAre
    <3> QED BY <1>3, <3>1, <3>2 DEF QueueSettled
  <2> QED BY <1>1, <1>2, <1>4, <2>1, <2>2, DispatchOwed
<1> QED BY <1>5, <1>6

(* The timeout of an open turn. *)

LEMMA TimeoutOwed ==
  ASSUME NEW r, NEW b, Good(r, b), Owed(r, b), r.openTurn # NoTurn,
         r.finalization # NoTurn => FinalizationIsBlocked(r, r.finalization),
         r.turn.detector # "Simple" => b.chain = NoSegment
  PROVE  Owed(TimeoutOpenTurn(r), b)
<1>1. PICK t : t = r.openTurn
  OBVIOUS
<1>2. CASE r.turn.detector # "Simple" /\ CanRerecognize(r, t)
  <2>1. r.inFlight = NoRequest /\ r.up /\ t \in DOMAIN r.turns
    BY <1>2 DEF CanRerecognize, InFlight
  <2>2. t \in Nat /\ r.finalization \in Nat
    BY <1>1, TurnsAre
  <2>3. CoveredAbove(r, t)
    <3>1. \A u \in DOMAIN r.turns : ~(u <= NoTurn)
      BY TurnsAre DEF NoTurn
    <3> QED BY <3>1 DEF Owed, CoveredAbove
  <2>4. r.finalization # NoTurn => t <= r.finalization
    BY <1>1 DEF Owed, Ledger, Deferred
  <2>5. Beyond(b, t)
    BY <1>2 DEF Beyond
  <2>6. Resolving(r, t, b)
    BY <1>1, <2>1, <2>2, <2>3, <2>4, <2>5 DEF Resolving, Owed
  <2>7. Owed(Rerecognize(r, t, "TimeoutFinal"), b)
    BY <2>1, <2>6, RerecognizeOwed
  <2>8. TimeoutOpenTurn(r) = Rerecognize(r, t, "TimeoutFinal")
    BY <1>1, <1>2 DEF TimeoutOpenTurn
  <2> QED BY <2>7, <2>8
<1>3. CASE ~(r.turn.detector # "Simple" /\ CanRerecognize(r, t))
  <2>1. TimeoutOpenTurn(r) = CompleteTurn(r, r.openTurn)
    BY <1>1, <1>3 DEF TimeoutOpenTurn
  <2> QED BY <2>1, CompleteOpenOwed
<1> QED BY <1>2, <1>3

-----------------------------------------------------------------------------
(* The pauses of the builder. *)

LEMMA ConfigsAre ==
  ASSUME NEW c \in Configs
  PROVE  /\ c.start \in Nat /\ c.start >= 1 /\ c.interim \in Nat
         /\ c.turnCheck \in Nat /\ c.turnCheck >= 1
         /\ c.timeout \in Nat /\ c.timeout >= 1
  BY ConfigsAssumption DEF SegmentBuilderConfig

LEMMA LongestIs ==
  ASSUME PauseEndsFirst
  PROVE  /\ \E c \in Configs : LongestStart = c.start
         /\ LongestStart \in Nat /\ LongestStart >= 1
         /\ \A c \in Configs : c.start <= LongestStart
<1>1. PICK f : f \in Configs
  BY ConfigsAssumption
<1>2. PICK n \in Nat : n = f.timeout
  BY <1>1, ConfigsAre
<1>3. PICK S : S = {c.start : c \in Configs}
  OBVIOUS
<1>4. S \in SUBSET (1..n) /\ S # {}
  <2>1. \A c \in Configs : c.start \in 1..n
    BY <1>1, <1>2, ConfigsAre DEF PauseEndsFirst
  <2> QED BY <1>1, <1>3, <2>1
<1>5. Max(S) \in S /\ \A y \in S : y <= Max(S)
  BY <1>2, <1>4, GreatestIn
<1>6. LongestStart = Max(S)
  BY <1>3 DEF LongestStart
<1>7. PICK c \in Configs : LongestStart = c.start
  BY <1>3, <1>5, <1>6
<1>8. LongestStart \in Nat /\ LongestStart >= 1
  BY <1>7, ConfigsAre
<1>9. \A d \in Configs : d.start <= LongestStart
  BY <1>3, <1>5, <1>6
<1> QED BY <1>7, <1>8, <1>9

LEMMA ShortestIs ==
  ASSUME NEW c \in Configs, c.interim # 0
  PROVE  /\ \E e \in Configs : ShortestInterim = e.interim /\ e.interim # 0
         /\ ShortestInterim \in Nat /\ ShortestInterim <= c.interim
<1>1. PICK S : S = {e.interim : e \in Configs} \ {0}
  OBVIOUS
<1>2. S \in SUBSET Nat /\ c.interim \in S
  BY <1>1, ConfigsAre
<1>3. Min(S) \in S /\ \A x \in S : Min(S) <= x
  BY <1>2, LeastOf
<1>4. ShortestInterim = Min(S)
  BY <1>1 DEF ShortestInterim
<1>5. PICK e \in Configs : ShortestInterim = e.interim /\ e.interim # 0
  BY <1>1, <1>3, <1>4
<1>6. ShortestInterim \in Nat
  BY <1>5, ConfigsAre
<1> QED BY <1>2, <1>3, <1>4, <1>5, <1>6

LEMMA TimesGrows ==
  ASSUME NEW a \in Nat, NEW x \in Int, NEW y \in Int, x <= y
  PROVE  a * x <= a * y
<1>1. a * y = a * x + a * (y - x)
  OBVIOUS
<1>2. y - x \in Nat
  OBVIOUS
<1>3. a * (y - x) \in Nat
  BY <1>2
<1>4. a * x \in Int
  OBVIOUS
<1> QED BY <1>1, <1>3, <1>4

\* A pause that ends first is shorter than the timeout.
LEMMA PauseIsShort ==
  ASSUME NEW st, st \in IdleStates \union WaitingStates, PauseOK(st), PauseEndsFirst,
         NEW f \in Configs
  PROVE  PauseOf(st) \in Nat /\ PauseOf(st) < f.timeout
<1>1. PICK p \in Nat : p = Len(st.pending)
  <2>1. st.pending \in Seq(Chunk)
    BY DEF IdleStates, WaitingStates
  <2> QED BY <2>1
<1>2. PICK c \in Configs : LongestStart = c.start
  BY LongestIs
<1>3. PICK a \in Nat : a = c.start
  BY ConfigsAre
<1>4. PICK n \in Nat : n = f.timeout
  BY ConfigsAre
<1>5. p < a
  BY <1>1, <1>2, <1>3 DEF PauseOK, IdleStates, WaitingStates
<1>6. CASE st.kind # "AfterInterimSilence"
  <2>1. a <= n
    BY <1>2, <1>3, <1>4 DEF PauseEndsFirst
  <2>2. PauseOf(st) = p
    BY <1>1, <1>6 DEF PauseOf
  <2> QED BY <1>4, <1>5, <2>1, <2>2
<1>7. CASE st.kind = "AfterInterimSilence"
  <2>1. PICK e \in Configs : ShortestInterim = e.interim /\ e.interim # 0
    <3>1. PICK h \in Configs : h.interim # 0
      BY <1>7 DEF PauseOK
    <3> QED BY <3>1, ShortestIs
  <2>2. PICK d \in Configs : st.silence < d.turnCheck
    BY <1>7 DEF PauseOK
  <2>3. PICK s \in Nat, i \in Nat, m \in Nat : s = st.silence /\ i = e.interim /\ m = d.turnCheck
    <3>1. st.silence \in Nat
      BY <1>7 DEF IdleStates, WaitingStates
    <3> QED BY <3>1, ConfigsAre
  <2>4. i <= s /\ s < m
    BY <1>7, <2>1, <2>2, <2>3 DEF PauseOK
  <2>5. a * (m - i) <= n
    <3>1. c.start * (d.turnCheck - e.interim) <= f.timeout
      BY <2>1 DEF PauseEndsFirst
    <3> QED BY <1>3, <1>4, <2>3, <3>1
  <2>6. PauseOf(st) = p + a * (s - i)
    BY <1>1, <1>2, <1>3, <1>7, <2>1, <2>3 DEF PauseOf
  <2>7. PICK x \in Nat : x = a * (s - i)
    <3>1. s - i \in Nat
      BY <2>4
    <3> QED BY <3>1
  <2>8. a * (s - i + 1) = x + a
    BY <2>7
  <2>9. a * (s - i + 1) <= a * (m - i)
    BY <2>4, TimesGrows
  <2>10. PICK y \in Int, z \in Int : y = a * (s - i + 1) /\ z = a * (m - i)
    OBVIOUS
  <2>11. y = x + a /\ y <= z /\ z <= n
    BY <2>5, <2>8, <2>9, <2>10
  <2>12. p + x < n /\ p + x \in Nat
    BY <1>5, <2>11
  <2> QED BY <1>4, <2>6, <2>7, <2>12
<1> QED BY <1>6, <1>7

LEMMA PlaceIs ==
  ASSUME BuilderOK, PauseOK(state)
  PROVE  /\ PlaceOK(Place)
         /\ Place.next = Position.next /\ Place.tick = frames
         /\ Place.active = Position.active
         /\ Place.chain = Chain /\ Place.pausing = Pausing
         /\ Pausing => Place.pause = PauseOf(state)
<1>1. /\ Place.next = Position.next /\ Place.tick = frames
      /\ Place.active = Position.active
      /\ Place.chain = Chain /\ Place.pausing = Pausing
      /\ Place.pause = IF Pausing THEN PauseOf(state) ELSE 0
  BY DEF Place
<1>2. Place.next \in Turn /\ Place.tick \in Nat /\ Place.active \in BOOLEAN
  BY <1>1, BuilderIs DEF Position
<1>3. Chain \in {0, Position.next - 1}
  <2>1. CASE state.kind = "Idle"
    BY <2>1 DEF Chain, Position, BuilderOK
  <2>2. CASE state.kind = "AfterInterimSilence"
    BY <2>2 DEF Chain, Position, BuilderOK
  <2>3. CASE state.kind = "Active"
    BY <2>3 DEF Chain, Position, BuilderOK
  <2> QED BY <2>1, <2>2, <2>3, BuilderIs
<1>4. Pausing \in BOOLEAN
  BY DEF Pausing, PauseEndsFirst
<1>5. Place.pause \in Nat
  <2>1. CASE Pausing
    <3>1. PauseEndsFirst /\ state.kind # "Active"
      BY <2>1 DEF Pausing
    <3>2. config \in Configs /\ state \in IdleStates \union WaitingStates
      BY <3>1, BuilderIs DEF BuilderOK
    <3>3. PauseOf(state) \in Nat
      BY <3>1, <3>2, PauseIsShort
    <3> QED BY <1>1, <2>1, <3>3
  <2>2. CASE ~Pausing
    BY <1>1, <2>2
  <2> QED BY <2>1, <2>2
<1> QED BY <1>1, <1>2, <1>3, <1>4, <1>5 DEF PlaceOK

\* While a pause inside a chain goes on the open turn does not time out.
LEMMA NoTimeoutInChain ==
  ASSUME BuilderOK, PauseOK(state), PauseEndsFirst, NEW r, Good(r, Place), Rested(r, Place),
         OpenTurnTimedOut(r, Tick, TimeoutTicks)
  PROVE  Place.chain = NoSegment
<1>1. PICK since, tick, limit : /\ since = r.openSince /\ tick = frames
                                /\ limit = config.timeout
  OBVIOUS
<1>2. /\ r.openEpoch = r.epoch /\ since # NoTick /\ tick - since >= limit
  BY <1>1 DEF OpenTurnTimedOut, Tick, TimeoutTicks
<1>3. tick \in Nat /\ limit \in Nat /\ limit > 0 /\ since \in Nat
  <2>1. config.timeout \in Nat \ {0} /\ frames \in Nat
    BY BuilderIs, ConfigsAssumption DEF BuilderOK, SegmentBuilderConfig
  <2>2. r.openSince \in Nat \union {NoTick}
    BY DEF Good, Sound, Typed
  <2> QED BY <1>1, <1>2, <2>1, <2>2
<1>4. ~Place.active
  <2>1. Place.active /\ r.openEpoch = r.epoch => since \in {NoTick, tick}
    BY <1>1, PlaceIs DEF Good, Sound, OriginOK
  <2> QED BY <1>2, <1>3, <2>1
<1>5. state.kind # "Active"
  BY <1>4, PlaceIs, BuilderIs
<1> SUFFICES ASSUME Place.chain # NoSegment PROVE FALSE
  OBVIOUS
<1>6. Pausing
  BY <1>5, PlaceIs DEF Pausing
<1>7. tick - since <= PauseOf(state)
  BY <1>1, <1>2, <1>6, PlaceIs DEF Rested
<1>8. PauseOf(state) \in Nat /\ PauseOf(state) < limit
  <2>1. config \in Configs /\ state \in IdleStates \union WaitingStates
    BY <1>5, BuilderIs DEF BuilderOK
  <2> QED BY <1>1, <1>5, <2>1, PauseIsShort
<1> QED BY <1>2, <1>3, <1>7, <1>8

(* What a step of the builder does to the session: it goes from b to c. *)

Passes(evs, b, c) ==
  /\ b.tick <= c.tick /\ (c.tick = b.tick => ~c.active)
  /\ \A i \in DOMAIN evs : evs[i].type = "SegmentClosed" =>
       /\ b.active /\ evs[i].previous = b.chain
       /\ c.chain \in {0, b.next} /\ (c.active => c.chain = b.next)
  /\ (\A i \in DOMAIN evs : evs[i].type # "SegmentClosed") => c.chain \in {0, b.chain}
  /\ \A i \in DOMAIN evs : evs[i].type = "TurnCheckSilenceReached" =>
       /\ evs[i].previous = b.chain /\ b.chain = b.next - 1 /\ b.chain # NoSegment
       /\ c.chain = NoSegment
       /\ \A j \in DOMAIN evs : evs[j].type # "SegmentClosed"
  /\ c.pausing =>
       \/ \E i \in DOMAIN evs : evs[i].type \in {"SegmentStarted", "SegmentExtended"}
       \/ b.active /\ c.tick - b.tick <= c.pause
       \/ b.pausing /\ c.tick - b.tick <= c.pause - b.pause

\* What Absorb changes.
Absorbs(evs, r, s, cursor) ==
  /\ s.turn = r.turn /\ s.newTurns = r.newTurns /\ s.nextTurn = r.nextTurn
  /\ s.confirmed = r.confirmed
  /\ s.openTurn = r.openTurn /\ s.finalization = r.finalization /\ s.inFlight = r.inFlight
  /\ s.turns = r.turns /\ s.openEpoch = r.openEpoch /\ s.openSince = r.openSince
  /\ r.epoch <= s.epoch
  /\ \/ s.epoch > r.epoch
     \/ \A i \in DOMAIN evs : evs[i].type \notin {"SegmentStarted", "SegmentExtended"}
  /\ \/ (\A i \in DOMAIN evs : evs[i].type # "SegmentClosed") /\ s.segments = r.segments
     \/ \E i \in DOMAIN evs : \E g :
          /\ evs[i].type = "SegmentClosed" /\ g.id = evs[i].id /\ g.previous = evs[i].previous
          /\ g.to = cursor /\ s.segments = Append(r.segments, g)
  /\ \/ s.turnCheck = r.turnCheck
     \/ \E i \in DOMAIN evs : /\ evs[i].type = "TurnCheckSilenceReached"
                              /\ s.turnCheck.previous = evs[i].previous

LEMMA AbsorbIs ==
  ASSUME NEW r, NEW evs, NEW cursor \in Int, NEW b, NEW c, Consistent(r), Sound(r, b),
         EventsOK(evs, b, c)
  PROVE  Absorbs(evs, r, Absorb(r, evs, cursor), cursor)
<1> DEFINE active == {i \in DOMAIN evs : evs[i].type \in {"SegmentStarted", "SegmentExtended"}}
           closed == {i \in DOMAIN evs : evs[i].type = "SegmentClosed"}
           check  == {i \in DOMAIN evs : evs[i].type = "TurnCheckSilenceReached"}
           Pending(e) == [id |-> e.id, previous |-> e.previous, reason |-> e.reason,
                          from |-> cursor - Len(e.chunks), to |-> cursor]
           segment == Pending(evs[Min(closed)])
           reset == IF \E i \in closed : evs[i].reason = "EndSilenceReached"
                    THEN ResetStreamingSessions(r) ELSE r
           segments == IF closed = {} THEN r.segments ELSE Append(r.segments, segment)
           turnCheck == IF check = {} THEN r.turnCheck
                        ELSE [previous |-> evs[Min(check)].previous, epoch |-> r.epoch]
           s == Absorb(r, evs, cursor)
<1>1. /\ DOMAIN reset = Fields
      /\ reset.turn = r.turn /\ reset.segments = r.segments /\ reset.turnCheck = r.turnCheck
      /\ reset.inFlight = r.inFlight /\ reset.nextTurn = r.nextTurn
      /\ reset.turns = r.turns /\ reset.confirmed = r.confirmed
      /\ reset.openTurn = r.openTurn /\ reset.finalization = r.finalization
      /\ reset.newTurns = r.newTurns
      /\ reset.epoch = r.epoch /\ reset.openEpoch = r.openEpoch /\ reset.openSince = r.openSince
  <2>1. DOMAIN r = Fields
    BY DEF Consistent
  <2> HIDE DEF closed
  <2> QED BY <2>1 DEF ResetStreamingSessions, Fields
<1>2. s = [reset EXCEPT !.epoch = @ + Cardinality(active),
             !.segments = IF closed = {} THEN @ ELSE Append(@, segment),
             !.turnCheck = IF check = {} THEN @
                           ELSE [previous |-> evs[Min(check)].previous, epoch |-> r.epoch]]
  BY Zenon DEF Absorb
<1> HIDE DEF s, reset, segment, active, closed, check
<1>3. /\ s.turn = r.turn /\ s.segments = segments /\ s.turnCheck = turnCheck
      /\ s.inFlight = r.inFlight /\ s.nextTurn = r.nextTurn
      /\ s.turns = r.turns /\ s.confirmed = r.confirmed
      /\ s.openTurn = r.openTurn /\ s.finalization = r.finalization
      /\ s.newTurns = r.newTurns
      /\ s.epoch = r.epoch + Cardinality(active)
      /\ s.openEpoch = r.openEpoch /\ s.openSince = r.openSince
  BY <1>1, <1>2 DEF Fields
<1>4. Cardinality(active) \in Nat /\ (active # {} => Cardinality(active) > 0)
  <2>1. active \subseteq 1..Len(evs) /\ Len(evs) \in Nat
    BY DEF active, EventsOK
  <2>2. IsFiniteSet(active)
    <3>1. PICK m \in Nat : m = Len(evs)
      BY <2>1
    <3>2. IsFiniteSet(1..m)
      BY FS_Interval
    <3> QED BY <2>1, <3>1, <3>2, FS_Subset
  <2>3. Cardinality(active) \in Nat
    BY <2>2, FS_CardinalityType
  <2>4. active # {} => Cardinality(active) # 0
    BY <2>2, FS_EmptySet
  <2> QED BY <2>3, <2>4
<1>5. \/ (\A i \in DOMAIN evs : evs[i].type # "SegmentClosed") /\ s.segments = r.segments
      \/ \E i \in DOMAIN evs : \E g :
           /\ evs[i].type = "SegmentClosed" /\ g.id = evs[i].id /\ g.previous = evs[i].previous
           /\ g.to = cursor /\ s.segments = Append(r.segments, g)
  <2>1. CASE closed = {}
    BY <1>3, <2>1 DEF closed
  <2>2. CASE closed # {}
    <3>1. closed \in SUBSET Nat
      BY DEF closed, EventsOK
    <3>2. PICK m : m = Min(closed)
      OBVIOUS
    <3>3. m \in closed
      BY <2>2, <3>1, <3>2, LeastOf
    <3>4. m \in DOMAIN evs /\ evs[m].type = "SegmentClosed"
      BY <3>3 DEF closed
    <3>5. segment.id = evs[m].id /\ segment.previous = evs[m].previous /\ segment.to = cursor
      BY <3>2 DEF segment
    <3>6. s.segments = Append(r.segments, segment)
      BY <1>3, <2>2
    <3> QED BY <3>4, <3>5, <3>6
  <2> QED BY <2>1, <2>2
<1>6. \/ s.turnCheck = r.turnCheck
      \/ \E i \in DOMAIN evs : /\ evs[i].type = "TurnCheckSilenceReached"
                               /\ s.turnCheck.previous = evs[i].previous
  <2>1. CASE check = {}
    BY <1>3, <2>1
  <2>2. CASE check # {}
    <3>1. check \in SUBSET Nat
      BY DEF check, EventsOK
    <3>2. PICK m : m = Min(check)
      OBVIOUS
    <3>3. m \in check
      BY <2>2, <3>1, <3>2, LeastOf
    <3>4. m \in DOMAIN evs /\ evs[m].type = "TurnCheckSilenceReached"
      BY <3>3 DEF check
    <3>5. s.turnCheck.previous = evs[m].previous
      BY <1>3, <2>2, <3>2
    <3> QED BY <3>4, <3>5
  <2> QED BY <2>1, <2>2
<1>7. r.epoch \in Nat
  BY DEF Sound, Typed
<1>8. active = {} => \A i \in DOMAIN evs : evs[i].type \notin {"SegmentStarted", "SegmentExtended"}
  BY DEF active
<1>9. r.epoch <= s.epoch /\ (active # {} => s.epoch > r.epoch)
  BY <1>3, <1>4, <1>7
<1>10. Absorbs(evs, r, s, cursor)
  BY <1>3, <1>5, <1>6, <1>8, <1>9 DEF Absorbs
<1> QED BY <1>10 DEF s

\* The queue after the step.
Grown(r, s, b, c) ==
  /\ \A i \in DOMAIN r.segments : i \in DOMAIN s.segments /\ s.segments[i] = r.segments[i]
  /\ \A i \in DOMAIN s.segments :
       \/ i \in DOMAIN r.segments
       \/ /\ \A j \in DOMAIN s.segments : j <= i
          /\ s.segments[i].id = b.next /\ s.segments[i].previous = b.chain
          /\ s.segments[i].to = c.tick /\ b.active
          /\ c.active => c.chain = s.segments[i].id
  /\ \A i, j \in DOMAIN s.segments : i < j => i \in DOMAIN r.segments

LEMMA QueueGrows ==
  ASSUME NEW r, NEW s, NEW evs, NEW b, NEW c, Good(r, b), EventsOK(evs, b, c),
         Passes(evs, b, c), Absorbs(evs, r, s, c.tick)
  PROVE  Grown(r, s, b, c)
<1>1. PICK n \in Nat : n = Len(r.segments) /\ DOMAIN r.segments = 1..n
  BY QueueIs
<1>2. CASE s.segments = r.segments
  BY <1>1, <1>2 DEF Grown
<1>3. CASE s.segments # r.segments
  <2>0. PICK i \in DOMAIN evs : \E g :
          /\ evs[i].type = "SegmentClosed" /\ g.id = evs[i].id /\ g.previous = evs[i].previous
          /\ g.to = c.tick /\ s.segments = Append(r.segments, g)
    BY <1>3 DEF Absorbs
  <2>1. PICK g : /\ evs[i].type = "SegmentClosed"
                 /\ g.id = evs[i].id /\ g.previous = evs[i].previous
                 /\ g.to = c.tick /\ s.segments = Append(r.segments, g)
    BY <2>0
  <2>2. evs[i].id = b.next
    BY <2>1 DEF EventsOK, EventOK
  <2>3. evs[i].previous = b.chain /\ b.active /\ (c.active => c.chain = b.next)
    BY <2>1 DEF Passes
  <2>4. DOMAIN s.segments = 1..(n + 1) /\ s.segments[n + 1] = g
        /\ \A j \in 1..n : s.segments[j] = r.segments[j]
    BY <1>1, <2>1, QueueIs
  <2>5. \A j \in 1..(n + 1) : j \in 1..n \/ j = n + 1
    OBVIOUS
  <2>6. \A j, k \in 1..(n + 1) : j < k => j \in 1..n
    OBVIOUS
  <2>7. \A j \in 1..n : j \in 1..(n + 1)
    OBVIOUS
  <2>8. \A j \in 1..(n + 1) : j <= n + 1
    OBVIOUS
  <2>9. ASSUME NEW j \in DOMAIN s.segments, j \notin DOMAIN r.segments
        PROVE  /\ \A k \in DOMAIN s.segments : k <= j
               /\ s.segments[j].id = b.next /\ s.segments[j].previous = b.chain
               /\ s.segments[j].to = c.tick /\ b.active
               /\ c.active => c.chain = s.segments[j].id
    <3>1. j = n + 1
      BY <1>1, <2>4, <2>5, <2>9
    <3> QED BY <2>1, <2>2, <2>3, <2>4, <2>8, <3>1
  <2> QED BY <1>1, <2>4, <2>6, <2>7, <2>9 DEF Grown
<1> QED BY <1>2, <1>3

\* A turn that was there stays behind the chain and the queue.
LEMMA StillBeyond ==
  ASSUME NEW r, NEW s, NEW evs, NEW b, NEW c, Good(r, b), EventsOK(evs, b, c),
         Passes(evs, b, c), Grown(r, s, b, c), NEW t \in Nat, t < b.next, Beyond(b, t)
  PROVE  /\ Beyond(c, t)
         /\ QueueSettled(r, t) => QueueSettled(s, t)
<1>1. b.next \in Nat /\ b.chain \in Nat /\ b.chain \in {0, b.next - 1}
  BY DEF Good, PlaceOK, Turn
<1>2. c.chain \in {0, b.chain, b.next}
  BY DEF Passes
<1>3. Beyond(c, t)
  BY <1>1, <1>2 DEF Beyond, NoSegment
<1>4. ASSUME QueueSettled(r, t), NEW i \in DOMAIN s.segments
      PROVE  SegmentTurn(s.segments[i]) > t
  <2>1. CASE i \in DOMAIN r.segments
    BY <1>4, <2>1 DEF Grown, QueueSettled
  <2>2. CASE i \notin DOMAIN r.segments
    <3>1. s.segments[i].id = b.next /\ s.segments[i].previous = b.chain
      BY <2>2 DEF Grown
    <3>2. SegmentTurn(s.segments[i]) = IF b.chain = 0 THEN b.next ELSE b.chain
      BY <3>1 DEF SegmentTurn
    <3> QED BY <1>1, <3>2 DEF Beyond, NoSegment
  <2> QED BY <2>1, <2>2
<1> QED BY <1>3, <1>4 DEF QueueSettled

\* What ended before the step ends before what it closes.
LEMMA StillBefore ==
  ASSUME NEW r, NEW s, NEW evs, NEW b, NEW c, Good(r, b), PlaceOK(c),
         Passes(evs, b, c), Grown(r, s, b, c), NEW to \in Int, to <= b.tick
  PROVE  /\ to <= c.tick /\ ~(to = c.tick /\ c.active)
         /\ \A i \in DOMAIN s.segments : i \notin DOMAIN r.segments =>
              /\ to <= s.segments[i].to
              /\ to = s.segments[i].to => to = b.tick /\ b.active
<1>1. b.tick \in Nat /\ c.tick \in Nat /\ b.tick <= c.tick /\ (c.tick = b.tick => ~c.active)
  BY DEF Good, PlaceOK, Passes
<1>2. to <= c.tick /\ (to = c.tick => to = b.tick)
  BY <1>1
<1>3. ~(to = c.tick /\ c.active)
  BY <1>1, <1>2
<1>4. \A i \in DOMAIN s.segments : i \notin DOMAIN r.segments => s.segments[i].to = c.tick /\ b.active
  BY DEF Grown
<1> QED BY <1>2, <1>3, <1>4

\* The assumptions about a step of the builder, and what it grows to.
Stepped(r, s, evs, b, c) ==
  /\ Good(r, b) /\ PlaceOK(c) /\ EventsOK(evs, b, c) /\ Passes(evs, b, c)
  /\ Absorbs(evs, r, s, c.tick) /\ Grown(r, s, b, c)

LEMMA SteppedIs ==
  ASSUME NEW r, NEW s, NEW evs, NEW b, NEW c, Stepped(r, s, evs, b, c)
  PROVE  /\ b.next \in Nat /\ c.next \in Nat /\ b.next <= c.next
         /\ b.chain \in Nat /\ b.chain \in {0, b.next - 1}
         /\ b.tick \in Nat /\ c.tick \in Nat
         /\ s.newTurns = r.newTurns /\ s.nextTurn = r.nextTurn
         /\ s.confirmed = r.confirmed /\ s.openTurn = r.openTurn
         /\ s.finalization = r.finalization /\ s.inFlight = r.inFlight /\ s.turns = r.turns
<1>1. b.next \in Turn /\ c.next \in {b.next, b.next + 1} /\ b.chain \in {0, b.next - 1}
      /\ b.tick \in Nat /\ c.tick \in Nat
  BY DEF Stepped, Good, PlaceOK, EventsOK
<1>2. b.next \in Nat /\ b.next >= 1
  BY <1>1 DEF Turn
<1> QED BY <1>1, <1>2 DEF Stepped, Absorbs

\* An id that was before every queued segment and the next one still is.
LEMMA StillNumbered ==
  ASSUME NEW r, NEW s, NEW evs, NEW b, NEW c, Stepped(r, s, evs, b, c), Numbered(r, b)
  PROVE  Numbered(s, c)
<1> USE SteppedIs
<1>1. ASSUME NEW i \in DOMAIN s.segments
      PROVE  s.segments[i].id = b.next \/ (i \in DOMAIN r.segments /\ s.segments[i] = r.segments[i])
  BY DEF Stepped, Grown
<1>2. PICK q : q = r.inFlight
  OBVIOUS
<1>3. r.nextTurn \in Nat /\ r.nextTurn <= b.next
  <2>1. r.nextTurn \in Nat
    BY TurnsAre DEF Stepped
  <2> QED BY <2>1 DEF Numbered
<1>4. s.nextTurn <= c.next /\ \A i \in DOMAIN s.segments : s.nextTurn <= s.segments[i].id
  <2>1. \A i \in DOMAIN r.segments : r.nextTurn <= r.segments[i].id
    BY DEF Numbered
  <2> QED BY <1>1, <1>3, <2>1
<1>5. ASSUME NEW x \in DOMAIN r.newTurns
      PROVE  x < c.next /\ \A i \in DOMAIN s.segments : x < s.segments[i].id
  <2>1. x < b.next /\ \A i \in DOMAIN r.segments : x < r.segments[i].id
    BY DEF Numbered
  <2>2. x \in Nat
    <3>1. DOMAIN r.newTurns \subseteq Turn
      BY DEF Stepped, Good, Sound, Typed
    <3> QED BY <3>1 DEF Turn
  <2> QED BY <1>1, <2>1, <2>2
<1> QED BY <1>4, <1>5 DEF Numbered

LEMMA StillLined ==
  ASSUME NEW r, NEW s, NEW evs, NEW b, NEW c, Stepped(r, s, evs, b, c), Lined(r, b)
  PROVE  Lined(s, c)
<1> USE SteppedIs
<1>1. ASSUME NEW i \in DOMAIN r.segments
      PROVE  /\ s.segments[i] = r.segments[i] /\ i \in DOMAIN s.segments
             /\ r.segments[i].to <= c.tick /\ ~(r.segments[i].to = c.tick /\ c.active)
             /\ \A j \in DOMAIN s.segments : j \notin DOMAIN r.segments =>
                  /\ r.segments[i].to <= s.segments[j].to
                  /\ r.segments[i].to = s.segments[j].to =>
                       s.segments[j].previous = r.segments[i].id
  <2>1. r.segments[i].to \in Int /\ r.segments[i].to <= b.tick
    BY QueueIs DEF Lined, Stepped
  <2>2. r.segments[i].to = b.tick /\ b.active => b.chain = r.segments[i].id
    BY DEF Lined
  <2>3. PICK to : to = r.segments[i].to
    OBVIOUS
  <2>4. /\ to <= c.tick /\ ~(to = c.tick /\ c.active)
        /\ \A j \in DOMAIN s.segments : j \notin DOMAIN r.segments =>
             /\ to <= s.segments[j].to
             /\ to = s.segments[j].to => to = b.tick /\ b.active
    BY <2>1, <2>3, StillBefore DEF Stepped
  <2>5. \A j \in DOMAIN s.segments : j \notin DOMAIN r.segments => s.segments[j].previous = b.chain
    BY DEF Stepped, Grown
  <2> QED BY <2>2, <2>3, <2>4, <2>5 DEF Stepped, Grown
<1>2. ASSUME NEW i \in DOMAIN s.segments, i \notin DOMAIN r.segments
      PROVE  /\ s.segments[i].to <= c.tick
             /\ s.segments[i].to = c.tick /\ c.active => c.chain = s.segments[i].id
  <2>1. s.segments[i].to = c.tick /\ (c.active => c.chain = s.segments[i].id)
    BY <1>2 DEF Stepped, Grown
  <2> QED BY <2>1
<1>3. ASSUME NEW i \in DOMAIN s.segments, NEW j \in DOMAIN s.segments, i < j
      PROVE  /\ s.segments[i].to <= s.segments[j].to
             /\ s.segments[i].to = s.segments[j].to => s.segments[j].previous = s.segments[i].id
  <2>1. i \in DOMAIN r.segments
    BY <1>3 DEF Stepped, Grown
  <2>2. CASE j \in DOMAIN r.segments
    BY <1>1, <1>3, <2>1, <2>2 DEF Lined
  <2>3. CASE j \notin DOMAIN r.segments
    BY <1>1, <2>1, <2>3
  <2> QED BY <2>2, <2>3
<1> QED BY <1>1, <1>2, <1>3 DEF Lined

LEMMA StillEnds ==
  ASSUME NEW r, NEW s, NEW evs, NEW b, NEW c, Stepped(r, s, evs, b, c),
         NEW id, NEW to \in Int, EndsBefore(id, to, r, b)
  PROVE  EndsBefore(id, to, s, c)
<1>1. to <= b.tick /\ (to = b.tick /\ b.active => b.chain = id)
  BY DEF EndsBefore
<1>2. /\ to <= c.tick /\ ~(to = c.tick /\ c.active)
      /\ \A j \in DOMAIN s.segments : j \notin DOMAIN r.segments =>
           /\ to <= s.segments[j].to
           /\ to = s.segments[j].to => to = b.tick /\ b.active
  BY <1>1, StillBefore DEF Stepped
<1>3. \A j \in DOMAIN s.segments : j \notin DOMAIN r.segments => s.segments[j].previous = b.chain
  BY DEF Stepped, Grown
<1>4. \A j \in DOMAIN r.segments : s.segments[j] = r.segments[j]
  BY DEF Stepped, Grown
<1>5. ASSUME NEW j \in DOMAIN s.segments
      PROVE  to <= s.segments[j].to /\ (to = s.segments[j].to => s.segments[j].previous = id)
  <2>1. CASE j \in DOMAIN r.segments
    BY <1>4, <2>1 DEF EndsBefore
  <2>2. CASE j \notin DOMAIN r.segments
    BY <1>1, <1>2, <1>3, <2>2
  <2> QED BY <2>1, <2>2
<1> QED BY <1>2, <1>5 DEF EndsBefore

LEMMA StillDrafts ==
  ASSUME NEW r, NEW s, NEW evs, NEW b, NEW c, Stepped(r, s, evs, b, c), DraftsBefore(r, b)
  PROVE  DraftsBefore(s, c)
<1>1. s.turns = r.turns /\ s.inFlight = r.inFlight
  BY SteppedIs
<1>2. ASSUME NEW t \in DOMAIN r.turns
      PROVE  EndsBefore(r.turns[t].latest, r.turns[t].to, s, c)
  <2>1. r.turns[t].to \in Int
    BY TurnsAre DEF Stepped
  <2>2. EndsBefore(r.turns[t].latest, r.turns[t].to, r, b)
    BY DEF DraftsBefore
  <2> QED BY <2>1, <2>2, StillEnds
<1>3. ASSUME OfSegments(r.inFlight)
      PROVE  EndsBefore(r.inFlight.last, r.inFlight.to, s, c)
  <2>1. r.inFlight.to \in Int
    BY <1>3, RequestIs DEF Stepped
  <2>2. EndsBefore(r.inFlight.last, r.inFlight.to, r, b)
    BY <1>3 DEF DraftsBefore
  <2> QED BY <2>1, <2>2, StillEnds
<1> QED BY <1>1, <1>2, <1>3 DEF DraftsBefore

LEMMA StillConfirmed ==
  ASSUME NEW r, NEW s, NEW evs, NEW b, NEW c, Stepped(r, s, evs, b, c), ConfirmedBefore(r, b)
  PROVE  ConfirmedBefore(s, c)
<1>1. s.turns = r.turns /\ s.confirmed = r.confirmed
  BY SteppedIs
<1>2. PICK to \in Int : to = r.confirmed
  BY TurnsAre DEF Stepped
<1>3. to <= b.tick /\ (to = b.tick /\ b.active => ~InDraft(r, b.chain))
  BY <1>2 DEF ConfirmedBefore
<1>4. /\ to <= c.tick /\ ~(to = c.tick /\ c.active)
      /\ \A j \in DOMAIN s.segments : j \notin DOMAIN r.segments =>
           /\ to <= s.segments[j].to
           /\ to = s.segments[j].to => to = b.tick /\ b.active
  BY <1>3, StillBefore DEF Stepped
<1>5. \A j \in DOMAIN s.segments : j \notin DOMAIN r.segments => s.segments[j].previous = b.chain
  BY DEF Stepped, Grown
<1>6. \A j \in DOMAIN r.segments : s.segments[j] = r.segments[j]
  BY DEF Stepped, Grown
<1>7. \A a : InDraft(s, a) <=> InDraft(r, a)
  BY <1>1 DEF InDraft
<1>8. ASSUME NEW j \in DOMAIN s.segments
      PROVE  to <= s.segments[j].to /\ (to = s.segments[j].to => ~InDraft(s, s.segments[j].previous))
  <2>1. CASE j \in DOMAIN r.segments
    <3>1. to <= r.segments[j].to /\ (to = r.segments[j].to => ~InDraft(r, r.segments[j].previous))
      BY <1>2, <2>1 DEF ConfirmedBefore
    <3> QED BY <1>6, <1>7, <2>1, <3>1
  <2>2. CASE j \notin DOMAIN r.segments
    BY <1>3, <1>4, <1>5, <1>7, <2>2
  <2> QED BY <2>1, <2>2
<1> QED BY <1>1, <1>2, <1>4, <1>8 DEF ConfirmedBefore

LEMMA StillAimed ==
  ASSUME NEW r, NEW s, NEW evs, NEW b, NEW c, Stepped(r, s, evs, b, c), Numbered(r, b),
         Aimed(r, b)
  PROVE  Aimed(s, c)
<1>1. /\ s.openTurn = r.openTurn /\ s.finalization = r.finalization
      /\ s.inFlight = r.inFlight /\ s.turns = r.turns
  BY SteppedIs
<1>2. PICK q : q = r.inFlight
  OBVIOUS
<1>3. ASSUME OfTurn(q), q.turn \in {r.openTurn, r.finalization}
      PROVE  /\ Beyond(c, q.turn)
             /\ q.purpose = "GrammarAfterCompletion" => QueueSettled(s, q.turn)
  <2>1. PICK t \in Nat : t = q.turn /\ t < r.nextTurn
    BY <1>2, <1>3, RequestIs DEF Stepped
  <2>2. t < b.next
    <3>1. r.nextTurn <= b.next /\ r.nextTurn \in Nat /\ b.next \in Nat
      BY SteppedIs, TurnsAre DEF Numbered, Stepped
    <3> QED BY <2>1, <3>1
  <2>3. Beyond(b, t) /\ (q.purpose = "GrammarAfterCompletion" => QueueSettled(r, t))
    BY <1>2, <1>3, <2>1 DEF Aimed
  <2>4. Beyond(c, t) /\ (QueueSettled(r, t) => QueueSettled(s, t))
    BY <2>2, <2>3, StillBeyond DEF Stepped
  <2> QED BY <2>1, <2>3, <2>4
<1> QED BY <1>1, <1>2, <1>3 DEF Aimed

LEMMA StillDeferred ==
  ASSUME NEW r, NEW s, NEW evs, NEW b, NEW c, Stepped(r, s, evs, b, c), Numbered(r, b),
         Deferred(r, b)
  PROVE  Deferred(s, c)
<1>1. /\ s.openTurn = r.openTurn /\ s.finalization = r.finalization
      /\ s.nextTurn = r.nextTurn /\ s.turns = r.turns
  BY SteppedIs
<1>2. PICK t \in Nat : t = r.finalization
  BY TurnsAre DEF Stepped
<1>3. ASSUME t # NoTurn, QueueSettled(r, t), Beyond(b, t)
      PROVE  QueueSettled(s, t) /\ Beyond(c, t)
  <2>1. t < r.nextTurn
    BY <1>2, <1>3 DEF Deferred
  <2>2. t < b.next
    <3>1. r.nextTurn <= b.next /\ r.nextTurn \in Nat /\ b.next \in Nat
      BY SteppedIs, TurnsAre DEF Numbered, Stepped
    <3> QED BY <2>1, <3>1
  <2> QED BY <1>3, <2>2, StillBeyond DEF Stepped
<1> QED BY <1>1, <1>2, <1>3 DEF Deferred

LEMMA StillChecks ==
  ASSUME NEW r, NEW s, NEW evs, NEW b, NEW c, Stepped(r, s, evs, b, c), CheckEnds(r, b)
  PROVE  CheckEnds(s, c)
<1> USE SteppedIs
<1>1. PICK t : t = s.turnCheck.previous
  OBVIOUS
<1>2. ASSUME s.turnCheck = r.turnCheck, r.turnCheck # NoCheck
      PROVE  /\ t >= 1 /\ t < c.next /\ Beyond(c, t)
             /\ \A i \in DOMAIN s.segments : s.segments[i].previous # t
  <2>1. /\ t >= 1 /\ t < b.next /\ Beyond(b, t)
        /\ \A i \in DOMAIN r.segments : r.segments[i].previous # t
    BY <1>1, <1>2 DEF CheckEnds
  <2>2. t \in Nat
    BY <1>1, <1>2 DEF Stepped, Good, Sound, Typed
  <2>3. Beyond(c, t)
    BY <2>1, <2>2, StillBeyond DEF Stepped
  <2>4. ASSUME NEW i \in DOMAIN s.segments PROVE s.segments[i].previous # t
    <3>1. CASE i \in DOMAIN r.segments
      BY <2>1, <3>1 DEF Stepped, Grown
    <3>2. CASE i \notin DOMAIN r.segments
      <4>1. s.segments[i].previous = b.chain
        BY <3>2 DEF Stepped, Grown
      <4> QED BY <2>1, <2>2, <4>1 DEF Beyond, NoSegment
    <3> QED BY <3>1, <3>2
  <2> QED BY <2>1, <2>2, <2>3, <2>4
<1>3. ASSUME s.turnCheck # r.turnCheck
      PROVE  /\ t >= 1 /\ t < c.next /\ Beyond(c, t)
             /\ \A i \in DOMAIN s.segments : s.segments[i].previous # t
  <2>1. PICK i \in DOMAIN evs : /\ evs[i].type = "TurnCheckSilenceReached"
                                /\ t = evs[i].previous
    BY <1>1, <1>3 DEF Stepped, Absorbs
  <2>2. /\ t = b.chain /\ b.chain = b.next - 1 /\ b.chain # NoSegment
        /\ c.chain = NoSegment
        /\ \A j \in DOMAIN evs : evs[j].type # "SegmentClosed"
    BY <2>1 DEF Stepped, Passes
  <2>3. s.segments = r.segments
    BY <2>2 DEF Stepped, Absorbs
  <2>4. ASSUME NEW j \in DOMAIN r.segments PROVE r.segments[j].previous # t
    <3>1. PICK m \in Nat : m = r.segments[j].id
      BY QueueIs DEF Stepped
    <3>2. m < b.next /\ r.segments[j].previous \in {0, m - 1} /\ m >= 1
      BY <3>1, QueueIs DEF Stepped
    <3> QED BY <2>2, <3>2 DEF NoSegment
  <2>5. t >= 1 /\ t < c.next
    BY <2>2 DEF NoSegment
  <2> QED BY <2>2, <2>3, <2>4, <2>5 DEF Beyond
<1> QED BY <1>1, <1>2, <1>3 DEF CheckEnds

LEMMA StillRested ==
  ASSUME NEW r, NEW s, NEW evs, NEW b, NEW c, Stepped(r, s, evs, b, c), Rested(r, b)
  PROVE  Rested(s, c)
<1>1. SUFFICES ASSUME c.pausing, s.openEpoch = s.epoch, s.openSince # NoTick
               PROVE  c.tick - s.openSince <= c.pause
  BY DEF Rested
<1>2. PICK since \in Nat : since = r.openSince /\ s.openSince = r.openSince
  <2>1. r.openSince \in Nat \union {NoTick} /\ s.openSince = r.openSince
    BY DEF Stepped, Good, Sound, Typed, Absorbs
  <2> QED BY <1>1, <2>1
<1>3. /\ r.openEpoch = r.epoch
      /\ \A i \in DOMAIN evs : evs[i].type \notin {"SegmentStarted", "SegmentExtended"}
  <2>1. /\ r.epoch <= s.epoch
        /\ s.openEpoch = r.openEpoch /\ r.openEpoch <= r.epoch
        /\ r.epoch \in Nat /\ r.openEpoch \in Nat
    BY DEF Stepped, Good, Sound, Typed, OriginOK, Absorbs
  <2>2. ~(s.epoch > r.epoch)
    BY <1>1, <2>1
  <2>3. r.openEpoch = r.epoch
    BY <1>1, <2>1
  <2> QED BY <2>2, <2>3 DEF Stepped, Absorbs
<1>4. \/ b.active /\ c.tick - b.tick <= c.pause
      \/ b.pausing /\ c.tick - b.tick <= c.pause - b.pause
  BY <1>1, <1>3 DEF Stepped, Passes
<1>5. b.tick \in Nat /\ c.tick \in Nat /\ c.pause \in Nat /\ b.pause \in Nat
  BY DEF Stepped, Good, PlaceOK
<1>6. CASE b.active /\ c.tick - b.tick <= c.pause
  <2>1. since \in {NoTick, b.tick}
    BY <1>2, <1>3, <1>6 DEF Stepped, Good, Sound, OriginOK
  <2>2. since # NoTick
    BY <1>1, <1>2
  <2> QED BY <1>2, <1>6, <2>1, <2>2
<1>7. CASE b.pausing /\ c.tick - b.tick <= c.pause - b.pause
  <2>1. r.openSince # NoTick
    BY <1>1, <1>2
  <2>2. b.tick - since <= b.pause
    BY <1>2, <1>3, <1>7, <2>1 DEF Rested
  <2> QED BY <1>2, <1>5, <1>7, <2>2
<1> QED BY <1>4, <1>6, <1>7

LEMMA AbsorbOwed ==
  ASSUME NEW r, NEW evs, NEW b, NEW c, Good(r, b), Owed(r, b), PlaceOK(c),
         EventsOK(evs, b, c), Passes(evs, b, c)
  PROVE  Owed(Absorb(r, evs, c.tick), c)
<1>1. PICK s : s = Absorb(r, evs, c.tick)
  OBVIOUS
<1>2. c.tick \in Int
  BY DEF PlaceOK
<1>3. Absorbs(evs, r, s, c.tick)
  BY <1>1, <1>2, AbsorbIs DEF Good
<1>4. Stepped(r, s, evs, b, c)
  BY <1>3, QueueGrows DEF Stepped
<1>5. Numbered(s, c) /\ Lined(s, c) /\ DraftsBefore(s, c) /\ ConfirmedBefore(s, c)
  BY <1>4, StillNumbered, StillLined, StillDrafts, StillConfirmed DEF Owed, Ledger
<1>6. Aimed(s, c) /\ Deferred(s, c) /\ CheckEnds(s, c) /\ Rested(s, c)
  BY <1>4, StillAimed, StillDeferred, StillChecks, StillRested DEF Owed, Ledger
<1>7. /\ s.confirmed = r.confirmed /\ s.openTurn = r.openTurn
      /\ s.finalization = r.finalization /\ s.inFlight = r.inFlight /\ s.turns = r.turns
  BY <1>4, SteppedIs
<1>8. Ordered(s) /\ CoveredAbove(s, NoTurn)
  BY <1>7 DEF Owed, Ledger, Ordered, CoveredAbove
<1> QED BY <1>1, <1>5, <1>6, <1>8 DEF Owed, Ledger

\* The silence of a segment in progress is at its end.
SilenceCounted(st) ==
  st.kind = "Active" => st.chunks \in Seq(Chunk) /\ Hushed(SpeechOf(st.chunks), st.silence)

LEMMA SilenceGrows ==
  ASSUME NEW st, NEW q \in Seq(Chunk), NEW c \in Chunk, st.chunks = Append(q, c),
         \/ c.speech /\ st.silence = 0
         \/ ~c.speech /\ \E n : Hushed(SpeechOf(q), n) /\ st.silence = n + 1
  PROVE  SilenceCounted(st)
<1>1. Append(q, c) \in Seq(Chunk)
  OBVIOUS
<1>2. c.speech \in BOOLEAN
  BY DEF Chunk
<1>3. PICK b \in Seq(BOOLEAN), x \in Seq(BOOLEAN) :
         b = SpeechOf(q) /\ x = SpeechOf(Append(q, c)) /\ x = Append(b, c.speech)
  BY <1>1, SpeechOfIs
<1>4. CASE c.speech /\ st.silence = 0
  <2>1. c.speech = TRUE
    BY <1>2, <1>4
  <2>2. Hushed(x, 0)
    BY <1>3, <2>1, HushedAppend
  <2> QED BY <1>1, <1>3, <1>4, <2>2 DEF SilenceCounted
<1>5. CASE ~c.speech /\ \E n : Hushed(SpeechOf(q), n) /\ st.silence = n + 1
  <2>1. c.speech = FALSE
    BY <1>2, <1>5
  <2>2. PICK n : Hushed(b, n) /\ st.silence = n + 1
    BY <1>3, <1>5
  <2>3. Hushed(x, n + 1)
    BY <1>3, <2>1, <2>2, HushedAppend
  <2> QED BY <1>1, <1>3, <2>2, <2>3 DEF SilenceCounted
<1> QED BY <1>4, <1>5

LEMMA NotActiveCounts ==
  ASSUME NEW st, st.kind # "Active"
  PROVE  SilenceCounted(st)
  BY DEF SilenceCounted

LEMMA ShortPause ==
  ASSUME NEW st, st.kind # "AfterInterimSilence", NEW c \in Configs,
         st.kind # "Active" => Len(st.pending) \in Nat /\ Len(st.pending) < c.start
  PROVE  PauseOK(st)
<1> SUFFICES ASSUME PauseEndsFirst PROVE st.kind # "Active" => Len(st.pending) < LongestStart
  BY DEF PauseOK
<1>1. c.start <= LongestStart /\ c.start \in Nat /\ LongestStart \in Nat
  BY LongestIs, ConfigsAre
<1> QED BY <1>1

LEMMA InterimPause ==
  ASSUME NEW st, st.kind = "AfterInterimSilence", NEW c \in Configs, NEW d \in Configs,
         NEW e \in Configs, Len(st.pending) \in Nat, Len(st.pending) < c.start,
         e.interim # 0, st.silence \in Nat, e.interim <= st.silence, st.silence < d.turnCheck
  PROVE  PauseOK(st)
<1> SUFFICES ASSUME PauseEndsFirst
             PROVE  Len(st.pending) < LongestStart /\ ShortestInterim <= st.silence
  BY DEF PauseOK
<1>1. c.start <= LongestStart /\ c.start \in Nat /\ LongestStart \in Nat
  BY LongestIs, ConfigsAre
<1>2. ShortestInterim \in Nat /\ ShortestInterim <= e.interim /\ e.interim \in Nat
  BY ShortestIs, ConfigsAre
<1> QED BY <1>1, <1>2

LEMMA PlaceNext ==
  ASSUME BuilderOK', PauseOK(state')
  PROVE  /\ PlaceOK(Place')
         /\ Place'.next = Position'.next /\ Place'.tick = frames'
         /\ Place'.active = Position'.active /\ Place'.active = (state'.kind = "Active")
         /\ Place'.chain = Chain' /\ Place'.pausing = Pausing'
         /\ Pausing' => Place'.pause = PauseOf(state')
         /\ Pausing' <=> PauseEndsFirst /\ state'.kind # "Active" /\ Chain' # NoSegment
<1>1. /\ Place'.next = Position'.next /\ Place'.tick = frames'
      /\ Place'.active = Position'.active /\ Place'.active = (state'.kind = "Active")
      /\ Place'.chain = Chain' /\ Place'.pausing = Pausing'
      /\ Place'.pause = IF Pausing' THEN PauseOf(state') ELSE 0
  BY DEF Place, Position
<1>2. /\ state'.kind \in {"Idle", "AfterInterimSilence", "Active"}
      /\ state'.kind # "Active" => state' \in IdleStates \union WaitingStates
      /\ state'.kind = "Active" => state'.id \in Turn
      /\ nextSegmentId' \in Turn /\ frames' \in Nat /\ config' \in Configs
  BY DEF BuilderOK, IdleStates, WaitingStates, ActiveStates
<1>3. Place'.next \in Turn /\ Place'.tick \in Nat /\ Place'.active \in BOOLEAN
  BY <1>1, <1>2 DEF Position
<1>4. Chain' \in {0, Position'.next - 1}
  <2>1. CASE state'.kind = "Idle"
    BY <2>1 DEF Chain, Position, BuilderOK
  <2>2. CASE state'.kind = "AfterInterimSilence"
    BY <2>2 DEF Chain, Position, BuilderOK
  <2>3. CASE state'.kind = "Active"
    BY <2>3 DEF Chain, Position, BuilderOK
  <2> QED BY <1>2, <2>1, <2>2, <2>3
<1>5. Pausing' <=> PauseEndsFirst /\ state'.kind # "Active" /\ Chain' # NoSegment
  BY DEF Pausing, PauseEndsFirst
<1>6. Pausing' \in BOOLEAN
  BY DEF Pausing, PauseEndsFirst
<1>7. Place'.pause \in Nat
  <2>1. CASE Pausing'
    <3>1. PauseOf(state') \in Nat
      BY <1>2, <1>5, <2>1, PauseIsShort
    <3> QED BY <1>1, <2>1, <3>1
  <2>2. CASE ~Pausing'
    BY <1>1, <2>2
  <2> QED BY <2>1, <2>2
<1> QED BY <1>1, <1>3, <1>4, <1>5, <1>6, <1>7 DEF PlaceOK

-----------------------------------------------------------------------------
(* The steps of the builder. *)

\* Passes, of the builder.
Advances ==
  /\ frames' \in {frames, frames + 1} /\ (frames' = frames => state'.kind # "Active")
  /\ \A i \in DOMAIN events' : events'[i].type = "SegmentClosed" =>
       /\ state.kind = "Active" /\ events'[i].previous = state.previous
       /\ Chain' \in {0, state.id} /\ (state'.kind = "Active" => Chain' = state.id)
  /\ (\A i \in DOMAIN events' : events'[i].type # "SegmentClosed") => Chain' \in {0, Chain}
  /\ \A i \in DOMAIN events' : events'[i].type = "TurnCheckSilenceReached" =>
       /\ state.kind = "AfterInterimSilence" /\ events'[i].previous = state.previous
       /\ Chain' = NoSegment
       /\ \A j \in DOMAIN events' : events'[j].type # "SegmentClosed"
  /\ PauseEndsFirst /\ state'.kind # "Active" /\ Chain' # NoSegment =>
       \/ \E i \in DOMAIN events' : events'[i].type \in {"SegmentStarted", "SegmentExtended"}
       \/ state.kind = "Active" /\ frames' - frames <= PauseOf(state')
       \/ /\ state.kind # "Active" /\ Chain # NoSegment
          /\ frames' - frames <= PauseOf(state') - PauseOf(state)

LEMMA AdvancesPasses ==
  ASSUME BuilderOK, PauseOK(state), BuilderOK', PauseOK(state'), Advances
  PROVE  Passes(events', Place, Place')
<1>1. PICK b, c, evs : b = Place /\ c = Place' /\ evs = events'
  OBVIOUS
<1>2. /\ b.next = Position.next /\ b.tick = frames /\ b.chain = Chain
      /\ b.active <=> state.kind = "Active"
      /\ b.pausing <=> PauseEndsFirst /\ state.kind # "Active" /\ Chain # NoSegment
      /\ b.pausing => b.pause = PauseOf(state)
  BY <1>1, PlaceIs, BuilderIs DEF Pausing
<1>3. /\ c.tick = frames' /\ c.chain = Chain'
      /\ c.active <=> state'.kind = "Active"
      /\ c.pausing <=> PauseEndsFirst /\ state'.kind # "Active" /\ Chain' # NoSegment
      /\ c.pausing => c.pause = PauseOf(state')
  BY <1>1, PlaceNext
<1>4. frames \in Nat /\ frames' \in {frames, frames + 1}
  BY BuilderIs DEF Advances
<1>5. b.tick <= c.tick /\ (c.tick = b.tick => ~c.active)
  BY <1>2, <1>3, <1>4 DEF Advances
<1>6. ASSUME NEW i \in DOMAIN evs, evs[i].type = "SegmentClosed"
      PROVE  /\ b.active /\ evs[i].previous = b.chain
             /\ c.chain \in {0, b.next} /\ (c.active => c.chain = b.next)
  <2>1. /\ state.kind = "Active" /\ evs[i].previous = state.previous
        /\ Chain' \in {0, state.id} /\ (state'.kind = "Active" => Chain' = state.id)
    BY <1>1, <1>6 DEF Advances
  <2>2. Chain = state.previous /\ Position.next = state.id
    BY <2>1, BuilderIs DEF Chain, Position
  <2> QED BY <1>2, <1>3, <2>1, <2>2
<1>7. (\A i \in DOMAIN evs : evs[i].type # "SegmentClosed") => c.chain \in {0, b.chain}
  BY <1>1, <1>2, <1>3 DEF Advances
<1>8. ASSUME NEW i \in DOMAIN evs, evs[i].type = "TurnCheckSilenceReached"
      PROVE  /\ evs[i].previous = b.chain /\ b.chain = b.next - 1 /\ b.chain # NoSegment
             /\ c.chain = NoSegment
             /\ \A j \in DOMAIN evs : evs[j].type # "SegmentClosed"
  <2>1. /\ state.kind = "AfterInterimSilence" /\ evs[i].previous = state.previous
        /\ Chain' = NoSegment
        /\ \A j \in DOMAIN evs : evs[j].type # "SegmentClosed"
    BY <1>1, <1>8 DEF Advances
  <2>2. state.previous = nextSegmentId - 1 /\ state.previous \in Turn
    BY <2>1, BuilderIs DEF BuilderOK, WaitingStates
  <2>3. Chain = state.previous /\ Position.next = nextSegmentId
    BY <2>1, BuilderIs DEF Chain, Position
  <2> QED BY <1>2, <1>3, <2>1, <2>2, <2>3 DEF Turn, NoSegment
<1>9. ASSUME c.pausing
      PROVE  \/ \E i \in DOMAIN evs : evs[i].type \in {"SegmentStarted", "SegmentExtended"}
             \/ b.active /\ c.tick - b.tick <= c.pause
             \/ b.pausing /\ c.tick - b.tick <= c.pause - b.pause
  <2>1. PauseEndsFirst /\ state'.kind # "Active" /\ Chain' # NoSegment /\ c.pause = PauseOf(state')
    BY <1>3, <1>9
  <2>2. \/ \E i \in DOMAIN evs : evs[i].type \in {"SegmentStarted", "SegmentExtended"}
        \/ state.kind = "Active" /\ frames' - frames <= PauseOf(state')
        \/ /\ state.kind # "Active" /\ Chain # NoSegment
           /\ frames' - frames <= PauseOf(state') - PauseOf(state)
    BY <1>1, <2>1 DEF Advances
  <2>3. CASE state.kind # "Active" /\ Chain # NoSegment
             /\ frames' - frames <= PauseOf(state') - PauseOf(state)
    <3>1. b.pausing
      BY <1>2, <2>1, <2>3
    <3>2. b.pause = PauseOf(state)
      BY <1>2, <3>1
    <3> QED BY <1>2, <1>3, <2>1, <2>3, <3>1, <3>2
  <2> QED BY <1>2, <1>3, <2>1, <2>2, <2>3
<1>10. Passes(evs, b, c)
  BY <1>5, <1>6, <1>7, <1>8, <1>9 DEF Passes
<1> QED BY <1>1, <1>10

LEMMA EventTypes ==
  ASSUME NEW e, NEW f
  PROVE  /\ DOMAIN << >> = {}
         /\ DOMAIN <<e>> = {1} /\ <<e>>[1] = e
         /\ DOMAIN <<e, f>> = {1, 2} /\ <<e, f>>[1] = e /\ <<e, f>>[2] = f
  OBVIOUS

\* The steps of a builder that waits.
LEMMA WaitingAdvances ==
  ASSUME BuilderOK, PauseOK(state), config' = config, frames' = frames + 1, NEW chunk \in Chunk,
         \/ HoldSpeech(chunk) \/ StartFromIdle(chunk) \/ StartAfterInterim(chunk)
         \/ IdleSilence(chunk) \/ AfterInterimSilence(chunk) \/ AfterInterimTurnCheck(chunk)
  PROVE  PauseOK(state') /\ SilenceCounted(state') /\ Advances
<1>1. /\ state.kind \in {"Idle", "AfterInterimSilence"}
      /\ config \in Configs /\ config.start \in Nat /\ config.start >= 1
      /\ frames \in Nat
      /\ state.kind = "Idle" => state \in IdleStates
      /\ state.kind = "AfterInterimSilence" =>
           /\ state \in WaitingStates /\ state.previous = nextSegmentId - 1
           /\ state.silence \in Nat /\ pendingPrevious = NoSegment
      /\ state.pre \in Seq(Chunk) /\ state.pending \in Seq(Chunk)
  <2>1. state.kind \in {"Idle", "AfterInterimSilence"}
    BY DEF HoldSpeech, StartFromIdle, StartAfterInterim, IdleSilence, AfterInterimSilence,
           AfterInterimTurnCheck, Waiting
  <2>2. config \in Configs
    BY DEF BuilderOK
  <2> QED BY <2>1, <2>2, BuilderIs, ConfigsAre DEF BuilderOK, IdleStates, WaitingStates
<1>2. Chain = IF state.kind = "Idle" THEN pendingPrevious ELSE state.previous
  BY DEF Chain
<1>3. PICK p \in Nat : p = Len(state.pending)
  BY <1>1
<1>4. CASE HoldSpeech(chunk)
  <2>1. /\ state' = [state EXCEPT !.pending = Append(@, chunk)] /\ events' = << >>
        /\ pendingPrevious' = pendingPrevious /\ p + 1 < config.start
    BY <1>3, <1>4 DEF HoldSpeech
  <2>2. Len(Append(state.pending, chunk)) = p + 1
    BY <1>1, <1>3
  <2>3. /\ state'.kind = state.kind /\ Len(state'.pending) = p + 1
        /\ state.kind = "AfterInterimSilence" =>
             state'.silence = state.silence /\ state'.previous = state.previous
    <3>1. CASE state.kind = "Idle"
      BY <1>1, <2>1, <2>2, <3>1 DEF IdleStates
    <3>2. CASE state.kind = "AfterInterimSilence"
      BY <1>1, <2>1, <2>2, <3>2 DEF WaitingStates
    <3> QED BY <1>1, <3>1, <3>2
  <2>4. PauseOK(state')
    <3>1. CASE state.kind = "Idle"
      <4>1. state'.kind # "AfterInterimSilence"
        BY <2>3, <3>1
      <4>2. Len(state'.pending) \in Nat /\ Len(state'.pending) < config.start
        BY <1>1, <2>1, <2>3
      <4> QED BY <1>1, <4>1, <4>2, ShortPause
    <3>2. CASE state.kind = "AfterInterimSilence"
      <4>1. PauseEndsFirst => Len(state'.pending) < LongestStart
        <5>1. PauseEndsFirst => config.start <= LongestStart /\ LongestStart \in Nat
          BY <1>1, LongestIs
        <5> QED BY <1>1, <2>1, <2>3, <5>1
      <4> QED BY <2>3, <3>2, <4>1 DEF PauseOK
    <3> QED BY <1>1, <3>1, <3>2
  <2>5. Chain' = Chain
    BY <1>1, <2>1, <2>3 DEF Chain
  <2>6. PauseEndsFirst => PauseOf(state') - PauseOf(state) = 1
    <3> SUFFICES ASSUME PauseEndsFirst PROVE PauseOf(state') - PauseOf(state) = 1
      OBVIOUS
    <3>1. CASE state.kind = "Idle"
      BY <1>3, <2>3, <3>1 DEF PauseOf
    <3>2. CASE state.kind = "AfterInterimSilence"
      <4>1. PICK x \in Int : x = LongestStart * (state.silence - ShortestInterim)
        <5>1. LongestStart \in Nat
          BY LongestIs
        <5>2. ShortestInterim \in Nat
          <6>1. PICK e \in Configs : e.interim # 0
            BY <3>2 DEF PauseOK
          <6> QED BY <6>1, ShortestIs
        <5>3. state.silence - ShortestInterim \in Int
          BY <1>1, <3>2, <5>2
        <5> QED BY <5>1, <5>3
      <4>2. PauseOf(state) = p + x /\ PauseOf(state') = p + 1 + x
        BY <1>3, <2>3, <3>2, <4>1 DEF PauseOf
      <4> QED BY <4>2
    <3> QED BY <1>1, <3>1, <3>2
  <2>7. DOMAIN events' = {}
    BY <2>1
  <2>8. Advances
    BY <1>1, <2>3, <2>5, <2>6, <2>7 DEF Advances
  <2> QED BY <1>1, <2>3, <2>4, <2>8, NotActiveCounts
<1>5. CASE StartFromIdle(chunk) \/ StartAfterInterim(chunk)
  <2>1. PICK q, m : /\ q = state.pre \o Append(state.pending, chunk) /\ m = Chain
                    /\ state' = Started(nextSegmentId, m, q)
                    /\ events' = <<SegmentStarted(nextSegmentId, m, q)>>
                    /\ chunk.speech
    BY <1>1, <1>2, <1>5 DEF StartFromIdle, StartAfterInterim
  <2>2. /\ state'.kind = "Active" /\ state'.previous = m /\ state'.chunks = q
        /\ state'.silence = 0
    BY <2>1 DEF Started
  <2>3. SilenceCounted(state')
    <3>1. PICK h \in Seq(Chunk) : h = state.pre \o state.pending
      <4>1. PICK u \in Seq(Chunk), v \in Seq(Chunk) : u = state.pre /\ v = state.pending
        BY <1>1
      <4>2. u \o v \in Seq(Chunk)
        OBVIOUS
      <4> QED BY <4>1, <4>2
    <3>2. q = Append(h, chunk)
      BY <1>1, <2>1, <3>1, JoinAppend
    <3> QED BY <2>1, <2>2, <3>1, <3>2, SilenceGrows
  <2>4. PauseOK(state')
    BY <1>1, <2>2, ShortPause
  <2>5. Chain' = Chain
    BY <2>1, <2>2 DEF Chain
  <2>6. DOMAIN events' = {1} /\ events'[1].type = "SegmentStarted"
    BY <2>1 DEF SegmentStarted
  <2>7. Advances
    BY <1>1, <2>2, <2>5, <2>6 DEF Advances
  <2> QED BY <2>3, <2>4, <2>7
<1>6. CASE IdleSilence(chunk) \/ AfterInterimTurnCheck(chunk)
  <2>1. /\ state' = Idle(PreWithSilence(chunk), << >>) /\ pendingPrevious' = NoSegment
        /\ \/ events' = << >>
           \/ /\ events' = <<TurnCheckSilenceReached(state.previous)>>
              /\ state.kind = "AfterInterimSilence"
    BY <1>1, <1>6 DEF IdleSilence, AfterInterimTurnCheck
  <2>2. state'.kind = "Idle" /\ Len(state'.pending) = 0
    BY <2>1 DEF Idle
  <2>3. PauseOK(state')
    BY <1>1, <2>2, ShortPause
  <2>4. Chain' = NoSegment
    BY <2>1, <2>2 DEF Chain
  <2>5. \/ DOMAIN events' = {}
        \/ /\ DOMAIN events' = {1} /\ events'[1].type = "TurnCheckSilenceReached"
           /\ events'[1].previous = state.previous /\ state.kind = "AfterInterimSilence"
    BY <2>1 DEF TurnCheckSilenceReached
  <2>6. Advances
    BY <1>1, <2>2, <2>4, <2>5 DEF Advances, NoSegment
  <2> QED BY <2>2, <2>3, <2>6, NotActiveCounts
<1>7. CASE AfterInterimSilence(chunk)
  <2>1. /\ state' = AfterInterim(PreWithSilence(chunk), << >>, state.previous, state.silence + 1)
        /\ events' = << >> /\ state.kind = "AfterInterimSilence"
        /\ state.silence + 1 < config.turnCheck
    BY <1>7 DEF AfterInterimSilence
  <2>2. PICK n \in Nat : n = state.silence
    BY <1>1, <2>1
  <2>3. /\ state'.kind = "AfterInterimSilence" /\ Len(state'.pending) = 0
        /\ state'.silence = n + 1 /\ state'.previous = state.previous
    BY <2>1, <2>2 DEF AfterInterim
  <2>4. PauseEndsFirst => /\ LongestStart \in Nat /\ LongestStart >= 1
                          /\ ShortestInterim \in Nat /\ ShortestInterim <= n
                          /\ p < LongestStart
    <3> SUFFICES ASSUME PauseEndsFirst
                 PROVE  /\ LongestStart \in Nat /\ LongestStart >= 1
                        /\ ShortestInterim \in Nat /\ ShortestInterim <= n
                        /\ p < LongestStart
      OBVIOUS
    <3>1. PICK e \in Configs : e.interim # 0
      BY <2>1 DEF PauseOK
    <3>2. ShortestInterim \in Nat
      BY <3>1, ShortestIs
    <3>3. ShortestInterim <= n /\ p < LongestStart
      BY <1>3, <2>1, <2>2 DEF PauseOK
    <3> QED BY <3>2, <3>3, LongestIs
  <2>5. PauseOK(state')
    <3> SUFFICES ASSUME PauseEndsFirst
                 PROVE  /\ Len(state'.pending) < LongestStart /\ ShortestInterim <= state'.silence
                        /\ \E e \in Configs : e.interim # 0
                        /\ \E d \in Configs : state'.silence < d.turnCheck
      BY DEF PauseOK
    <3>1. \E e \in Configs : e.interim # 0
      BY <2>1 DEF PauseOK
    <3>2. Len(state'.pending) < LongestStart /\ ShortestInterim <= state'.silence
      BY <2>3, <2>4
    <3>3. \E d \in Configs : state'.silence < d.turnCheck
      BY <1>1, <2>1, <2>2, <2>3
    <3> QED BY <3>1, <3>2, <3>3
  <2>6. Chain' = Chain
    BY <1>2, <2>1, <2>3 DEF Chain
  <2>7. PauseEndsFirst => 1 <= PauseOf(state') - PauseOf(state)
    <3> SUFFICES ASSUME PauseEndsFirst PROVE 1 <= PauseOf(state') - PauseOf(state)
      OBVIOUS
    <3>1. PICK a \in Nat, i \in Nat : a = LongestStart /\ i = ShortestInterim /\ p < a
      BY <2>4
    <3>2. PauseOf(state) = p + a * (n - i)
      BY <1>3, <2>1, <2>2, <3>1 DEF PauseOf
    <3>3. PauseOf(state') = a * (n + 1 - i)
      <4>1. a * (n + 1 - i) \in Int
        OBVIOUS
      <4> QED BY <2>3, <3>1, <4>1 DEF PauseOf
    <3>4. a * (n + 1 - i) = a * (n - i) + a /\ a * (n - i) \in Int
      OBVIOUS
    <3> QED BY <3>1, <3>2, <3>3, <3>4
  <2>8. DOMAIN events' = {}
    BY <2>1
  <2>9. Advances
    BY <1>1, <2>1, <2>3, <2>6, <2>7, <2>8 DEF Advances
  <2> QED BY <2>3, <2>5, <2>9, NotActiveCounts
<1> QED BY <1>4, <1>5, <1>6, <1>7

\* The steps of a builder that records a segment.
LEMMA InterimAdvances ==
  ASSUME BuilderOK, SilenceCounted(state), frames' = frames + 1, NEW chunk \in Chunk,
         InterimClose(chunk)
  PROVE  PauseOK(state') /\ SilenceCounted(state') /\ Advances
<1>1. /\ state.kind = "Active" /\ state.id \in Turn /\ state.chunks \in Seq(Chunk)
      /\ state.silence \in Nat /\ pendingPrevious' = pendingPrevious
      /\ config \in Configs /\ config.start \in Nat /\ config.interim \in Nat
      /\ frames \in Nat
  <2>1. state.kind = "Active" /\ pendingPrevious' = pendingPrevious /\ config \in Configs
    BY DEF InterimClose, BuilderOK
  <2>2. state.silence \in Nat
    BY <2>1, BuilderIs DEF ActiveStates
  <2> QED BY <2>1, <2>2, ActiveIs, BuilderIs, ConfigsAre
<1>2. /\ chunk.speech /\ config.interim # 0
      /\ config.interim <= state.silence /\ state.silence < config.turnCheck
  BY <1>1, BuilderIs DEF InterimClose, InterimDue
<1>3. PICK closed, silent, pre, chunks :
        /\ closed = SegmentClosed(state, "InterimResultSilenceReached")
        /\ silent = TrailingSilence(state.chunks)
        /\ pre = Prune(Padding(silent), config.turnCheck)
        /\ chunks = Append(pre, chunk)
        /\ \/ /\ state' = Started(nextSegmentId, state.id, chunks)
              /\ events' = <<closed, SegmentStarted(nextSegmentId, state.id, chunks)>>
           \/ /\ state' = AfterInterim(pre, <<chunk>>, state.id, Len(silent))
              /\ events' = <<closed>>
              /\ ~(config.start <= 1)
  BY DEF InterimClose
<1>4. pre \in Seq(Chunk)
  BY <1>1, <1>3, KeptIs
<1>5. closed.type = "SegmentClosed" /\ closed.previous = state.previous
  BY <1>3 DEF SegmentClosed
<1>6. CASE /\ state' = Started(nextSegmentId, state.id, chunks)
           /\ events' = <<closed, SegmentStarted(nextSegmentId, state.id, chunks)>>
  <2>1. /\ state'.kind = "Active" /\ state'.previous = state.id /\ state'.silence = 0
        /\ state'.chunks = Append(pre, chunk)
    BY <1>3, <1>6 DEF Started
  <2>2. SilenceCounted(state')
    BY <1>2, <1>4, <2>1, SilenceGrows
  <2>3. PauseOK(state')
    BY <1>1, <2>1, ShortPause
  <2>4. Chain' = state.id
    BY <2>1 DEF Chain
  <2>5. /\ DOMAIN events' = {1, 2} /\ events'[1] = closed
        /\ events'[2].type = "SegmentStarted"
    BY <1>6, EventTypes DEF SegmentStarted
  <2>6. Advances
    BY <1>1, <1>5, <2>1, <2>4, <2>5 DEF Advances
  <2> QED BY <2>2, <2>3, <2>6
<1>7. CASE /\ state' = AfterInterim(pre, <<chunk>>, state.id, Len(silent))
           /\ events' = <<closed>>
           /\ ~(config.start <= 1)
  <2>1. Len(silent) = state.silence
    <3>1. Hushed(SpeechOf(state.chunks), state.silence)
      BY <1>1 DEF SilenceCounted
    <3> QED BY <1>1, <1>3, <3>1, TrailingSilenceLength
  <2>2. /\ state'.kind = "AfterInterimSilence" /\ state'.previous = state.id
        /\ state'.silence = state.silence /\ Len(state'.pending) = 1
    BY <1>7, <2>1 DEF AfterInterim
  <2>3. PauseOK(state')
    <3>1. 1 < config.start
      BY <1>1, <1>7
    <3>2. /\ Len(state'.pending) \in Nat /\ Len(state'.pending) < config.start
          /\ state'.silence \in Nat /\ config.interim <= state'.silence
          /\ state'.silence < config.turnCheck
      BY <1>1, <1>2, <2>2, <3>1
    <3> QED BY <1>1, <1>2, <2>2, <3>2, InterimPause
  <2>4. Chain' = state.id
    BY <2>2 DEF Chain
  <2>5. PauseEndsFirst => 1 <= PauseOf(state')
    <3> SUFFICES ASSUME PauseEndsFirst PROVE 1 <= PauseOf(state')
      OBVIOUS
    <3>1. ShortestInterim \in Nat /\ ShortestInterim <= config.interim
      BY <1>1, <1>2, ShortestIs
    <3>2. PICK a \in Nat, x \in Nat : a = LongestStart /\ x = state.silence - ShortestInterim
      BY <1>1, <1>2, <3>1, LongestIs
    <3>3. PauseOf(state') = 1 + a * x
      BY <2>2, <3>2 DEF PauseOf
    <3>4. a * x \in Nat
      OBVIOUS
    <3> QED BY <3>3, <3>4
  <2>6. DOMAIN events' = {1} /\ events'[1] = closed
    BY <1>7, EventTypes
  <2>7. Advances
    BY <1>1, <1>5, <2>2, <2>4, <2>5, <2>6 DEF Advances
  <2> QED BY <2>2, <2>3, <2>7, NotActiveCounts
<1> QED BY <1>3, <1>6, <1>7

LEMMA ActiveAdvances ==
  ASSUME BuilderOK, SilenceCounted(state), frames' = frames + 1, NEW chunk \in Chunk,
         ActiveExtend(chunk) \/ MaxChunksClose(chunk) \/ EndSilenceClose(chunk)
  PROVE  PauseOK(state') /\ SilenceCounted(state') /\ Advances
<1>1. /\ state.kind = "Active" /\ state \in ActiveStates /\ state.chunks \in Seq(Chunk)
      /\ state.silence \in Nat /\ state.id \in Turn
      /\ config \in Configs /\ config.start >= 1 /\ frames \in Nat
  <2>1. state.kind = "Active" /\ config \in Configs
    BY DEF ActiveExtend, MaxChunksClose, EndSilenceClose, BuilderOK
  <2>2. state.silence \in Nat
    BY <2>1, BuilderIs DEF ActiveStates
  <2> QED BY <2>1, <2>2, ActiveIs, BuilderIs, ConfigsAre
<1>2. PICK active : active = Extended(chunk)
  OBVIOUS
<1>3. /\ active.kind = "Active" /\ active.previous = state.previous
      /\ active.chunks = Append(state.chunks, chunk)
      /\ active.silence = IF chunk.speech THEN 0 ELSE state.silence + 1
  BY <1>1, <1>2 DEF Extended, ActiveStates
<1>4. SegmentExtended(state, chunk).type = "SegmentExtended"
  BY DEF SegmentExtended
<1>5. CASE ActiveExtend(chunk)
  <2>1. state' = active /\ events' = <<SegmentExtended(state, chunk)>>
    BY <1>2, <1>5 DEF ActiveExtend
  <2>2. SilenceCounted(state')
    <3>1. Hushed(SpeechOf(state.chunks), state.silence)
      BY <1>1 DEF SilenceCounted
    <3>2. \/ chunk.speech /\ active.silence = 0
          \/ ~chunk.speech /\ \E n : Hushed(SpeechOf(state.chunks), n) /\ active.silence = n + 1
      BY <1>3, <3>1
    <3>3. SilenceCounted(active)
      BY <1>1, <1>3, <3>2, SilenceGrows
    <3> QED BY <2>1, <3>3
  <2>3. PauseOK(state')
    BY <1>1, <1>3, <2>1, ShortPause
  <2>4. Chain' = Chain
    BY <1>1, <1>3, <2>1 DEF Chain
  <2>5. DOMAIN events' = {1} /\ events'[1].type = "SegmentExtended"
    BY <1>4, <2>1, EventTypes
  <2>6. Advances
    BY <1>1, <1>3, <2>1, <2>4, <2>5 DEF Advances
  <2> QED BY <2>2, <2>3, <2>6
<1>6. CASE MaxChunksClose(chunk) \/ EndSilenceClose(chunk)
  <2>1. PICK reason : events' = <<SegmentExtended(state, chunk), SegmentClosed(active, reason)>>
    BY <1>2, <1>6 DEF MaxChunksClose, EndSilenceClose
  <2>2. /\ state'.kind = "Idle" /\ Len(state'.pending) = 0
        /\ pendingPrevious' \in {0, state.id}
    <3>1. CASE MaxChunksClose(chunk)
      <4>1. state' = Idle(<< >>, << >>) /\ pendingPrevious' = state.id
        BY <3>1 DEF MaxChunksClose
      <4> QED BY <4>1 DEF Idle
    <3>2. CASE EndSilenceClose(chunk)
      <4>1. state' = IdleAfterEnd(active) /\ pendingPrevious' = NoSegment
        BY <1>2, <3>2 DEF EndSilenceClose
      <4> QED BY <4>1 DEF Idle, IdleAfterEnd, NoSegment
    <3> QED BY <1>6, <3>1, <3>2
  <2>3. PauseOK(state')
    <3>1. state'.kind # "AfterInterimSilence" /\ Len(state'.pending) \in Nat
          /\ Len(state'.pending) < config.start
      BY <1>1, <2>2, ConfigsAre
    <3> QED BY <1>1, <3>1, ShortPause
  <2>4. Chain' \in {0, state.id}
    BY <2>2 DEF Chain
  <2>5. /\ SegmentClosed(active, reason).type = "SegmentClosed"
        /\ SegmentClosed(active, reason).previous = state.previous
    BY <1>3 DEF SegmentClosed
  <2>6. /\ DOMAIN events' = {1, 2} /\ events'[1].type = "SegmentExtended"
        /\ events'[2] = SegmentClosed(active, reason)
    BY <1>4, <2>1, EventTypes
  <2>7. Advances
    BY <1>1, <2>2, <2>4, <2>5, <2>6 DEF Advances
  <2> QED BY <2>2, <2>3, <2>7, NotActiveCounts
<1> QED BY <1>5, <1>6

LEMMA PushAdvances ==
  ASSUME BuilderOK, PauseOK(state), SilenceCounted(state), NEW speech \in BOOLEAN, Push(speech)
  PROVE  PauseOK(state') /\ SilenceCounted(state') /\ Advances
<1>1. PICK chunk \in Chunk : PushChunk(chunk) /\ frames' = frames + 1 /\ config' = config
  <2>1. frames \in Nat
    BY BuilderIs
  <2>2. [at |-> frames, speech |-> speech, source |-> TRUE] \in Chunk
    BY <2>1 DEF Chunk
  <2> QED BY <2>2 DEF Push
<1> QED BY <1>1, WaitingAdvances, InterimAdvances, ActiveAdvances DEF PushChunk

LEMMA FlushAdvances ==
  ASSUME BuilderOK, PauseOK(state), Flush
  PROVE  PauseOK(state') /\ SilenceCounted(state') /\ Advances
<1>1. /\ frames' = frames /\ frames \in Nat /\ config \in Configs
      /\ config.start \in Nat /\ config.start >= 1
  <2>1. config \in Configs
    BY DEF BuilderOK
  <2> QED BY <2>1, BuilderIs, ConfigsAre DEF Flush
<1>2. CASE FlushActive
  <2>1. /\ state.kind = "Active" /\ state' = IdleAfterEnd(state)
        /\ pendingPrevious' = NoSegment
        /\ events' = <<SegmentClosed(state, "EndSilenceReached")>>
    BY <1>2 DEF FlushActive
  <2>2. state'.kind = "Idle" /\ state'.pending = << >>
    BY <2>1 DEF IdleAfterEnd, Idle
  <2>3. PauseOK(state')
    BY <1>1, <2>2, ShortPause
  <2>4. Chain' = NoSegment
    BY <2>1, <2>2 DEF Chain
  <2>5. /\ DOMAIN events' = {1} /\ events'[1].type = "SegmentClosed"
        /\ events'[1].previous = state.previous
    BY <2>1, EventTypes DEF SegmentClosed
  <2>6. Advances
    BY <1>1, <2>1, <2>2, <2>4, <2>5 DEF Advances, NoSegment
  <2> QED BY <2>2, <2>3, <2>6, NotActiveCounts
<1>3. CASE FlushAfterInterim
  <2>1. /\ state.kind = "AfterInterimSilence" /\ state' = Idle(<< >>, << >>)
        /\ pendingPrevious' = NoSegment
        /\ events' = <<TurnCheckSilenceReached(state.previous)>>
    BY <1>3 DEF FlushAfterInterim
  <2>2. state'.kind = "Idle" /\ state'.pending = << >>
    BY <2>1 DEF Idle
  <2>3. PauseOK(state')
    BY <1>1, <2>2, ShortPause
  <2>4. Chain' = NoSegment
    BY <2>1, <2>2 DEF Chain
  <2>5. /\ DOMAIN events' = {1} /\ events'[1].type = "TurnCheckSilenceReached"
        /\ events'[1].previous = state.previous
    BY <2>1, EventTypes DEF TurnCheckSilenceReached
  <2>6. Advances
    BY <1>1, <2>1, <2>2, <2>4, <2>5 DEF Advances, NoSegment
  <2> QED BY <2>2, <2>3, <2>6, NotActiveCounts
<1>4. CASE FlushIdle
  <2>1. /\ state.kind = "Idle" /\ state' = state /\ pendingPrevious' = pendingPrevious
        /\ events' = << >>
    BY <1>4 DEF FlushIdle
  <2>2. PauseOK(state')
    BY <2>1
  <2>3. Chain' = Chain
    BY <2>1 DEF Chain
  <2>4. DOMAIN events' = {}
    BY <2>1
  <2>5. PauseEndsFirst => frames' - frames <= PauseOf(state') - PauseOf(state)
    <3>1. Len(state.pending) \in Nat
      BY <2>1, BuilderIs DEF IdleStates
    <3>2. PauseOf(state) = Len(state.pending) /\ PauseOf(state') = Len(state.pending)
      BY <2>1 DEF PauseOf
    <3> QED BY <1>1, <3>1, <3>2
  <2>6. Advances
    BY <1>1, <2>1, <2>3, <2>4, <2>5 DEF Advances
  <2> QED BY <2>1, <2>2, <2>6, NotActiveCounts
<1> QED BY <1>2, <1>3, <1>4 DEF Flush

LEMMA UpdateKeeps ==
  ASSUME BuilderOK, PauseOK(state), SilenceCounted(state), NEW next \in Configs,
         UpdateConfig(next)
  PROVE  PauseOK(state') /\ SilenceCounted(state') /\ Place' = Place
<1>1. /\ frames' = frames /\ pendingPrevious' = pendingPrevious
      /\ state' = IF state.kind = "Active" THEN state
                  ELSE [state EXCEPT !.pre = Prune(@, next.turnCheck)]
      /\ Position' = Position
  BY UpdateSound DEF UpdateConfig
<1>2. CASE state.kind = "Active"
  <2>1. state' = state
    BY <1>1, <1>2
  <2>2. Chain' = Chain
    BY <1>1, <2>1 DEF Chain
  <2>3. Pausing' = Pausing
    BY <2>1, <2>2 DEF Pausing, PauseEndsFirst
  <2> QED BY <1>1, <2>1, <2>2, <2>3 DEF Place
<1>3. CASE state.kind # "Active"
  <2>1. PICK pre : state' = [state EXCEPT !.pre = pre]
    BY <1>1, <1>3
  <2>2. state \in IdleStates \union WaitingStates
    BY <1>3, BuilderIs
  <2>3. /\ state'.kind = state.kind /\ state'.pending = state.pending
        /\ state.kind = "AfterInterimSilence" =>
             state'.previous = state.previous /\ state'.silence = state.silence
    BY <2>1, <2>2 DEF IdleStates, WaitingStates
  <2>4. state.kind \in {"Idle", "AfterInterimSilence"}
    BY <2>2 DEF IdleStates, WaitingStates
  <2>5. PauseOK(state')
    BY <1>3, <2>3 DEF PauseOK
  <2>6. Chain' = Chain
    BY <1>1, <2>3, <2>4 DEF Chain
  <2>7. Pausing' = Pausing
    BY <2>3, <2>6 DEF Pausing, PauseEndsFirst
  <2>8. PauseOf(state') = PauseOf(state)
    BY <2>3, <2>4 DEF PauseOf
  <2>9. Place' = Place
    BY <1>1, <2>6, <2>7, <2>8 DEF Place
  <2> QED BY <1>3, <2>3, <2>5, <2>9, NotActiveCounts
<1> QED BY <1>2, <1>3

-----------------------------------------------------------------------------
(* What a session never changes. *)

\* The detector of the session does not change, and its drafts stay a function.
IsMap(f) == f = [x \in DOMAIN f |-> f[x]]
Fixed(r, s) ==
  /\ DOMAIN s = Fields /\ s.turn = r.turn
  /\ s.turns = r.turns \/ IsMap(s.turns)

LEMMA ClearFixed ==
  ASSUME NEW r, DOMAIN r = Fields
  PROVE  Fixed(r, ClearOpenTurn(r))
  BY DEF Fixed, ClearOpenTurn, Fields

LEMMA EmitFixed ==
  ASSUME NEW r, NEW t, DOMAIN r = Fields
  PROVE  Fixed(r, EmitInterim(r, t))
  BY DEF Fixed, EmitInterim, Fields, IsMap

LEMMA FinalizeFixed ==
  ASSUME NEW r, NEW t, DOMAIN r = Fields
  PROVE  Fixed(r, FinalizeTurnNow(r, t))
<1>1. Fixed(r, FinalizeUpTo(r, t))
  BY DEF Fixed, FinalizeUpTo, Fields, Without, IsMap
<1> QED BY <1>1, ClearFixed DEF Fixed, FinalizeTurnNow

LEMMA CompleteFixed ==
  ASSUME NEW r, NEW t, DOMAIN r = Fields
  PROVE  Fixed(r, CompleteTurn(r, t))
<1>1. Fixed(r, [r EXCEPT !.finalization = IF @ # NoTurn /\ @ >= t THEN @ ELSE t])
  BY DEF Fixed, Fields
<1> QED BY <1>1, FinalizeFixed DEF CompleteTurn

LEMMA KeepOpenFixed ==
  ASSUME NEW r, NEW t, NEW tick, NEW interim, DOMAIN r = Fields
  PROVE  Fixed(r, KeepTurnOpen(r, t, tick, interim))
<1>1. PICK s : s = ResetTimeoutOrigin([r EXCEPT !.openTurn = t, !.acceptsRoot = TRUE], tick)
  OBVIOUS
<1>2. Fixed(r, s)
  BY <1>1 DEF Fixed, Fields, ResetTimeoutOrigin
<1>3. KeepTurnOpen(r, t, tick, interim) = IF interim THEN EmitInterim(s, t) ELSE s
  BY <1>1 DEF KeepTurnOpen
<1> QED BY <1>2, <1>3, EmitFixed DEF Fixed

LEMMA SubmitFixed ==
  ASSUME NEW r, NEW q, DOMAIN r = Fields
  PROVE  Fixed(r, Submit(r, q))
  BY DEF Fixed, Submit, Fields

LEMMA RerecognizeFixed ==
  ASSUME NEW r, NEW t, NEW purpose, DOMAIN r = Fields
  PROVE  Fixed(r, Rerecognize(r, t, purpose))
  BY SubmitFixed DEF Rerecognize

LEMMA DispatchFixed ==
  ASSUME NEW r, DOMAIN r = Fields
  PROVE  Fixed(r, Dispatch(r))
<1>1. ASSUME NEW q PROVE Fixed(r, [r EXCEPT !.segments = q])
  BY DEF Fixed, Fields
<1>2. ASSUME NEW q, NEW p PROVE Fixed(r, Submit([r EXCEPT !.segments = q], p))
  BY <1>1, SubmitFixed DEF Fixed
<1>3. Fixed(r, r)
  BY DEF Fixed
<1> QED BY <1>1, <1>2, <1>3 DEF Dispatch

LEMMA TranscriptFixed ==
  ASSUME NEW r, NEW q, DOMAIN r = Fields
  PROVE  Fixed(r, ApplyTranscript(r, q))
<1>1. PICK turns, next, new : IsMap(turns)
        /\ ApplyTranscript(r, q) = [r EXCEPT !.turns = turns, !.nextTurn = next, !.newTurns = new]
  <2>1. ASSUME NEW n, NEW m, NEW k, NEW u, NEW t
        PROVE  [r EXCEPT !.turns = Put(@, t, u), !.nextTurn = IF n THEN Max({@, t + 1}) ELSE @,
                         !.newTurns = IF m THEN Put(@, k, t) ELSE @]
             = [r EXCEPT !.turns = Put(r.turns, t, u),
                         !.nextTurn = IF n THEN Max({r.nextTurn, t + 1}) ELSE r.nextTurn,
                         !.newTurns = IF m THEN Put(r.newTurns, k, t) ELSE r.newTurns]
    OBVIOUS
  <2>2. \A t, u : IsMap(Put(r.turns, t, u))
    BY DEF IsMap, Put
  <2> QED BY <2>1, <2>2 DEF ApplyTranscript
<1> QED BY <1>1 DEF Fixed, Fields

LEMMA ApplyInterimFixed ==
  ASSUME NEW r, NEW q, DOMAIN r = Fields
  PROVE  Fixed(r, ApplyInterim(r, q))
<1>1. PICK s : s = EmitInterim(ApplyTranscript(r, q), TurnOf(r, q))
  OBVIOUS
<1>2. Fixed(r, s)
  BY <1>1, TranscriptFixed, EmitFixed DEF Fixed
<1>3. PICK t : t = TurnOf(r, q)
  OBVIOUS
<1>4. ApplyInterim(r, q) = IF r.openTurn > t THEN s
        ELSE [s EXCEPT !.openTurn = t, !.acceptsRoot = @ /\ r.openTurn = t]
  BY <1>1, <1>3 DEF ApplyInterim
<1> QED BY <1>2, <1>4 DEF Fixed, Fields

LEMMA ApplyCompletionFixed ==
  ASSUME NEW r, NEW q, DOMAIN r = Fields
  PROVE  Fixed(r, ApplyCompletion(r, q))
<1>1. PICK s : s = ApplyTranscript(r, q)
  OBVIOUS
<1>2. Fixed(r, s)
  BY <1>1, TranscriptFixed
<1>3. \A t, p : Fixed(r, Rerecognize(s, t, p)) /\ Fixed(r, CompleteTurn(s, t))
  BY <1>2, RerecognizeFixed, CompleteFixed DEF Fixed
<1> QED BY <1>1, <1>3 DEF ApplyCompletion

LEMMA FollowUpFixed ==
  ASSUME NEW r, NEW t, NEW purpose, NEW decision, NEW tick, NEW interim, DOMAIN r = Fields
  PROVE  Fixed(r, FollowUp(r, t, purpose, decision, tick, interim))
<1>1. Fixed(r, r)
  BY DEF Fixed
<1> QED BY <1>1, CompleteFixed, FinalizeFixed, KeepOpenFixed DEF FollowUp

LEMMA UnusableFixed ==
  ASSUME NEW r, NEW q, NEW decision, NEW tick, NEW interim, DOMAIN r = Fields
  PROVE  Fixed(r, Unusable(r, q, decision, tick, interim))
<1>1. PICK s : s = [r EXCEPT !.unheard = @ \union {q.segments[i] : i \in DOMAIN q.segments}]
  OBVIOUS
<1>2. Fixed(r, s)
  BY <1>1 DEF Fixed, Fields
<1>3. \A t : Fixed(r, FallbackCompletion(s, t, decision, tick, interim))
  BY <1>2, CompleteFixed, KeepOpenFixed DEF Fixed, FallbackCompletion
<1>4. \A t : Fixed(r, FollowUp(r, t, q.purpose, decision, tick, interim))
  BY FollowUpFixed
<1> QED BY <1>1, <1>2, <1>3, <1>4 DEF Unusable

LEMMA ApplyResultFixed ==
  ASSUME NEW r, NEW decision, NEW emitted, NEW tick, NEW interim, DOMAIN r = Fields
  PROVE  Fixed(r, ApplyResult(r, decision, emitted, tick, interim))
<1>1. PICK q : q = r.inFlight
  OBVIOUS
<1>2. PICK s : s = [r EXCEPT !.inFlight = NoRequest, !.runner = "idle"]
  OBVIOUS
<1>3. Fixed(r, s) /\ DOMAIN s = Fields
  BY <1>2 DEF Fixed, Fields
<1>4. Fixed(r, Unusable(s, q, decision, tick, interim))
  BY <1>3, UnusableFixed DEF Fixed
<1>5. Fixed(r, ApplyInterim(s, q)) /\ Fixed(r, ApplyCompletion(s, q))
  BY <1>3, ApplyInterimFixed, ApplyCompletionFixed DEF Fixed
<1>6. Fixed(s, ReplaceText(s, q.turn, emitted))
  BY <1>3 DEF Fixed, Fields, ReplaceText, IsMap
<1>7. Fixed(r, FollowUp(ReplaceText(s, q.turn, emitted), q.turn, q.purpose, decision, tick, interim))
  BY <1>3, <1>6, FollowUpFixed DEF Fixed
<1> QED BY <1>1, <1>2, <1>3, <1>4, <1>5, <1>7 DEF ApplyResult

LEMMA TurnCheckFixed ==
  ASSUME NEW r, DOMAIN r = Fields
  PROVE  Fixed(r, Checked(r)) /\ Fixed(r, HandleTurnCheck(r))
<1>1. \A s : DOMAIN s = Fields => Fixed(s, Checked(s)) /\ Fixed(s, s)
  BY DEF Fixed, Checked, Fields
<1>2. ASSUME NEW k PROVE Fixed(r, Promote(r, k)) /\ Fixed(r, Checked(Promote(r, k)))
  <2>1. ASSUME NEW q PROVE Fixed(r, Dispatch([r EXCEPT !.segments = q]))
    <3>1. Fixed(r, [r EXCEPT !.segments = q])
      BY DEF Fixed, Fields
    <3> QED BY <3>1, DispatchFixed DEF Fixed
  <2>2. Fixed(r, Promote(r, k))
    BY <2>1 DEF Promote
  <2> QED BY <1>1, <2>2 DEF Fixed
<1>3. ASSUME NEW t PROVE Fixed(r, CheckOpenTurn(r, t))
  <2>1. Fixed(r, Checked(CompleteTurn(r, t)))
    BY <1>1, CompleteFixed DEF Fixed
  <2>2. Fixed(r, Checked(Rerecognize(r, t, CompletionPurpose(r))))
    BY <1>1, RerecognizeFixed DEF Fixed
  <2> QED BY <1>1, <2>1, <2>2 DEF CheckOpenTurn
<1> QED BY <1>1, <1>2, <1>3 DEF HandleTurnCheck

LEMMA TimeoutFixed ==
  ASSUME NEW r, NEW tick, DOMAIN r = Fields
  PROVE  Fixed(r, TimeoutOpenTurn(r)) /\ Fixed(r, Dispatch(RefreshTimeout(r, tick)))
<1>1. Fixed(r, TimeoutOpenTurn(r))
  BY CompleteFixed, RerecognizeFixed DEF TimeoutOpenTurn
<1>2. Fixed(r, RefreshTimeout(r, tick))
  BY DEF Fixed, RefreshTimeout, ResetTimeoutOrigin, Fields
<1> QED BY <1>1, <1>2, DispatchFixed DEF Fixed

LEMMA StepFixed ==
  ASSUME DOMAIN rt = Fields, Step
  PROVE  rt'.turn = rt.turn /\ (rt'.turns = rt.turns \/ IsMap(rt'.turns))
<1>1. \A s : Fixed(rt, s) => s.turn = rt.turn /\ (s.turns = rt.turns \/ IsMap(s.turns))
  BY DEF Fixed
<1>2. CASE ApplyAnswer
  BY <1>1, <1>2, ApplyResultFixed DEF ApplyAnswer
<1>3. CASE FinalizePending
  <2>1. PICK s : s = [rt EXCEPT !.finalization = NoTurn]
    OBVIOUS
  <2>2. Fixed(rt, s)
    BY <2>1 DEF Fixed, Fields
  <2>3. Fixed(rt, FinalizeTurnNow(s, rt.finalization))
    BY <2>2, FinalizeFixed DEF Fixed
  <2> QED BY <1>1, <1>3, <2>1, <2>3 DEF FinalizePending
<1>4. CASE CheckTurn
  BY <1>1, <1>4, TurnCheckFixed DEF CheckTurn, TurnChecked
<1>5. CASE TimeoutOrDispatch
  BY <1>1, <1>5, TimeoutFixed DEF TimeoutOrDispatch, TimedOutOrDispatched
<1> QED BY <1>2, <1>3, <1>4, <1>5 DEF Step

LEMMA AbsorbFixed ==
  ASSUME NEW r, NEW evs, NEW cursor, DOMAIN r = Fields
  PROVE  /\ Absorb(r, evs, cursor).turn = r.turn
         /\ Absorb(r, evs, cursor).turns = r.turns \/ IsMap(Absorb(r, evs, cursor).turns)
<1>1. PICK s : s = IF \E i \in {i \in DOMAIN evs : evs[i].type = "SegmentClosed"} :
                          evs[i].reason = "EndSilenceReached"
                   THEN ResetStreamingSessions(r) ELSE r
  OBVIOUS
<1>2. Fixed(r, s)
  BY <1>1 DEF Fixed, Fields, ResetStreamingSessions
<1>3. ASSUME NEW n, NEW q, NEW c
      PROVE  /\ [s EXCEPT !.epoch = @ + n, !.segments = q, !.turnCheck = c].turn = r.turn
             /\ [s EXCEPT !.epoch = @ + n, !.segments = q, !.turnCheck = c].turns = s.turns
  BY <1>2 DEF Fixed, Fields
<1>4. PICK n, q, c : Absorb(r, evs, cursor) = [s EXCEPT !.epoch = @ + n, !.segments = q, !.turnCheck = c]
  BY <1>1 DEF Absorb
<1> QED BY <1>2, <1>3, <1>4 DEF Fixed

LEMMA DetectorIsFixed ==
  ASSUME DOMAIN rt = Fields, [Next]_vars
  PROVE  rt'.turn.detector = rt.turn.detector /\ (rt'.turns = rt.turns \/ IsMap(rt'.turns))
<1>1. CASE Step
  BY <1>1, StepFixed
<1>2. CASE \/ \E speech \in BOOLEAN : PushFrame(speech)
           \/ StopGracefully
  BY <1>2, AbsorbFixed DEF PushFrame, StopGracefully
<1>3. CASE RunnerProgress \/ StopRunner
  <2>1. PICK up, answer : rt' = [rt EXCEPT !.up = up, !.runner = answer]
    <3>1. CASE RunnerProgress
      <4>1. PICK answer : rt' = [rt EXCEPT !.runner = answer]
        BY <3>1 DEF RunnerProgress, StartRequest, Answer
      <4>2. rt' = [rt EXCEPT !.up = rt.up, !.runner = answer]
        BY <4>1 DEF Fields
      <4> QED BY <4>2
    <3>2. CASE StopRunner
      BY <3>2 DEF StopRunner, Fields
    <3> QED BY <1>3, <3>1, <3>2
  <2> QED BY <2>1 DEF Fields
<1>4. CASE FinishDrain
  BY <1>4, CompleteFixed DEF FinishDrain, Fixed
<1>5. CASE DrainTimesOut \/ Cancel \/ UNCHANGED vars
  BY <1>5 DEF DrainTimesOut, Cancel, vars
<1>6. ASSUME NEW next \in Configs, NEW turn \in TurnConfigs, UpdateParameters(next, turn)
      PROVE  rt'.turn.detector = rt.turn.detector /\ rt'.turns = rt.turns
  BY <1>6 DEF UpdateParameters, Fields
<1> QED BY <1>1, <1>2, <1>3, <1>4, <1>5, <1>6 DEF Next

-----------------------------------------------------------------------------
(* The engine. *)

LEMMA SamePlaceSound ==
  ASSUME NEW b, NEW c, c.next = b.next, c.active = b.active, c.tick = b.tick
  PROVE  \A r : Sound(r, b) => Sound(r, c)
  BY DEF Sound, OriginOK, Spoken, InTurn

LEMMA SamePlaceEvents ==
  ASSUME NEW b, NEW c, NEW d, NEW e, NEW evs, d.next = b.next, e.next = c.next,
         e.active = c.active, EventsOK(evs, b, c)
  PROVE  EventsOK(evs, d, e)
  BY DEF EventsOK, EventOK

\* What the builder and the session owe.
Settled ==
  /\ PauseOK(state) /\ SilenceCounted(state) /\ IsMap(rt.turns)
  /\ Guarded => Owed(rt, Place)
  /\ phase = "Done" /\ Guarded => rt.turns = << >>

LEMMA StepOwed ==
  ASSUME NEW b, b = Place, BuilderOK, PauseOK(state), Good(rt, b), Owed(rt, b), Guarded, Step
  PROVE  Owed(rt', b)
<1>0. b.tick = Tick /\ b.tick \in Nat
  BY PlaceIs, BuilderIs DEF Tick
<1>1. CASE ApplyAnswer
  <2>1. PICK decision \in Decisions(rt), emitted \in {"stale", "current"} :
          rt' = ApplyResult(rt, decision, emitted, b.tick, InterimEnabled)
    BY <1>0, <1>1 DEF ApplyAnswer
  <2>2. ResultReady(rt)
    BY <1>1 DEF ApplyAnswer
  <2>3. PICK interim : interim = InterimEnabled
    OBVIOUS
  <2>4. Owed(ApplyResult(rt, decision, emitted, b.tick, interim), b)
    BY <2>2, ApplyResultOwed
  <2> QED BY <2>1, <2>3, <2>4
<1>2. CASE FinalizePending
  <2>1. /\ rt.finalization # NoTurn /\ ~FinalizationIsBlocked(rt, rt.finalization)
        /\ rt' = FinalizeTurnNow([rt EXCEPT !.finalization = NoTurn], rt.finalization)
    BY <1>2 DEF FinalizePending, FinalizationReady
  <2> QED BY <2>1, FinalizePendingOwed
<1>3. CASE CheckTurn
  <2>1. /\ rt.finalization # NoTurn => FinalizationIsBlocked(rt, rt.finalization)
        /\ rt.turnCheck # NoCheck /\ rt' \in {Checked(rt), HandleTurnCheck(rt)}
    BY <1>3 DEF CheckTurn, TurnChecked, FinalizationReady
  <2>2. Owed(HandleTurnCheck(rt), b)
    BY <2>1, TurnCheckOwed
  <2>3. Owed(Checked(rt), b)
    BY CheckedOwed DEF Good
  <2> QED BY <2>1, <2>2, <2>3
<1>4. CASE TimeoutOrDispatch
  <2>1. rt.finalization # NoTurn => FinalizationIsBlocked(rt, rt.finalization)
    BY <1>4 DEF TimeoutOrDispatch, FinalizationReady
  <2>2. CASE OpenTurnTimedOut(rt, Tick, TimeoutTicks)
    <3>1. rt.openTurn # NoTurn /\ rt' = TimeoutOpenTurn(rt)
      BY <1>4, <2>2 DEF TimeoutOrDispatch, TimedOutOrDispatched, OpenTurnTimedOut
    <3>2. rt.turn.detector # "Simple" => b.chain = NoSegment
      <4> SUFFICES ASSUME rt.turn.detector # "Simple" PROVE b.chain = NoSegment
        OBVIOUS
      <4>1. PauseEndsFirst
        BY DEF Guarded
      <4>2. Rested(rt, b)
        BY DEF Owed, Ledger
      <4> QED BY <2>2, <4>1, <4>2, NoTimeoutInChain
    <3> QED BY <2>1, <3>1, <3>2, TimeoutOwed
  <2>3. CASE ~OpenTurnTimedOut(rt, Tick, TimeoutTicks)
    <3>1. rt' = Dispatch(RefreshTimeout(rt, b.tick))
      BY <1>0, <1>4, <2>3 DEF TimeoutOrDispatch, TimedOutOrDispatched
    <3> QED BY <2>1, <3>1, RefreshOwed
  <2> QED BY <2>2, <2>3
<1> QED BY <1>1, <1>2, <1>3, <1>4 DEF Step

\* What the runner does is not the session's.
LEMMA RunnerOwed ==
  ASSUME NEW b, Good(rt, b), Owed(rt, b), RunnerProgress \/ StopRunner
  PROVE  Owed(rt', b)
<1>1. DOMAIN rt = Fields
  BY DEF Good, Consistent
<1>2. PICK up, answer : rt' = [rt EXCEPT !.up = up, !.runner = answer]
  <2>1. CASE RunnerProgress
    <3>1. PICK answer : rt' = [rt EXCEPT !.runner = answer]
      BY <2>1 DEF RunnerProgress, StartRequest, Answer
    <3>2. rt' = [rt EXCEPT !.up = rt.up, !.runner = answer]
      BY <1>1, <3>1 DEF Fields
    <3> QED BY <3>2
  <2>2. CASE StopRunner
    BY <2>2 DEF StopRunner, Fields
  <2> QED BY <2>1, <2>2
<1>3. Alike(rt, rt') /\ SameTimer(rt, rt') /\ rt'.inFlight = rt.inFlight
  BY <1>1, <1>2 DEF Alike, SameTimer, Fields
<1> QED BY <1>3, AlikeOwed

\* A drain that has nothing left to do leaves no draft.
LEMMA FinishedOwed ==
  ASSUME NEW b, Good(rt, b), Owed(rt, b), FinishDrain
  PROVE  Owed(rt', b) /\ DOMAIN rt'.turns = {}
<1>1. /\ rt.inFlight = NoRequest /\ rt.finalization = NoTurn /\ rt.segments = << >>
      /\ rt' = IF rt.openTurn = NoTurn THEN rt ELSE CompleteTurn(rt, rt.openTurn)
  BY DEF FinishDrain, HasPendingWork, InFlight
<1>2. Owed(rt', b)
  BY <1>1, CompleteOpenOwed
<1>3. Good(rt', b)
  <2>1. rt.openTurn \in Nat
    BY TurnsAre
  <2>2. Sound(CompleteTurn(rt, rt.openTurn), b)
    BY <2>1, CompleteSound DEF Good
  <2>3. Consistent(rt')
    BY NextFollows DEF Good, Next, Follows
  <2> QED BY <1>1, <2>2, <2>3 DEF Good
<1>4. rt'.inFlight = NoRequest /\ rt'.finalization = NoTurn /\ rt'.openTurn = NoTurn
  <2>1. CASE rt.openTurn = NoTurn
    BY <1>1, <2>1
  <2>2. CASE rt.openTurn # NoTurn
    <3>1. ~FinalizationIsBlocked(rt, rt.openTurn)
      BY <1>1 DEF FinalizationIsBlocked, InFlight
    <3>2. rt' = FinalizeTurnNow(rt, rt.openTurn)
      BY <1>1, <2>2, <3>1 DEF CompleteTurn
    <3>3. PICK s : s = FinalizeUpTo(rt, rt.openTurn)
      OBVIOUS
    <3>4. DOMAIN rt = Fields
      BY DEF Good, Consistent
    <3>5. s.inFlight = rt.inFlight /\ s.finalization = rt.finalization /\ DOMAIN s = Fields
      BY <3>3, <3>4 DEF FinalizeUpTo, Fields
    <3> QED BY <1>1, <3>2, <3>3, <3>5 DEF FinalizeTurnNow, ClearOpenTurn, Fields
  <2> QED BY <2>1, <2>2
<1>5. ASSUME NEW u \in DOMAIN rt'.turns PROVE FALSE
  <2>1. u \in Nat /\ u >= 1
    BY <1>3, TurnsAre
  <2>2. u <= 0
    BY <1>2, <1>4, NothingAsked DEF Owed, CoveredAbove, NoTurn
  <2> QED BY <2>1, <2>2
<1> QED BY <1>2, <1>5

LEMMA InitSettled == Init => Settled
<1> SUFFICES ASSUME Init PROVE Settled
  OBVIOUS
<1>1. IInv
  BY InitSound
<1>2. /\ config \in Configs /\ state.kind = "Idle" /\ state.pending = << >>
      /\ pendingPrevious = NoSegment /\ frames = 0 /\ nextSegmentId = 1
  BY DEF Init, BuilderInit, Idle
<1>3. PauseOK(state) /\ SilenceCounted(state)
  <2>1. config.start \in Nat /\ config.start >= 1 /\ Len(state.pending) = 0
    BY <1>2, ConfigsAre
  <2> QED BY <1>2, <2>1, ShortPause, NotActiveCounts
<1>4. PICK turn \in TurnConfigs : rt = Runtime0(turn)
  BY DEF Init
<1>5. /\ rt.segments = << >> /\ rt.turnCheck = NoCheck /\ rt.finalization = NoTurn
      /\ rt.inFlight = NoRequest /\ rt.turns = << >> /\ rt.confirmed = 0
      /\ rt.openTurn = NoTurn /\ rt.newTurns = << >> /\ rt.nextTurn = 1
      /\ rt.openSince = NoTick
  BY <1>4 DEF Runtime0
<1>6. DOMAIN rt.turns = {} /\ DOMAIN rt.newTurns = {} /\ DOMAIN rt.segments = {} /\ IsMap(rt.turns)
  BY <1>5 DEF IsMap
<1>7. PICK b : b = Place
  OBVIOUS
<1>8. b.next = 1 /\ b.tick = 0 /\ b.chain = 0 /\ ~b.active
  BY <1>2, <1>7 DEF Place, Position, Chain, NoSegment
<1>9. Owed(rt, b)
  <2>1. ~OfSegments(rt.inFlight) /\ ~OfTurn(rt.inFlight)
    BY <1>5, NothingAsked
  <2>2. Numbered(rt, b) /\ Lined(rt, b) /\ DraftsBefore(rt, b)
    BY <1>5, <1>6, <1>8, <2>1 DEF Numbered, Lined, DraftsBefore
  <2>3. ConfirmedBefore(rt, b) /\ Ordered(rt)
    BY <1>5, <1>6, <1>8 DEF ConfirmedBefore, Ordered
  <2>4. Aimed(rt, b) /\ Deferred(rt, b) /\ CheckEnds(rt, b) /\ Rested(rt, b)
    BY <1>5, <2>1 DEF Aimed, Deferred, CheckEnds, Rested
  <2>5. CoveredAbove(rt, NoTurn)
    BY <1>6 DEF CoveredAbove
  <2> QED BY <2>2, <2>3, <2>4, <2>5 DEF Owed, Ledger
<1> QED BY <1>3, <1>5, <1>6, <1>7, <1>9 DEF Settled

LEMMA NextSettled == IInv /\ Settled /\ [Next]_vars => Settled'
<1> SUFFICES ASSUME IInv, Settled, [Next]_vars PROVE Settled'
  OBVIOUS
<1>0. /\ IInv' /\ BuilderOK /\ BuilderOK' /\ PauseOK(state) /\ SilenceCounted(state)
      /\ Consistent(rt) /\ Consistent(rt') /\ DOMAIN rt = Fields
  BY NextSound DEF IInv, Consistent, Settled
<1>1. (Guarded' => Guarded) /\ IsMap(rt'.turns)
  BY <1>0, DetectorIsFixed DEF Guarded, PauseEndsFirst, Settled
<1>2. PICK b : b = Place
  OBVIOUS
<1>3. Good(rt, b)
  <2>1. /\ PlaceOK(b) /\ b.next = Position.next /\ b.tick = Position.tick
        /\ b.active = Position.active
    BY <1>0, <1>2, PlaceIs, BuilderIs
  <2>2. Sound(rt, Position)
    BY DEF IInv
  <2> QED BY <1>0, <2>1, <2>2, SamePlaceSound DEF Good
<1>4. ASSUME Guarded' PROVE Guarded /\ Owed(rt, b)
  BY <1>1, <1>2, <1>4 DEF Settled
<1>5. ASSUME Advances, PauseOK(state'), EventsOK(events', Position, Position'),
             rt' = Absorb(rt, events', frames'), Guarded'
      PROVE  Owed(rt', Place')
  <2>1. Passes(events', Place, Place')
    BY <1>0, <1>5, AdvancesPasses
  <2>2. PICK c, evs : c = Place' /\ evs = events'
    OBVIOUS
  <2>3. /\ PlaceOK(c) /\ c.next = Position'.next /\ c.active = Position'.active
        /\ c.tick = frames'
    BY <1>0, <1>5, <2>2, PlaceNext
  <2>4. b.next = Position.next
    BY <1>0, <1>2, PlaceIs
  <2>5. EventsOK(evs, b, c)
    BY <1>5, <2>2, <2>3, <2>4, SamePlaceEvents
  <2>6. Owed(Absorb(rt, evs, c.tick), c)
    BY <1>2, <1>3, <1>4, <1>5, <2>1, <2>2, <2>3, <2>5, AbsorbOwed
  <2> QED BY <1>5, <2>2, <2>3, <2>6
<1>6. ASSUME NEW speech \in BOOLEAN, PushFrame(speech) PROVE Settled'
  <2>1. /\ Push(speech) /\ rt' = Absorb(rt, events', frames')
        /\ phase = "Running" /\ phase' = phase
    BY <1>6 DEF PushFrame
  <2>2. PauseOK(state') /\ SilenceCounted(state') /\ Advances
    BY <1>0, <2>1, PushAdvances
  <2>3. EventsOK(events', Position, Position')
    BY <1>0, <2>1, PushSound
  <2> QED BY <1>1, <1>5, <2>1, <2>2, <2>3 DEF Settled
<1>7. ASSUME NEW next \in Configs, NEW turn \in TurnConfigs, UpdateParameters(next, turn)
      PROVE  Settled'
  <2>1. UpdateConfig(next) /\ rt' = [rt EXCEPT !.turn = turn] /\ phase = "Running" /\ phase' = phase
    BY <1>7 DEF UpdateParameters
  <2>2. PauseOK(state') /\ SilenceCounted(state') /\ Place' = Place
    BY <1>0, <2>1, UpdateKeeps
  <2>3. Alike(rt, rt') /\ SameTimer(rt, rt') /\ rt'.inFlight = rt.inFlight
    BY <1>0, <2>1 DEF Alike, SameTimer, Fields
  <2>4. ASSUME Guarded' PROVE Owed(rt', b)
    BY <1>4, <2>3, <2>4, AlikeOwed
  <2> QED BY <1>1, <1>2, <2>1, <2>2, <2>4 DEF Settled
<1>8. CASE StopGracefully
  <2>1. Flush /\ rt' = Absorb(rt, events', frames) /\ phase' = "Draining" /\ frames' = frames
    BY <1>8 DEF StopGracefully, Flush
  <2>2. PauseOK(state') /\ SilenceCounted(state') /\ Advances
    BY <1>0, <2>1, FlushAdvances
  <2>3. EventsOK(events', Position, Position')
    BY <1>0, <2>1, FlushSound
  <2> QED BY <1>1, <1>5, <2>1, <2>2, <2>3 DEF Settled
<1>9. CASE Step \/ RunnerProgress \/ StopRunner \/ FinishDrain \/ DrainTimesOut \/ Cancel
           \/ UNCHANGED vars
  <2>1. UNCHANGED builderVars
    BY <1>9 DEF Step, RunnerProgress, StartRequest, Answer, StopRunner, RunnerSteps,
                FinishDrain, DrainTimesOut, Cancel, vars
  <2>2. state' = state /\ Place' = Place
    <3>1. /\ state' = state /\ frames' = frames /\ nextSegmentId' = nextSegmentId
          /\ pendingPrevious' = pendingPrevious
      BY <2>1 DEF builderVars
    <3>2. Position' = Position /\ Chain' = Chain
      BY <3>1 DEF Position, Chain
    <3>3. Pausing' = Pausing
      BY <3>1, <3>2 DEF Pausing, PauseEndsFirst
    <3> QED BY <3>1, <3>2, <3>3 DEF Place
  <2>3. ASSUME Guarded' PROVE Owed(rt', b) /\ (phase' = "Done" => rt'.turns = << >>)
    <3>1. Guarded /\ Owed(rt, b)
      BY <1>4, <2>3
    <3>2. CASE Step
      <4>1. phase' # "Done"
        BY <3>2 DEF Step, Stepping
      <4> QED BY <1>0, <1>2, <1>3, <3>1, <3>2, <4>1, StepOwed
    <3>3. CASE RunnerProgress \/ StopRunner
      <4>1. phase' # "Done"
        BY <3>3 DEF RunnerProgress, StartRequest, Answer, StopRunner, RunnerSteps
      <4> QED BY <1>3, <3>1, <3>3, <4>1, RunnerOwed
    <3>4. CASE FinishDrain
      <4>1. Owed(rt', b) /\ DOMAIN rt'.turns = {}
        BY <1>3, <3>1, <3>4, FinishedOwed
      <4>2. rt'.turns = << >>
        BY <1>1, <4>1 DEF IsMap
      <4> QED BY <4>1, <4>2
    <3>5. CASE DrainTimesOut \/ Cancel
      BY <3>1, <3>5 DEF DrainTimesOut, Cancel
    <3>6. CASE UNCHANGED vars
      BY <3>1, <3>6 DEF vars, Settled
    <3> QED BY <1>9, <3>2, <3>3, <3>4, <3>5, <3>6
  <2> QED BY <1>0, <1>1, <1>2, <2>2, <2>3 DEF Settled
<1> QED BY <1>6, <1>7, <1>8, <1>9 DEF Next

(***************************************************************************)
(* A drain that completes has finalized every turn that got text, when the *)
(* pause inside an utterance ends before the timeout of the open turn, or  *)
(* the detector is the simple one.                                         *)
(***************************************************************************)
THEOREM NothingLeftBehind == Spec => []NoTurnLeftBehind
<1>1. Settled => NoTurnLeftBehind
  BY DEF Settled, NoTurnLeftBehind, Guarded
<1>2. IInv /\ Settled /\ [Next]_vars => (IInv /\ Settled)'
  BY NextSettled, NextSound
<1>3. Init => IInv /\ Settled
  BY InitSound, InitSettled
<1> QED BY <1>1, <1>2, <1>3, PTL DEF Spec

-----------------------------------------------------------------------------
(***************************************************************************)
(* SpokenOrder.  The text of a turn only grows while the turn is the       *)
(* newest, and turns close in their order.  Told says why:                 *)
(*   Reached      every draft is the open turn or older, or a whole-turn   *)
(*                request is about it or about a newer one,                *)
(*   Newest       a request for more text of a turn is for the newest,     *)
(*   NoHeirs      no segment continues one that ended its utterance,       *)
(*   Whole        nothing continues the turn of a whole-turn request, but  *)
(*                a timeout's, which is the open turn,                     *)
(*   Later        drafts end in the order of their turns, and after what   *)
(*                is confirmed,                                            *)
(*   TextOrdered  the segments of drafts and finals are in the order of    *)
(*                their turns.                                             *)
(* NoHeirs is why no segment may reach the length limit: what is cut there *)
(* has a child although it asks for a completion.                          *)
(***************************************************************************)
Precedes(a, c) == \A x \in Ids(a), y \in Ids(c) : x < y

Reached(r) ==
  LET q == r.inFlight IN
  \A u \in DOMAIN r.turns : u <= r.openTurn \/ (OfTurn(q) /\ u <= q.turn)

Newest(r) ==
  LET q == r.inFlight IN
  OfSegments(q) /\ q.target # New => \A u \in DOMAIN r.turns : u <= q.target

Childless(id, r, b) ==
  b.chain # id /\ \A j \in DOMAIN r.segments : r.segments[j].previous # id

NoHeirs(r, b) ==
  LET q == r.inFlight IN
  /\ \A i \in DOMAIN r.segments :
       Kind(r.segments[i]) = "CompletionCheck" => Childless(r.segments[i].id, r, b)
  /\ q.kind = "CompletionCheck" => Childless(q.last, r, b)

Whole(r, b) ==
  LET q == r.inFlight IN
  OfTurn(q) => IF q.purpose = "TimeoutFinal" THEN r.openTurn = q.turn
               ELSE QueueSettled(r, q.turn) /\ Beyond(b, q.turn)

Later(r) ==
  /\ \A t \in DOMAIN r.turns : r.confirmed < r.turns[t].to
  /\ \A u, t \in DOMAIN r.turns : u < t => r.turns[u].to < r.turns[t].to

TextOrdered(r) ==
  /\ \A u, t \in DOMAIN r.turns : u < t => Precedes(r.turns[u].audio, r.turns[t].audio)
  /\ \A o \in FinalsOf(r) : o.turn \in r.finalized
  /\ \A o \in FinalsOf(r), t \in DOMAIN r.turns : Precedes(o.audio, r.turns[t].audio)
  /\ \A o, p \in FinalsOf(r) : o.turn < p.turn => Precedes(o.audio, p.audio)

Part(r, b) == Newest(r) /\ NoHeirs(r, b) /\ Whole(r, b) /\ Later(r) /\ TextOrdered(r)

Told(r, b) == Reached(r) /\ Part(r, b)

-----------------------------------------------------------------------------
(* Steps that tell nothing. *)

Retold(r, s) ==
  /\ s.segments = r.segments /\ s.confirmed = r.confirmed /\ s.openTurn = r.openTurn
  /\ s.inFlight = r.inFlight /\ s.finalized = r.finalized /\ FinalsOf(s) = FinalsOf(r)
  /\ DOMAIN s.turns = DOMAIN r.turns
  /\ \A t \in DOMAIN r.turns :
       s.turns[t].audio = r.turns[t].audio /\ s.turns[t].to = r.turns[t].to

LEMMA RetoldTold ==
  ASSUME NEW r, NEW s, NEW b, Retold(r, s)
  PROVE  /\ Part(r, b) => Part(s, b)
         /\ Told(r, b) => Told(s, b)
<1>1. Reached(r) => Reached(s)
  BY DEF Retold, Reached
<1>2. Newest(r) => Newest(s)
  BY DEF Retold, Newest
<1>3. NoHeirs(r, b) => NoHeirs(s, b)
  BY DEF Retold, NoHeirs, Childless
<1>4. Whole(r, b) => Whole(s, b)
  BY DEF Retold, Whole, QueueSettled
<1>5. Later(r) => Later(s)
  BY DEF Retold, Later
<1>6. TextOrdered(r) => TextOrdered(s)
  BY DEF Retold, TextOrdered
<1> QED BY <1>1, <1>2, <1>3, <1>4, <1>5, <1>6 DEF Part, Told

LEMMA EmitRetold ==
  ASSUME NEW r, NEW t, Consistent(r), \A u \in DOMAIN r.turns : r.turns[u] \in TurnDraft
  PROVE  Retold(r, EmitInterim(r, t))
<1>1. PICK s : s = EmitInterim(r, t)
  OBVIOUS
<1>2. CASE s = r
  BY <1>1, <1>2 DEF Retold
<1>3. CASE s # r
  <2>1. PICK o : o = Output(r.nextSeq, t, FALSE, r.turns[t])
    OBVIOUS
  <2>2. o.final = FALSE
    BY <2>1 DEF Output
  <2>3. /\ t \in DOMAIN r.turns
        /\ s = [r EXCEPT !.out = @ \union {o}, !.nextSeq = @ + 1, !.turns[t].emitted = "current"]
    BY <1>1, <1>3, <2>1 DEF EmitInterim
  <2>4. /\ s.segments = r.segments /\ s.confirmed = r.confirmed /\ s.openTurn = r.openTurn
        /\ s.inFlight = r.inFlight /\ s.finalized = r.finalized /\ s.out = r.out \union {o}
        /\ s.turns = [r.turns EXCEPT ![t].emitted = "current"]
    BY <2>3 DEF Consistent, Fields
  <2>5. FinalsOf(s) = FinalsOf(r)
    BY <2>2, <2>4 DEF FinalsOf
  <2>6. /\ DOMAIN s.turns = DOMAIN r.turns
        /\ \A u \in DOMAIN r.turns :
             s.turns[u].audio = r.turns[u].audio /\ s.turns[u].to = r.turns[u].to
    BY <2>4 DEF TurnDraft
  <2> QED BY <1>1, <2>4, <2>5, <2>6 DEF Retold
<1> QED BY <1>2, <1>3

LEMMA ReplaceTextRetold ==
  ASSUME NEW r, NEW b, NEW t, NEW emitted, Good(r, b)
  PROVE  Retold(r, ReplaceText(r, t, emitted))
<1>1. PICK s : s = ReplaceText(r, t, emitted)
  OBVIOUS
<1>2. CASE s = r
  BY <1>1, <1>2 DEF Retold
<1>3. CASE s # r
  <2>1. t \in DOMAIN r.turns /\ s = [r EXCEPT !.turns[t].emitted = emitted]
    BY <1>1, <1>3 DEF ReplaceText
  <2>2. /\ s.segments = r.segments /\ s.confirmed = r.confirmed /\ s.openTurn = r.openTurn
        /\ s.inFlight = r.inFlight /\ s.finalized = r.finalized /\ s.out = r.out
        /\ s.turns = [r.turns EXCEPT ![t].emitted = emitted]
    BY <2>1 DEF Good, Consistent, Fields
  <2>3. \A u \in DOMAIN r.turns : r.turns[u] \in TurnDraft
    BY DEF Good, Sound, Typed
  <2>4. /\ DOMAIN s.turns = DOMAIN r.turns
        /\ \A u \in DOMAIN r.turns :
             s.turns[u].audio = r.turns[u].audio /\ s.turns[u].to = r.turns[u].to
    BY <2>2, <2>3 DEF TurnDraft
  <2> QED BY <1>1, <2>2, <2>4 DEF Retold, FinalsOf
<1> QED BY <1>2, <1>3

\* What is left when the request in flight is answered.
LEMMA AnsweredPart ==
  ASSUME NEW r, NEW b, Good(r, b), Part(r, b)
  PROVE  Part(Answered(r), b)
<1>1. PICK s : s = Answered(r)
  OBVIOUS
<1>2. /\ s.segments = r.segments /\ s.confirmed = r.confirmed /\ s.openTurn = r.openTurn
      /\ s.inFlight = NoRequest /\ s.finalized = r.finalized /\ s.out = r.out
      /\ s.turns = r.turns
  BY <1>1 DEF Answered, Good, Consistent, Fields
<1>3. ~OfSegments(s.inFlight) /\ ~OfTurn(s.inFlight) /\ s.inFlight.kind # "CompletionCheck"
  BY <1>2, NothingAsked DEF OfSegments
<1>4. Newest(s) /\ Whole(s, b)
  BY <1>3 DEF Newest, Whole
<1>5. NoHeirs(s, b)
  BY <1>2, <1>3 DEF Part, NoHeirs, Childless
<1>6. Later(s)
  BY <1>2 DEF Part, Later
<1>7. TextOrdered(s)
  <2>1. FinalsOf(s) = FinalsOf(r)
    BY <1>2 DEF FinalsOf
  <2> QED BY <1>2, <2>1 DEF Part, TextOrdered
<1> QED BY <1>1, <1>4, <1>5, <1>6, <1>7 DEF Part

-----------------------------------------------------------------------------
(* Finalizing. *)

LEMMA FinalsAre ==
  ASSUME NEW r, NEW t, NEW s, Consistent(r), s = FinalizeTurnNow(r, t)
  PROVE  /\ s.finalized = r.finalized \union {u \in DOMAIN r.turns : u <= t}
         /\ \A o \in FinalsOf(s) :
              \/ o \in FinalsOf(r)
              \/ \E u \in DOMAIN r.turns : u <= t /\ o.turn = u /\ o.audio = r.turns[u].audio
<1> DEFINE due == {u \in DOMAIN r.turns : u <= t}
           Final(u) == Output(r.nextSeq + Cardinality({v \in due : v < u}), u, TRUE, r.turns[u])
           outputs == {Final(u) : u \in due}
           n == r.nextSeq + Cardinality(due)
           confirmed == Max({r.confirmed} \union {r.turns[u].to : u \in due})
           w == Without(r.turns, due)
<1>1. s = [r EXCEPT !.out = @ \union outputs, !.nextSeq = n,
                    !.finalized = @ \union due, !.confirmed = confirmed,
                    !.turns = w, !.openTurn = NoTurn,
                    !.acceptsRoot = FALSE, !.openSince = NoTick]
  BY DEF FinalizeTurnNow, FinalizeUpTo, ClearOpenTurn
<1>2. ASSUME NEW o \in outputs PROVE \E u \in due : o.turn = u /\ o.audio = r.turns[u].audio
  <2>1. PICK u \in due : o = Final(u)
    OBVIOUS
  <2>2. Final(u).turn = u /\ Final(u).audio = r.turns[u].audio
    BY DEF Output
  <2> HIDE DEF Final
  <2> QED BY <2>1, <2>2
<1> HIDE DEF outputs, n, confirmed, w, due
<1>3. s.out = r.out \union outputs /\ s.finalized = r.finalized \union due
  BY <1>1 DEF Consistent, Fields
<1>4. \A o \in FinalsOf(s) : o \in FinalsOf(r) \/ o \in outputs
  BY <1>3 DEF FinalsOf
<1> QED BY <1>2, <1>3, <1>4 DEF due

\* Every draft above t is left to a whole-turn request, which stays settled.
LEMMA FinalizeTold ==
  ASSUME NEW r, NEW b, NEW t \in Nat, Good(r, b), Part(r, b), r.openTurn <= t,
         \A u \in DOMAIN r.turns : u <= t \/ (OfTurn(r.inFlight) /\ u <= r.inFlight.turn),
         OfTurn(r.inFlight) => r.inFlight.turn > t
  PROVE  Told(FinalizeTurnNow(r, t), b)
<1>1. PICK s, q : s = FinalizeTurnNow(r, t) /\ q = r.inFlight
  OBVIOUS
<1>2. /\ s.segments = r.segments /\ s.inFlight = q /\ s.openTurn = NoTurn
      /\ DOMAIN s.turns = {u \in DOMAIN r.turns : ~(u <= t)}
      /\ \A u \in DOMAIN s.turns : s.turns[u] = r.turns[u]
      /\ \/ s.confirmed = r.confirmed
         \/ \E u \in DOMAIN r.turns : u <= t /\ s.confirmed = r.turns[u].to
  BY <1>1, FinalizeIs DEF Finalized
<1>3. \A u \in DOMAIN r.turns : u \in Nat /\ u >= 1
  BY TurnsAre
<1>4. Reached(s)
  BY <1>1, <1>2 DEF Reached
<1>5. Newest(s)
  BY <1>1, <1>2 DEF Part, Newest
<1>6. NoHeirs(s, b)
  BY <1>1, <1>2 DEF Part, NoHeirs, Childless
<1>7. Whole(s, b)
  <2>1. QueueSettled(s, q.turn) <=> QueueSettled(r, q.turn)
    BY <1>2 DEF QueueSettled
  <2>2. OfTurn(q) => q.turn \in Nat /\ q.turn > t /\ r.openTurn \in Nat
    BY <1>1, RequestIs, TurnsAre
  <2>3. OfTurn(q) => r.openTurn # q.turn
    BY <2>2
  <2> QED BY <1>1, <1>2, <2>1, <2>3 DEF Part, Whole
<1>8. Later(s)
  <2>1. \A u, v \in DOMAIN s.turns : u < v => s.turns[u].to < s.turns[v].to
    BY <1>2 DEF Part, Later
  <2>2. ASSUME NEW v \in DOMAIN s.turns PROVE s.confirmed < s.turns[v].to
    <3>1. v \in DOMAIN r.turns /\ ~(v <= t) /\ s.turns[v] = r.turns[v]
      BY <1>2
    <3>2. \A u \in DOMAIN r.turns : u <= t => r.turns[u].to < r.turns[v].to
      BY <1>3, <3>1 DEF Part, Later
    <3>3. r.confirmed < r.turns[v].to
      BY <3>1 DEF Part, Later
    <3> QED BY <1>2, <3>1, <3>2, <3>3
  <2> QED BY <2>1, <2>2 DEF Later
<1>9. TextOrdered(s)
  <2>1. /\ s.finalized = r.finalized \union {u \in DOMAIN r.turns : u <= t}
        /\ \A o \in FinalsOf(s) :
             \/ o \in FinalsOf(r)
             \/ \E u \in DOMAIN r.turns : u <= t /\ o.turn = u /\ o.audio = r.turns[u].audio
    BY <1>1, FinalsAre DEF Good
  <2>2. \A u, v \in DOMAIN r.turns : u < v => Precedes(r.turns[u].audio, r.turns[v].audio)
    BY DEF Part, TextOrdered
  <2>3. \A o \in FinalsOf(r) : /\ o.turn \in r.finalized
                               /\ \A u \in DOMAIN r.turns : Precedes(o.audio, r.turns[u].audio)
    BY DEF Part, TextOrdered
  <2>4. \A u, v \in DOMAIN s.turns : u < v => Precedes(s.turns[u].audio, s.turns[v].audio)
    BY <1>2, <2>2
  <2>5. \A o \in FinalsOf(s) : o.turn \in s.finalized
    BY <2>1, <2>3
  <2>6. ASSUME NEW o \in FinalsOf(s), NEW v \in DOMAIN s.turns
        PROVE  Precedes(o.audio, s.turns[v].audio)
    <3>1. v \in DOMAIN r.turns /\ ~(v <= t) /\ s.turns[v] = r.turns[v]
      BY <1>2
    <3>2. CASE o \in FinalsOf(r)
      BY <2>3, <3>1, <3>2
    <3>3. ASSUME NEW u \in DOMAIN r.turns, u <= t, o.audio = r.turns[u].audio
          PROVE  Precedes(o.audio, s.turns[v].audio)
      <4>1. u < v
        BY <1>3, <3>1, <3>3
      <4> QED BY <2>2, <3>1, <3>3, <4>1
    <3> QED BY <2>1, <3>2, <3>3
  <2>7. ASSUME NEW o \in FinalsOf(s), NEW p \in FinalsOf(s), o.turn < p.turn
        PROVE  Precedes(o.audio, p.audio)
    <3>1. CASE o \in FinalsOf(r) /\ p \in FinalsOf(r)
      BY <2>7, <3>1 DEF Part, TextOrdered
    <3>2. CASE o \in FinalsOf(r) /\ p \notin FinalsOf(r)
      BY <2>1, <2>3, <3>2
    <3>3. CASE o \notin FinalsOf(r) /\ p \in FinalsOf(r)
      <4>1. o.turn \in DOMAIN r.turns /\ p.turn \in r.finalized
        BY <2>1, <2>3, <3>3
      <4>2. p.turn < o.turn /\ p.turn \in Nat /\ o.turn \in Nat
        BY <1>3, <4>1 DEF Good, Consistent, Known
      <4> QED BY <2>7, <4>2
    <3>4. CASE o \notin FinalsOf(r) /\ p \notin FinalsOf(r)
      <4>1. /\ o.turn \in DOMAIN r.turns /\ o.audio = r.turns[o.turn].audio
            /\ p.turn \in DOMAIN r.turns /\ p.audio = r.turns[p.turn].audio
        BY <2>1, <3>4
      <4> QED BY <2>2, <2>7, <4>1
    <3> QED BY <3>1, <3>2, <3>3, <3>4
  <2> QED BY <2>4, <2>5, <2>6, <2>7 DEF TextOrdered
<1> QED BY <1>1, <1>4, <1>5, <1>6, <1>7, <1>8, <1>9 DEF Told, Part

-----------------------------------------------------------------------------
(* Turn t, the newest, is heard or checked, and nothing is in flight. *)

Telling(r, t, b) ==
  /\ r.inFlight = NoRequest /\ Part(r, b)
  /\ t \in DOMAIN r.turns /\ r.openTurn <= t
  /\ \A u \in DOMAIN r.turns : u <= t

LEMMA TellingRetold ==
  ASSUME NEW r, NEW s, NEW b, NEW t, Telling(r, t, b), Retold(r, s)
  PROVE  Telling(s, t, b)
<1>1. Part(s, b)
  BY RetoldTold DEF Telling
<1> QED BY <1>1 DEF Telling, Retold

LEMMA TellingFinalize ==
  ASSUME NEW r, NEW b, NEW t, Good(r, b), Telling(r, t, b)
  PROVE  Told(FinalizeTurnNow(r, t), b)
<1>1. t \in Nat /\ ~OfTurn(r.inFlight)
  BY TurnsAre, NothingAsked DEF Telling
<1> QED BY <1>1, FinalizeTold DEF Telling

\* A finalization that is deferred is not told.
LEMMA DeferRetold ==
  ASSUME NEW r, NEW t, Consistent(r)
  PROVE  Retold(r, [r EXCEPT !.finalization = t])
  BY DEF Retold, Consistent, Fields, FinalsOf

LEMMA CompleteTold ==
  ASSUME NEW r, NEW b, NEW t, Good(r, b), Telling(r, t, b),
         r.openTurn = t \/ QueueSettled(r, t)
  PROVE  Told(CompleteTurn(r, t), b)
<1>1. CASE FinalizationIsBlocked(r, t)
  <2>1. PICK f : f = IF r.finalization # NoTurn /\ r.finalization >= t THEN r.finalization ELSE t
    OBVIOUS
  <2>2. CompleteTurn(r, t) = [r EXCEPT !.finalization = f]
    BY <1>1, <2>1 DEF CompleteTurn
  <2>3. r.openTurn = t
    <3>1. PICK i \in DOMAIN r.segments : SegmentTurn(r.segments[i]) <= t
      BY <1>1 DEF FinalizationIsBlocked, InFlight, Telling
    <3>2. SegmentTurn(r.segments[i]) \in Nat /\ t \in Nat
      BY QueueIs, TurnsAre DEF Telling
    <3> QED BY <3>1, <3>2 DEF QueueSettled
  <2>4. Told(r, b)
    BY <2>3 DEF Told, Telling, Reached
  <2>5. Retold(r, [r EXCEPT !.finalization = f])
    BY DeferRetold DEF Good
  <2> QED BY <2>2, <2>4, <2>5, RetoldTold
<1>2. CASE ~FinalizationIsBlocked(r, t)
  BY <1>2, TellingFinalize DEF CompleteTurn
<1> QED BY <1>1, <1>2

LEMMA OpenedTold ==
  ASSUME NEW r, NEW s, NEW b, NEW t, Telling(r, t, b), s.openTurn = t,
         s.segments = r.segments, s.confirmed = r.confirmed, s.inFlight = r.inFlight,
         s.turns = r.turns, s.finalized = r.finalized, s.out = r.out
  PROVE  Told(s, b)
<1>1. Reached(s)
  BY DEF Telling, Reached
<1>2. Newest(s) /\ Whole(s, b)
  BY NothingAsked DEF Newest, Whole, Telling
<1>3. NoHeirs(s, b) /\ Later(s)
  BY DEF Telling, Part, NoHeirs, Childless, Later
<1>4. TextOrdered(s)
  <2>1. FinalsOf(s) = FinalsOf(r)
    BY DEF FinalsOf
  <2> QED BY <2>1 DEF Telling, Part, TextOrdered
<1> QED BY <1>1, <1>2, <1>3, <1>4 DEF Told, Part

LEMMA KeepOpenTold ==
  ASSUME NEW r, NEW b, NEW t, NEW tick, NEW interim, tick \in Nat, Good(r, b), Telling(r, t, b)
  PROVE  Told(KeepTurnOpen(r, t, tick, interim), b)
<1>1. PICK s : s = ResetTimeoutOrigin([r EXCEPT !.openTurn = t, !.acceptsRoot = TRUE], tick)
  OBVIOUS
<1>2. /\ s.openTurn = t /\ s.segments = r.segments /\ s.confirmed = r.confirmed
      /\ s.inFlight = r.inFlight /\ s.turns = r.turns /\ s.finalized = r.finalized
      /\ s.out = r.out
  BY <1>1 DEF ResetTimeoutOrigin, Good, Consistent, Fields
<1>3. Told(s, b)
  BY <1>2, OpenedTold
<1>4. Consistent(s) /\ \A u \in DOMAIN s.turns : s.turns[u] \in TurnDraft
  <2>1. PICK z : z = [r EXCEPT !.openTurn = t, !.acceptsRoot = TRUE]
    OBVIOUS
  <2>2. Consistent(z)
    BY <2>1, OpenQuiet, QuietKeeps DEF Good, Telling
  <2>3. Consistent(s)
    BY <1>1, <2>1, <2>2, OriginQuiet, QuietKeeps
  <2> QED BY <1>2, <2>3 DEF Good, Sound, Typed
<1>5. Told(EmitInterim(s, t), b)
  BY <1>3, <1>4, EmitRetold, RetoldTold
<1>6. KeepTurnOpen(r, t, tick, interim) = IF interim THEN EmitInterim(s, t) ELSE s
  BY <1>1 DEF KeepTurnOpen
<1> QED BY <1>3, <1>5, <1>6

\* Asking for the text of the whole turn t.
LEMMA RerecognizeTold ==
  ASSUME NEW r, NEW b, NEW t, NEW purpose, Good(r, b), Telling(r, t, b), r.up,
         IF purpose = "TimeoutFinal" THEN r.openTurn = t ELSE QueueSettled(r, t) /\ Beyond(b, t)
  PROVE  Told(Rerecognize(r, t, purpose), b)
<1>1. PICK q : q = [kind |-> "Rerecognition", turn |-> t, target |-> t,
             revision |-> Revision(r, t),
             from |-> r.turns[t].from, to |-> r.turns[t].to,
             first |-> r.turns[t].first, last |-> r.turns[t].latest,
             segments |-> r.turns[t].audio, purpose |-> purpose]
  OBVIOUS
<1>2. PICK s : s = Submit(r, q)
  OBVIOUS
<1>3. Rerecognize(r, t, purpose) = s
  BY <1>1, <1>2 DEF Rerecognize
<1>4. q.kind = "Rerecognition" /\ q.turn = t /\ q.purpose = purpose
  BY <1>1
<1>5. OfTurn(q) /\ ~OfSegments(q)
  BY <1>4 DEF OfTurn, OfSegments
<1>6. /\ s.segments = r.segments /\ s.confirmed = r.confirmed /\ s.openTurn = r.openTurn
      /\ s.inFlight = q /\ s.turns = r.turns /\ s.finalized = r.finalized /\ s.out = r.out
  BY <1>2 DEF Submit, Good, Consistent, Fields
<1>7. Reached(s) /\ Newest(s)
  BY <1>4, <1>5, <1>6 DEF Telling, Reached, Newest
<1>8. Whole(s, b)
  BY <1>4, <1>6 DEF Whole, QueueSettled
<1>9. NoHeirs(s, b) /\ Later(s)
  BY <1>4, <1>6 DEF Telling, Part, NoHeirs, Childless, Later
<1>10. TextOrdered(s)
  <2>1. FinalsOf(s) = FinalsOf(r)
    BY <1>6 DEF FinalsOf
  <2> QED BY <1>6, <2>1 DEF Telling, Part, TextOrdered
<1> QED BY <1>3, <1>7, <1>8, <1>9, <1>10 DEF Told, Part

LEMMA FollowUpTold ==
  ASSUME NEW r, NEW b, NEW t, NEW purpose, NEW decision, NEW tick \in Nat, NEW interim,
         Good(r, b), Telling(r, t, b), r.openTurn = t \/ QueueSettled(r, t)
  PROVE  Told(FollowUp(r, t, purpose, decision, tick, interim), b)
<1>1. t \in DOMAIN r.turns
  BY DEF Telling
<1> QED BY <1>1, CompleteTold, TellingFinalize, KeepOpenTold DEF FollowUp

LEMMA FallbackTold ==
  ASSUME NEW r, NEW b, NEW t, NEW decision, NEW tick \in Nat, NEW interim,
         Good(r, b), Telling(r, t, b), QueueSettled(r, t)
  PROVE  Told(FallbackCompletion(r, t, decision, tick, interim), b)
  BY CompleteTold, KeepOpenTold DEF FallbackCompletion

LEMMA CompleteOpenTold ==
  ASSUME NEW r, NEW b, Good(r, b), Told(r, b), r.openTurn # NoTurn
  PROVE  Told(CompleteTurn(r, r.openTurn), b)
<1>1. PICK t : t = r.openTurn
  OBVIOUS
<1>2. t \in Nat
  BY <1>1, TurnsAre
<1>3. CASE FinalizationIsBlocked(r, t)
  <2>1. PICK f : f = IF r.finalization # NoTurn /\ r.finalization >= t THEN r.finalization ELSE t
    OBVIOUS
  <2>2. CompleteTurn(r, t) = [r EXCEPT !.finalization = f]
    BY <1>3, <2>1 DEF CompleteTurn
  <2>3. Retold(r, [r EXCEPT !.finalization = f])
    BY DeferRetold DEF Good
  <2> QED BY <1>1, <2>2, <2>3, RetoldTold
<1>4. CASE ~FinalizationIsBlocked(r, t)
  <2>1. OfTurn(r.inFlight) => r.inFlight.turn > t
    <3>1. OfTurn(r.inFlight) => r.inFlight # NoRequest /\ r.inFlight.turn \in Nat
      BY NothingAsked, RequestIs
    <3> QED BY <1>2, <1>4, <3>1 DEF FinalizationIsBlocked, InFlight
  <2>2. r.openTurn <= t /\ Part(r, b)
        /\ \A u \in DOMAIN r.turns : u <= t \/ (OfTurn(r.inFlight) /\ u <= r.inFlight.turn)
    BY <1>1, <1>2 DEF Told, Reached
  <2>3. Told(FinalizeTurnNow(r, t), b)
    BY <1>2, <2>1, <2>2, FinalizeTold
  <2> QED BY <1>1, <1>4, <2>3 DEF CompleteTurn
<1> QED BY <1>1, <1>3, <1>4

LEMMA FinalizePendingTold ==
  ASSUME NEW r, NEW b, Good(r, b), Owed(r, b), Told(r, b), r.finalization # NoTurn,
         ~FinalizationIsBlocked(r, r.finalization)
  PROVE  Told(FinalizeTurnNow([r EXCEPT !.finalization = NoTurn], r.finalization), b)
<1>1. PICK t, z : t = r.finalization /\ z = [r EXCEPT !.finalization = NoTurn]
  OBVIOUS
<1>2. t \in Nat
  BY <1>1, TurnsAre
<1>3. Good(z, b)
  <2>1. Sound(z, b) /\ Quiet(r, z)
    BY <1>1, DeferredSound, DeferredQuiet DEF Good, NoTurn
  <2> QED BY <2>1, QuietKeeps DEF Good
<1>4. z.openTurn = r.openTurn /\ z.inFlight = r.inFlight /\ z.turns = r.turns
  BY <1>1 DEF Good, Consistent, Fields
<1>5. Told(z, b)
  BY <1>1, DeferRetold, RetoldTold DEF Good
<1>6. r.openTurn <= t /\ r.openTurn \in Nat
  BY <1>1, TurnsAre DEF Owed, Ledger, Deferred
<1>7. OfTurn(z.inFlight) => z.inFlight.turn > t
  <2>1. OfTurn(r.inFlight) => r.inFlight # NoRequest /\ r.inFlight.turn \in Nat
    BY NothingAsked, RequestIs
  <2> QED BY <1>1, <1>2, <1>4, <2>1 DEF FinalizationIsBlocked, InFlight
<1>8. \A u \in DOMAIN z.turns : u <= t \/ (OfTurn(z.inFlight) /\ u <= z.inFlight.turn)
  <2>1. \A u \in DOMAIN r.turns : u \in Nat
    BY TurnsAre
  <2> QED BY <1>2, <1>4, <1>6, <2>1 DEF Told, Reached
<1> QED BY <1>1, <1>2, <1>3, <1>4, <1>5, <1>6, <1>7, <1>8, FinalizeTold DEF Told

-----------------------------------------------------------------------------
(* Results. *)

\* Nothing continues the turn whose utterance a completion ends.
LEMMA CompletionSettles ==
  ASSUME NEW r, NEW b, NEW q, NEW t \in Nat, Good(r, b), Owed(r, b), Part(r, b),
         q = r.inFlight, q.kind = "CompletionCheck", t <= r.nextTurn
  PROVE  QueueSettled(r, t) /\ Beyond(b, t)
<1>1. OfSegments(q)
  BY DEF OfSegments
<1>2. q.last \in Ids(q.segments) /\ r.nextTurn <= q.last
  BY <1>1 DEF Owed, Ledger, Numbered
<1>3. q.last < b.next /\ \A i \in DOMAIN r.segments : q.last < r.segments[i].id
  BY <1>1, <1>2 DEF Good, Sound, Spoken, InTurn, OfSegments
<1>4. q.last \in Nat /\ r.nextTurn \in Nat /\ t <= q.last
  <2>1. q.last \in Nat
    BY <1>1, RequestIs DEF Request, Turn
  <2> QED BY <1>2, <2>1, TurnsAre
<1>5. Childless(q.last, r, b)
  BY DEF Part, NoHeirs
<1>6. ASSUME NEW i \in DOMAIN r.segments PROVE SegmentTurn(r.segments[i]) > t
  <2>1. PICK n, p : n = r.segments[i].id /\ p = r.segments[i].previous
    OBVIOUS
  <2>2. n \in Nat /\ p \in {0, n - 1} /\ SegmentTurn(r.segments[i]) = IF p = 0 THEN n ELSE n - 1
    BY <2>1, QueueIs
  <2>3. q.last < n /\ p # q.last
    BY <1>3, <1>5, <2>1 DEF Childless
  <2> QED BY <1>4, <2>2, <2>3
<1>7. Beyond(b, t)
  <2>1. b.chain \in {0, b.next - 1} /\ b.next \in Nat /\ b.chain # q.last
    BY <1>5 DEF Childless, Good, PlaceOK, Turn
  <2> QED BY <1>3, <1>4, <2>1 DEF Beyond, NoSegment
<1> QED BY <1>6, <1>7 DEF QueueSettled

LEMMA TranscriptFinals ==
  ASSUME NEW r, NEW q, NEW s, DOMAIN r = Fields, s = ApplyTranscript(r, q)
  PROVE  s.finalized = r.finalized /\ FinalsOf(s) = FinalsOf(r)
<1>1. PICK turns, next, given :
        s = [r EXCEPT !.turns = turns, !.nextTurn = next, !.newTurns = given]
  BY Zenon DEF ApplyTranscript
<1>2. s.finalized = r.finalized /\ s.out = r.out
  BY <1>1 DEF Fields
<1> QED BY <1>2 DEF FinalsOf

LEMMA HeardEnd ==
  ASSUME NEW r, NEW b, NEW q, NEW z, NEW t, Good(r, b), Owed(r, b), q = r.inFlight,
         OfSegments(q), z = Answered(r), ~IsStale(z, q), t = TurnOf(z, q)
  PROVE  ApplyTranscript(z, q).turns[t].to = q.to
<1>1. z.turns = r.turns /\ Good(z, b) /\ q \in Request /\ q.to \in Int
  BY AnsweredIs, RequestIs
<1>2. PICK s : s = ApplyTranscript(z, q)
  OBVIOUS
<1>3. s.turns[t].to = Max({IF t \in DOMAIN z.turns THEN z.turns[t].to ELSE q.to, q.to})
  BY <1>1, <1>2, TranscriptEnd
<1>4. PICK m : m = IF t \in DOMAIN z.turns THEN z.turns[t].to ELSE q.to
  OBVIOUS
<1>5. m \in Int /\ m <= q.to
  <2>1. \A u \in DOMAIN r.turns : r.turns[u].to \in Int /\ r.turns[u].to <= q.to
    BY TurnsAre DEF Owed, Ledger, DraftsBefore
  <2> QED BY <1>1, <1>4, <2>1
<1>6. Max({m, q.to}) = q.to
  BY <1>1, <1>5, GreaterIsMax
<1> QED BY <1>2, <1>3, <1>4, <1>6

LEMMA TranscriptTelling ==
  ASSUME NEW r, NEW b, NEW q, NEW z, NEW t, NEW s, Good(r, b), Owed(r, b), Told(r, b),
         q = r.inFlight, OfSegments(q), z = Answered(r), ~IsStale(z, q), t = TurnOf(z, q),
         s = ApplyTranscript(z, q)
  PROVE  /\ Telling(s, t, b) /\ t \in Nat /\ t <= r.nextTurn /\ s.segments = r.segments
<1> DEFINE X == Ids(q.segments)
<1>1. /\ z.segments = r.segments /\ z.confirmed = r.confirmed /\ z.openTurn = r.openTurn
      /\ z.turns = r.turns /\ z.finalized = r.finalized /\ z.inFlight = NoRequest
      /\ Good(z, b) /\ q \in Request /\ q.to \in Int
  BY AnsweredIs, RequestIs DEF Alike
<1>2. /\ s.segments = r.segments /\ s.inFlight = NoRequest
      /\ s.confirmed = r.confirmed /\ s.openTurn = r.openTurn
      /\ DOMAIN s.turns = DOMAIN r.turns \union {t}
      /\ \A u \in DOMAIN r.turns : u # t => s.turns[u] = r.turns[u]
      /\ \A x : x \in Ids(s.turns[t].audio) <=>
                  \/ t \in DOMAIN r.turns /\ x \in Ids(r.turns[t].audio)
                  \/ x \in X
  <2>1. /\ s.segments = z.segments /\ s.inFlight = z.inFlight
        /\ s.confirmed = z.confirmed /\ s.openTurn = z.openTurn
        /\ DOMAIN s.turns = DOMAIN z.turns \union {t}
        /\ \A u \in DOMAIN z.turns : u # t => s.turns[u] = z.turns[u]
        /\ \A x : x \in Ids(s.turns[t].audio) <=>
                    \/ t \in DOMAIN z.turns /\ x \in Ids(z.turns[t].audio)
                    \/ x \in X
    BY <1>1, TranscriptIs
  <2> QED BY <1>1, <2>1
<1>3. s.turns[t].to = q.to
  BY HeardEnd
<1>4. s.finalized = r.finalized /\ FinalsOf(s) = FinalsOf(r)
  <2>1. s.finalized = z.finalized /\ FinalsOf(s) = FinalsOf(z)
    BY <1>1, TranscriptFinals DEF Good, Consistent
  <2>2. z.out = r.out
    BY DEF Answered, Good, Consistent, Fields
  <2> QED BY <1>1, <2>1, <2>2 DEF FinalsOf
<1>5. \/ q.target # New /\ t = q.target /\ t \in DOMAIN r.turns
      \/ q.target = New /\ t = r.nextTurn
  BY HeardTurnIs
<1>6. /\ r.nextTurn \in Nat /\ r.openTurn \in Nat /\ r.openTurn < r.nextTurn
      /\ r.confirmed \in Int
      /\ \A u \in DOMAIN r.turns :
           /\ u \in Nat /\ u >= 1 /\ u < r.nextTurn /\ r.turns[u].to \in Int
           /\ \A a \in Ids(r.turns[u].audio) : a \in Turn
  BY TurnsAre
<1>7. t \in Nat /\ t <= r.nextTurn /\ \A u \in DOMAIN r.turns : u <= t
  BY <1>5, <1>6 DEF Told, Part, Newest
<1>8. r.openTurn <= t
  <2>1. q.target # New => r.openTurn \in {NoTurn, q.target}
    BY DEF Owed, Ledger, Aimed
  <2> QED BY <1>5, <1>6, <1>7, <2>1 DEF NoTurn
<1>9. \A x \in X : HeardBefore(r, x)
  BY DEF Good, Sound, Spoken, InTurn, OfSegments
<1>10. r.confirmed < q.to
  BY <1>1, <1>6 DEF IsStale
<1>11. Later(s)
  <2>1. ASSUME NEW u \in DOMAIN s.turns PROVE s.confirmed < s.turns[u].to
    <3>1. CASE u = t
      BY <1>2, <1>3, <1>10, <3>1
    <3>2. CASE u # t
      BY <1>2, <3>2 DEF Told, Part, Later
    <3> QED BY <3>1, <3>2
  <2>2. ASSUME NEW u \in DOMAIN s.turns, NEW v \in DOMAIN s.turns, u < v
        PROVE  s.turns[u].to < s.turns[v].to
    <3>1. u # t /\ u \in DOMAIN r.turns /\ s.turns[u] = r.turns[u]
      <4>1. v <= t /\ v \in Nat /\ u \in Nat
        BY <1>2, <1>6, <1>7
      <4> QED BY <1>2, <1>7, <2>2, <4>1
    <3>2. CASE v # t
      BY <1>2, <2>2, <3>1, <3>2 DEF Told, Part, Later
    <3>3. CASE v = t /\ q.target # New
      <4>1. v \in DOMAIN r.turns
        BY <1>5, <3>3
      <4>2. r.turns[u].to < r.turns[v].to /\ r.turns[v].to <= q.to
        BY <2>2, <3>1, <4>1 DEF Told, Part, Later, Owed, Ledger, DraftsBefore
      <4> QED BY <1>1, <1>3, <1>6, <3>1, <3>3, <4>1, <4>2
    <3>4. CASE v = t /\ q.target = New
      <4>1. r.openTurn # NoTurn
        <5>1. u <= r.openTurn
          BY <3>1 DEF Told, Reached, OfSegments, OfTurn
        <5> QED BY <1>6, <3>1, <5>1 DEF NoTurn
      <4>2. q.first \in X
        BY <3>4, <4>1 DEF Owed, Ledger, Aimed
      <4>3. r.turns[u].latest \in Ids(r.turns[u].audio)
        BY <3>1 DEF Owed, Ledger, Numbered
      <4>4. r.turns[u].latest < q.first /\ r.turns[u].latest \in Nat
        BY <1>6, <1>9, <3>1, <4>2, <4>3 DEF HeardBefore, Turn
      <4>5. r.turns[u].to <= q.to /\ (r.turns[u].to = q.to => q.first = r.turns[u].latest)
        BY <3>1 DEF Owed, Ledger, DraftsBefore
      <4> QED BY <1>1, <1>3, <1>6, <3>1, <3>4, <4>4, <4>5
    <3> QED BY <3>2, <3>3, <3>4
  <2> QED BY <2>1, <2>2 DEF Later
<1>12. TextOrdered(s)
  <2>1. TextOrdered(r)
    BY DEF Told, Part
  <2>2. ASSUME NEW u \in DOMAIN s.turns, NEW v \in DOMAIN s.turns, u < v
        PROVE  Precedes(s.turns[u].audio, s.turns[v].audio)
    <3>1. u # t /\ u \in DOMAIN r.turns /\ s.turns[u] = r.turns[u]
      <4>1. v <= t /\ v \in Nat /\ u \in Nat
        BY <1>2, <1>6, <1>7
      <4> QED BY <1>2, <1>7, <2>2, <4>1
    <3>2. CASE v # t
      BY <1>2, <2>1, <2>2, <3>1, <3>2 DEF TextOrdered
    <3>3. CASE v = t
      <4> SUFFICES ASSUME NEW x \in Ids(r.turns[u].audio), NEW y \in Ids(s.turns[t].audio)
                   PROVE  x < y
        BY <3>1, <3>3 DEF Precedes
      <4>1. CASE t \in DOMAIN r.turns /\ y \in Ids(r.turns[t].audio)
        BY <2>1, <2>2, <3>1, <3>3, <4>1 DEF TextOrdered, Precedes
      <4>2. CASE y \in X
        BY <1>9, <3>1, <4>2 DEF HeardBefore
      <4> QED BY <1>2, <4>1, <4>2
    <3> QED BY <3>2, <3>3
  <2>3. ASSUME NEW o \in FinalsOf(r), NEW v \in DOMAIN s.turns
        PROVE  Precedes(o.audio, s.turns[v].audio)
    <3>1. CASE v # t
      BY <1>2, <2>1, <3>1 DEF TextOrdered
    <3>2. CASE v = t
      <4> SUFFICES ASSUME NEW x \in Ids(o.audio), NEW y \in Ids(s.turns[t].audio)
                   PROVE  x < y
        BY <3>2 DEF Precedes
      <4>1. CASE t \in DOMAIN r.turns /\ y \in Ids(r.turns[t].audio)
        BY <2>1, <4>1 DEF TextOrdered, Precedes
      <4>2. CASE y \in X
        BY <1>9, <4>2 DEF HeardBefore
      <4> QED BY <1>2, <4>1, <4>2
    <3> QED BY <3>1, <3>2
  <2> QED BY <1>4, <2>1, <2>2, <2>3 DEF TextOrdered
<1>13. Newest(s) /\ Whole(s, b)
  BY <1>2, NothingAsked DEF Newest, Whole
<1>14. NoHeirs(s, b)
  BY <1>2, NothingAsked DEF Told, Part, NoHeirs, Childless, OfSegments
<1> QED BY <1>2, <1>6, <1>7, <1>8, <1>11, <1>12, <1>13, <1>14 DEF Telling, Part

LEMMA ApplyInterimTold ==
  ASSUME NEW r, NEW b, NEW q, NEW z, Good(r, b), Owed(r, b), Told(r, b), q = r.inFlight,
         OfSegments(q), z = Answered(r), ~IsStale(z, q)
  PROVE  Told(ApplyInterim(z, q), b)
<1>1. PICK t, s : t = TurnOf(z, q) /\ s = ApplyTranscript(z, q)
  OBVIOUS
<1>2. PICK e : e = EmitInterim(s, t)
  OBVIOUS
<1>3. Good(s, b) /\ Telling(s, t, b)
  BY <1>1, TranscriptGood, TranscriptTelling
<1>4. Telling(e, t, b)
  <2>1. Retold(s, e)
    BY <1>2, <1>3, EmitRetold DEF Good, Sound, Typed
  <2> QED BY <1>3, <2>1, TellingRetold
<1>5. Consistent(e)
  BY <1>2, <1>3, EmitInterimMoves DEF Good, Moves, Telling
<1>6. ~(z.openTurn > t)
  <2>1. s.openTurn = z.openTurn
    <3>1. Good(z, b) /\ q \in Request
      BY AnsweredIs, AnsweredAsk, NothingAsked
    <3> QED BY <1>1, <3>1, TranscriptIs
  <2>2. s.openTurn <= t /\ s.openTurn \in Nat /\ t \in Nat
    BY <1>3, TurnsAre DEF Telling
  <2> QED BY <2>1, <2>2
<1>7. PICK u : u = [e EXCEPT !.openTurn = t, !.acceptsRoot = @ /\ z.openTurn = t]
  OBVIOUS
<1>8. ApplyInterim(z, q) = u
  BY <1>1, <1>2, <1>6, <1>7 DEF ApplyInterim
<1>9. /\ u.openTurn = t /\ u.segments = e.segments /\ u.confirmed = e.confirmed
      /\ u.inFlight = e.inFlight /\ u.turns = e.turns /\ u.finalized = e.finalized
      /\ u.out = e.out
  BY <1>5, <1>7 DEF Consistent, Fields
<1> QED BY <1>4, <1>8, <1>9, OpenedTold

LEMMA ApplyCompletionTold ==
  ASSUME NEW r, NEW b, NEW q, NEW z, Good(r, b), Owed(r, b), Told(r, b), q = r.inFlight,
         q.kind = "CompletionCheck", z = Answered(r), ~IsStale(z, q)
  PROVE  Told(ApplyCompletion(z, q), b)
<1>1. PICK t, s : t = TurnOf(z, q) /\ s = ApplyTranscript(z, q)
  OBVIOUS
<1>2. PICK purpose : purpose = CompletionPurpose(z)
  OBVIOUS
<1>3. OfSegments(q)
  BY DEF OfSegments
<1>4. Good(s, b) /\ Telling(s, t, b) /\ t \in Nat /\ t <= r.nextTurn /\ s.segments = r.segments
  BY <1>1, <1>3, TranscriptGood, TranscriptTelling
<1>5. QueueSettled(s, t) /\ Beyond(b, t)
  BY <1>4, CompletionSettles DEF Told, QueueSettled
<1>6. ApplyCompletion(z, q) = IF purpose # "None" /\ CanRerecognize(s, t)
                              THEN Rerecognize(s, t, purpose) ELSE CompleteTurn(s, t)
  BY <1>1, <1>2 DEF ApplyCompletion
<1>7. purpose # "TimeoutFinal"
  BY <1>2 DEF CompletionPurpose
<1>8. CanRerecognize(s, t) => Told(Rerecognize(s, t, purpose), b)
  BY <1>4, <1>5, <1>7, RerecognizeTold DEF CanRerecognize
<1>9. Told(CompleteTurn(s, t), b)
  BY <1>4, <1>5, CompleteTold
<1> QED BY <1>6, <1>8, <1>9

LEMMA WholeTelling ==
  ASSUME NEW r, NEW b, NEW q, NEW z, Good(r, b), Owed(r, b), Told(r, b), q = r.inFlight,
         OfTurn(q), z = Answered(r), ~IsStale(z, q)
  PROVE  /\ Telling(z, q.turn, b) /\ EffectiveTurn(z, q) = q.turn
         /\ z.openTurn = q.turn \/ QueueSettled(z, q.turn)
<1>1. /\ z.turns = r.turns /\ z.inFlight = NoRequest /\ z.openTurn = r.openTurn
      /\ z.segments = r.segments
  BY AnsweredIs DEF Alike
<1>2. Resolving(z, q.turn, b) /\ EffectiveTurn(z, q) = q.turn
  BY WholeResolving
<1>3. Part(z, b)
  BY AnsweredPart DEF Told
<1>4. q.turn \in DOMAIN r.turns /\ r.openTurn <= q.turn
  BY <1>1, <1>2 DEF Resolving
<1>5. \A u \in DOMAIN r.turns : u <= q.turn
  <2>1. \A u \in DOMAIN r.turns : u \in Nat /\ r.openTurn \in Nat
    BY TurnsAre
  <2>2. \A u \in DOMAIN r.turns : u <= r.openTurn \/ u <= q.turn
    BY DEF Told, Reached
  <2> QED BY <1>4, <2>1, <2>2
<1>6. r.openTurn = q.turn \/ QueueSettled(r, q.turn)
  BY DEF Told, Part, Whole
<1> QED BY <1>1, <1>2, <1>3, <1>4, <1>5, <1>6 DEF Telling, QueueSettled

LEMMA StaleTold ==
  ASSUME NEW r, NEW b, NEW q, NEW z, Good(r, b), Owed(r, b), Told(r, b), q = r.inFlight,
         OfSegments(q) \/ (OfTurn(q) /\ IsStale(z, q)), z = Answered(r)
  PROVE  Told(z, b)
<1>1. /\ z.turns = r.turns /\ z.openTurn = r.openTurn
      /\ z.finalized = r.finalized /\ z.confirmed = r.confirmed
  BY AnsweredIs DEF Alike
<1>2. Part(z, b)
  BY AnsweredPart DEF Told
<1>3. \A u \in DOMAIN r.turns : u <= r.openTurn
  <2>1. CASE OfSegments(q)
    BY <2>1 DEF Told, Reached, OfSegments, OfTurn
  <2>2. CASE OfTurn(q) /\ IsStale(z, q)
    <3>1. q.turn \in Nat /\ q.turn >= 1 /\ q.target = q.turn /\ q.turn \in Known(r)
      BY <2>2, RequestIs
    <3>2. EffectiveTurn(z, q) = q.turn /\ ~UnresolvedNew(z, q)
      BY <3>1 DEF EffectiveTurn, Resolved, UnresolvedNew, New
    <3>3. q.turn \in r.finalized \/ q.to <= r.confirmed
      <4>1. q.revision = 0
        BY <2>2 DEF Owed, Ledger, Aimed
      <4> QED BY <1>1, <2>2, <3>2, <4>1 DEF IsStale, Revision
    <3>4. q.turn \in r.finalized
      <4>1. CASE q.turn \in DOMAIN r.turns
        <5>1. q.to = r.turns[q.turn].to /\ q.to \in Int /\ r.confirmed \in Int
          BY <2>2, <4>1, TurnsAre DEF Owed, Ledger, Aimed
        <5>2. r.confirmed < r.turns[q.turn].to
          BY <4>1 DEF Told, Part, Later
        <5> QED BY <3>3, <5>1, <5>2
      <4>2. CASE q.turn \notin DOMAIN r.turns
        BY <3>1, <4>2 DEF Known
      <4> QED BY <4>1, <4>2
    <3>5. ASSUME NEW u \in DOMAIN r.turns PROVE u <= r.openTurn
      <4>1. q.turn < u /\ u \in Nat
        BY <3>4, TurnsAre DEF Good, Consistent
      <4>2. u <= r.openTurn \/ u <= q.turn
        BY DEF Told, Reached
      <4> QED BY <3>1, <4>1, <4>2
    <3> QED BY <3>5
  <2> QED BY <2>1, <2>2
<1> QED BY <1>1, <1>2, <1>3 DEF Told, Reached

LEMMA UnusableTold ==
  ASSUME NEW r, NEW b, NEW q, NEW z, NEW decision, NEW tick \in Nat, NEW interim,
         Good(r, b), Owed(r, b), Told(r, b),
         q = r.inFlight, q # NoRequest, z = Answered(r), ~IsStale(z, q)
  PROVE  Told(Unusable(z, q, decision, tick, interim), b)
<1> DEFINE u == Unusable(z, q, decision, tick, interim)
<1>1. PICK segments : segments = {q.segments[i] : i \in DOMAIN q.segments}
  OBVIOUS
<1>2. PICK s, t : s = [z EXCEPT !.unheard = @ \union segments] /\ t = EffectiveTurn(z, q)
  OBVIOUS
<1>3. \/ /\ q.kind = "Rerecognition"
         /\ u = FollowUp(z, t, q.purpose, decision, tick, interim)
      \/ /\ q.kind = "CompletionCheck" /\ ~UnresolvedNew(z, q)
         /\ u = FallbackCompletion(s, t, decision, tick, interim)
      \/ q.kind # "Rerecognition" /\ u = s
  BY <1>1, <1>2 DEF Unusable
<1> HIDE DEF u
<1>4. OfSegments(q) \/ OfTurn(q)
  BY AnsweredAsk
<1>5. Good(z, b) /\ z.inFlight = NoRequest
  BY AnsweredIs
<1>6. Retold(z, s) /\ s.turns = z.turns
  BY <1>2, <1>5 DEF Good, Consistent, Fields, Retold, FinalsOf
<1>7. Good(s, b)
  <2>1. Sound(s, b) /\ Quiet(z, s)
    BY <1>2, <1>5, UnheardSound, UnheardQuiet DEF Good
  <2> QED BY <1>5, <2>1, QuietKeeps DEF Good
<1>8. CASE q.kind = "Rerecognition"
  <2>1. OfTurn(q)
    BY <1>8 DEF OfTurn
  <2>2. t = q.turn /\ Telling(z, t, b) /\ (z.openTurn = t \/ QueueSettled(z, t))
    BY <1>2, <2>1, WholeTelling
  <2>3. Told(FollowUp(z, t, q.purpose, decision, tick, interim), b)
    BY <1>5, <2>2, FollowUpTold
  <2> QED BY <1>3, <1>8, <2>3 DEF u
<1>9. CASE q.kind # "Rerecognition" /\ u = s
  <2>1. OfSegments(q)
    BY <1>4, <1>9 DEF OfTurn
  <2>2. Told(z, b)
    BY <2>1, StaleTold
  <2> QED BY <1>6, <1>9, <2>2, RetoldTold DEF u
<1>10. CASE /\ q.kind = "CompletionCheck" /\ ~UnresolvedNew(z, q)
            /\ u = FallbackCompletion(s, t, decision, tick, interim)
  <2>1. OfSegments(q)
    BY <1>10 DEF OfSegments
  <2>2. PICK w : w = TurnOf(z, q)
    OBVIOUS
  <2>3. q.target # New /\ w = q.target /\ w \in DOMAIN r.turns /\ EffectiveTurn(z, q) = w
    BY <1>10, <2>1, <2>2, HeardTurnIs
  <2>4. t = w
    BY <1>2, <2>3
  <2>5. /\ z.turns = r.turns /\ z.openTurn = r.openTurn /\ z.segments = r.segments
    BY AnsweredIs DEF Alike
  <2>6. t \in Nat /\ r.nextTurn \in Nat /\ t < r.nextTurn /\ t <= r.nextTurn
    BY <2>3, <2>4, TurnsAre
  <2>7. QueueSettled(s, t)
    <3>1. QueueSettled(r, t)
      BY <1>10, <2>6, CompletionSettles DEF Told
    <3> QED BY <1>6, <2>5, <3>1 DEF Retold, QueueSettled
  <2>8. Telling(z, t, b)
    <3>1. r.openTurn <= t
      BY <2>1, <2>3, <2>4, <2>6 DEF Owed, Ledger, Aimed, NoTurn
    <3>2. \A x \in DOMAIN r.turns : x <= t
      BY <2>1, <2>3, <2>4 DEF Told, Part, Newest
    <3>3. Part(z, b)
      BY AnsweredPart DEF Told
    <3> QED BY <1>5, <2>3, <2>4, <2>5, <3>1, <3>2, <3>3 DEF Telling
  <2>9. Telling(s, t, b)
    BY <1>6, <2>8, TellingRetold
  <2>10. Told(FallbackCompletion(s, t, decision, tick, interim), b)
    BY <1>7, <2>7, <2>9, FallbackTold
  <2> QED BY <1>10, <2>10 DEF u
<1> QED BY <1>3, <1>8, <1>9, <1>10 DEF u

LEMMA ApplyResultTold ==
  ASSUME NEW r, NEW b, NEW decision, NEW emitted \in {"stale", "current"}, NEW tick \in Nat,
         NEW interim, Good(r, b), Owed(r, b), Told(r, b), ResultReady(r)
  PROVE  Told(ApplyResult(r, decision, emitted, tick, interim), b)
<1>1. PICK q, s : q = r.inFlight /\ s = Answered(r)
  OBVIOUS
<1>2. PICK z : z = ReplaceText(s, q.turn, emitted)
  OBVIOUS
<1> DEFINE u == Unusable(s, q, decision, tick, interim)
           f == FollowUp(z, q.turn, q.purpose, decision, tick, interim)
           ai == ApplyInterim(s, q)
           ac == ApplyCompletion(s, q)
           a == ApplyResult(r, decision, emitted, tick, interim)
<1>3. q # NoRequest /\ q \in Request /\ (OfSegments(q) \/ OfTurn(q))
  <2>1. q # NoRequest
    BY <1>1 DEF Good, Sound, Typed, ResultReady, RunnerStates
  <2> QED BY <1>1, <2>1, AnsweredAsk
<1>4. Good(s, b)
  BY <1>1, AnsweredIs
<1>5. a = CASE IsStale(s, q) -> s
            [] ~IsStale(s, q) /\ r.runner = "unusable" -> u
            [] OTHER ->
                 CASE q.kind = "InterimDisplay"  -> ai
                   [] q.kind = "CompletionCheck" -> ac
                   [] OTHER -> f
  <2>1. s = [r EXCEPT !.inFlight = NoRequest, !.runner = "idle"]
    BY <1>1 DEF Answered
  <2> QED BY <1>1, <1>2, <2>1, Zenon DEF ApplyResult
<1>6. IsStale(s, q) => Told(s, b)
  BY <1>1, <1>3, StaleTold
<1>7. ~IsStale(s, q) => Told(u, b)
  BY <1>1, <1>3, UnusableTold
<1>8. ~IsStale(s, q) /\ q.kind = "InterimDisplay" => Told(ai, b)
  BY <1>1, ApplyInterimTold DEF OfSegments
<1>9. ~IsStale(s, q) /\ q.kind = "CompletionCheck" => Told(ac, b)
  BY <1>1, ApplyCompletionTold
<1>10. ASSUME ~IsStale(s, q), q.kind \notin {"InterimDisplay", "CompletionCheck"} PROVE Told(f, b)
  <2>1. OfTurn(q)
    BY <1>3, <1>10 DEF OfSegments
  <2>2. Telling(s, q.turn, b) /\ (s.openTurn = q.turn \/ QueueSettled(s, q.turn))
    BY <1>1, <1>10, <2>1, WholeTelling
  <2>3. Retold(s, z)
    BY <1>2, <1>4, ReplaceTextRetold
  <2>4. Telling(z, q.turn, b) /\ (z.openTurn = q.turn \/ QueueSettled(z, q.turn))
    BY <2>2, <2>3, TellingRetold DEF Retold, QueueSettled
  <2>5. Good(z, b)
    <3>1. Sound(z, b) /\ Quiet(s, z)
      BY <1>2, <1>4, ReplaceTextSound, ReplaceTextQuiet DEF Good
    <3> QED BY <1>4, <3>1, QuietKeeps DEF Good
  <2> QED BY <2>4, <2>5, FollowUpTold
<1> HIDE DEF u, f, ai, ac, a
<1>11. CASE IsStale(s, q)
  BY <1>5, <1>6, <1>11 DEF a
<1>12. CASE ~IsStale(s, q) /\ r.runner = "unusable"
  BY <1>5, <1>7, <1>12 DEF a
<1>13. CASE ~IsStale(s, q) /\ r.runner # "unusable"
  <2>1. a = CASE q.kind = "InterimDisplay"  -> ai
              [] q.kind = "CompletionCheck" -> ac
              [] OTHER -> f
    BY <1>5, <1>13
  <2>2. Told(a, b)
    BY <1>8, <1>9, <1>10, <1>13, <2>1
  <2> QED BY <2>2 DEF a
<1> QED BY <1>11, <1>12, <1>13

-----------------------------------------------------------------------------
(* Requests for segments of the queue. *)

\* What takes segments from the queue, and continues no other than it did, tells nothing.
LEMMA ShorterTold ==
  ASSUME NEW r, NEW b, NEW rest, Good(r, b), Told(r, b), r.inFlight = NoRequest,
         \A i \in DOMAIN rest :
            /\ Kind(rest[i]) = "CompletionCheck" => Childless(rest[i].id, r, b)
            /\ \E j \in DOMAIN r.segments : rest[i].previous = r.segments[j].previous
  PROVE  Told([r EXCEPT !.segments = rest], b)
<1>1. PICK s : s = [r EXCEPT !.segments = rest]
  OBVIOUS
<1>2. /\ s.segments = rest /\ s.confirmed = r.confirmed /\ s.openTurn = r.openTurn
      /\ s.inFlight = NoRequest /\ s.finalized = r.finalized /\ s.out = r.out
      /\ s.turns = r.turns
  BY <1>1 DEF Good, Consistent, Fields
<1>3. Reached(s)
  BY <1>2 DEF Told, Reached
<1>4. Newest(s) /\ Whole(s, b)
  BY <1>2, NothingAsked DEF Newest, Whole
<1>5. NoHeirs(s, b)
  <2>1. s.inFlight.kind # "CompletionCheck"
    BY <1>2, NothingAsked DEF OfSegments
  <2>2. ASSUME NEW i \in DOMAIN rest, Kind(rest[i]) = "CompletionCheck"
        PROVE  Childless(rest[i].id, s, b)
    <3>1. Childless(rest[i].id, r, b)
      BY <2>2
    <3>2. \A j \in DOMAIN rest : rest[j].previous # rest[i].id
      BY <3>1 DEF Childless
    <3> QED BY <1>2, <3>1, <3>2 DEF Childless
  <2> QED BY <1>2, <2>1, <2>2 DEF NoHeirs
<1>6. Later(s)
  BY <1>2 DEF Told, Part, Later
<1>7. TextOrdered(s)
  <2>1. FinalsOf(s) = FinalsOf(r)
    BY <1>2 DEF FinalsOf
  <2> QED BY <1>2, <2>1 DEF Told, Part, TextOrdered
<1> QED BY <1>1, <1>3, <1>4, <1>5, <1>6, <1>7 DEF Told, Part

\* A request for segments is about the newest turn or a new one.
LEMMA AskedTold ==
  ASSUME NEW r, NEW b, NEW q, Good(r, b), Told(r, b), r.inFlight = NoRequest, r.up,
         OfSegments(q), q.target # New => \A u \in DOMAIN r.turns : u <= q.target,
         q.kind = "CompletionCheck" => Childless(q.last, r, b)
  PROVE  Told(Submit(r, q), b)
<1>1. PICK s : s = Submit(r, q)
  OBVIOUS
<1>2. /\ s.segments = r.segments /\ s.confirmed = r.confirmed /\ s.openTurn = r.openTurn
      /\ s.inFlight = q /\ s.turns = r.turns /\ s.finalized = r.finalized /\ s.out = r.out
  BY <1>1 DEF Submit, Good, Consistent, Fields
<1>3. Reached(s) /\ Newest(s)
  BY <1>2, NothingAsked DEF Told, Reached, Newest
<1>4. Whole(s, b)
  BY <1>2 DEF Whole, OfTurn, OfSegments
<1>5. NoHeirs(s, b)
  BY <1>2 DEF Told, Part, NoHeirs, Childless
<1>6. Later(s)
  BY <1>2 DEF Told, Part, Later
<1>7. TextOrdered(s)
  <2>1. FinalsOf(s) = FinalsOf(r)
    BY <1>2 DEF FinalsOf
  <2> QED BY <1>2, <2>1 DEF Told, Part, TextOrdered
<1> QED BY <1>1, <1>3, <1>4, <1>5, <1>6, <1>7 DEF Told, Part

LEMMA TargetIsNewest ==
  ASSUME NEW r, NEW b, NEW a, Good(r, b), Owed(r, b), Told(r, b), r.inFlight = NoRequest,
         a \in DOMAIN r.segments, TargetTurn(r, r.segments[a]) # New
  PROVE  \A u \in DOMAIN r.turns : u <= TargetTurn(r, r.segments[a])
<1>1. PICK first, t : first = r.segments[a] /\ t = TargetTurn(r, first)
  OBVIOUS
<1>2. \A u \in DOMAIN r.turns : u <= r.openTurn /\ u \in Nat /\ u >= 1 /\ u < r.nextTurn
  BY NothingAsked, TurnsAre DEF Told, Reached
<1>3. CASE t = r.openTurn
  BY <1>1, <1>2, <1>3
<1>4. CASE t # r.openTurn
  <2>1. t = ProjectedTurn(r, first) /\ t \in DOMAIN r.turns
    BY <1>1, <1>4 DEF TargetTurn
  <2>2. r.openTurn # NoTurn
    BY <1>2, <2>1 DEF NoTurn
  <2>3. t = first.id
    BY <1>4, <2>1, <2>2 DEF ProjectedTurn
  <2>4. r.nextTurn <= first.id /\ first.id \in Nat /\ r.nextTurn \in Nat
    BY <1>1, QueueIs, TurnsAre DEF Owed, Ledger, Numbered
  <2> QED BY <1>2, <2>1, <2>3, <2>4
<1> QED BY <1>1, <1>3, <1>4

LEMMA FollowingIndex ==
  ASSUME NEW n \in Nat, NEW i \in Nat, i <= n, i # n
  PROVE  i + 1 \in (i + 1)..n /\ i + 1 \in 1..n /\ (i + 1) - 1 = i
  OBVIOUS

\* A completion that has no child is alone in its plan.
LEMMA AloneInPlan ==
  ASSUME NEW r, NEW T, NEW q \in Seq(T), NEW i \in 1..Len(q), Kind(q[i]) = "CompletionCheck",
         \A j \in DOMAIN q : q[j].previous # q[i].id
  PROVE  PlanLength(r, q, i) = 1
<1> DEFINE Joins(j) == Kind(q[j]) = "InterimDisplay" /\ Contiguous(q[j - 1], q[j])
           stop == {j \in (i + 1)..Len(q) : ~Joins(j)} \union {Len(q) + 1}
           merges == Kind(q[i]) = "InterimDisplay" \/ CanConnectInterim(r)
<1>1. PlanLength(r, q, i) = IF merges THEN Min(stop) - i ELSE 1
  BY DEF PlanLength
<1>2. Len(q) \in Nat /\ i \in Nat /\ i <= Len(q) /\ DOMAIN q = 1..Len(q)
  OBVIOUS
<1>3. i + 1 \in stop
  <2>1. CASE i = Len(q)
    BY <1>2, <2>1
  <2>2. CASE i # Len(q)
    <3>1. i + 1 \in (i + 1)..Len(q) /\ i + 1 \in DOMAIN q /\ (i + 1) - 1 = i
      BY <1>2, <2>2, FollowingIndex, Zenon
    <3>2. ~Joins(i + 1)
      BY <3>1 DEF Contiguous
    <3> QED BY <3>1, <3>2
  <2> QED BY <2>1, <2>2
<1>4. stop \in SUBSET Nat /\ \A j \in stop : i + 1 <= j
  BY <1>2
<1> HIDE DEF stop, merges
<1>5. Min(stop) = i + 1
  <2>1. Min(stop) \in stop /\ Min(stop) <= i + 1
    BY <1>3, <1>4, LeastOf
  <2>2. Min(stop) \in Nat /\ i + 1 <= Min(stop)
    BY <1>4, <2>1
  <2> QED BY <1>2, <2>1, <2>2
<1> QED BY <1>1, <1>2, <1>5

LEMMA DispatchTold ==
  ASSUME NEW r, NEW b, Good(r, b), Owed(r, b), Told(r, b), r.inFlight = NoRequest
  PROVE  Told(Dispatch(r), b)
<1>1. PICK q : q = DropCoveredInterims(r.segments)
  OBVIOUS
<1>2. PICK i : i = NextPlan(r, q)
  OBVIOUS
<1>3. PICK end : end = i + PlanLength(r, q, i)
  OBVIOUS
<1>4. PICK rest, plan : rest = SubSeq(q, end, Len(q)) /\ plan = SubSeq(q, i, end - 1)
  OBVIOUS
<1>5. PICK s, request : s = [r EXCEPT !.segments = rest] /\ request = SegmentRequest(r, plan)
  OBVIOUS
<1>6. Dispatch(r) = IF i > Len(q) THEN [r EXCEPT !.segments = << >>] ELSE Submit(s, request)
  BY <1>1, <1>2, <1>3, <1>4, <1>5 DEF Dispatch, InFlight
<1>7. /\ r.segments \in Seq(Segment) /\ InLine(r.segments)
      /\ \A j \in DOMAIN r.segments :
           r.segments[j].id < b.next /\ HeardBefore(r, r.segments[j].id)
  BY QueueIs DEF Good, Sound, Spoken
<1>8. /\ q \in Seq(Segment) /\ InLine(q) /\ DOMAIN q = 1..Len(q) /\ Len(q) \in Nat
      /\ \A j \in DOMAIN q : \E n \in DOMAIN r.segments : q[j] = r.segments[n]
  <2>1. CASE q = r.segments
    BY <1>7, <2>1
  <2>2. CASE Len(r.segments) >= 2 /\ q = From(r.segments, 2)
    <3>1. 2 \in 1..(Len(r.segments) + 1)
      BY <1>7, <2>2
    <3>2. /\ q \in Seq(Segment) /\ InLine(q)
          /\ \A j \in DOMAIN q : 2 + j - 1 \in DOMAIN r.segments /\ q[j] = r.segments[2 + j - 1]
      BY <1>7, <2>2, <3>1, RestInLine
    <3> QED BY <3>2
  <2> QED BY <1>1, <1>7, <2>1, <2>2, DropIs
<1>9. \A j \in DOMAIN q :
        /\ Kind(q[j]) = "CompletionCheck" => Childless(q[j].id, r, b)
        /\ \E n \in DOMAIN r.segments : q[j].previous = r.segments[n].previous
  BY <1>8 DEF Told, Part, NoHeirs
<1>10. i \in 1..(Len(q) + 1)
  BY <1>2, <1>8, NextPlanIs
<1>11. CASE i > Len(q)
  <2>1. DOMAIN << >> = {}
    OBVIOUS
  <2>2. Told([r EXCEPT !.segments = << >>], b)
    BY <2>1, ShorterTold
  <2> QED BY <1>6, <1>11, <2>2
<1>12. CASE ~(i > Len(q))
  <2>1. i \in 1..Len(q) /\ i \in Nat /\ Len(q) >= 1 /\ i \in DOMAIN q
    BY <1>8, <1>10, <1>12
  <2>2. end \in (i + 1)..(Len(q) + 1) /\ end \in Nat
    BY <1>3, <1>8, <2>1, PlanLengthIs
  <2>3. /\ rest \in Seq(Segment) /\ InLine(rest)
        /\ \A j \in DOMAIN rest : end + j - 1 \in DOMAIN q /\ rest[j] = q[end + j - 1]
    <3>1. end \in 1..(Len(q) + 1)
      BY <1>8, <2>1, <2>2
    <3>2. rest = From(q, end)
      BY <1>4 DEF From
    <3> QED BY <1>8, <3>1, <3>2, RestInLine
  <2>4. /\ plan \in Seq(Segment) /\ Len(plan) = end - i
        /\ \A j \in 1..(end - i) : plan[j] = q[i + j - 1]
    <3>1. q \in Seq(Segment) /\ i \in 1..Len(q) /\ end \in (i + 1)..(Len(q) + 1)
      BY <1>8, <2>1, <2>2
    <3> QED BY <1>4, <3>1, PlanIs
  <2>5. plan[1] = q[i]
    <3>1. 1 \in 1..(end - i) /\ i + 1 - 1 = i
      BY <2>1, <2>2
    <3> QED BY <2>4, <3>1
  <2>6. Told(s, b)
    <3>1. \A j \in DOMAIN rest :
            /\ Kind(rest[j]) = "CompletionCheck" => Childless(rest[j].id, r, b)
            /\ \E n \in DOMAIN r.segments : rest[j].previous = r.segments[n].previous
      BY <1>9, <2>3
    <3> QED BY <1>5, <3>1, ShorterTold
  <2>7. Good(s, b)
    <3>1. \A j \in DOMAIN rest : rest[j].id < b.next /\ HeardBefore(r, rest[j].id)
      BY <1>7, <1>8, <2>3
    <3> QED BY <1>5, <2>3, <3>1, GoodSegments
  <2>8. s.segments = rest /\ s.turns = r.turns /\ s.inFlight = NoRequest
    BY <1>5 DEF Good, Consistent, Fields
  <2>9. /\ request.kind = Kind(q[i]) /\ request.target = TargetTurn(r, q[i])
        /\ request.last = plan[Len(plan)].id
    BY <1>5, <2>5 DEF SegmentRequest
  <2>10. OfSegments(request)
    BY <2>9 DEF OfSegments, Kind
  <2>11. request.target # New => \A u \in DOMAIN s.turns : u <= request.target
    <3>1. PICK n \in DOMAIN r.segments : q[i] = r.segments[n]
      BY <1>8, <2>1
    <3> QED BY <2>8, <2>9, <3>1, TargetIsNewest
  <2>12. ASSUME request.kind = "CompletionCheck" PROVE Childless(request.last, s, b)
    <3>1. Childless(q[i].id, r, b)
      BY <1>9, <2>1, <2>9, <2>12
    <3>2. \A j \in DOMAIN q : q[j].previous # q[i].id
      BY <1>9, <3>1 DEF Childless
    <3>3. PlanLength(r, q, i) = 1
      <4>1. q \in Seq(Segment) /\ i \in 1..Len(q) /\ Kind(q[i]) = "CompletionCheck"
        BY <1>8, <2>1, <2>9, <2>12
      <4> QED BY <3>2, <4>1, AloneInPlan
    <3>4. Len(plan) = 1
      BY <1>3, <2>1, <2>4, <3>3
    <3>5. request.last = q[i].id
      BY <2>5, <2>9, <3>4
    <3>6. \A j \in DOMAIN rest : rest[j].previous # q[i].id
      BY <2>3, <3>2
    <3> QED BY <2>8, <3>1, <3>5, <3>6 DEF Childless
  <2>13. s.up => Told(Submit(s, request), b)
    BY <2>6, <2>7, <2>8, <2>10, <2>11, <2>12, AskedTold
  <2>14. ~s.up => Submit(s, request) = s
    BY DEF Submit
  <2> QED BY <1>6, <1>12, <2>6, <2>13, <2>14
<1> QED BY <1>11, <1>12

-----------------------------------------------------------------------------
(* The turn check and the timeout. *)

LEMMA PromotableId ==
  ASSUME NEW r, NEW x, r.segments \in Seq(Segment), PromotableInterim(r, x) # 0
  PROVE  r.segments[PromotableInterim(r, x)].id = x
<1> DEFINE at == {i \in DOMAIN r.segments :
                   Kind(r.segments[i]) = "InterimDisplay" /\ r.segments[i].id = x}
           k == Min(at)
<1>1. at # {} /\ PromotableInterim(r, x) = k
  BY DEF PromotableInterim
<1>2. at \in SUBSET Nat /\ \A i \in at : r.segments[i].id = x
  OBVIOUS
<1> HIDE DEF at
<1> QED BY <1>1, <1>2, LeastOf

LEMMA PromotedFrom ==
  ASSUME NEW q \in Seq(Segment), NEW k \in 1..Len(q), NEW p, p = Promoted(q, k)
  PROVE  \A i \in DOMAIN p :
           \/ p[i].id = q[k].id /\ p[i].previous = q[k].previous
           \/ \E j \in DOMAIN q : p[i] = q[j]
<1>1. PICK first, a, c : /\ first = [q[k] EXCEPT !.reason = "EndSilenceReached"]
                         /\ a = <<first>> /\ c = From(q, k + 1)
  OBVIOUS
<1>2. first \in Segment /\ first.id = q[k].id /\ first.previous = q[k].previous
  <2>1. q[k] \in Segment
    OBVIOUS
  <2> QED BY <1>1, <2>1 DEF Segment
<1>3. a \in Seq(Segment) /\ Len(a) = 1 /\ a[1] = first
  BY <1>1, <1>2
<1>4. c \in Seq(Segment) /\ \A i \in DOMAIN c : \E j \in DOMAIN q : c[i] = q[j]
  <2>1. k + 1 \in 1..(Len(q) + 1)
    OBVIOUS
  <2>2. From(q, k + 1) \in Seq(Segment) /\ Len(From(q, k + 1)) = Len(q) + 1 - (k + 1)
        /\ \A i \in 1..Len(From(q, k + 1)) : From(q, k + 1)[i] = q[(k + 1) + i - 1]
    BY <2>1, FromIs
  <2>3. PICK n \in Nat : n = Len(q)
    OBVIOUS
  <2>4. k \in Nat /\ DOMAIN q = 1..n /\ DOMAIN c = 1..Len(c) /\ Len(c) = n + 1 - (k + 1)
    BY <1>1, <2>2, <2>3
  <2>5. \A i \in DOMAIN c : (k + 1) + i - 1 \in DOMAIN q
    BY <2>4
  <2> QED BY <1>1, <2>2, <2>4, <2>5
<1>5. p = a \o c
  BY <1>1, Zenon DEF Promoted, From
<1>6. /\ a \o c \in Seq(Segment) /\ Len(a \o c) = Len(a) + Len(c)
      /\ \A i \in 1..Len(a) : (a \o c)[i] = a[i]
      /\ \A i \in (Len(a) + 1)..(Len(a) + Len(c)) : (a \o c)[i] = c[i - Len(a)]
  BY <1>3, <1>4, JoinIs
<1>7. PICK m \in Nat : m = Len(c)
  BY <1>4
<1>8. DOMAIN p = 1..(1 + m) /\ DOMAIN c = 1..m
  <2>1. p \in Seq(Segment) /\ Len(p) = 1 + m
    BY <1>3, <1>5, <1>6, <1>7
  <2>2. DOMAIN p = 1..Len(p) /\ DOMAIN c = 1..Len(c)
    BY <1>4, <2>1
  <2> QED BY <1>7, <2>1, <2>2
<1>9. p[1] = first /\ \A i \in 2..(1 + m) : p[i] = c[i - 1]
  <2>1. 1 \in 1..1 /\ 1 + 1 = 2
    OBVIOUS
  <2> QED BY <1>3, <1>5, <1>6, <1>7, <2>1
<1>10. ASSUME NEW i \in DOMAIN p, i # 1 PROVE \E j \in DOMAIN q : p[i] = q[j]
  <2>1. i \in 2..(1 + m) /\ i - 1 \in 1..m
    BY <1>8, <1>10
  <2> QED BY <1>4, <1>8, <1>9, <2>1
<1> QED BY <1>2, <1>9, <1>10

LEMMA PromoteTold ==
  ASSUME NEW r, NEW b, NEW k, Good(r, b), Owed(r, b), Told(r, b), r.inFlight = NoRequest,
         r.turnCheck # NoCheck, k = PromotableInterim(r, r.turnCheck.previous), k # 0
  PROVE  Told(Promote(r, k), b)
<1>1. PICK q, x : q = r.segments /\ x = r.turnCheck.previous
  OBVIOUS
<1>2. PICK p : p = Promoted(q, k)
  OBVIOUS
<1>3. PICK s : s = [r EXCEPT !.segments = p]
  OBVIOUS
<1>4. Promote(r, k) = Dispatch(s)
  BY <1>1, <1>2, <1>3, Zenon DEF Promote, Promoted
<1>5. /\ q \in Seq(Segment) /\ InLine(q) /\ Len(q) \in Nat /\ DOMAIN q = 1..Len(q)
      /\ \A j \in DOMAIN q : q[j].id < b.next /\ HeardBefore(r, q[j].id)
  BY <1>1, QueueIs DEF Good, Sound, Typed, Spoken
<1>6. k \in 1..Len(q) /\ q[k].id = x
  <2>1. k \in DOMAIN r.segments
    BY <1>1, <1>5, PromotableIs
  <2>2. r.segments[k].id = r.turnCheck.previous
    BY <1>1, <1>5, PromotableId
  <2> QED BY <1>1, <1>5, <2>1, <2>2
<1>7. /\ p \in Seq(Segment) /\ InLine(p)
      /\ \A i \in DOMAIN p :
           /\ k + i - 1 \in DOMAIN q /\ p[i].id = q[k + i - 1].id
           /\ p[i].previous = q[k + i - 1].previous /\ p[i].to = q[k + i - 1].to
  BY <1>2, <1>5, <1>6, PromotedInLine
<1>8. Good(s, b)
  <2>1. \A i \in DOMAIN p : p[i].id < b.next /\ HeardBefore(r, p[i].id)
    BY <1>5, <1>7
  <2> QED BY <1>3, <1>7, <2>1, GoodSegments
<1>9. k - 1 \in Nat /\ \A i \in DOMAIN p : k + i - 1 = i + (k - 1)
  <2>1. \A i \in DOMAIN p : i \in Nat
    BY <1>7
  <2> QED BY <1>5, <1>6, <2>1
<1>10. Owed(s, b)
  <2>1. \A i \in DOMAIN p :
          /\ i + (k - 1) \in DOMAIN r.segments
          /\ p[i].id = r.segments[i + (k - 1)].id
          /\ p[i].previous = r.segments[i + (k - 1)].previous
          /\ p[i].to = r.segments[i + (k - 1)].to
    BY <1>1, <1>7, <1>9
  <2>2. PICK n \in Nat : n = k - 1
    BY <1>9
  <2> QED BY <1>3, <1>7, <2>1, <2>2, RestShorter
<1>11. Childless(x, r, b)
  <2>1. x >= 1 /\ x \in Nat /\ Beyond(b, x)
    BY <1>1 DEF Owed, Ledger, CheckEnds, Good, Sound, Typed
  <2>2. b.chain # x
    BY <2>1 DEF Beyond, NoSegment
  <2> QED BY <1>1, <2>2 DEF Owed, Ledger, CheckEnds, Childless
<1>12. \A i \in DOMAIN p :
         /\ Kind(p[i]) = "CompletionCheck" => Childless(p[i].id, r, b)
         /\ \E j \in DOMAIN r.segments : p[i].previous = r.segments[j].previous
  <2> SUFFICES ASSUME NEW i \in DOMAIN p
               PROVE  /\ Kind(p[i]) = "CompletionCheck" => Childless(p[i].id, r, b)
                      /\ \E j \in DOMAIN r.segments : p[i].previous = r.segments[j].previous
    OBVIOUS
  <2>1. \/ p[i].id = q[k].id /\ p[i].previous = q[k].previous
        \/ \E j \in DOMAIN q : p[i] = q[j]
    BY <1>2, <1>5, <1>6, PromotedFrom
  <2>2. CASE p[i].id = q[k].id /\ p[i].previous = q[k].previous
    BY <1>1, <1>5, <1>6, <1>11, <2>2
  <2>3. CASE \E j \in DOMAIN q : p[i] = q[j]
    BY <1>1, <2>3 DEF Told, Part, NoHeirs
  <2> QED BY <2>1, <2>2, <2>3
<1>13. Told(s, b) /\ s.inFlight = NoRequest
  BY <1>3, <1>12, ShorterTold DEF Good, Consistent, Fields
<1> QED BY <1>4, <1>8, <1>10, <1>13, DispatchTold

LEMMA CheckedTold ==
  ASSUME NEW r, NEW b, Consistent(r), Told(r, b)
  PROVE  Told(Checked(r), b)
<1>1. Retold(r, Checked(r))
  BY DEF Checked, Consistent, Fields, Retold, FinalsOf
<1> QED BY <1>1, RetoldTold

LEMMA CheckOpenTurnTold ==
  ASSUME NEW r, NEW b, NEW t, Good(r, b), Told(r, b), r.inFlight = NoRequest, t = r.openTurn,
         t \in DOMAIN r.turns, Resolving(r, t, b), QueueSettled(r, t)
  PROVE  Told(CheckOpenTurn(r, t), b)
<1>1. PICK purpose, c, q : /\ purpose = CompletionPurpose(r) /\ c = CompleteTurn(r, t)
                           /\ q = Rerecognize(r, t, purpose)
  OBVIOUS
<1>2. \/ CheckOpenTurn(r, t) \in {Checked(c), r}
      \/ CanRerecognize(r, t) /\ CheckOpenTurn(r, t) = Checked(q)
  BY <1>1 DEF CheckOpenTurn
<1>3. t \in Nat
  BY TurnsAre
<1>4. Consistent(c) /\ Consistent(q)
  <2>1. Consistent(c)
    BY <1>1, <1>3, CompleteMoves DEF Moves, Good
  <2>2. Quiet(r, q)
    BY <1>1, RerecognizeQuiet DEF Good
  <2> QED BY <2>1, <2>2, QuietKeeps DEF Good
<1>5. Telling(r, t, b)
  BY <1>3, NothingAsked DEF Told, Reached, Telling
<1>6. Told(c, b)
  BY <1>1, <1>5, CompleteTold
<1>7. ASSUME CanRerecognize(r, t) PROVE Told(q, b)
  <2>1. purpose # "TimeoutFinal"
    BY <1>1 DEF CompletionPurpose
  <2>2. Beyond(b, t) /\ r.up
    BY <1>7 DEF Resolving, CanRerecognize
  <2> QED BY <1>1, <1>5, <2>1, <2>2, RerecognizeTold
<1> QED BY <1>2, <1>4, <1>6, <1>7, CheckedTold

LEMMA TurnCheckTold ==
  ASSUME NEW r, NEW b, Good(r, b), Owed(r, b), Told(r, b), r.turnCheck # NoCheck
  PROVE  Told(HandleTurnCheck(r), b)
<1>1. PICK t, k : t = r.openTurn /\ k = PromotableInterim(r, r.turnCheck.previous)
  OBVIOUS
<1>2. PICK s : s = Promote(r, k)
  OBVIOUS
<1>3. \/ HandleTurnCheck(r) \in {r, Checked(r)}
      \/ ~InFlight(r) /\ k # 0 /\ HandleTurnCheck(r) \in {s, Checked(s)}
      \/ /\ ~InFlight(r) /\ t # NoTurn /\ r.turns[t].latest = r.turnCheck.previous
         /\ HandleTurnCheck(r) = CheckOpenTurn(r, t)
  BY <1>1, <1>2 DEF HandleTurnCheck
<1>4. ASSUME ~InFlight(r), k # 0 PROVE Told(s, b) /\ Consistent(s)
  <2>1. r.inFlight = NoRequest
    BY <1>4 DEF InFlight
  <2>2. Told(s, b)
    BY <1>1, <1>2, <1>4, <2>1, PromoteTold
  <2>3. Quiet(r, s)
    BY <1>2, PromoteQuiet DEF Good
  <2> QED BY <2>2, <2>3, QuietKeeps DEF Good
<1>5. ASSUME ~InFlight(r), t # NoTurn, r.turns[t].latest = r.turnCheck.previous
      PROVE  Told(CheckOpenTurn(r, t), b)
  <2>1. r.inFlight = NoRequest
    BY <1>5 DEF InFlight
  <2>2. t \in DOMAIN r.turns /\ Resolving(r, t, b) /\ QueueSettled(r, t)
    BY <1>1, <1>5, <2>1, CheckResolving
  <2> QED BY <1>1, <2>1, <2>2, CheckOpenTurnTold
<1>6. Told(Checked(r), b)
  BY CheckedTold DEF Good
<1> QED BY <1>3, <1>4, <1>5, <1>6, CheckedTold

LEMMA RefreshTold ==
  ASSUME NEW r, NEW b, Good(r, b), Owed(r, b), Told(r, b)
  PROVE  Told(Dispatch(RefreshTimeout(r, b.tick)), b)
<1>1. PICK s : s = RefreshTimeout(r, b.tick)
  OBVIOUS
<1>2. Good(s, b)
  <2>1. Sound(s, b) /\ Consistent(s)
    BY <1>1, OriginSound, OriginQuiet, QuietKeeps DEF RefreshTimeout, Good, PlaceOK
  <2> QED BY <2>1 DEF Good
<1>3. /\ s.segments = r.segments /\ s.newTurns = r.newTurns /\ s.nextTurn = r.nextTurn
      /\ s.confirmed = r.confirmed /\ s.openTurn = r.openTurn
      /\ s.finalization = r.finalization /\ s.turnCheck = r.turnCheck
      /\ s.inFlight = r.inFlight /\ s.turns = r.turns
      /\ s.finalized = r.finalized /\ s.out = r.out
      /\ s = r \/ s.openSince = b.tick
  BY <1>1 DEF RefreshTimeout, ResetTimeoutOrigin, Good, Consistent, Fields
<1>4. Owed(s, b)
  <2>1. Alike(r, s)
    BY <1>3 DEF Alike
  <2>2. Rested(s, b)
    BY <1>3, JustRested DEF Owed, Ledger, Good
  <2>3. Ledger(s, b)
    BY <2>1, <2>2, AlikeLedger DEF Owed
  <2>4. CoveredAbove(s, NoTurn)
    BY <1>3, <2>1, AlikeCovered DEF Owed
  <2> QED BY <2>3, <2>4 DEF Owed
<1>5. Told(s, b)
  <2>1. Retold(r, s)
    BY <1>3 DEF Retold, FinalsOf
  <2> QED BY <2>1, RetoldTold
<1>6. CASE InFlight(s)
  BY <1>1, <1>5, <1>6 DEF Dispatch
<1>7. CASE ~InFlight(s)
  BY <1>1, <1>2, <1>4, <1>5, <1>7, DispatchTold DEF InFlight
<1> QED BY <1>6, <1>7

LEMMA TimeoutTold ==
  ASSUME NEW r, NEW b, Good(r, b), Told(r, b), r.openTurn # NoTurn
  PROVE  Told(TimeoutOpenTurn(r), b)
<1>1. PICK t : t = r.openTurn
  OBVIOUS
<1>2. CASE r.turn.detector # "Simple" /\ CanRerecognize(r, t)
  <2>1. r.inFlight = NoRequest /\ r.up /\ t \in DOMAIN r.turns
    BY <1>2 DEF CanRerecognize, InFlight
  <2>2. t \in Nat
    BY <1>1, TurnsAre
  <2>3. Telling(r, t, b)
    BY <1>1, <2>1, <2>2, NothingAsked DEF Told, Reached, Telling
  <2>4. Told(Rerecognize(r, t, "TimeoutFinal"), b)
    BY <1>1, <2>1, <2>3, RerecognizeTold
  <2>5. TimeoutOpenTurn(r) = Rerecognize(r, t, "TimeoutFinal")
    BY <1>1, <1>2 DEF TimeoutOpenTurn
  <2> QED BY <2>4, <2>5
<1>3. CASE ~(r.turn.detector # "Simple" /\ CanRerecognize(r, t))
  <2>1. TimeoutOpenTurn(r) = CompleteTurn(r, r.openTurn)
    BY <1>1, <1>3 DEF TimeoutOpenTurn
  <2> QED BY <2>1, CompleteOpenTold
<1> QED BY <1>2, <1>3

-----------------------------------------------------------------------------
(* The steps of the session. *)

LEMMA StepTold ==
  ASSUME NEW b, b = Place, BuilderOK, PauseOK(state), Good(rt, b), Owed(rt, b), Told(rt, b), Step
  PROVE  Told(rt', b)
<1>0. b.tick = Tick /\ b.tick \in Nat
  BY PlaceIs, BuilderIs DEF Tick
<1>1. CASE ApplyAnswer
  <2>1. PICK decision \in Decisions(rt), emitted \in {"stale", "current"} :
          rt' = ApplyResult(rt, decision, emitted, b.tick, InterimEnabled)
    BY <1>0, <1>1 DEF ApplyAnswer
  <2>2. ResultReady(rt)
    BY <1>1 DEF ApplyAnswer
  <2>3. PICK interim : interim = InterimEnabled
    OBVIOUS
  <2>4. Told(ApplyResult(rt, decision, emitted, b.tick, interim), b)
    BY <1>0, <2>2, ApplyResultTold
  <2> QED BY <2>1, <2>3, <2>4
<1>2. CASE FinalizePending
  <2>1. /\ rt.finalization # NoTurn /\ ~FinalizationIsBlocked(rt, rt.finalization)
        /\ rt' = FinalizeTurnNow([rt EXCEPT !.finalization = NoTurn], rt.finalization)
    BY <1>2 DEF FinalizePending, FinalizationReady
  <2> QED BY <2>1, FinalizePendingTold
<1>3. CASE CheckTurn
  <2>1. rt.turnCheck # NoCheck /\ rt' \in {Checked(rt), HandleTurnCheck(rt)}
    BY <1>3 DEF CheckTurn, TurnChecked
  <2>2. Told(HandleTurnCheck(rt), b)
    BY <2>1, TurnCheckTold
  <2>3. Told(Checked(rt), b)
    BY CheckedTold DEF Good
  <2> QED BY <2>1, <2>2, <2>3
<1>4. CASE TimeoutOrDispatch
  <2>1. CASE OpenTurnTimedOut(rt, Tick, TimeoutTicks)
    <3>1. rt.openTurn # NoTurn /\ rt' = TimeoutOpenTurn(rt)
      BY <1>4, <2>1 DEF TimeoutOrDispatch, TimedOutOrDispatched, OpenTurnTimedOut
    <3> QED BY <3>1, TimeoutTold
  <2>2. CASE ~OpenTurnTimedOut(rt, Tick, TimeoutTicks)
    <3>1. rt' = Dispatch(RefreshTimeout(rt, b.tick))
      BY <1>0, <1>4, <2>2 DEF TimeoutOrDispatch, TimedOutOrDispatched
    <3> QED BY <3>1, RefreshTold
  <2> QED BY <2>1, <2>2
<1> QED BY <1>1, <1>2, <1>3, <1>4 DEF Step

LEMMA RunnerTold ==
  ASSUME NEW b, Good(rt, b), Told(rt, b), RunnerProgress \/ StopRunner
  PROVE  Told(rt', b)
<1>1. DOMAIN rt = Fields
  BY DEF Good, Consistent
<1>2. PICK up, answer : rt' = [rt EXCEPT !.up = up, !.runner = answer]
  <2>1. CASE RunnerProgress
    <3>1. PICK answer : rt' = [rt EXCEPT !.runner = answer]
      BY <2>1 DEF RunnerProgress, StartRequest, Answer
    <3>2. rt' = [rt EXCEPT !.up = rt.up, !.runner = answer]
      BY <1>1, <3>1 DEF Fields
    <3> QED BY <3>2
  <2>2. CASE StopRunner
    BY <2>2 DEF StopRunner, Fields
  <2> QED BY <2>1, <2>2
<1>3. Retold(rt, rt')
  BY <1>1, <1>2 DEF Retold, Fields, FinalsOf
<1> QED BY <1>3, RetoldTold

LEMMA FinishedTold ==
  ASSUME NEW b, Good(rt, b), Told(rt, b), FinishDrain
  PROVE  Told(rt', b)
  BY CompleteOpenTold DEF FinishDrain

-----------------------------------------------------------------------------
(* The frames. *)

\* No segment has reached the length limit.
NoLimitMet ==
  \A i \in DOMAIN events :
    events[i].type = "SegmentClosed" => events[i].reason # "SegmentMaxChunksReached"

\* A segment that closes with a completion has no child.
Completes(evs, c) ==
  \A i \in DOMAIN evs :
    evs[i].type = "SegmentClosed" =>
      evs[i].reason = "InterimResultSilenceReached" \/ c.chain = NoSegment

LEMMA PushCloses ==
  ASSUME NEW speech, Push(speech), NoLimitMet'
  PROVE  \A i \in DOMAIN events' :
           events'[i].type = "SegmentClosed" =>
             events'[i].reason = "InterimResultSilenceReached" \/ Chain' = NoSegment
<1>1. PICK chunk : PushChunk(chunk)
  BY DEF Push
<1>2. CASE InterimClose(chunk)
  BY <1>2 DEF InterimClose, SegmentClosed, SegmentStarted
<1>3. CASE MaxChunksClose(chunk)
  <2>1. events'[2].type = "SegmentClosed" /\ events'[2].reason = "SegmentMaxChunksReached"
        /\ 2 \in DOMAIN events'
    BY <1>3 DEF MaxChunksClose, SegmentClosed
  <2> QED BY <2>1 DEF NoLimitMet
<1>4. CASE EndSilenceClose(chunk)
  <2>1. state'.kind = "Idle" /\ pendingPrevious' = NoSegment
    BY <1>4 DEF EndSilenceClose, IdleAfterEnd, Idle
  <2> QED BY <2>1 DEF Chain
<1>5. CASE \/ HoldSpeech(chunk) \/ StartFromIdle(chunk) \/ StartAfterInterim(chunk)
           \/ IdleSilence(chunk) \/ AfterInterimSilence(chunk) \/ AfterInterimTurnCheck(chunk)
           \/ ActiveExtend(chunk)
  <2>1. CASE HoldSpeech(chunk) \/ IdleSilence(chunk) \/ AfterInterimSilence(chunk)
    BY <2>1 DEF HoldSpeech, IdleSilence, AfterInterimSilence
  <2>2. ASSUME NEW e, events' = <<e>>, e.type # "SegmentClosed"
        PROVE  \A i \in DOMAIN events' : events'[i].type # "SegmentClosed"
    BY <2>2
  <2>3. CASE StartFromIdle(chunk)
    <3>1. PICK chunks : events' = <<SegmentStarted(nextSegmentId, pendingPrevious, chunks)>>
      BY <2>3 DEF StartFromIdle
    <3> QED BY <2>2, <3>1 DEF SegmentStarted
  <2>4. CASE StartAfterInterim(chunk)
    <3>1. PICK chunks : events' = <<SegmentStarted(nextSegmentId, state.previous, chunks)>>
      BY <2>4 DEF StartAfterInterim
    <3> QED BY <2>2, <3>1 DEF SegmentStarted
  <2>5. CASE AfterInterimTurnCheck(chunk)
    <3>1. events' = <<TurnCheckSilenceReached(state.previous)>>
      BY <2>5 DEF AfterInterimTurnCheck
    <3> QED BY <2>2, <3>1 DEF TurnCheckSilenceReached
  <2>6. CASE ActiveExtend(chunk)
    <3>1. events' = <<SegmentExtended(state, chunk)>>
      BY <2>6 DEF ActiveExtend
    <3> QED BY <2>2, <3>1 DEF SegmentExtended
  <2> QED BY <1>5, <2>1, <2>3, <2>4, <2>5, <2>6
<1> QED BY <1>1, <1>2, <1>3, <1>4, <1>5 DEF PushChunk

LEMMA FlushCloses ==
  ASSUME Flush
  PROVE  \A i \in DOMAIN events' :
           events'[i].type = "SegmentClosed" =>
             events'[i].reason = "InterimResultSilenceReached" \/ Chain' = NoSegment
<1>1. CASE FlushActive
  <2>1. state'.kind = "Idle" /\ pendingPrevious' = NoSegment
    BY <1>1 DEF FlushActive, IdleAfterEnd, Idle
  <2> QED BY <2>1 DEF Chain
<1>2. CASE FlushAfterInterim \/ FlushIdle
  BY <1>2 DEF FlushAfterInterim, FlushIdle, TurnCheckSilenceReached
<1> QED BY <1>1, <1>2 DEF Flush

\* What a frame does that is told: it may append a segment.
LEMMA AbsorbTells ==
  ASSUME NEW r, NEW evs, NEW cursor, NEW s, Consistent(r), s = Absorb(r, evs, cursor),
         Len(evs) \in Nat, DOMAIN evs = 1..Len(evs)
  PROVE  /\ s.finalized = r.finalized /\ s.out = r.out
         /\ \/ s.segments = r.segments
            \/ \E i \in DOMAIN evs : \E g :
                 /\ evs[i].type = "SegmentClosed" /\ g.id = evs[i].id
                 /\ g.previous = evs[i].previous /\ g.reason = evs[i].reason
                 /\ s.segments = Append(r.segments, g)
<1> DEFINE active == {i \in DOMAIN evs : evs[i].type \in {"SegmentStarted", "SegmentExtended"}}
           closed == {i \in DOMAIN evs : evs[i].type = "SegmentClosed"}
           check  == {i \in DOMAIN evs : evs[i].type = "TurnCheckSilenceReached"}
           Pending(e) == [id |-> e.id, previous |-> e.previous, reason |-> e.reason,
                          from |-> cursor - Len(e.chunks), to |-> cursor]
           segment == Pending(evs[Min(closed)])
           reset == IF \E i \in closed : evs[i].reason = "EndSilenceReached"
                    THEN ResetStreamingSessions(r) ELSE r
           segments == IF closed = {} THEN r.segments ELSE Append(r.segments, segment)
<1>1. /\ DOMAIN reset = Fields /\ reset.segments = r.segments
      /\ reset.finalized = r.finalized /\ reset.out = r.out
  <2>1. DOMAIN r = Fields
    BY DEF Consistent
  <2> HIDE DEF closed
  <2> QED BY <2>1 DEF ResetStreamingSessions, Fields
<1>2. s = [reset EXCEPT !.epoch = @ + Cardinality(active),
             !.segments = IF closed = {} THEN @ ELSE Append(@, segment),
             !.turnCheck = IF check = {} THEN @
                           ELSE [previous |-> evs[Min(check)].previous, epoch |-> r.epoch]]
  BY Zenon DEF Absorb
<1> HIDE DEF reset, segment, active, closed, check
<1>3. s.segments = segments /\ s.finalized = r.finalized /\ s.out = r.out
  BY <1>1, <1>2 DEF Fields
<1>4. CASE closed = {}
  BY <1>3, <1>4
<1>5. CASE closed # {}
  <2>1. closed \in SUBSET Nat
    BY DEF closed
  <2>2. PICK m : m = Min(closed)
    OBVIOUS
  <2>3. m \in closed
    BY <1>5, <2>1, <2>2, LeastOf
  <2>4. m \in DOMAIN evs /\ evs[m].type = "SegmentClosed"
    BY <2>3 DEF closed
  <2>5. segment.id = evs[m].id /\ segment.previous = evs[m].previous
        /\ segment.reason = evs[m].reason
    BY <2>2 DEF segment
  <2>6. s.segments = Append(r.segments, segment)
    BY <1>3, <1>5
  <2> QED BY <1>3, <2>4, <2>5, <2>6
<1> QED BY <1>4, <1>5

LEMMA AppendedFrom ==
  ASSUME NEW T, NEW q \in Seq(T), NEW g, NEW p, p = Append(q, g)
  PROVE  \A i \in DOMAIN p : p[i] = g \/ \E j \in DOMAIN q : p[i] = q[j]
<1>1. PICK S : S = T \union {g}
  OBVIOUS
<1>2. q \in Seq(S) /\ g \in S
  BY <1>1
<1> QED BY <1>2

LEMMA AbsorbTold ==
  ASSUME NEW r, NEW evs, NEW b, NEW c, Good(r, b), Owed(r, b), Told(r, b), PlaceOK(c),
         EventsOK(evs, b, c), Passes(evs, b, c), Completes(evs, c)
  PROVE  Told(Absorb(r, evs, c.tick), c)
<1>1. PICK s, q : s = Absorb(r, evs, c.tick) /\ q = r.inFlight
  OBVIOUS
<1>2. /\ s.confirmed = r.confirmed /\ s.openTurn = r.openTurn /\ s.inFlight = q
      /\ s.turns = r.turns
  <2>1. c.tick \in Int
    BY DEF PlaceOK
  <2> QED BY <1>1, <2>1, AbsorbIs DEF Good, Absorbs
<1>3. /\ s.finalized = r.finalized /\ s.out = r.out
      /\ \/ s.segments = r.segments
         \/ \E i \in DOMAIN evs : \E g :
              /\ evs[i].type = "SegmentClosed" /\ g.id = evs[i].id
              /\ g.previous = evs[i].previous /\ g.reason = evs[i].reason
              /\ s.segments = Append(r.segments, g)
  BY <1>1, AbsorbTells DEF Good, EventsOK
<1>4. /\ b.next \in Nat /\ b.next >= 1 /\ b.chain \in {0, b.next - 1}
      /\ c.chain \in {0, b.next, b.chain}
  BY DEF Good, PlaceOK, Turn, Passes
\* What is queued comes from the queue, or is the segment that has closed.
<1>5. ASSUME NEW i \in DOMAIN s.segments
      PROVE  \/ \E j \in DOMAIN r.segments : s.segments[i] = r.segments[j]
             \/ /\ s.segments[i].id = b.next /\ s.segments[i].previous = b.chain
                /\ Kind(s.segments[i]) = "CompletionCheck" => c.chain = NoSegment
  <2>1. CASE s.segments = r.segments
    BY <1>5, <2>1
  <2>2. ASSUME NEW e \in DOMAIN evs, NEW g, evs[e].type = "SegmentClosed", g.id = evs[e].id,
               g.previous = evs[e].previous, g.reason = evs[e].reason,
               s.segments = Append(r.segments, g)
        PROVE  \/ \E j \in DOMAIN r.segments : s.segments[i] = r.segments[j]
               \/ /\ s.segments[i].id = b.next /\ s.segments[i].previous = b.chain
                  /\ Kind(s.segments[i]) = "CompletionCheck" => c.chain = NoSegment
    <3>1. g.id = b.next /\ g.previous = b.chain
      BY <2>2 DEF EventsOK, EventOK, Passes
    <3>2. Kind(g) = "CompletionCheck" => c.chain = NoSegment
      BY <2>2 DEF Completes, Kind
    <3>3. s.segments[i] = g \/ \E j \in DOMAIN r.segments : s.segments[i] = r.segments[j]
      <4>1. r.segments \in Seq(Segment)
        BY QueueIs
      <4> QED BY <1>5, <2>2, <4>1, AppendedFrom
    <3> QED BY <3>1, <3>2, <3>3
  <2> QED BY <1>3, <2>1, <2>2
<1>6. Reached(s) /\ Newest(s)
  BY <1>1, <1>2 DEF Told, Reached, Part, Newest
\* A segment of which nothing was a child has none now.
<1>7. ASSUME NEW id \in Nat, id >= 1, id < b.next, Childless(id, r, b)
      PROVE  Childless(id, s, c)
  <2>1. c.chain # id
    BY <1>4, <1>7 DEF Childless
  <2>2. ASSUME NEW i \in DOMAIN s.segments PROVE s.segments[i].previous # id
    BY <1>5, <1>7 DEF Childless
  <2> QED BY <2>1, <2>2 DEF Childless
<1>8. NoHeirs(s, c)
  <2>1. ASSUME NEW i \in DOMAIN s.segments, Kind(s.segments[i]) = "CompletionCheck"
        PROVE  Childless(s.segments[i].id, s, c)
    <3>1. CASE \E j \in DOMAIN r.segments : s.segments[i] = r.segments[j]
      <4>1. PICK j \in DOMAIN r.segments : s.segments[i] = r.segments[j]
        BY <3>1
      <4>2. PICK id : id = r.segments[j].id
        OBVIOUS
      <4>3. id \in Nat /\ id >= 1 /\ id < b.next
        BY <4>2, QueueIs
      <4>4. Childless(id, r, b)
        BY <2>1, <4>1, <4>2 DEF Told, Part, NoHeirs
      <4> QED BY <1>7, <4>1, <4>2, <4>3, <4>4
    <3>2. CASE s.segments[i].id = b.next /\ c.chain = NoSegment
      <4>1. ASSUME NEW k \in DOMAIN s.segments PROVE s.segments[k].previous # b.next
        <5>1. ASSUME NEW j \in DOMAIN r.segments PROVE r.segments[j].previous # b.next
          <6>1. /\ r.segments[j].id \in Nat /\ r.segments[j].id < b.next
                /\ r.segments[j].previous \in {0, r.segments[j].id - 1}
            BY QueueIs
          <6> QED BY <1>4, <6>1
        <5>2. b.chain # b.next
          BY <1>4
        <5> QED BY <1>5, <5>1, <5>2
      <4> QED BY <1>4, <3>2, <4>1 DEF Childless, NoSegment
    <3> QED BY <1>5, <2>1, <3>1, <3>2
  <2>2. ASSUME q.kind = "CompletionCheck" PROVE Childless(q.last, s, c)
    <3>1. OfSegments(q) /\ Childless(q.last, r, b)
      BY <1>1, <2>2 DEF OfSegments, Told, Part, NoHeirs
    <3>2. q.last \in Ids(q.segments)
      BY <1>1, <3>1 DEF Owed, Ledger, Numbered
    <3>3. q.last < b.next
      BY <1>1, <3>1, <3>2 DEF Good, Sound, Spoken, InTurn, OfSegments
    <3>4. q.last \in Nat /\ q.last >= 1
      BY <1>1, <3>1, RequestIs DEF Request, Turn
    <3> QED BY <1>7, <3>1, <3>3, <3>4
  <2> QED BY <1>2, <2>1, <2>2 DEF NoHeirs
<1>9. Whole(s, c)
  <2> SUFFICES ASSUME OfTurn(q), q.purpose # "TimeoutFinal"
               PROVE  QueueSettled(s, q.turn) /\ Beyond(c, q.turn)
    BY <1>1, <1>2 DEF Told, Part, Whole
  <2>1. QueueSettled(r, q.turn) /\ Beyond(b, q.turn)
    BY <1>1 DEF Told, Part, Whole
  <2>2. q.turn \in Nat /\ q.turn < b.next
    <3>1. /\ q.turn \in Nat /\ q.turn < r.nextTurn /\ r.nextTurn \in Nat
          /\ r.nextTurn <= b.next
      BY <1>1, RequestIs, TurnsAre DEF Owed, Ledger, Numbered
    <3> QED BY <1>4, <3>1
  <2>3. Beyond(c, q.turn)
    BY <1>4, <2>1, <2>2 DEF Beyond, NoSegment
  <2>4. ASSUME NEW i \in DOMAIN s.segments PROVE SegmentTurn(s.segments[i]) > q.turn
    <3>1. CASE \E j \in DOMAIN r.segments : s.segments[i] = r.segments[j]
      BY <2>1, <3>1 DEF QueueSettled
    <3>2. CASE s.segments[i].id = b.next /\ s.segments[i].previous = b.chain
      BY <1>4, <2>1, <2>2, <3>2 DEF SegmentTurn, Beyond, NoSegment
    <3> QED BY <1>5, <3>1, <3>2
  <2> QED BY <2>3, <2>4 DEF QueueSettled
<1>10. Later(s)
  BY <1>2 DEF Told, Part, Later
<1>11. TextOrdered(s)
  <2>1. FinalsOf(s) = FinalsOf(r)
    BY <1>3 DEF FinalsOf
  <2> QED BY <1>2, <1>3, <2>1 DEF Told, Part, TextOrdered
<1> QED BY <1>1, <1>6, <1>8, <1>9, <1>10, <1>11 DEF Told, Part

-----------------------------------------------------------------------------
(* The engine. *)

InOrder == Guarded => Told(rt, Place)

LEMMA InitInOrder == Init => InOrder
<1> SUFFICES ASSUME Init PROVE Told(rt, Place)
  BY DEF InOrder
<1>1. PICK turn \in TurnConfigs : rt = Runtime0(turn)
  BY DEF Init
<1>2. /\ rt.segments = << >> /\ rt.inFlight = NoRequest /\ rt.turns = << >> /\ rt.out = {}
  BY <1>1 DEF Runtime0
<1>3. DOMAIN rt.turns = {} /\ DOMAIN rt.segments = {} /\ FinalsOf(rt) = {}
  BY <1>2 DEF FinalsOf
<1>4. rt.inFlight.kind # "CompletionCheck" /\ ~OfSegments(rt.inFlight) /\ ~OfTurn(rt.inFlight)
  BY <1>2, NothingAsked DEF OfSegments
<1>5. Reached(rt) /\ Newest(rt) /\ NoHeirs(rt, Place) /\ Whole(rt, Place)
  BY <1>3, <1>4 DEF Reached, Newest, NoHeirs, Whole
<1>6. Later(rt) /\ TextOrdered(rt)
  BY <1>3 DEF Later, TextOrdered
<1> QED BY <1>5, <1>6 DEF Told, Part

LEMMA NextInOrder ==
  IInv /\ Settled /\ InOrder /\ NoLimitMet' /\ [Next]_vars => InOrder'
<1> SUFFICES ASSUME IInv, Settled, InOrder, NoLimitMet', [Next]_vars, Guarded'
             PROVE  Told(rt', Place')
  BY DEF InOrder
<1>0. /\ IInv' /\ BuilderOK /\ BuilderOK' /\ PauseOK(state) /\ SilenceCounted(state)
      /\ Consistent(rt) /\ Consistent(rt') /\ DOMAIN rt = Fields
  BY NextSound DEF IInv, Consistent, Settled
<1>1. Guarded
  BY <1>0, DetectorIsFixed DEF Guarded, PauseEndsFirst
<1>2. PICK b : b = Place
  OBVIOUS
<1>3. Good(rt, b)
  <2>1. /\ PlaceOK(b) /\ b.next = Position.next /\ b.tick = Position.tick
        /\ b.active = Position.active
    BY <1>0, <1>2, PlaceIs, BuilderIs
  <2>2. Sound(rt, Position)
    BY DEF IInv
  <2> QED BY <1>0, <2>1, <2>2, SamePlaceSound DEF Good
<1>4. Owed(rt, b) /\ Told(rt, b)
  BY <1>1, <1>2 DEF Settled, InOrder
<1>5. ASSUME Advances, PauseOK(state'), EventsOK(events', Position, Position'),
             rt' = Absorb(rt, events', frames'),
             \A i \in DOMAIN events' :
               events'[i].type = "SegmentClosed" =>
                 events'[i].reason = "InterimResultSilenceReached" \/ Chain' = NoSegment
      PROVE  Told(rt', Place')
  <2>1. Passes(events', Place, Place')
    BY <1>0, <1>5, AdvancesPasses
  <2>2. PICK c, evs : c = Place' /\ evs = events'
    OBVIOUS
  <2>3. /\ PlaceOK(c) /\ c.next = Position'.next /\ c.active = Position'.active
        /\ c.tick = frames' /\ c.chain = Chain'
    BY <1>0, <1>5, <2>2, PlaceNext
  <2>4. b.next = Position.next
    BY <1>0, <1>2, PlaceIs
  <2>5. EventsOK(evs, b, c)
    BY <1>5, <2>2, <2>3, <2>4, SamePlaceEvents
  <2>6. Completes(evs, c)
    BY <1>5, <2>2, <2>3 DEF Completes
  <2>7. Told(Absorb(rt, evs, c.tick), c)
    BY <1>2, <1>3, <1>4, <2>1, <2>2, <2>3, <2>5, <2>6, AbsorbTold
  <2> QED BY <1>5, <2>2, <2>3, <2>7
<1>6. ASSUME NEW speech \in BOOLEAN, PushFrame(speech) PROVE Told(rt', Place')
  <2>1. Push(speech) /\ rt' = Absorb(rt, events', frames')
    BY <1>6 DEF PushFrame
  <2>2. PauseOK(state') /\ Advances
    BY <1>0, <2>1, PushAdvances
  <2>3. EventsOK(events', Position, Position')
    BY <1>0, <2>1, PushSound
  <2> QED BY <1>5, <2>1, <2>2, <2>3, PushCloses
<1>7. ASSUME NEW next \in Configs, NEW turn \in TurnConfigs, UpdateParameters(next, turn)
      PROVE  Told(rt', Place')
  <2>1. UpdateConfig(next) /\ rt' = [rt EXCEPT !.turn = turn]
    BY <1>7 DEF UpdateParameters
  <2>2. Place' = Place
    BY <1>0, <2>1, UpdateKeeps
  <2>3. Retold(rt, rt')
    BY <1>0, <2>1 DEF Retold, Fields, FinalsOf
  <2> QED BY <1>2, <1>4, <2>2, <2>3, RetoldTold
<1>8. CASE StopGracefully
  <2>1. Flush /\ rt' = Absorb(rt, events', frames) /\ frames' = frames
    BY <1>8 DEF StopGracefully, Flush
  <2>2. PauseOK(state') /\ Advances
    BY <1>0, <2>1, FlushAdvances
  <2>3. EventsOK(events', Position, Position')
    BY <1>0, <2>1, FlushSound
  <2> QED BY <1>5, <2>1, <2>2, <2>3, FlushCloses
<1>9. CASE Step \/ RunnerProgress \/ StopRunner \/ FinishDrain \/ DrainTimesOut \/ Cancel
           \/ UNCHANGED vars
  <2>1. UNCHANGED builderVars
    BY <1>9 DEF Step, RunnerProgress, StartRequest, Answer, StopRunner, RunnerSteps,
                FinishDrain, DrainTimesOut, Cancel, vars
  <2>2. Place' = Place
    <3>1. /\ state' = state /\ frames' = frames /\ nextSegmentId' = nextSegmentId
          /\ pendingPrevious' = pendingPrevious
      BY <2>1 DEF builderVars
    <3>2. Position' = Position /\ Chain' = Chain
      BY <3>1 DEF Position, Chain
    <3>3. Pausing' = Pausing
      BY <3>1, <3>2 DEF Pausing, PauseEndsFirst
    <3> QED BY <3>1, <3>2, <3>3 DEF Place
  <2>3. Told(rt', b)
    <3>1. CASE Step
      BY <1>0, <1>2, <1>3, <1>4, <3>1, StepTold
    <3>2. CASE RunnerProgress \/ StopRunner
      BY <1>3, <1>4, <3>2, RunnerTold
    <3>3. CASE FinishDrain
      BY <1>3, <1>4, <3>3, FinishedTold
    <3>4. CASE DrainTimesOut \/ Cancel \/ UNCHANGED vars
      BY <1>4, <3>4 DEF DrainTimesOut, Cancel, vars
    <3> QED BY <1>9, <3>1, <3>2, <3>3, <3>4
  <2> QED BY <1>2, <2>2, <2>3
<1> QED BY <1>6, <1>7, <1>8, <1>9 DEF Next

(***************************************************************************)
(* The finals, read in turn order, have the segments in the order they     *)
(* were spoken, each at most once: when no segment reaches the length      *)
(* limit, and the pause inside an utterance ends before the timeout of the *)
(* open turn or the detector is the simple one.                            *)
(***************************************************************************)
THEOREM SpeechInOrder == Spec /\ []NoLimitMet => [](Guarded => SpokenOrder)
<1>1. IInv /\ InOrder => (Guarded => SpokenOrder)
  <2> SUFFICES ASSUME IInv, InOrder, Guarded PROVE SpokenOrder
    OBVIOUS
  <2>1. TextOrdered(rt) /\ AudioOK(rt)
    BY DEF InOrder, Told, Part, IInv, Sound, Spoken
  <2>2. Finals = FinalsOf(rt) /\ \A o \in Finals : AudioIn(o) = Ids(o.audio)
    BY DEF Finals, FinalsOf, AudioIn, Ids
  <2>3. \A o \in Finals : Rising(o.audio)
    BY <2>1, <2>2 DEF AudioOK
  <2>4. \A o, p \in Finals : o.turn < p.turn => Precedes(o.audio, p.audio)
    BY <2>1, <2>2 DEF TextOrdered
  <2> QED BY <2>2, <2>3, <2>4 DEF SpokenOrder, Rising, Precedes
<1>2. IInv /\ Settled /\ InOrder /\ NoLimitMet' /\ [Next]_vars => (IInv /\ Settled /\ InOrder)'
  BY NextSettled, NextSound, NextInOrder
<1>3. Init => IInv /\ Settled /\ InOrder
  BY InitSound, InitSettled, InitInOrder
<1> QED BY <1>1, <1>2, <1>3, PTL DEF Spec
=============================================================================
