----------------------- MODULE RecognitionEngine_proofs -----------------------
(***************************************************************************)
(* RecognitionEngine implements TurnOutput, its open turn always has a     *)
(* draft, no segment counts in two finals and no turn times out in speech, *)
(* for every configuration, detector and number of frames.  The segments   *)
(* its builder closes are right for every input, flush and change of       *)
(* settings (SegmentHistory, at the end).                                  *)
(*                                                                         *)
(* Every handler of RecognitionRuntime is one of three kinds of step:      *)
(*   Quiet    it changes neither the turns there are nor the outputs,      *)
(*   Moves    it emits at most one partial or one batch of finals,         *)
(*   Heard    it gives a turn its text, which may begin that turn,         *)
(* and each arm of step is made of at most one Heard, then a Moves, then   *)
(* Quiet ones.  Such a step keeps Consistent and is one step of TurnOutput.*)
(*                                                                         *)
(* Sound says where the segments of a session are: with the builder, in    *)
(* the queue, in the request in flight, in drafts and in finals, in this   *)
(* order and each once.  Every handler keeps it, given Consistent.         *)
(*                                                                         *)
(* A step of SegmentHistory is one of a few kinds, by what it does to the  *)
(* audio (PushKind, Flushes, Updates); each invariant of the history is    *)
(* kept by each kind.                                                      *)
(***************************************************************************)
EXTENDS RecognitionEngine, SegmentHistory, Ordering_proofs, TLAPS

Fields ==
  {"turn", "segments", "turnCheck", "finalization", "inFlight", "runner", "up", "turns",
   "finalized", "confirmed", "openTurn", "acceptsRoot", "newTurns", "nextTurn", "nextSeq",
   "epoch", "openEpoch", "openSince", "out", "unheard"}

Known(r) == DOMAIN r.turns \union r.finalized

\* A request is about a turn yet to begin, or about one that was given out.
KnownTarget(r, q) ==
  \/ q.kind = "None"
  \/ q.kind \in {"InterimDisplay", "CompletionCheck"} /\ q.target = New
  \/ q.target = q.turn /\ q.target \in Known(r)

\* The inductive invariant of the session.
Consistent(r) ==
  /\ DOMAIN r = Fields
  /\ r.nextTurn \in Nat \ {0} /\ r.nextSeq \in Nat \ {0} /\ r.finalization \in Nat
  /\ Known(r) \subseteq 1..(r.nextTurn - 1)
  /\ \A t \in DOMAIN r.turns, u \in r.finalized : u < t
  /\ \A s \in DOMAIN r.newTurns : r.newTurns[s] \in Known(r)
  /\ r.openTurn # NoTurn => r.openTurn \in DOMAIN r.turns
  /\ KnownTarget(r, r.inFlight)
  /\ r.runner # "idle" => r.inFlight.kind # "None"

Quiet(r, s) ==
  /\ DOMAIN s = Fields
  /\ s.out = r.out /\ s.nextSeq = r.nextSeq /\ s.nextTurn = r.nextTurn
  /\ s.finalized = r.finalized /\ s.newTurns = r.newTurns
  /\ s.finalization \in Nat
  /\ DOMAIN s.turns = DOMAIN r.turns
  /\ s.openTurn # NoTurn => s.openTurn \in DOMAIN r.turns
  /\ KnownTarget(r, s.inFlight)
  /\ s.runner # "idle" => s.inFlight.kind # "None"

-----------------------------------------------------------------------------
(* Quiet steps. *)

\* A quiet step keeps the invariant.
LEMMA QuietKeeps ==
  ASSUME NEW r, NEW s, Consistent(r), Quiet(r, s)
  PROVE  Consistent(s)
  BY DEF Consistent, Quiet, Known, KnownTarget

LEMMA QuietTwice ==
  ASSUME NEW r, NEW s, NEW z, Quiet(r, s), Quiet(s, z)
  PROVE  Quiet(r, z)
  BY DEF Quiet, Known, KnownTarget

LEMMA QuietSelf ==
  ASSUME NEW r, Consistent(r)
  PROVE  Quiet(r, r)
  BY DEF Quiet, Consistent

\* Submitting a request about a known turn, whether it is accepted or refused.
LEMMA RequestQuiet ==
  ASSUME NEW r, NEW q, Consistent(r), KnownTarget(r, q), q.kind # "None"
  PROVE  Quiet(r, Submit(r, q))
  BY DEF Consistent, Quiet, Submit, Fields

\* The planner targets a new turn or one that has a draft.
LEMMA SegmentRequestKnown ==
  ASSUME NEW r, NEW plan, Consistent(r)
  PROVE  KnownTarget(r, SegmentRequest(r, plan)) /\ SegmentRequest(r, plan).kind # "None"
<1> PICK first : first = plan[1]
  OBVIOUS
<1>1. \/ TargetTurn(r, first) = New
      \/ TargetTurn(r, first) = ProjectedTurn(r, first) /\ TargetTurn(r, first) \in DOMAIN r.turns
  BY DEF TargetTurn, ProjectedTurn, Consistent, New, NoTurn
<1>2. Kind(first) \in {"InterimDisplay", "CompletionCheck"}
  BY DEF Kind
<1> QED BY <1>1, <1>2 DEF SegmentRequest, KnownTarget, Known

LEMMA RerecognizeQuiet ==
  ASSUME NEW r, NEW t, NEW purpose, Consistent(r), t \in DOMAIN r.turns
  PROVE  Quiet(r, Rerecognize(r, t, purpose))
<1> PICK q : q = [kind |-> "Rerecognition", turn |-> t, target |-> t,
             revision |-> Revision(r, t),
             from |-> r.turns[t].from, to |-> r.turns[t].to,
             first |-> r.turns[t].first, last |-> r.turns[t].latest,
             segments |-> r.turns[t].audio, purpose |-> purpose]
  OBVIOUS
<1>1. KnownTarget(r, q) /\ q.kind # "None"
  BY DEF KnownTarget, Known
<1>2. Rerecognize(r, t, purpose) = Submit(r, q)
  BY DEF Rerecognize
<1> QED BY <1>1, <1>2, RequestQuiet

LEMMA SegmentsQuiet ==
  ASSUME NEW r, NEW q, Consistent(r)
  PROVE  Quiet(r, [r EXCEPT !.segments = q])
  BY DEF Consistent, Quiet, Fields

\* Dispatch only moves segments from the queue into a request.
LEMMA DispatchQuiet ==
  ASSUME NEW r, Consistent(r)
  PROVE  Quiet(r, Dispatch(r))
<1> USE QuietSelf
<1>1. CASE InFlight(r)
  BY <1>1 DEF Dispatch
<1>2. CASE ~InFlight(r)
  <2>1. PICK q : q = DropCoveredInterims(r.segments)
    OBVIOUS
  <2>2. PICK i : i = NextPlan(r, q)
    OBVIOUS
  <2>3. PICK end : end = i + PlanLength(r, q, i)
    OBVIOUS
  <2>4. PICK s : s = [r EXCEPT !.segments = SubSeq(q, end, Len(q))]
    OBVIOUS
  <2>5. PICK request : request = SegmentRequest(r, SubSeq(q, i, end - 1))
    OBVIOUS
  <2>6. Dispatch(r) = IF i > Len(q) THEN [r EXCEPT !.segments = << >>] ELSE Submit(s, request)
    BY <1>2, <2>1, <2>2, <2>3, <2>4, <2>5 DEF Dispatch
  <2>7. Quiet(r, s) /\ Quiet(r, [r EXCEPT !.segments = << >>])
    BY <2>4, SegmentsQuiet
  <2>8. Consistent(s)
    BY <2>7, QuietKeeps
  <2>9. KnownTarget(s, request) /\ request.kind # "None"
    <3>1. KnownTarget(r, request) /\ request.kind # "None"
      BY <2>5, SegmentRequestKnown
    <3> QED BY <3>1, <2>7 DEF KnownTarget, Known, Quiet
  <2>10. Quiet(r, Submit(s, request))
    BY <2>7, <2>8, <2>9, RequestQuiet, QuietTwice
  <2> QED BY <2>6, <2>7, <2>10
<1> QED BY <1>1, <1>2

LEMMA CheckedQuiet ==
  ASSUME NEW r, Consistent(r)
  PROVE  Quiet(r, Checked(r))
  BY DEF Consistent, Quiet, Fields, Checked

LEMMA DeferredQuiet ==
  ASSUME NEW r, NEW t \in Nat, Consistent(r)
  PROVE  Quiet(r, [r EXCEPT !.finalization = t])
  BY DEF Consistent, Quiet, Fields

LEMMA OpenQuiet ==
  ASSUME NEW r, NEW t, NEW root, Consistent(r), t \in DOMAIN r.turns
  PROVE  Quiet(r, [r EXCEPT !.openTurn = t, !.acceptsRoot = root])
  BY DEF Consistent, Quiet, Fields

LEMMA OriginQuiet ==
  ASSUME NEW r, NEW tick, Consistent(r)
  PROVE  Quiet(r, ResetTimeoutOrigin(r, tick))
  BY DEF Consistent, Quiet, Fields, ResetTimeoutOrigin

LEMMA ReplaceTextQuiet ==
  ASSUME NEW r, NEW t, NEW emitted, Consistent(r)
  PROVE  Quiet(r, ReplaceText(r, t, emitted))
  BY DEF Consistent, Quiet, Fields, ReplaceText

LEMMA AnsweredQuiet ==
  ASSUME NEW r, Consistent(r)
  PROVE  Quiet(r, [r EXCEPT !.inFlight = NoRequest, !.runner = "idle"])
  BY DEF Consistent, Quiet, Fields, KnownTarget, NoRequest

LEMMA UnheardQuiet ==
  ASSUME NEW r, NEW segments, Consistent(r)
  PROVE  Quiet(r, [r EXCEPT !.unheard = @ \union segments])
  BY DEF Consistent, Quiet, Fields

LEMMA RunnerQuiet ==
  ASSUME NEW r, NEW answer, NEW up, Consistent(r), r.runner # "idle" \/ answer = "idle"
  PROVE  Quiet(r, [r EXCEPT !.up = up, !.runner = answer])
  BY DEF Consistent, Quiet, Fields

\* Nor do the settings of turns, which may change in a session.
LEMMA TurnQuiet ==
  ASSUME NEW r, NEW turn, Consistent(r)
  PROVE  Quiet(r, [r EXCEPT !.turn = turn])
  BY DEF Consistent, Quiet, Fields

\* The events of a frame change what is pending, and the runner by a reset.
LEMMA AbsorbQuiet ==
  ASSUME NEW r, NEW evs, NEW cursor, Consistent(r)
  PROVE  Quiet(r, Absorb(r, evs, cursor))
<1>1. PICK s : s = IF \E i \in {i \in DOMAIN evs : evs[i].type = "SegmentClosed"} :
                          evs[i].reason = "EndSilenceReached"
                   THEN ResetStreamingSessions(r) ELSE r
  OBVIOUS
<1>2. Quiet(r, s)
  <2>1. Quiet(r, ResetStreamingSessions(r))
    BY DEF Consistent, Quiet, Fields, ResetStreamingSessions
  <2> QED BY <1>1, <2>1, QuietSelf
<1>3. PICK epoch, segments, check :
        Absorb(r, evs, cursor) = [s EXCEPT !.epoch = epoch, !.segments = segments,
                                           !.turnCheck = check]
  BY <1>1 DEF Absorb
<1> QED BY <1>2, <1>3 DEF Quiet, Fields

LEMMA PromoteQuiet ==
  ASSUME NEW r, NEW k, Consistent(r)
  PROVE  Quiet(r, Promote(r, k))
<1>1. PICK s : /\ \E q : s = [r EXCEPT !.segments = q]
               /\ Promote(r, k) = Dispatch(s)
  BY DEF Promote
<1>2. Quiet(r, s) /\ Consistent(s)
  BY <1>1, SegmentsQuiet, QuietKeeps
<1> QED BY <1>1, <1>2, DispatchQuiet, QuietTwice

-----------------------------------------------------------------------------
(* Steps that emit: a partial of turn t, or the finals of some turns. *)

Message(seq, t, final) == [seq |-> seq, turn |-> t, final |-> final]

Sends(r) == {Message(o.seq, o.turn, o.final) : o \in r.out}

Silent(r, s) ==
  s.finalized = r.finalized /\ s.nextSeq = r.nextSeq /\ Sends(s) = Sends(r)

SendsPartial(r, s, t) ==
  /\ t \in DOMAIN r.turns
  /\ s.finalized = r.finalized
  /\ s.nextSeq = r.nextSeq + 1
  /\ Sends(s) = Sends(r) \union {Message(r.nextSeq, t, FALSE)}

SendsFinals(r, s, due) ==
  /\ due # {} /\ due \subseteq DOMAIN r.turns
  /\ s.finalized = r.finalized \union due
  /\ s.nextSeq = r.nextSeq + Cardinality(due)
  /\ Sends(s) = Sends(r) \union
       {Message(r.nextSeq + Cardinality({v \in due : v < u}), u, TRUE) : u \in due}

\* Finals include turn t when it has a draft.
Moves(r, s, t) ==
  /\ Consistent(s)
  /\ s.nextTurn = r.nextTurn
  /\ \/ Silent(r, s)
     \/ SendsPartial(r, s, t)
     \/ \E due : (t \in DOMAIN r.turns => t \in due) /\ SendsFinals(r, s, due)

LEMMA QuietMoves ==
  ASSUME NEW r, NEW s, NEW t, Consistent(r), Quiet(r, s)
  PROVE  Moves(r, s, t)
  BY QuietKeeps DEF Quiet, Moves, Silent, Sends

\* Quiet steps before and after an emission are part of it.
LEMMA QuietThenMoves ==
  ASSUME NEW r, NEW s, NEW z, NEW t, Quiet(r, s), Moves(s, z, t)
  PROVE  Moves(r, z, t)
<1>1. /\ Sends(s) = Sends(r) /\ DOMAIN s.turns = DOMAIN r.turns
      /\ s.nextSeq = r.nextSeq /\ s.finalized = r.finalized /\ s.nextTurn = r.nextTurn
  BY DEF Quiet, Sends
<1>2. Silent(s, z) => Silent(r, z)
  BY <1>1 DEF Silent
<1>3. SendsPartial(s, z, t) => SendsPartial(r, z, t)
  BY <1>1 DEF SendsPartial
<1>4. \A due : SendsFinals(s, z, due) => SendsFinals(r, z, due)
  BY <1>1 DEF SendsFinals
<1> QED BY <1>1, <1>2, <1>3, <1>4 DEF Moves

LEMMA MovesThenQuiet ==
  ASSUME NEW r, NEW s, NEW z, NEW t, Moves(r, s, t), Quiet(s, z)
  PROVE  Moves(r, z, t)
<1>1. Sends(z) = Sends(s) /\ Consistent(z)
  BY QuietKeeps DEF Quiet, Sends, Moves
<1> QED BY <1>1 DEF Quiet, Moves, Silent, SendsPartial, SendsFinals

\* An interim emits one partial of its turn, or nothing when its text is known.
LEMMA EmitInterimMoves ==
  ASSUME NEW r, NEW t, Consistent(r)
  PROVE  /\ Moves(r, EmitInterim(r, t), t)
         /\ DOMAIN EmitInterim(r, t).turns = DOMAIN r.turns
<1>1. CASE t \notin DOMAIN r.turns \/ r.turns[t].emitted = "current"
  BY <1>1, QuietSelf, QuietMoves DEF EmitInterim
<1>2. CASE ~(t \notin DOMAIN r.turns \/ r.turns[t].emitted = "current")
  <2>1. PICK o : o = Output(r.nextSeq, t, FALSE, r.turns[t])
    OBVIOUS
  <2>2. PICK s : s = [r EXCEPT !.out = @ \union {o}, !.nextSeq = @ + 1,
                               !.turns[t].emitted = "current"]
    OBVIOUS
  <2>3. EmitInterim(r, t) = s
    BY <1>2, <2>1, <2>2 DEF EmitInterim
  <2>4. /\ DOMAIN s = Fields
        /\ s.out = r.out \union {o} /\ s.nextSeq = r.nextSeq + 1
        /\ DOMAIN s.turns = DOMAIN r.turns
        /\ s.finalized = r.finalized /\ s.nextTurn = r.nextTurn /\ s.newTurns = r.newTurns
        /\ s.openTurn = r.openTurn /\ s.inFlight = r.inFlight /\ s.runner = r.runner
        /\ s.finalization = r.finalization
    BY <2>2 DEF Consistent, Fields
  <2>5. Consistent(s)
    BY <2>4 DEF Consistent, Known, KnownTarget
  <2>6. Message(o.seq, o.turn, o.final) = Message(r.nextSeq, t, FALSE)
    BY <2>1 DEF Output
  <2>7. Sends(s) = Sends(r) \union {Message(r.nextSeq, t, FALSE)}
    BY <2>4, <2>6 DEF Sends
  <2>8. Moves(r, s, t)
    BY <1>2, <2>4, <2>5, <2>7 DEF Moves, SendsPartial
  <2> QED BY <2>3, <2>4, <2>8
<1> QED BY <1>1, <1>2

\* Turns are numbers, and there are finitely many.
LEMMA TurnsAreNumbers ==
  ASSUME NEW r, Consistent(r), NEW due \in SUBSET Known(r)
  PROVE  due \subseteq Nat \ {0} /\ IsFiniteSet(due) /\ Cardinality(due) \in Nat
<1>1. due \subseteq 1..(r.nextTurn - 1)
  BY DEF Consistent
<1>2. PICK n \in Int : n = r.nextTurn - 1
  BY DEF Consistent
<1>3. due \subseteq 1..n
  BY <1>1, <1>2
<1>4. IsFiniteSet(due)
  <2>1. IsFiniteSet(1..n)
    BY FS_Interval
  <2> QED BY <1>3, <2>1, FS_Subset
<1>5. Cardinality(due) \in Nat
  BY <1>4, FS_CardinalityType
<1> QED BY <1>3, <1>4, <1>5

\* Finalizing up to t emits the finals of the drafts up to t, and closes them.
LEMMA FinalizeMoves ==
  ASSUME NEW r, NEW t \in Nat, Consistent(r)
  PROVE  Moves(r, FinalizeTurnNow(r, t), t)
<1>1. PICK due : due = {u \in DOMAIN r.turns : u <= t}
  OBVIOUS
<1>2. PICK outputs : outputs =
        {Output(r.nextSeq + Cardinality({v \in due : v < u}), u, TRUE, r.turns[u]) : u \in due}
  OBVIOUS
<1>3. PICK confirmed : confirmed = Max({r.confirmed} \union {r.turns[u].to : u \in due})
  OBVIOUS
<1>4. PICK s : s = [r EXCEPT !.out = @ \union outputs, !.nextSeq = @ + Cardinality(due),
                             !.finalized = @ \union due, !.confirmed = confirmed,
                             !.turns = Without(@, due), !.openTurn = NoTurn,
                             !.acceptsRoot = FALSE, !.openSince = NoTick]
  OBVIOUS
<1>5. FinalizeTurnNow(r, t) = s
  BY <1>1, <1>2, <1>3, <1>4 DEF FinalizeTurnNow, FinalizeUpTo, ClearOpenTurn
<1>6. /\ DOMAIN s = Fields
      /\ s.out = r.out \union outputs /\ s.nextSeq = r.nextSeq + Cardinality(due)
      /\ s.finalized = r.finalized \union due /\ s.turns = Without(r.turns, due)
      /\ s.nextTurn = r.nextTurn /\ s.newTurns = r.newTurns
      /\ s.openTurn = NoTurn /\ s.inFlight = r.inFlight /\ s.runner = r.runner
      /\ s.finalization = r.finalization
  BY <1>4 DEF Consistent, Fields
<1>7. DOMAIN s.turns = DOMAIN r.turns \ due /\ Known(s) = Known(r)
  BY <1>1, <1>6 DEF Without, Known
<1>8. due \subseteq Nat \ {0} /\ Cardinality(due) \in Nat /\ DOMAIN r.turns \subseteq Nat \ {0}
  BY <1>1, TurnsAreNumbers DEF Known
<1>9. Consistent(s)
  <2>1. \A x \in DOMAIN s.turns, u \in s.finalized : u < x
    BY <1>1, <1>6, <1>7, <1>8 DEF Consistent
  <2>2. s.nextSeq \in Nat \ {0}
    BY <1>6, <1>8 DEF Consistent
  <2> QED BY <1>6, <1>7, <2>1, <2>2 DEF Consistent, KnownTarget
<1>10. Sends(s) = Sends(r) \union
         {Message(r.nextSeq + Cardinality({v \in due : v < u}), u, TRUE) : u \in due}
  <2>1. \A u, n : LET o == Output(n, u, TRUE, r.turns[u])
                  IN  Message(o.seq, o.turn, o.final) = Message(n, u, TRUE)
    BY DEF Output
  <2>2. {Message(o.seq, o.turn, o.final) : o \in outputs} =
          {Message(r.nextSeq + Cardinality({v \in due : v < u}), u, TRUE) : u \in due}
    BY <1>2, <2>1
  <2> QED BY <1>6, <2>2 DEF Sends
<1>11. CASE due = {}
  <2>1. Silent(r, s)
    BY <1>6, <1>10, <1>11, FS_EmptySet DEF Silent, Consistent
  <2> QED BY <1>5, <1>6, <1>9, <2>1 DEF Moves
<1>12. CASE due # {}
  <2>1. SendsFinals(r, s, due)
    BY <1>1, <1>6, <1>10, <1>12 DEF SendsFinals
  <2>2. t \in DOMAIN r.turns => t \in due
    BY <1>1
  <2> QED BY <1>5, <1>6, <1>9, <2>1, <2>2 DEF Moves
<1> QED BY <1>11, <1>12

\* A completion is deferred, or finalizes its turn.
LEMMA CompleteMoves ==
  ASSUME NEW r, NEW t \in Nat, Consistent(r)
  PROVE  Moves(r, CompleteTurn(r, t), t)
<1>1. PICK later \in Nat : later = IF r.finalization # NoTurn /\ r.finalization >= t
                                   THEN r.finalization ELSE t
  BY DEF Consistent
<1>2. Moves(r, [r EXCEPT !.finalization = later], t)
  BY DeferredQuiet, QuietMoves
<1> QED BY <1>1, <1>2, FinalizeMoves DEF CompleteTurn

\* A turn that is kept open emits at most its interim text.
LEMMA KeepOpenMoves ==
  ASSUME NEW r, NEW t, NEW tick, NEW interim, Consistent(r), t \in DOMAIN r.turns
  PROVE  Moves(r, KeepTurnOpen(r, t, tick, interim), t)
<1>1. PICK s : s = [r EXCEPT !.openTurn = t, !.acceptsRoot = TRUE]
  OBVIOUS
<1>2. PICK open : open = ResetTimeoutOrigin(s, tick)
  OBVIOUS
<1>3. Quiet(r, open) /\ Consistent(open)
  <2>1. Quiet(r, s)
    BY <1>1, OpenQuiet
  <2>2. Consistent(s)
    BY <2>1, QuietKeeps
  <2>3. Quiet(s, open)
    BY <1>2, <2>2, OriginQuiet
  <2> QED BY <2>1, <2>2, <2>3, QuietKeeps, QuietTwice
<1>4. Moves(open, EmitInterim(open, t), t) /\ Moves(open, open, t)
  BY <1>3, EmitInterimMoves, QuietSelf, QuietMoves
<1>5. KeepTurnOpen(r, t, tick, interim) = IF interim THEN EmitInterim(open, t) ELSE open
  BY <1>1, <1>2 DEF KeepTurnOpen
<1> QED BY <1>3, <1>4, <1>5, QuietThenMoves

-----------------------------------------------------------------------------
(* Steps that give turn t its text, and what becomes of them. *)

Heard(r, s, t) ==
  /\ Consistent(s)
  /\ Silent(r, s)
  /\ DOMAIN s.turns = DOMAIN r.turns \union {t}
  /\ \/ t \in DOMAIN r.turns /\ s.nextTurn = r.nextTurn
     \/ t = r.nextTurn /\ s.nextTurn = r.nextTurn + 1

FollowsPartial(r, s, t) ==
  /\ t \in 1..r.nextTurn /\ t \notin r.finalized
  /\ s.nextTurn = IF t = r.nextTurn THEN r.nextTurn + 1 ELSE r.nextTurn
  /\ s.finalized = r.finalized
  /\ s.nextSeq = r.nextSeq + 1
  /\ Sends(s) = Sends(r) \union {Message(r.nextSeq, t, FALSE)}

FollowsFinals(r, s, due) ==
  /\ due # {} /\ due \subseteq 1..r.nextTurn
  /\ \A t \in due, u \in r.finalized : u < t
  /\ s.nextTurn = IF r.nextTurn \in due THEN r.nextTurn + 1 ELSE r.nextTurn
  /\ s.finalized = r.finalized \union due
  /\ s.nextSeq = r.nextSeq + Cardinality(due)
  /\ Sends(s) = Sends(r) \union
       {Message(r.nextSeq + Cardinality({v \in due : v < u}), u, TRUE) : u \in due}

\* One step of TurnOutput, or none.
Follows(r, s) ==
  /\ Consistent(s)
  /\ \/ Silent(r, s) /\ s.nextTurn \in {r.nextTurn, r.nextTurn + 1}
     \/ \E t : FollowsPartial(r, s, t)
     \/ \E due : FollowsFinals(r, s, due)

\* What moves is a step of TurnOutput about turns that have begun.
LEMMA MovesFollow ==
  ASSUME NEW r, NEW s, NEW t, Consistent(r), Moves(r, s, t)
  PROVE  Follows(r, s)
<1>1. CASE Silent(r, s)
  BY <1>1 DEF Moves, Follows
<1>2. CASE SendsPartial(r, s, t)
  <2>1. t \in 1..r.nextTurn /\ t # r.nextTurn /\ t \notin r.finalized
    BY <1>2 DEF SendsPartial, Consistent, Known
  <2>2. FollowsPartial(r, s, t)
    BY <1>2, <2>1 DEF Moves, FollowsPartial, SendsPartial
  <2> QED BY <2>2 DEF Moves, Follows
<1>3. ASSUME NEW due, SendsFinals(r, s, due)
      PROVE  Follows(r, s)
  <2>1. due \subseteq 1..r.nextTurn /\ r.nextTurn \notin due
    BY <1>3 DEF SendsFinals, Consistent, Known
  <2>2. \A x \in due, u \in r.finalized : u < x
    BY <1>3 DEF SendsFinals, Consistent
  <2>3. FollowsFinals(r, s, due)
    BY <1>3, <2>1, <2>2 DEF Moves, FollowsFinals, SendsFinals
  <2> QED BY <2>3 DEF Moves, Follows
<1> QED BY <1>1, <1>2, <1>3 DEF Moves

\* A turn that begins with its first text and emits at once is one step.
LEMMA HeardFollow ==
  ASSUME NEW r, NEW s, NEW z, NEW t, Consistent(r), Heard(r, s, t), Moves(s, z, t)
  PROVE  Follows(r, z)
<1>1. /\ Sends(s) = Sends(r) /\ s.nextSeq = r.nextSeq /\ s.finalized = r.finalized
      /\ Consistent(s) /\ Consistent(z) /\ z.nextTurn = s.nextTurn /\ t \in DOMAIN s.turns
  BY DEF Heard, Silent, Moves
<1>2. /\ r.nextTurn \in Nat \ {0}
      /\ DOMAIN r.turns \subseteq 1..(r.nextTurn - 1)
      /\ DOMAIN s.turns \subseteq 1..r.nextTurn
      /\ z.nextTurn = IF t = r.nextTurn THEN r.nextTurn + 1 ELSE r.nextTurn
      /\ r.nextTurn \in DOMAIN s.turns => t = r.nextTurn
  BY <1>1 DEF Heard, Consistent, Known
<1>3. CASE Silent(s, z)
  BY <1>1, <1>2, <1>3 DEF Follows, Silent
<1>4. CASE SendsPartial(s, z, t)
  <2>1. t \in 1..r.nextTurn /\ t \notin r.finalized
    BY <1>1, <1>2 DEF Consistent
  <2>2. FollowsPartial(r, z, t)
    BY <1>1, <1>2, <1>4, <2>1 DEF FollowsPartial, SendsPartial
  <2> QED BY <1>1, <2>2 DEF Follows
<1>5. ASSUME NEW due, t \in due, SendsFinals(s, z, due)
      PROVE  Follows(r, z)
  <2>1. due \subseteq 1..r.nextTurn /\ (r.nextTurn \in due <=> t = r.nextTurn)
    BY <1>2, <1>5 DEF SendsFinals
  <2>2. \A x \in due, u \in r.finalized : u < x
    BY <1>1, <1>5 DEF SendsFinals, Consistent
  <2>3. z.nextTurn = IF r.nextTurn \in due THEN r.nextTurn + 1 ELSE r.nextTurn
    BY <1>2, <2>1
  <2>4. /\ due # {}
        /\ z.finalized = r.finalized \union due
        /\ z.nextSeq = r.nextSeq + Cardinality(due)
        /\ Sends(z) = Sends(r) \union
             {Message(r.nextSeq + Cardinality({v \in due : v < u}), u, TRUE) : u \in due}
    BY <1>1, <1>5 DEF SendsFinals
  <2>5. FollowsFinals(r, z, due)
    BY <2>1, <2>2, <2>3, <2>4 DEF FollowsFinals
  <2> QED BY <1>1, <2>5 DEF Follows
<1> QED BY <1>1, <1>3, <1>4, <1>5 DEF Moves

LEMMA LeastIsMin ==
  ASSUME NEW S, NEW n \in S, n \in Int, \A x \in S : x \in Int /\ n <= x
  PROVE  Min(S) = n
<1>1. \A x \in S : (\A y \in S : x =< y) => x = n
  OBVIOUS
<1> QED BY <1>1 DEF Min

LEMMA GreaterIsMax ==
  ASSUME NEW a \in Int, NEW b \in Int
  PROVE  Max({a, b}) = IF a >= b THEN a ELSE b
  BY DEF Max

\* A new turn gets the next id: no id that is in use is as large.
LEMMA FreshTurnIsNext ==
  ASSUME NEW r, Consistent(r)
  PROVE  FreshTurn(r) = r.nextTurn
<1>1. PICK n \in Nat : n = Cardinality(Known(r))
  BY TurnsAreNumbers
<1>2. PICK S : S = {t \in r.nextTurn..(r.nextTurn + n) : t \notin Known(r)}
  OBVIOUS
<1>3. r.nextTurn \in S /\ \A x \in S : x \in Int /\ r.nextTurn <= x
  BY <1>1, <1>2 DEF Consistent
<1>4. FreshTurn(r) = Min(S)
  BY <1>1, <1>2 DEF FreshTurn, Known
<1> QED BY <1>3, <1>4, LeastIsMin DEF Consistent

\* A result that is not stale goes to a draft, or begins the next turn.
LEMMA TurnOfRequest ==
  ASSUME NEW r, NEW q, Consistent(r), KnownTarget(r, q), q.kind # "None", ~IsStale(r, q)
  PROVE  \/ TurnOf(r, q) \in DOMAIN r.turns /\ ~UnresolvedNew(r, q)
         \/ TurnOf(r, q) = r.nextTurn /\ UnresolvedNew(r, q)
<1>1. CASE UnresolvedNew(r, q)
  BY <1>1, FreshTurnIsNext DEF TurnOf, UnresolvedNew
<1>2. CASE ~UnresolvedNew(r, q)
  <2>1. TurnOf(r, q) \in Known(r) /\ EffectiveTurn(r, q) = TurnOf(r, q)
    BY <1>2 DEF UnresolvedNew, Resolved, TurnOf, EffectiveTurn, KnownTarget, Consistent
  <2> QED BY <1>2, <2>1 DEF IsStale, Known
<1> QED BY <1>1, <1>2

\* The text of a segment changes its turn only.
LEMMA ApplyTranscriptHeard ==
  ASSUME NEW r, NEW q, Consistent(r), KnownTarget(r, q), q.kind # "None", ~IsStale(r, q)
  PROVE  Heard(r, ApplyTranscript(r, q), TurnOf(r, q))
<1>1. PICK t : t = TurnOf(r, q)
  OBVIOUS
<1>2. \/ t \in DOMAIN r.turns /\ ~UnresolvedNew(r, q)
      \/ t = r.nextTurn /\ UnresolvedNew(r, q)
  BY <1>1, TurnOfRequest
<1>3. PICK next : next = IF UnresolvedNew(r, q) \/ q.target # New
                         THEN Max({r.nextTurn, t + 1}) ELSE r.nextTurn
  OBVIOUS
<1>4. \/ t \in DOMAIN r.turns /\ next = r.nextTurn
      \/ t = r.nextTurn /\ next = r.nextTurn + 1
  <2>1. t \in Int /\ r.nextTurn \in Int /\ (t \in DOMAIN r.turns => t + 1 <= r.nextTurn)
    BY <1>2 DEF Consistent, Known
  <2> QED BY <1>2, <1>3, <2>1, GreaterIsMax
<1>5. PICK given : given = IF UnresolvedNew(r, q) THEN Put(r.newTurns, q.first, t) ELSE r.newTurns
  OBVIOUS
<1>6. PICK draft : draft = Draft(r, t, q)
  OBVIOUS
<1>7. PICK heard : heard = [draft EXCEPT !.audio = @ \o q.segments, !.latest = q.last,
                              !.emitted = IF @ = "never" THEN @ ELSE "stale",
                              !.from = Min({@, q.from}), !.to = Max({@, q.to})]
  OBVIOUS
<1>8. PICK s : s = [r EXCEPT !.turns = Put(@, t, heard), !.nextTurn = next,
                             !.newTurns = given]
  OBVIOUS
<1>9. ApplyTranscript(r, q) = s
  <2>1. Draft(r, TurnOf(r, q), q) = draft
    BY <1>1, <1>6
  <2> QED BY <1>1, <1>3, <1>5, <1>7, <1>8, <2>1 DEF ApplyTranscript
<1>10. /\ DOMAIN s = Fields
       /\ s.out = r.out /\ s.nextSeq = r.nextSeq /\ s.finalized = r.finalized
       /\ s.openTurn = r.openTurn /\ s.inFlight = r.inFlight /\ s.runner = r.runner
       /\ s.finalization = r.finalization
       /\ s.nextTurn = next /\ s.newTurns = given /\ s.turns = Put(r.turns, t, heard)
  BY <1>8 DEF Consistent, Fields
<1>11. DOMAIN s.turns = DOMAIN r.turns \union {t} /\ Known(s) = Known(r) \union {t}
  BY <1>10 DEF Put, Known
<1>12. \A x \in DOMAIN s.newTurns : s.newTurns[x] \in Known(s)
  BY <1>5, <1>10, <1>11 DEF Put, Consistent
<1>13. Known(s) \subseteq 1..(s.nextTurn - 1) /\ s.nextTurn \in Nat \ {0}
  <2>1. PICK n \in Nat \ {0} : n = r.nextTurn /\ Known(r) \subseteq 1..(n - 1)
    BY DEF Consistent
  <2>2. CASE t \in DOMAIN r.turns /\ next = n
    BY <1>10, <1>11, <2>1, <2>2 DEF Known
  <2>3. CASE t = n /\ next = n + 1
    <3>1. Known(s) \subseteq 1..n
      BY <1>11, <2>1, <2>3
    <3> QED BY <1>10, <2>3, <3>1
  <2> QED BY <1>4, <2>1, <2>2, <2>3
<1>14. \A x \in DOMAIN s.turns, u \in s.finalized : u < x
  BY <1>4, <1>10, <1>11 DEF Consistent, Known
<1>15. Consistent(s)
  BY <1>10, <1>11, <1>12, <1>13, <1>14 DEF Consistent, KnownTarget
<1>16. Silent(r, s)
  BY <1>10 DEF Silent, Sends
<1> QED BY <1>1, <1>4, <1>9, <1>10, <1>11, <1>15, <1>16 DEF Heard

-----------------------------------------------------------------------------
(* The arms of step. *)

\* A quiet step is a stuttering step of TurnOutput.
LEMMA QuietFollows ==
  ASSUME NEW r, NEW s, Consistent(r), Quiet(r, s)
  PROVE  Follows(r, s)
<1>1. Moves(r, s, 1)
  BY QuietMoves
<1> QED BY <1>1, MovesFollow

LEMMA QuietThenFollows ==
  ASSUME NEW r, NEW s, NEW z, Quiet(r, s), Follows(s, z)
  PROVE  Follows(r, z)
<1>1. /\ Sends(s) = Sends(r) /\ s.nextSeq = r.nextSeq
      /\ s.finalized = r.finalized /\ s.nextTurn = r.nextTurn
  BY DEF Quiet, Sends
<1>2. Silent(s, z) => Silent(r, z)
  BY <1>1 DEF Silent
<1>3. \A t : FollowsPartial(s, z, t) => FollowsPartial(r, z, t)
  BY <1>1 DEF FollowsPartial
<1>4. \A due : FollowsFinals(s, z, due) => FollowsFinals(r, z, due)
  BY <1>1 DEF FollowsFinals
<1> QED BY <1>1, <1>2, <1>3, <1>4 DEF Follows

LEMMA ApplyInterimFollows ==
  ASSUME NEW r, NEW q, Consistent(r), KnownTarget(r, q), q.kind # "None", ~IsStale(r, q)
  PROVE  Follows(r, ApplyInterim(r, q))
<1>1. PICK t : t = TurnOf(r, q)
  OBVIOUS
<1>2. PICK s : s = ApplyTranscript(r, q)
  OBVIOUS
<1>3. PICK z : z = EmitInterim(s, t)
  OBVIOUS
<1>4. Heard(r, s, t) /\ Consistent(s) /\ t \in DOMAIN s.turns
  BY <1>1, <1>2, ApplyTranscriptHeard DEF Heard
<1>5. Moves(s, z, t) /\ Consistent(z) /\ DOMAIN z.turns = DOMAIN s.turns
  BY <1>3, <1>4, EmitInterimMoves DEF Moves
<1>6. PICK root : root = (z.acceptsRoot /\ r.openTurn = t)
  OBVIOUS
<1>7. PICK open : open = [z EXCEPT !.openTurn = t, !.acceptsRoot = root]
  OBVIOUS
<1>8. Quiet(z, open)
  BY <1>4, <1>5, <1>7, OpenQuiet
<1>9. Moves(s, open, t)
  BY <1>5, <1>8, MovesThenQuiet
<1>10. ApplyInterim(r, q) \in {z, open}
  <2>1. ApplyInterim(r, q) =
          IF r.openTurn > t THEN z
          ELSE [z EXCEPT !.openTurn = t, !.acceptsRoot = @ /\ r.openTurn = t]
    BY <1>1, <1>2, <1>3 DEF ApplyInterim
  <2>2. "acceptsRoot" \in DOMAIN z
    BY <1>5 DEF Consistent, Fields
  <2> QED BY <1>6, <1>7, <2>1, <2>2
<1> QED BY <1>4, <1>5, <1>9, <1>10, HeardFollow

LEMMA ApplyCompletionFollows ==
  ASSUME NEW r, NEW q, Consistent(r), KnownTarget(r, q), q.kind # "None", ~IsStale(r, q)
  PROVE  Follows(r, ApplyCompletion(r, q))
<1>1. PICK t : t = TurnOf(r, q)
  OBVIOUS
<1>2. PICK s : s = ApplyTranscript(r, q)
  OBVIOUS
<1>3. Heard(r, s, t) /\ Consistent(s) /\ t \in DOMAIN s.turns
  BY <1>1, <1>2, ApplyTranscriptHeard DEF Heard
<1>4. t \in Nat
  BY <1>3, TurnsAreNumbers DEF Known
<1>5. PICK purpose : purpose = CompletionPurpose(r)
  OBVIOUS
<1>6. Moves(s, Rerecognize(s, t, purpose), t)
  BY <1>3, RerecognizeQuiet, QuietMoves
<1>7. Moves(s, CompleteTurn(s, t), t)
  BY <1>3, <1>4, CompleteMoves
<1>8. ApplyCompletion(r, q) \in {Rerecognize(s, t, purpose), CompleteTurn(s, t)}
  BY <1>1, <1>2, <1>5 DEF ApplyCompletion
<1> QED BY <1>3, <1>6, <1>7, <1>8, HeardFollow

\* What the grammar, Namo or a timeout decides after a rerecognition.
LEMMA FollowUpFollows ==
  ASSUME NEW r, NEW t \in Nat, NEW purpose, NEW decision, NEW tick, NEW interim, Consistent(r)
  PROVE  Follows(r, FollowUp(r, t, purpose, decision, tick, interim))
<1>1. Moves(r, CompleteTurn(r, t), t) /\ Moves(r, FinalizeTurnNow(r, t), t) /\ Moves(r, r, t)
  BY CompleteMoves, FinalizeMoves, QuietSelf, QuietMoves
<1>2. t \in DOMAIN r.turns => Moves(r, KeepTurnOpen(r, t, tick, interim), t)
  BY KeepOpenMoves
<1>3. \/ FollowUp(r, t, purpose, decision, tick, interim)
           \in {CompleteTurn(r, t), FinalizeTurnNow(r, t), r}
      \/ /\ t \in DOMAIN r.turns
         /\ FollowUp(r, t, purpose, decision, tick, interim) = KeepTurnOpen(r, t, tick, interim)
  BY DEF FollowUp
<1> QED BY <1>1, <1>2, <1>3, MovesFollow

LEMMA FallbackFollows ==
  ASSUME NEW r, NEW t, NEW decision, NEW tick, NEW interim, Consistent(r), t \in DOMAIN r.turns
  PROVE  Follows(r, FallbackCompletion(r, t, decision, tick, interim))
<1>1. t \in Nat
  BY TurnsAreNumbers DEF Known
<1>2. Moves(r, CompleteTurn(r, t), t) /\ Moves(r, KeepTurnOpen(r, t, tick, interim), t)
  BY <1>1, CompleteMoves, KeepOpenMoves
<1> QED BY <1>2, MovesFollow DEF FallbackCompletion

\* A result without text.
LEMMA UnusableFollows ==
  ASSUME NEW r, NEW q, NEW decision, NEW tick, NEW interim,
         Consistent(r), KnownTarget(r, q), q.kind # "None"
  PROVE  Follows(r, Unusable(r, q, decision, tick, interim))
<1>1. PICK t : t = EffectiveTurn(r, q)
  OBVIOUS
<1>2. PICK s : s = [r EXCEPT !.unheard = @ \union {q.segments[i] : i \in DOMAIN q.segments}]
  OBVIOUS
<1>3. Quiet(r, s) /\ Consistent(s) /\ Follows(r, s)
  BY <1>2, UnheardQuiet, QuietKeeps, QuietFollows
<1>4. q.kind = "Rerecognition" =>
        Follows(r, FollowUp(r, t, q.purpose, decision, tick, interim))
  <2>1. ASSUME q.kind = "Rerecognition" PROVE t \in Known(r)
    <3>1. q.target # New
      BY <2>1 DEF KnownTarget, Consistent, New
    <3> QED BY <1>1, <2>1, <3>1 DEF KnownTarget, EffectiveTurn, Resolved
  <2>2. Known(r) \subseteq Nat
    BY TurnsAreNumbers
  <2> QED BY <2>1, <2>2, FollowUpFollows
<1>5. t \in DOMAIN r.turns => Follows(r, FallbackCompletion(s, t, decision, tick, interim))
  <2>1. DOMAIN s.turns = DOMAIN r.turns
    BY <1>3 DEF Quiet
  <2> QED BY <1>3, <2>1, FallbackFollows, QuietThenFollows
<1>6. \/ /\ q.kind = "Rerecognition"
         /\ Unusable(r, q, decision, tick, interim) =
              FollowUp(r, t, q.purpose, decision, tick, interim)
      \/ /\ t \in DOMAIN r.turns
         /\ Unusable(r, q, decision, tick, interim) =
              FallbackCompletion(s, t, decision, tick, interim)
      \/ Unusable(r, q, decision, tick, interim) = s
  BY <1>1, <1>2 DEF Unusable
<1> QED BY <1>3, <1>4, <1>5, <1>6

\* A result, stale or not, with text or without.
LEMMA ApplyResultFollows ==
  ASSUME NEW r, NEW decision, NEW emitted, NEW tick, NEW interim,
         Consistent(r), ResultReady(r)
  PROVE  Follows(r, ApplyResult(r, decision, emitted, tick, interim))
<1>1. PICK q : q = r.inFlight
  OBVIOUS
<1>2. PICK s : s = [r EXCEPT !.inFlight = NoRequest, !.runner = "idle"]
  OBVIOUS
<1>3. Quiet(r, s) /\ Consistent(s) /\ Follows(r, s)
  BY <1>2, AnsweredQuiet, QuietKeeps, QuietFollows
<1>4. KnownTarget(s, q) /\ q.kind # "None"
  BY <1>1, <1>3 DEF Consistent, KnownTarget, Known, Quiet, ResultReady
<1>5. Follows(s, Unusable(s, q, decision, tick, interim))
  BY <1>3, <1>4, UnusableFollows
<1>6. ~IsStale(s, q) =>
        Follows(s, ApplyInterim(s, q)) /\ Follows(s, ApplyCompletion(s, q))
  BY <1>3, <1>4, ApplyInterimFollows, ApplyCompletionFollows
<1>7. PICK z : z = ReplaceText(s, q.turn, emitted)
  OBVIOUS
<1>8. Quiet(s, z) /\ Consistent(z)
  BY <1>3, <1>7, ReplaceTextQuiet, QuietKeeps
<1>9. q.kind \notin {"InterimDisplay", "CompletionCheck"} =>
        Follows(s, FollowUp(z, q.turn, q.purpose, decision, tick, interim))
  <2>1. q.kind \notin {"InterimDisplay", "CompletionCheck"} => q.turn \in Nat
    <3>1. Known(s) \subseteq Nat
      BY <1>3, TurnsAreNumbers
    <3> QED BY <1>4, <3>1 DEF KnownTarget
  <2> QED BY <1>8, <2>1, FollowUpFollows, QuietThenFollows
<1>10. \/ ApplyResult(r, decision, emitted, tick, interim)
            \in {s, Unusable(s, q, decision, tick, interim)}
       \/ /\ ~IsStale(s, q)
          /\ ApplyResult(r, decision, emitted, tick, interim)
               \in {ApplyInterim(s, q), ApplyCompletion(s, q)}
       \/ /\ q.kind \notin {"InterimDisplay", "CompletionCheck"}
          /\ ApplyResult(r, decision, emitted, tick, interim) =
               FollowUp(z, q.turn, q.purpose, decision, tick, interim)
  <2> PICK u : u = Unusable(s, q, decision, tick, interim)
    OBVIOUS
  <2> PICK f : f = FollowUp(z, q.turn, q.purpose, decision, tick, interim)
    OBVIOUS
  <2> QED BY <1>1, <1>2, <1>4, <1>7 DEF ApplyResult
<1> QED BY <1>3, <1>5, <1>6, <1>9, <1>10, QuietThenFollows

LEMMA FinalizePendingFollows ==
  ASSUME NEW r, Consistent(r)
  PROVE  Follows(r, FinalizeTurnNow([r EXCEPT !.finalization = NoTurn], r.finalization))
<1>1. PICK s : s = [r EXCEPT !.finalization = NoTurn]
  OBVIOUS
<1>2. PICK t \in Nat : t = r.finalization
  BY DEF Consistent
<1>3. Quiet(r, s) /\ Consistent(s)
  BY <1>1, DeferredQuiet, QuietKeeps DEF NoTurn
<1>4. Moves(s, FinalizeTurnNow(s, t), t)
  BY <1>3, FinalizeMoves
<1> QED BY <1>1, <1>2, <1>3, <1>4, MovesFollow, QuietThenFollows

LEMMA OpenTurnIsNumber ==
  ASSUME NEW r, Consistent(r)
  PROVE  r.openTurn \in Nat
<1>1. r.openTurn # NoTurn => r.openTurn \in Known(r)
  BY DEF Consistent, Known
<1>2. Known(r) \subseteq Nat
  BY TurnsAreNumbers
<1> QED BY <1>1, <1>2 DEF NoTurn

\* One completion or rerecognition of an open turn, then the check is handled.
LEMMA CheckOpenTurnFollows ==
  ASSUME NEW r, NEW t, Consistent(r), t \in DOMAIN r.turns
  PROVE  Follows(r, CheckOpenTurn(r, t))
<1>1. PICK purpose : purpose = CompletionPurpose(r)
  OBVIOUS
<1>2. t \in Nat
  BY TurnsAreNumbers DEF Known
<1>3. Moves(r, CompleteTurn(r, t), t) /\ Moves(r, Rerecognize(r, t, purpose), t)
  BY <1>2, CompleteMoves, RerecognizeQuiet, QuietMoves
<1>4. ASSUME NEW s, Moves(r, s, t)
      PROVE  Moves(r, Checked(s), t)
  BY <1>4, CheckedQuiet, MovesThenQuiet DEF Moves
<1>5. CheckOpenTurn(r, t) \in
        {Checked(CompleteTurn(r, t)), Checked(Rerecognize(r, t, purpose)), r}
  BY <1>1 DEF CheckOpenTurn
<1>6. Moves(r, r, t)
  BY QuietSelf, QuietMoves
<1> QED BY <1>3, <1>4, <1>5, <1>6, MovesFollow

\* A turn check promotes an interim, completes the open turn, or does nothing.
LEMMA HandleTurnCheckFollows ==
  ASSUME NEW r, Consistent(r)
  PROVE  Follows(r, HandleTurnCheck(r))
<1>1. PICK t : t = r.openTurn
  OBVIOUS
<1>2. PICK k : k = PromotableInterim(r, r.turnCheck.previous)
  OBVIOUS
<1>3. PICK s : s = Promote(r, k)
  OBVIOUS
<1>4. Quiet(r, s) /\ Quiet(r, Checked(s)) /\ Quiet(r, Checked(r)) /\ Quiet(r, r)
  <2>1. Quiet(r, s) /\ Consistent(s)
    BY <1>3, PromoteQuiet, QuietKeeps
  <2>2. Quiet(s, Checked(s))
    BY <2>1, CheckedQuiet
  <2> QED BY <2>1, <2>2, CheckedQuiet, QuietSelf, QuietTwice
<1>5. \/ HandleTurnCheck(r) \in {r, s, Checked(s), Checked(r)}
      \/ t \in DOMAIN r.turns /\ HandleTurnCheck(r) = CheckOpenTurn(r, t)
  BY <1>1, <1>2, <1>3 DEF HandleTurnCheck
<1> QED BY <1>4, <1>5, QuietFollows, CheckOpenTurnFollows

LEMMA TimeoutFollows ==
  ASSUME NEW r, Consistent(r), r.openTurn # NoTurn
  PROVE  Follows(r, TimeoutOpenTurn(r))
<1>1. PICK t : t = r.openTurn
  OBVIOUS
<1>2. t \in Nat /\ t \in DOMAIN r.turns
  BY <1>1, OpenTurnIsNumber DEF Consistent
<1>3. Moves(r, CompleteTurn(r, t), t) /\ Moves(r, Rerecognize(r, t, "TimeoutFinal"), t)
  BY <1>2, CompleteMoves, RerecognizeQuiet, QuietMoves
<1> QED BY <1>1, <1>3, MovesFollow DEF TimeoutOpenTurn

LEMMA DispatchFollows ==
  ASSUME NEW r, NEW tick, Consistent(r)
  PROVE  Follows(r, Dispatch(RefreshTimeout(r, tick)))
<1>1. PICK s : s = RefreshTimeout(r, tick)
  OBVIOUS
<1>2. Quiet(r, s) /\ Consistent(s)
  BY <1>1, OriginQuiet, QuietSelf, QuietKeeps DEF RefreshTimeout
<1>3. Quiet(r, Dispatch(s))
  BY <1>2, DispatchQuiet, QuietTwice
<1> QED BY <1>1, <1>3, QuietFollows

-----------------------------------------------------------------------------
(* The specification. *)

\* A fresh session is consistent.
LEMMA InitConsistent == Init => Consistent(rt)
<1> SUFFICES ASSUME NEW turn, rt = Runtime0(turn)
             PROVE  Consistent(rt)
  BY DEF Init
<1>1. DOMAIN rt = Fields
  BY DEF Runtime0, Fields
<1>2. /\ rt.nextTurn = 1 /\ rt.nextSeq = 1 /\ rt.finalization = NoTurn /\ rt.turns = << >>
      /\ rt.finalized = {} /\ rt.newTurns = << >> /\ rt.openTurn = NoTurn
      /\ rt.inFlight = NoRequest /\ rt.runner = "idle"
  BY DEF Runtime0
<1>3. DOMAIN rt.turns = {} /\ DOMAIN rt.newTurns = {}
  BY <1>2
<1> QED BY <1>1, <1>2, <1>3 DEF Consistent, Known, KnownTarget, NoRequest, NoTurn

LEMMA StepFollows == Consistent(rt) /\ Step => Follows(rt, rt')
<1> SUFFICES ASSUME Consistent(rt), Step
             PROVE  Follows(rt, rt')
  OBVIOUS
<1>1. CASE ApplyAnswer
  BY <1>1, ApplyResultFollows DEF ApplyAnswer
<1>2. CASE FinalizePending
  BY <1>2, FinalizePendingFollows DEF FinalizePending
<1>3. CASE CheckTurn
  BY <1>3, HandleTurnCheckFollows, CheckedQuiet, QuietFollows DEF CheckTurn, TurnChecked
<1>4. CASE TimeoutOrDispatch
  <2>1. CASE OpenTurnTimedOut(rt, Tick, TimeoutTicks)
    <3>1. rt.openTurn # NoTurn /\ rt' = TimeoutOpenTurn(rt)
      BY <1>4, <2>1 DEF TimeoutOrDispatch, TimedOutOrDispatched, OpenTurnTimedOut
    <3> QED BY <3>1, TimeoutFollows
  <2>2. CASE ~OpenTurnTimedOut(rt, Tick, TimeoutTicks)
    <3>1. rt' = Dispatch(RefreshTimeout(rt, Tick))
      BY <1>4, <2>2 DEF TimeoutOrDispatch, TimedOutOrDispatched
    <3> QED BY <3>1, DispatchFollows
  <2> QED BY <2>1, <2>2
<1> QED BY <1>1, <1>2, <1>3, <1>4 DEF Step

\* Whatever the host, the runner or the engine does follows TurnOutput.
LEMMA NextFollows == Consistent(rt) /\ [Next]_vars => Follows(rt, rt')
<1> SUFFICES ASSUME Consistent(rt), [Next]_vars
             PROVE  Follows(rt, rt')
  OBVIOUS
<1>0. Follows(rt, rt)
  BY QuietSelf, QuietFollows
<1>1. ASSUME NEW speech \in BOOLEAN, PushFrame(speech)
      PROVE  Follows(rt, rt')
  BY <1>1, AbsorbQuiet, QuietFollows DEF PushFrame
<1>2. CASE Step
  BY <1>2, StepFollows
<1>3. CASE RunnerProgress
  <2>1. PICK answer : rt.runner # "idle" /\ rt' = [rt EXCEPT !.runner = answer]
    BY <1>3 DEF RunnerProgress, StartRequest, Answer
  <2>2. rt' = [rt EXCEPT !.up = rt.up, !.runner = answer]
    BY <2>1 DEF Consistent, Fields
  <2> QED BY <2>1, <2>2, RunnerQuiet, QuietFollows
<1>4. CASE StopRunner
  <2>1. PICK answer : /\ rt.runner # "idle" \/ answer = "idle"
                     /\ rt' = [rt EXCEPT !.up = FALSE, !.runner = answer]
    BY <1>4 DEF StopRunner, Consistent, Fields
  <2> QED BY <2>1, RunnerQuiet, QuietFollows
<1>5. CASE StopGracefully
  BY <1>5, AbsorbQuiet, QuietFollows DEF StopGracefully
<1>6. CASE FinishDrain
  <2>1. Moves(rt, CompleteTurn(rt, rt.openTurn), rt.openTurn)
    BY OpenTurnIsNumber, CompleteMoves
  <2> QED BY <1>0, <1>6, <2>1, MovesFollow DEF FinishDrain
<1>7. CASE UNCHANGED rt
  BY <1>0, <1>7
<1>8. ASSUME NEW next \in Configs, NEW turn \in TurnConfigs, UpdateParameters(next, turn)
      PROVE  Follows(rt, rt')
  BY <1>8, TurnQuiet, QuietFollows DEF UpdateParameters
<1> QED BY <1>1, <1>2, <1>3, <1>4, <1>5, <1>6, <1>7, <1>8
        DEF Next, vars, DrainTimesOut, Cancel

\* The invariant of every reachable session.
LEMMA ConsistentAlways == Spec => []Consistent(rt)
<1>1. Consistent(rt) /\ [Next]_vars => Consistent(rt)'
  BY NextFollows DEF Follows
<1> QED BY <1>1, InitConsistent, PTL DEF Spec

(***************************************************************************)
(* The open turn always has a draft, whichever of a result, a check, a     *)
(* timeout or a deferred finalization closes turns in between.             *)
(***************************************************************************)
THEOREM OpenTurnHasDraftAlways == Spec => []OpenTurnHasDraft
<1>1. Consistent(rt) => OpenTurnHasDraft
  BY DEF Consistent, OpenTurnHasDraft
<1> QED BY <1>1, ConsistentAlways, PTL

LEMMA SameCardinality == \A S : Out!Cardinality(S) = Cardinality(S)
  BY Zenon DEF Out!Cardinality, Cardinality

\* Following is a step of the instance of TurnOutput, or a stuttering one.
LEMMA FollowsIsOutput ==
  Consistent(rt) /\ Follows(rt, rt') => [Out!TurnOutputNext]_(Out!outputVars)
<1> SUFFICES ASSUME Consistent(rt), Follows(rt, rt')
             PROVE  [Out!TurnOutputNext]_(Out!outputVars)
  OBVIOUS
<1>1. rt.nextTurn \in Int
  BY DEF Consistent
<1>2. /\ {[seq |-> o.seq, turn |-> o.turn, final |-> o.final] : o \in rt.out} = Sends(rt)
      /\ {[seq |-> o.seq, turn |-> o.turn, final |-> o.final] : o \in rt'.out} = Sends(rt')
  BY DEF Sends, Message
<1>3. CASE Silent(rt, rt') /\ rt'.nextTurn = rt.nextTurn
  BY <1>2, <1>3 DEF Silent, Out!outputVars
<1>4. CASE Silent(rt, rt') /\ rt'.nextTurn = rt.nextTurn + 1
  BY <1>1, <1>2, <1>4 DEF Silent, Out!TurnOutputNext, Out!Begin
<1>5. ASSUME NEW t, FollowsPartial(rt, rt', t)
      PROVE  Out!TurnOutputNext
  BY <1>1, <1>2, <1>5 DEF FollowsPartial, Out!TurnOutputNext, Out!Partial, Out!Sent, Message
<1>6. ASSUME NEW due, FollowsFinals(rt, rt', due)
      PROVE  Out!TurnOutputNext
  <2>1. due \in SUBSET (1..(rt.nextTurn - 1 + 1)) /\ rt.nextTurn - 1 + 1 = rt.nextTurn
    BY <1>1, <1>6 DEF FollowsFinals
  <2>2. /\ due # {}
        /\ \A t \in due, u \in rt.finalized : u < t
        /\ rt'.nextTurn - 1 = IF rt.nextTurn \in due THEN rt.nextTurn ELSE rt.nextTurn - 1
        /\ rt'.nextSeq = rt.nextSeq + Out!Cardinality(due)
        /\ rt'.finalized = rt.finalized \union due
    BY <1>1, <1>6, SameCardinality DEF FollowsFinals
  <2>3. Sends(rt') = Sends(rt) \union
          {Out!Sent(rt.nextSeq + Out!Cardinality({v \in due : v < u}), u, TRUE) : u \in due}
    <3>1. \A n, u : Message(n, u, TRUE) = Out!Sent(n, u, TRUE)
      BY DEF Message, Out!Sent
    <3>2. \A u : Cardinality({v \in due : v < u}) = Out!Cardinality({v \in due : v < u})
      BY SameCardinality
    <3>3. Sends(rt') = Sends(rt) \union
            {Message(rt.nextSeq + Cardinality({v \in due : v < u}), u, TRUE) : u \in due}
      BY <1>6 DEF FollowsFinals
    <3> QED BY <3>1, <3>2, <3>3
  <2>4. Out!Finals(due)
    BY <1>2, <2>1, <2>2, <2>3 DEF Out!Finals
  <2> QED BY <2>1, <2>4 DEF Out!TurnOutputNext
<1> QED BY <1>3, <1>4, <1>5, <1>6 DEF Follows

(***************************************************************************)
(* The engine implements TurnOutput: with any thresholds and detector, and *)
(* any number of frames, turns are numbered one by one, no output of a     *)
(* turn follows its final, finals come in turn order, and no sequence      *)
(* number is skipped or used twice.                                        *)
(***************************************************************************)
THEOREM EngineImplementsTurnOutput == Spec => ImplementsTurnOutput
<1>1. Init => Out!TurnOutputInit
  BY DEF Init, Runtime0, Out!TurnOutputInit
<1>2. Consistent(rt) /\ [Next]_vars => [Out!TurnOutputNext]_(Out!outputVars)
  BY NextFollows, FollowsIsOutput
<1> QED BY <1>1, <1>2, ConsistentAlways, PTL DEF Spec, ImplementsTurnOutput, Out!TurnOutputSpec

-----------------------------------------------------------------------------
(* What the promise gives the consumers of the engine's outputs. *)

Kept == Promised(rt.nextTurn - 1, rt.finalized, rt.nextSeq, Sends(rt))

LEMMA KeptNext == Kept /\ [Out!TurnOutputNext]_(Out!outputVars) => Kept'
<1> SUFFICES ASSUME Kept, [Out!TurnOutputNext]_(Out!outputVars) PROVE Kept'
  OBVIOUS
<1>1. /\ {[seq |-> o.seq, turn |-> o.turn, final |-> o.final] : o \in rt.out} = Sends(rt)
      /\ {[seq |-> o.seq, turn |-> o.turn, final |-> o.final] : o \in rt'.out} = Sends(rt)'
  BY DEF Sends, Message
<1>2. CASE Out!Begin
  BY <1>1, <1>2, PromisedBegin DEF Out!Begin, Kept
<1>3. ASSUME NEW t \in 1..(rt.nextTurn - 1 + 1), Out!Partial(t) PROVE Kept'
  BY <1>1, <1>3, PromisedPartial DEF Out!Partial, Out!Sent, Kept
<1>4. ASSUME NEW turns \in SUBSET (1..(rt.nextTurn - 1 + 1)), Out!Finals(turns) PROVE Kept'
  <2>1. /\ \A t : Out!Cardinality({u \in turns : u < t}) = Rank(turns, t)
        /\ Out!Cardinality(turns) = Cardinality(turns)
    BY SameCardinality DEF Rank
  <2>2. {Out!Sent(rt.nextSeq + Out!Cardinality({u \in turns : u < t}), t, TRUE) : t \in turns}
          = Batch(turns, rt.nextSeq)
    BY <2>1 DEF Out!Sent, Batch
  <2>3. /\ \A t \in turns, u \in rt.finalized : u < t
        /\ rt'.nextTurn - 1 = IF rt.nextTurn - 1 + 1 \in turns THEN rt.nextTurn - 1 + 1
                              ELSE rt.nextTurn - 1
        /\ rt'.finalized = rt.finalized \union turns
        /\ rt'.nextSeq = rt.nextSeq + Cardinality(turns)
        /\ Sends(rt)' = Sends(rt) \union Batch(turns, rt.nextSeq)
    BY <1>1, <1>4, <2>1, <2>2 DEF Out!Finals
  <2> QED BY <2>3, PromisedFinals DEF Kept
<1>5. CASE UNCHANGED Out!outputVars
  <2>1. /\ rt'.nextTurn - 1 = rt.nextTurn - 1 /\ rt'.finalized = rt.finalized
        /\ rt'.nextSeq = rt.nextSeq /\ Sends(rt)' = Sends(rt)
    BY <1>1, <1>5 DEF Out!outputVars
  <2> QED BY <2>1 DEF Kept
<1> QED BY <1>2, <1>3, <1>4, <1>5 DEF Out!TurnOutputNext

(***************************************************************************)
(* The consumers of the engine's outputs can rely on what TurnOutput gives *)
(* them: finals are unchangeable, sequence numbers gapless, and finals     *)
(* come in the order of the turns.                                         *)
(***************************************************************************)
THEOREM EngineOutputsOrdered ==
  Spec => [](Out!FinalIsLast /\ Out!SequenceGapless /\ Out!FinalsInTurnOrder)
<1>1. Init => Kept
  <2> SUFFICES ASSUME Init PROVE Kept
    OBVIOUS
  <2>1. rt.nextTurn - 1 = 0 /\ rt.finalized = {} /\ rt.nextSeq = 1 /\ rt.out = {}
    BY DEF Init, Runtime0
  <2>2. Sends(rt) = {}
    BY <2>1 DEF Sends
  <2> QED BY <2>1, <2>2, NothingPromised DEF Kept
<1>2. Spec => []Kept
  BY <1>1, KeptNext, EngineImplementsTurnOutput, PTL
     DEF Spec, ImplementsTurnOutput, Out!TurnOutputSpec
<1>3. Kept => Out!FinalIsLast /\ Out!SequenceGapless /\ Out!FinalsInTurnOrder
  <2>1. {[seq |-> o.seq, turn |-> o.turn, final |-> o.final] : o \in rt.out} = Sends(rt)
    BY DEF Sends, Message
  <2> QED BY <2>1 DEF Kept, Promised, NothingAfterFinal, NumbersUsedOnce, FinalsAscend,
                      Out!FinalIsLast, Out!SequenceGapless, Out!FinalsInTurnOrder
<1> QED BY <1>2, <1>3, PTL

-----------------------------------------------------------------------------
(* The type invariant, and where the audio of a session is. *)

\* Where the builder is: the id of the segment that is active or the next to
\* start, whether one is active, and the number of frames.
Position == [next |-> IF state.kind = "Active" THEN state.id ELSE nextSegmentId,
             active |-> state.kind = "Active", tick |-> frames]

Typed(r) ==
  /\ r.turn \in TurnConfigs
  /\ r.segments \in Seq(Segment)
  /\ r.turnCheck \in [previous : Nat, epoch : Nat \union {-1}]
  /\ r.inFlight \in Request \union {NoRequest}
  /\ r.runner \in RunnerStates /\ (r.runner = "idle" <=> r.inFlight = NoRequest)
  /\ r.up \in BOOLEAN
  /\ \A t \in DOMAIN r.turns : r.turns[t] \in TurnDraft
  /\ \A o \in r.out : o.audio \in Seq(Turn)
  /\ r.confirmed \in Int /\ r.acceptsRoot \in BOOLEAN
  /\ DOMAIN r.newTurns \subseteq Turn
  /\ r.epoch \in Nat /\ r.openEpoch \in Nat /\ r.openSince \in Nat \union {NoTick}

\* The timeout of a turn that is opened while a segment is active starts over
\* with its next chunk.
OriginOK(r, b) ==
  /\ r.openEpoch <= r.epoch
  /\ b.active /\ r.openEpoch = r.epoch => r.openSince \in {NoTick, b.tick}

Ids(q) == {q[i] : i \in DOMAIN q}
Rising(q) == \A i, j \in DOMAIN q : i < j => q[i] < q[j]

\* Segments wait in their order, and a child is the segment after its parent.
InLine(q) ==
  /\ \A i, j \in DOMAIN q : i < j => q[i].id < q[j].id
  /\ \A i \in DOMAIN q : q[i].previous \in {0, q[i].id - 1}

FinalsOf(r) == {o \in r.out : o.final}

\* No segment is in two drafts, in two finals, or in a draft and a final.
AudioOK(r) ==
  /\ \A t \in DOMAIN r.turns : Rising(r.turns[t].audio)
  /\ \A o \in FinalsOf(r) : Rising(o.audio)
  /\ \A t, u \in DOMAIN r.turns :
       t # u => Ids(r.turns[t].audio) \intersect Ids(r.turns[u].audio) = {}
  /\ \A o, p \in FinalsOf(r) : o # p => Ids(o.audio) \intersect Ids(p.audio) = {}
  /\ \A t \in DOMAIN r.turns, o \in FinalsOf(r) :
       Ids(r.turns[t].audio) \intersect Ids(o.audio) = {}

\* Every segment with text comes before segment m.
HeardBefore(r, m) ==
  /\ \A t \in DOMAIN r.turns : \A a \in Ids(r.turns[t].audio) : a < m
  /\ \A o \in FinalsOf(r) : \A a \in Ids(o.audio) : a < m

\* The segments of a request come after those with text, and before the queue.
InTurn(r, q, b) ==
  q.kind \in {"InterimDisplay", "CompletionCheck"} =>
    /\ Rising(q.segments)
    /\ \A x \in Ids(q.segments) :
         /\ x < b.next /\ HeardBefore(r, x)
         /\ \A i \in DOMAIN r.segments : x < r.segments[i].id

Spoken(r, b) ==
  /\ AudioOK(r)
  /\ InLine(r.segments)
  /\ HeardBefore(r, b.next)
  /\ \A i \in DOMAIN r.segments : r.segments[i].id < b.next /\ HeardBefore(r, r.segments[i].id)
  /\ InTurn(r, r.inFlight, b)

Sound(r, b) == Typed(r) /\ OriginOK(r, b) /\ Spoken(r, b)

\* The builder: a child is the segment after its parent.
IdleStates == [kind : {"Idle"}, pre : Seq(Chunk), pending : Seq(Chunk)]
WaitingStates ==
  [kind : {"AfterInterimSilence"}, pre : Seq(Chunk), pending : Seq(Chunk),
   previous : Turn, silence : Nat]
ActiveStates ==
  [kind : {"Active"}, id : Turn, previous : Nat, chunks : Seq(Chunk),
   audioChunks : Nat, silence : Nat]

BuilderOK ==
  /\ config \in Configs /\ frames \in Nat /\ nextSegmentId \in Turn
  /\ state \in IdleStates \union WaitingStates \union ActiveStates
  /\ pendingPrevious \in {0, nextSegmentId - 1}
  /\ state.kind # "Idle" => pendingPrevious = NoSegment
  /\ state.kind = "AfterInterimSilence" => state.previous = nextSegmentId - 1
  /\ state.kind = "Active" =>
       state.id = nextSegmentId - 1 /\ state.previous \in {0, state.id - 1}

IInv == Consistent(rt) /\ Sound(rt, Position) /\ BuilderOK /\ phase \in Phases

-----------------------------------------------------------------------------
(* Least and greatest elements. *)

LEMMA LeastOf ==
  ASSUME NEW S \in SUBSET Nat, S # {}
  PROVE  Min(S) \in S /\ \A x \in S : Min(S) <= x
<1>1. \E n \in S : \A m \in S : n <= m
  BY LeastNatural
<1> QED BY <1>1 DEF Min

LEMMA LesserIsMin ==
  ASSUME NEW a \in Int, NEW b \in Int
  PROVE  Min({a, b}) = IF a <= b THEN a ELSE b
  BY DEF Min

LEMMA GreatestOf ==
  ASSUME NEW c \in Int, NEW n \in Nat, NEW D \in SUBSET (1..n), NEW f,
         NEW I, \A u \in D : f[u] \in Int /\ f[u] \in I, \A x \in I : \E u \in D : x = f[u]
  PROVE  Max({c} \union I) \in Int /\ Max({c} \union I) \in {c} \union I
<1> DEFINE Upto(m) == {c} \union {f[u] : u \in D \intersect (1..m)}
           T == {m \in Nat : \E x \in Upto(m) : \A y \in Upto(m) : y <= x}
<1>1. 0 \in T
  OBVIOUS
<1>2. ASSUME NEW m \in Nat, m \in T PROVE m + 1 \in T
  <2>1. PICK x \in Upto(m) : \A y \in Upto(m) : y <= x
    BY <1>2
  <2>2. x \in Int
    BY <2>1
  <2>3. CASE m + 1 \notin D
    <3>1. D \intersect (1..(m + 1)) = D \intersect (1..m)
      BY <2>3
    <3> QED BY <2>1, <3>1
  <2>4. CASE m + 1 \in D
    <3>1. Upto(m + 1) = Upto(m) \union {f[m + 1]}
      BY <2>4
    <3>2. f[m + 1] \in Int /\ Upto(m) \subseteq Int
      BY <2>4
    <3> HIDE DEF Upto
    <3>3. CASE f[m + 1] <= x
      BY <2>1, <2>2, <3>1, <3>2, <3>3
    <3>4. CASE ~(f[m + 1] <= x)
      BY <2>1, <2>2, <3>1, <3>2, <3>4
    <3> QED BY <3>3, <3>4
  <2> QED BY <2>3, <2>4
<1>3. n \in T
  <2> HIDE DEF T
  <2> QED BY <1>1, <1>2, SetInduction
<1>4. Upto(n) = {c} \union I /\ Upto(n) \subseteq Int
  OBVIOUS
<1> HIDE DEF Upto
<1>5. Max(Upto(n)) \in Upto(n)
  BY <1>3 DEF Max
<1> QED BY <1>4, <1>5

-----------------------------------------------------------------------------
(* The queue and the plans that are made of it. *)

\* q from its k-th segment on.
From(q, k) == SubSeq(q, k, Len(q))

LEMMA JoinIs ==
  ASSUME NEW T, NEW a \in Seq(T), NEW c \in Seq(T)
  PROVE  /\ a \o c \in Seq(T) /\ Len(a \o c) = Len(a) + Len(c)
         /\ \A i \in 1..Len(a) : (a \o c)[i] = a[i]
         /\ \A i \in (Len(a) + 1)..(Len(a) + Len(c)) : (a \o c)[i] = c[i - Len(a)]
  OBVIOUS

LEMMA FromIs ==
  ASSUME NEW T, NEW q \in Seq(T), NEW k \in 1..(Len(q) + 1)
  PROVE  /\ From(q, k) \in Seq(T) /\ Len(From(q, k)) = Len(q) + 1 - k
         /\ \A i \in 1..Len(From(q, k)) :
              From(q, k)[i] = q[k + i - 1] /\ k + i - 1 \in 1..Len(q)
  BY DEF From

\* A completion covers only the interim of its own parent, which is first: that
\* interim goes, and what follows the completion stays.
LEMMA DropIs ==
  ASSUME NEW q \in Seq(Segment), InLine(q)
  PROVE  \/ DropCoveredInterims(q) = q
         \/ Len(q) >= 2 /\ DropCoveredInterims(q) = From(q, 2) /\ q[1].previous = 0
<1> DEFINE covering == {i \in 2..Len(q) : Kind(q[i]) = "CompletionCheck" /\ Covers(q[i], q[1])}
           k == Min(covering)
           rest == SubSeq(q, 1, k - 1) \o SubSeq(q, k + 1, Len(q))
           Dropped(i) == Kind(rest[i]) = "InterimDisplay" /\ Covers(q[k], rest[i])
           kept == Min({i \in DOMAIN rest : ~Dropped(i)} \union {Len(rest) + 1})
<1>1. CASE q = << >> \/ Kind(q[1]) # "InterimDisplay" \/ covering = {}
  BY <1>1 DEF DropCoveredInterims
<1>2. CASE q # << >> /\ Kind(q[1]) = "InterimDisplay" /\ covering # {}
  <2>1. DropCoveredInterims(q) = <<q[k]>> \o SubSeq(rest, kept, Len(rest))
    BY <1>2 DEF DropCoveredInterims
  <2>2. /\ \A i \in 1..Len(q) : q[i].id \in Nat /\ q[i].id > 0 /\ q[i].previous \in {0, q[i].id - 1}
        /\ \A i, j \in 1..Len(q) : i < j => q[i].id < q[j].id
    <3>1. \A s \in Segment : s.id \in Nat /\ s.id > 0
      BY DEF Segment, Turn
    <3>2. DOMAIN q = 1..Len(q) /\ \A i \in 1..Len(q) : q[i] \in Segment
      OBVIOUS
    <3> QED BY <3>1, <3>2 DEF InLine
  <2>3. k \in covering
    <3>1. covering \in SUBSET Nat /\ covering # {}
      BY <1>2
    <3> HIDE DEF covering
    <3> QED BY <3>1, LeastOf
  <2>4. ASSUME NEW i \in 2..Len(q), SegmentTurn(q[i]) = SegmentTurn(q[1])
        PROVE  i = 2 /\ SegmentTurn(q[i]) = q[1].id /\ q[1].previous = 0
    <3>1. 1 \in 1..Len(q) /\ 2 \in 1..Len(q) /\ i \in 1..Len(q)
      OBVIOUS
    <3>2. q[1].id < q[i].id
      BY <2>2, <3>1
    <3>3. q[i].previous = q[i].id - 1 /\ q[1].previous = 0 /\ q[i].id = q[1].id + 1
      BY <2>2, <2>4, <3>1, <3>2 DEF SegmentTurn
    <3>4. i # 2 => q[1].id < q[2].id /\ q[2].id < q[i].id
      BY <2>2, <3>1
    <3> QED BY <2>2, <3>1, <3>3, <3>4 DEF SegmentTurn
  <2>5. /\ k = 2 /\ SegmentTurn(q[2]) = q[1].id /\ Covers(q[2], q[1]) /\ Len(q) >= 2
        /\ q[1].previous = 0
    BY <2>3, <2>4 DEF Covers
  <2> DEFINE n == Len(q)
  <2>6. /\ rest \in Seq(Segment) /\ Len(rest) = n - 1 /\ rest[1] = q[1]
        /\ \A i \in 2..(n - 1) : rest[i] = q[i + 1]
    <3> DEFINE a == SubSeq(q, 1, 1)
               c == SubSeq(q, 3, n)
    <3>1. k = 2 /\ n >= 2 /\ n \in Nat
      BY <2>5
    <3>2. a \in Seq(Segment) /\ Len(a) = 1 /\ a[1] = q[1]
      BY <3>1
    <3>3. c \in Seq(Segment) /\ Len(c) = n - 2 /\ \A i \in 1..(n - 2) : c[i] = q[i + 2]
      <4>1. c = From(q, 3) /\ 3 \in 1..(Len(q) + 1)
        BY <3>1 DEF From
      <4>2. /\ From(q, 3) \in Seq(Segment) /\ Len(From(q, 3)) = Len(q) + 1 - 3
            /\ \A i \in 1..Len(From(q, 3)) : From(q, 3)[i] = q[3 + i - 1]
        BY <4>1, FromIs
      <4>3. n \in Nat /\ n + 1 - 3 = n - 2 /\ \A i \in 1..(n - 2) : 3 + i - 1 = i + 2
        BY <3>1
      <4> HIDE DEF c
      <4> QED BY <4>1, <4>2, <4>3
    <3>4. rest = a \o c
      <4>1. k - 1 = 1 /\ k + 1 = 3
        BY <3>1
      <4> HIDE DEF k
      <4> QED BY <4>1, Zenon
    <3> HIDE DEF a, c, n
    <3>5. /\ a \o c \in Seq(Segment) /\ Len(a \o c) = n - 1 /\ (a \o c)[1] = q[1]
          /\ \A i \in 2..(n - 1) : (a \o c)[i] = c[i - 1]
      <4>1. /\ a \o c \in Seq(Segment) /\ Len(a \o c) = Len(a) + Len(c)
            /\ \A i \in 1..Len(a) : (a \o c)[i] = a[i]
            /\ \A i \in (Len(a) + 1)..(Len(a) + Len(c)) : (a \o c)[i] = c[i - Len(a)]
        <5>1. a \in Seq(Segment) /\ c \in Seq(Segment)
          BY <3>2, <3>3
        <5> QED BY <5>1, JoinIs
      <4>2. 1 + (n - 2) = n - 1 /\ 1 \in 1..1
        BY <3>1
      <4> QED BY <3>2, <3>3, <4>1, <4>2
    <3>6. \A i \in 2..(n - 1) : i - 1 \in 1..(n - 2) /\ i - 1 + 2 = i + 1
      BY <3>1
    <3>7. \A i \in 2..(n - 1) : (a \o c)[i] = q[i + 1]
      BY <3>3, <3>5, <3>6
    <3> HIDE DEF rest
    <3> QED BY <3>4, <3>5, <3>7
  <2>7. ~Dropped(2) \/ n = 2
    <3> SUFFICES ASSUME n # 2 PROVE ~Dropped(2)
      OBVIOUS
    <3>1. 1 \in 1..n /\ 2 \in 1..n /\ 3 \in 1..n /\ 2 \in 2..(n - 1)
      <4>1. n \in Nat /\ n >= 2
        BY <2>5
      <4> HIDE DEF n
      <4> QED BY <4>1
    <3>2. q[1].id < q[2].id /\ q[2].id < q[3].id
      BY <2>2, <3>1
    <3>3. SegmentTurn(q[3]) # q[1].id
      BY <2>2, <3>1, <3>2 DEF SegmentTurn
    <3>4. ~Covers(q[2], q[3])
      BY <2>5, <3>3 DEF Covers
    <3> HIDE DEF rest, k, n
    <3>5. rest[2] = q[3] /\ k = 2
      BY <2>5, <2>6, <3>1
    <3> QED BY <3>4, <3>5
  <2>8. Dropped(1)
    BY <1>2, <2>5, <2>6
  <2> DEFINE K == {i \in DOMAIN rest : ~Dropped(i)} \union {Len(rest) + 1}
  <2>9. kept = 2
    <3> HIDE DEF rest, k, Dropped
    <3>1. DOMAIN rest = 1..(n - 1) /\ Len(rest) + 1 = n
      BY <2>5, <2>6
    <3>2. 2 \in K /\ \A i \in K : i \in Int /\ 2 <= i
      BY <2>5, <2>7, <2>8, <3>1
    <3> HIDE DEF K
    <3>3. Min(K) = 2
      BY <3>2, LeastIsMin
    <3> QED BY <3>3 DEF K
  <2>10. DropCoveredInterims(q) = <<q[2]>> \o SubSeq(rest, 2, Len(rest))
    BY <2>1, <2>5, <2>9
  <2> HIDE DEF rest, kept, covering, k, Dropped
  <2>11. <<q[2]>> \o SubSeq(rest, 2, Len(rest)) = SubSeq(q, 2, n)
    BY <2>5, <2>6
  <2> QED BY <2>5, <2>10, <2>11 DEF From
<1> QED BY <1>1, <1>2

\* A plan takes at least one segment, and no more than there are.
LEMMA PlanLengthIs ==
  ASSUME NEW r, NEW T, NEW q \in Seq(T), NEW i \in 1..Len(q)
  PROVE  PlanLength(r, q, i) \in Nat /\ i + PlanLength(r, q, i) \in (i + 1)..(Len(q) + 1)
<1> DEFINE Joins(j) == Kind(q[j]) = "InterimDisplay" /\ Contiguous(q[j - 1], q[j])
           stop == {j \in (i + 1)..Len(q) : ~Joins(j)} \union {Len(q) + 1}
<1>1. PlanLength(r, q, i) \in {Min(stop) - i, 1}
  BY DEF PlanLength
<1>2. stop \subseteq (i + 1)..(Len(q) + 1) /\ stop # {} /\ stop \subseteq Nat
  OBVIOUS
<1> HIDE DEF stop
<1>3. Min(stop) \in (i + 1)..(Len(q) + 1)
  BY <1>2, LeastOf
<1> QED BY <1>1, <1>3

\* next is the function that NextPlan computes, from k on.
Plans(next, k, r, q) ==
  next = [i \in k..(Len(q) + 1) |->
            IF i > Len(q) THEN i
            ELSE LET end == i + PlanLength(r, q, i)
                 IN  IF PlanIsDropped(r, q[i], q[end - 1]) THEN next[end] ELSE i]

LEMMA PlansExist ==
  ASSUME NEW r, NEW T, NEW q \in Seq(T), NEW n \in Nat, n <= Len(q)
  PROVE  \E next : Plans(next, Len(q) + 1 - n, r, q)
<1> DEFINE L == Len(q)
           M == {m \in Nat : m <= L => \E next : Plans(next, L + 1 - m, r, q)}
<1>1. 0 \in M
  <2>1. Plans([i \in (L + 1)..(L + 1) |-> i], L + 1, r, q)
    BY DEF Plans
  <2> QED BY <2>1
<1>2. ASSUME NEW m \in Nat, m \in M PROVE m + 1 \in M
  <2> SUFFICES ASSUME m + 1 <= L PROVE \E next : Plans(next, L + 1 - (m + 1), r, q)
    OBVIOUS
  <2> DEFINE k == L - m
  <2>1. PICK next : Plans(next, k + 1, r, q)
    BY <1>2
  <2> DEFINE End(i) == i + PlanLength(r, q, i)
             first == IF PlanIsDropped(r, q[k], q[End(k) - 1]) THEN next[End(k)] ELSE k
             more == [i \in k..(L + 1) |-> IF i = k THEN first ELSE next[i]]
             value(f, i) == IF i > L THEN i
                            ELSE IF PlanIsDropped(r, q[i], q[End(i) - 1]) THEN f[End(i)] ELSE i
  <2>2. L \in Nat /\ k \in 1..L /\ k \in Nat /\ L + 1 - (m + 1) = k
    OBVIOUS
  <2>3. \A i \in 1..L : End(i) \in (i + 1)..(L + 1)
    BY PlanLengthIs
  <2>4. next = [i \in (k + 1)..(L + 1) |-> value(next, i)]
    BY <2>1, Zenon DEF Plans
  <2> HIDE DEF End, L, k
  <2>5. \A j \in (k + 1)..(L + 1) : more[j] = next[j]
    BY <2>2
  <2>6. ASSUME NEW i \in k..(L + 1)
        PROVE  (IF i = k THEN first ELSE next[i]) = value(more, i)
    <3>1. CASE i > L
      <4>1. i # k /\ i \in (k + 1)..(L + 1)
        BY <2>2, <3>1
      <4> QED BY <2>4, <3>1, <4>1
    <3>2. CASE i \in 1..L
      <4>1. End(i) \in (k + 1)..(L + 1)
        BY <2>2, <2>3, <3>2
      <4>2. more[End(i)] = next[End(i)]
        BY <2>5, <4>1
      <4>3. ~(i > L)
        BY <2>2, <3>2
      <4>4. CASE i = k
        BY <4>2, <4>3, <4>4
      <4>5. CASE i # k
        <5>1. i \in (k + 1)..(L + 1)
          BY <2>2, <4>5
        <5>2. next[i] = value(next, i)
          BY <2>4, <5>1
        <5> QED BY <4>2, <4>3, <4>5, <5>2
      <4> QED BY <4>4, <4>5
    <3> QED BY <2>2, <3>1, <3>2
  <2>7. more = [i \in k..(L + 1) |-> value(more, i)]
    BY <2>6, Zenon
  <2>8. Plans(more, k, r, q)
    BY <2>7, Zenon DEF Plans, L, End
  <2> QED BY <2>2, <2>8, Zenon
<1>3. n \in M
  <2> HIDE DEF M
  <2> QED BY <1>1, <1>2, SetInduction
<1> QED BY <1>3

LEMMA NextPlanIs ==
  ASSUME NEW r, NEW T, NEW q \in Seq(T)
  PROVE  NextPlan(r, q) \in 1..(Len(q) + 1)
<1> DEFINE L == Len(q)
           End(i) == i + PlanLength(r, q, i)
<1>1. PICK next : Plans(next, 1, r, q) /\ NextPlan(r, q) = next[1]
  <2>1. \E f : Plans(f, 1, r, q)
    <3>1. L \in Nat /\ L <= L /\ L + 1 - L = 1
      OBVIOUS
    <3>2. \E f : Plans(f, L + 1 - L, r, q)
      BY <3>1, PlansExist
    <3> QED BY <3>1, <3>2
  <2>2. Plans(CHOOSE f : Plans(f, 1, r, q), 1, r, q)
    BY <2>1, Zenon
  <2>3. NextPlan(r, q) = (CHOOSE f : Plans(f, 1, r, q))[1]
    BY Zenon DEF NextPlan, Plans
  <2> QED BY <2>2, <2>3
<1>2. \A i \in 1..L : End(i) \in (i + 1)..(L + 1)
  BY PlanLengthIs
<1>3. /\ next[L + 1] = L + 1
      /\ \A i \in 1..L : next[i] \in {next[End(i)], i}
  <2>1. next = [i \in 1..(L + 1) |->
                  IF i > L THEN i
                  ELSE IF PlanIsDropped(r, q[i], q[End(i) - 1]) THEN next[End(i)] ELSE i]
    BY <1>1, Zenon DEF Plans
  <2> HIDE DEF End
  <2> QED BY <2>1
<1> DEFINE M == {m \in Nat : \A i \in 1..(L + 1) : L + 1 - i <= m => next[i] \in 1..(L + 1)}
<1> HIDE DEF End
<1>4. 0 \in M
  BY <1>3
<1>5. ASSUME NEW m \in Nat, m \in M PROVE m + 1 \in M
  <2> SUFFICES ASSUME NEW i \in 1..(L + 1), L + 1 - i <= m + 1 PROVE next[i] \in 1..(L + 1)
    OBVIOUS
  <2>1. CASE i = L + 1
    BY <1>3, <2>1
  <2>2. CASE i \in 1..L
    <3>1. End(i) \in 1..(L + 1) /\ L + 1 - End(i) <= m
      BY <1>2, <2>2
    <3>2. next[End(i)] \in 1..(L + 1)
      BY <1>5, <3>1
    <3> QED BY <1>3, <2>2, <3>2
  <2> QED BY <2>1, <2>2
<1>6. L \in M
  <2> HIDE DEF M, L
  <2>1. L \in Nat
    BY DEF L
  <2> QED BY <1>4, <1>5, <2>1, SetInduction
<1> QED BY <1>1, <1>6

-----------------------------------------------------------------------------
(* Steps that leave the audio of turns and finals where it is. *)

SameAudio(r, s) ==
  /\ DOMAIN s.turns = DOMAIN r.turns
  /\ \A t \in DOMAIN r.turns : s.turns[t].audio = r.turns[t].audio
  /\ FinalsOf(s) = FinalsOf(r)

LEMMA SameAudioKeeps ==
  ASSUME NEW r, NEW s, SameAudio(r, s)
  PROVE  /\ AudioOK(r) => AudioOK(s)
         /\ \A m : HeardBefore(r, m) => HeardBefore(s, m)
<1>1. AudioOK(r) => AudioOK(s)
  BY DEF SameAudio, AudioOK
<1>2. \A m : HeardBefore(r, m) => HeardBefore(s, m)
  BY DEF SameAudio, HeardBefore
<1> QED BY <1>1, <1>2

LEMMA SpokenKept ==
  ASSUME NEW r, NEW s, NEW b, SameAudio(r, s), s.segments = r.segments
  PROVE  /\ \A q : InTurn(r, q, b) => InTurn(s, q, b)
         /\ Spoken(r, b) /\ s.inFlight \in {r.inFlight, NoRequest} => Spoken(s, b)
<1>1. \A q : InTurn(r, q, b) => InTurn(s, q, b)
  BY SameAudioKeeps DEF InTurn
<1>2. InTurn(s, NoRequest, b)
  BY DEF InTurn, NoRequest
<1> QED BY <1>1, <1>2, SameAudioKeeps DEF Spoken

LEMMA SubmitSound ==
  ASSUME NEW r, NEW b, NEW q \in Request, Consistent(r), Sound(r, b), InTurn(r, q, b)
  PROVE  Sound(Submit(r, q), b)
<1>1. CASE ~r.up
  BY <1>1 DEF Submit
<1>2. CASE r.up
  <2> DEFINE s == [r EXCEPT !.inFlight = q, !.runner = "queued"]
  <2>1. Submit(r, q) = s
    BY <1>2 DEF Submit
  <2>2. /\ s.inFlight = q /\ s.runner = "queued"
        /\ s.turn = r.turn /\ s.segments = r.segments /\ s.turnCheck = r.turnCheck
        /\ s.up = r.up /\ s.turns = r.turns /\ s.out = r.out /\ s.confirmed = r.confirmed
        /\ s.acceptsRoot = r.acceptsRoot /\ s.newTurns = r.newTurns /\ s.epoch = r.epoch
        /\ s.openEpoch = r.openEpoch /\ s.openSince = r.openSince
    BY DEF Consistent, Fields
  <2> HIDE DEF s
  <2>3. q # NoRequest
    BY DEF Request, NoRequest
  <2>4. Typed(s)
    BY <2>2, <2>3 DEF Sound, Typed, RunnerStates
  <2>5. OriginOK(s, b)
    BY <2>2 DEF Sound, OriginOK
  <2>6. SameAudio(r, s)
    BY <2>2 DEF SameAudio, FinalsOf
  <2>7. Spoken(s, b)
    BY <2>2, <2>6, SpokenKept, SameAudioKeeps DEF Sound, Spoken
  <2> QED BY <2>1, <2>4, <2>5, <2>7 DEF Sound
<1> QED BY <1>1, <1>2

LEMMA RerecognizeSound ==
  ASSUME NEW r, NEW b, NEW t \in DOMAIN r.turns, Consistent(r), Sound(r, b),
         NEW purpose \in {"None", "GrammarAfterCompletion", "SimpleTurnCheckFinal", "TimeoutFinal"}
  PROVE  Sound(Rerecognize(r, t, purpose), b)
<1> DEFINE q == [kind |-> "Rerecognition", turn |-> t, target |-> t,
             revision |-> Revision(r, t),
             from |-> r.turns[t].from, to |-> r.turns[t].to,
             first |-> r.turns[t].first, last |-> r.turns[t].latest,
             segments |-> r.turns[t].audio, purpose |-> purpose]
<1>1. r.turns[t] \in TurnDraft
  BY DEF Sound, Typed
<1>2. t \in Turn /\ t \in Nat
  BY TurnsAreNumbers DEF Known, Turn
<1>3. Revision(r, t) \in {0, 1}
  BY DEF Revision
<1>4. q \in Request
  BY <1>1, <1>2, <1>3 DEF Request, TurnDraft
<1>5. InTurn(r, q, b)
  BY DEF InTurn
<1>6. Rerecognize(r, t, purpose) = Submit(r, q)
  BY DEF Rerecognize
<1> HIDE DEF q
<1> QED BY <1>4, <1>5, <1>6, SubmitSound

\* Everything Sound is about is the same, but perhaps the answered request.
LEMMA PlainSound ==
  ASSUME NEW r, NEW s, NEW b, Sound(r, b), SameAudio(r, s), Typed(s), OriginOK(s, b),
         s.segments = r.segments, s.inFlight \in {r.inFlight, NoRequest}
  PROVE  Sound(s, b)
  BY SpokenKept DEF Sound

LEMMA DeferredSound ==
  ASSUME NEW r, NEW b, NEW t, Consistent(r), Sound(r, b)
  PROVE  Sound([r EXCEPT !.finalization = t], b)
<1> DEFINE s == [r EXCEPT !.finalization = t]
<1>1. /\ s.turn = r.turn /\ s.segments = r.segments /\ s.turnCheck = r.turnCheck
      /\ s.inFlight = r.inFlight /\ s.runner = r.runner
      /\ s.up = r.up /\ s.turns = r.turns /\ s.out = r.out /\ s.confirmed = r.confirmed
      /\ s.acceptsRoot = r.acceptsRoot /\ s.newTurns = r.newTurns /\ s.epoch = r.epoch
      /\ s.openEpoch = r.openEpoch /\ s.openSince = r.openSince
  BY DEF Consistent, Fields
<1> HIDE DEF s
<1>2. Typed(s) /\ OriginOK(s, b) /\ SameAudio(r, s)
  BY <1>1 DEF Sound, Typed, OriginOK, SameAudio, FinalsOf
<1>3. Sound(s, b)
  BY <1>1, <1>2, PlainSound
<1> QED BY <1>3 DEF s

LEMMA CheckedSound ==
  ASSUME NEW r, NEW b, Consistent(r), Sound(r, b)
  PROVE  Sound(Checked(r), b)
<1> DEFINE s == Checked(r)
<1>1. /\ s.turn = r.turn /\ s.segments = r.segments /\ s.turnCheck = NoCheck
      /\ s.inFlight = r.inFlight /\ s.runner = r.runner
      /\ s.up = r.up /\ s.turns = r.turns /\ s.out = r.out /\ s.confirmed = r.confirmed
      /\ s.acceptsRoot = r.acceptsRoot /\ s.newTurns = r.newTurns /\ s.epoch = r.epoch
      /\ s.openEpoch = r.openEpoch /\ s.openSince = r.openSince
  BY DEF Checked, Consistent, Fields
<1> HIDE DEF s
<1>2. NoCheck \in [previous : Nat, epoch : Nat \union {-1}]
  BY DEF NoCheck
<1>3. Typed(s) /\ OriginOK(s, b) /\ SameAudio(r, s)
  BY <1>1, <1>2 DEF Sound, Typed, OriginOK, SameAudio, FinalsOf
<1>4. Sound(s, b)
  BY <1>1, <1>3, PlainSound
<1> QED BY <1>4 DEF s

LEMMA OpenSound ==
  ASSUME NEW r, NEW b, NEW t, NEW root \in BOOLEAN, Consistent(r), Sound(r, b)
  PROVE  Sound([r EXCEPT !.openTurn = t, !.acceptsRoot = root], b)
<1> DEFINE s == [r EXCEPT !.openTurn = t, !.acceptsRoot = root]
<1>1. /\ s.turn = r.turn /\ s.segments = r.segments /\ s.turnCheck = r.turnCheck
      /\ s.inFlight = r.inFlight /\ s.runner = r.runner
      /\ s.up = r.up /\ s.turns = r.turns /\ s.out = r.out /\ s.confirmed = r.confirmed
      /\ s.acceptsRoot = root /\ s.newTurns = r.newTurns /\ s.epoch = r.epoch
      /\ s.openEpoch = r.openEpoch /\ s.openSince = r.openSince
  BY DEF Consistent, Fields
<1> HIDE DEF s
<1>2. Typed(s) /\ OriginOK(s, b) /\ SameAudio(r, s)
  BY <1>1 DEF Sound, Typed, OriginOK, SameAudio, FinalsOf
<1>3. Sound(s, b)
  BY <1>1, <1>2, PlainSound
<1> QED BY <1>3 DEF s

LEMMA OriginSound ==
  ASSUME NEW r, NEW b, b.tick \in Nat, Consistent(r), Sound(r, b)
  PROVE  Sound(ResetTimeoutOrigin(r, b.tick), b)
<1> DEFINE s == ResetTimeoutOrigin(r, b.tick)
<1>1. /\ s.turn = r.turn /\ s.segments = r.segments /\ s.turnCheck = r.turnCheck
      /\ s.inFlight = r.inFlight /\ s.runner = r.runner
      /\ s.up = r.up /\ s.turns = r.turns /\ s.out = r.out /\ s.confirmed = r.confirmed
      /\ s.acceptsRoot = r.acceptsRoot /\ s.newTurns = r.newTurns /\ s.epoch = r.epoch
      /\ s.openEpoch = r.epoch /\ s.openSince = b.tick
  BY DEF ResetTimeoutOrigin, Consistent, Fields
<1> HIDE DEF s
<1>2. Typed(s)
  BY <1>1 DEF Sound, Typed
<1>3. OriginOK(s, b)
  <2>1. r.epoch \in Nat
    BY DEF Sound, Typed
  <2> QED BY <1>1, <2>1 DEF OriginOK
<1>4. SameAudio(r, s)
  BY <1>1 DEF SameAudio, FinalsOf
<1>5. Sound(s, b)
  BY <1>1, <1>2, <1>3, <1>4, PlainSound
<1> QED BY <1>5 DEF s

LEMMA ReplaceTextSound ==
  ASSUME NEW r, NEW b, NEW t, NEW emitted \in {"stale", "current"}, Consistent(r), Sound(r, b)
  PROVE  Sound(ReplaceText(r, t, emitted), b)
<1> DEFINE s == [r EXCEPT !.turns[t].emitted = emitted]
<1>1. CASE ~(t \in DOMAIN r.turns /\ r.turns[t].emitted # "never")
  BY <1>1 DEF ReplaceText
<1>2. CASE t \in DOMAIN r.turns /\ r.turns[t].emitted # "never"
  <2>1. ReplaceText(r, t, emitted) = s
    BY <1>2 DEF ReplaceText
  <2>2. /\ s.turn = r.turn /\ s.segments = r.segments /\ s.turnCheck = r.turnCheck
        /\ s.inFlight = r.inFlight /\ s.runner = r.runner
        /\ s.up = r.up /\ s.out = r.out /\ s.confirmed = r.confirmed
        /\ s.acceptsRoot = r.acceptsRoot /\ s.newTurns = r.newTurns /\ s.epoch = r.epoch
        /\ s.openEpoch = r.openEpoch /\ s.openSince = r.openSince
        /\ s.turns = [r.turns EXCEPT ![t].emitted = emitted]
    BY DEF Consistent, Fields
  <2> HIDE DEF s
  <2>3. \A u \in DOMAIN r.turns : r.turns[u] \in TurnDraft
    BY DEF Sound, Typed
  <2>4. /\ DOMAIN s.turns = DOMAIN r.turns
        /\ \A u \in DOMAIN r.turns :
             s.turns[u] \in TurnDraft /\ s.turns[u].audio = r.turns[u].audio
    <3>1. \A u \in DOMAIN r.turns :
            s.turns[u] = IF u = t THEN [r.turns[u] EXCEPT !.emitted = emitted] ELSE r.turns[u]
      BY <2>2
    <3>2. DOMAIN s.turns = DOMAIN r.turns
      BY <2>2
    <3>3. ASSUME NEW d \in TurnDraft
          PROVE  /\ [d EXCEPT !.emitted = emitted] \in TurnDraft
                 /\ [d EXCEPT !.emitted = emitted].audio = d.audio
      BY DEF TurnDraft
    <3> QED BY <2>3, <3>1, <3>2, <3>3
  <2>5. Typed(s) /\ OriginOK(s, b)
    BY <2>2, <2>4 DEF Sound, Typed, OriginOK
  <2>6. SameAudio(r, s)
    BY <2>2, <2>4 DEF SameAudio, FinalsOf
  <2> QED BY <2>1, <2>2, <2>5, <2>6, PlainSound
<1> QED BY <1>1, <1>2

LEMMA AnsweredSound ==
  ASSUME NEW r, NEW b, Consistent(r), Sound(r, b)
  PROVE  Sound([r EXCEPT !.inFlight = NoRequest, !.runner = "idle"], b)
<1> DEFINE s == [r EXCEPT !.inFlight = NoRequest, !.runner = "idle"]
<1>1. /\ s.turn = r.turn /\ s.segments = r.segments /\ s.turnCheck = r.turnCheck
      /\ s.inFlight = NoRequest /\ s.runner = "idle"
      /\ s.up = r.up /\ s.turns = r.turns /\ s.out = r.out /\ s.confirmed = r.confirmed
      /\ s.acceptsRoot = r.acceptsRoot /\ s.newTurns = r.newTurns /\ s.epoch = r.epoch
      /\ s.openEpoch = r.openEpoch /\ s.openSince = r.openSince
  BY DEF Consistent, Fields
<1> HIDE DEF s
<1>2. Typed(s) /\ OriginOK(s, b) /\ SameAudio(r, s)
  BY <1>1 DEF Sound, Typed, OriginOK, SameAudio, FinalsOf, RunnerStates
<1>3. Sound(s, b)
  BY <1>1, <1>2, PlainSound
<1> QED BY <1>3 DEF s

LEMMA UnheardSound ==
  ASSUME NEW r, NEW b, NEW segments, Consistent(r), Sound(r, b)
  PROVE  Sound([r EXCEPT !.unheard = @ \union segments], b)
<1> DEFINE s == [r EXCEPT !.unheard = @ \union segments]
<1>1. /\ s.turn = r.turn /\ s.segments = r.segments /\ s.turnCheck = r.turnCheck
      /\ s.inFlight = r.inFlight /\ s.runner = r.runner
      /\ s.up = r.up /\ s.turns = r.turns /\ s.out = r.out /\ s.confirmed = r.confirmed
      /\ s.acceptsRoot = r.acceptsRoot /\ s.newTurns = r.newTurns /\ s.epoch = r.epoch
      /\ s.openEpoch = r.openEpoch /\ s.openSince = r.openSince
  BY DEF Consistent, Fields
<1> HIDE DEF s
<1>2. Typed(s) /\ OriginOK(s, b) /\ SameAudio(r, s)
  BY <1>1 DEF Sound, Typed, OriginOK, SameAudio, FinalsOf
<1>3. Sound(s, b)
  BY <1>1, <1>2, PlainSound
<1> QED BY <1>3 DEF s

LEMMA RunnerSound ==
  ASSUME NEW r, NEW b, NEW answer \in RunnerStates, NEW up \in BOOLEAN,
         answer = "idle" <=> r.runner = "idle", Consistent(r), Sound(r, b)
  PROVE  Sound([r EXCEPT !.up = up, !.runner = answer], b)
<1> DEFINE s == [r EXCEPT !.up = up, !.runner = answer]
<1>1. /\ s.turn = r.turn /\ s.segments = r.segments /\ s.turnCheck = r.turnCheck
      /\ s.inFlight = r.inFlight /\ s.runner = answer
      /\ s.up = up /\ s.turns = r.turns /\ s.out = r.out /\ s.confirmed = r.confirmed
      /\ s.acceptsRoot = r.acceptsRoot /\ s.newTurns = r.newTurns /\ s.epoch = r.epoch
      /\ s.openEpoch = r.openEpoch /\ s.openSince = r.openSince
  BY DEF Consistent, Fields
<1> HIDE DEF s
<1>2. Typed(s) /\ OriginOK(s, b) /\ SameAudio(r, s)
  BY <1>1 DEF Sound, Typed, OriginOK, SameAudio, FinalsOf
<1>3. Sound(s, b)
  BY <1>1, <1>2, PlainSound
<1> QED BY <1>3 DEF s

LEMMA TurnSound ==
  ASSUME NEW r, NEW b, NEW turn \in TurnConfigs, Consistent(r), Sound(r, b)
  PROVE  Sound([r EXCEPT !.turn = turn], b)
<1> DEFINE s == [r EXCEPT !.turn = turn]
<1>1. /\ s.turn = turn /\ s.segments = r.segments /\ s.turnCheck = r.turnCheck
      /\ s.inFlight = r.inFlight /\ s.runner = r.runner
      /\ s.up = r.up /\ s.turns = r.turns /\ s.out = r.out /\ s.confirmed = r.confirmed
      /\ s.acceptsRoot = r.acceptsRoot /\ s.newTurns = r.newTurns /\ s.epoch = r.epoch
      /\ s.openEpoch = r.openEpoch /\ s.openSince = r.openSince
  BY DEF Consistent, Fields
<1> HIDE DEF s
<1>2. Typed(s) /\ OriginOK(s, b) /\ SameAudio(r, s)
  BY <1>1 DEF Sound, Typed, OriginOK, SameAudio, FinalsOf
<1>3. Sound(s, b)
  BY <1>1, <1>2, PlainSound
<1> QED BY <1>3 DEF s

-----------------------------------------------------------------------------
(* Outputs. *)

LEMMA EmitInterimSound ==
  ASSUME NEW r, NEW b, NEW t, Consistent(r), Sound(r, b)
  PROVE  Sound(EmitInterim(r, t), b)
<1>1. CASE t \notin DOMAIN r.turns \/ r.turns[t].emitted = "current"
  BY <1>1 DEF EmitInterim
<1>2. CASE ~(t \notin DOMAIN r.turns \/ r.turns[t].emitted = "current")
  <2> DEFINE o == Output(r.nextSeq, t, FALSE, r.turns[t])
             s == [r EXCEPT !.out = @ \union {o}, !.nextSeq = @ + 1,
                            !.turns[t].emitted = "current"]
  <2>1. EmitInterim(r, t) = s
    BY <1>2 DEF EmitInterim
  <2>2. /\ s.turn = r.turn /\ s.segments = r.segments /\ s.turnCheck = r.turnCheck
        /\ s.inFlight = r.inFlight /\ s.runner = r.runner
        /\ s.up = r.up /\ s.out = r.out \union {o} /\ s.confirmed = r.confirmed
        /\ s.acceptsRoot = r.acceptsRoot /\ s.newTurns = r.newTurns /\ s.epoch = r.epoch
        /\ s.openEpoch = r.openEpoch /\ s.openSince = r.openSince
        /\ s.turns = [r.turns EXCEPT ![t].emitted = "current"]
    BY DEF Consistent, Fields
  <2>3. o.final = FALSE /\ o.audio = r.turns[t].audio
    BY DEF Output
  <2> HIDE DEF s, o
  <2>4. \A u \in DOMAIN r.turns : r.turns[u] \in TurnDraft
    BY DEF Sound, Typed
  <2>5. /\ DOMAIN s.turns = DOMAIN r.turns
        /\ \A u \in DOMAIN r.turns :
             s.turns[u] \in TurnDraft /\ s.turns[u].audio = r.turns[u].audio
    <3>1. \A u \in DOMAIN r.turns :
            s.turns[u] = IF u = t THEN [r.turns[u] EXCEPT !.emitted = "current"] ELSE r.turns[u]
      BY <2>2
    <3>2. DOMAIN s.turns = DOMAIN r.turns
      BY <2>2
    <3>3. ASSUME NEW d \in TurnDraft
          PROVE  /\ [d EXCEPT !.emitted = "current"] \in TurnDraft
                 /\ [d EXCEPT !.emitted = "current"].audio = d.audio
      BY DEF TurnDraft
    <3> QED BY <2>4, <3>1, <3>2, <3>3
  <2>6. \A p \in s.out : p.audio \in Seq(Turn)
    <3>1. r.turns[t].audio \in Seq(Turn)
      BY <1>2, <2>4 DEF TurnDraft
    <3> QED BY <2>2, <2>3, <3>1 DEF Sound, Typed
  <2>7. Typed(s) /\ OriginOK(s, b)
    BY <2>2, <2>5, <2>6 DEF Sound, Typed, OriginOK
  <2>8. SameAudio(r, s)
    <3>1. FinalsOf(s) = FinalsOf(r)
      BY <2>2, <2>3 DEF FinalsOf
    <3> QED BY <2>5, <3>1 DEF SameAudio
  <2> QED BY <2>1, <2>2, <2>7, <2>8, PlainSound
<1> QED BY <1>1, <1>2

\* The audio of a turn moves from its draft to its final.
LEMMA FinalizeSound ==
  ASSUME NEW r, NEW b, NEW t \in Nat, Consistent(r), Sound(r, b)
  PROVE  Sound(FinalizeTurnNow(r, t), b)
<1> DEFINE due == {u \in DOMAIN r.turns : u <= t}
           Final(u) == Output(r.nextSeq + Cardinality({v \in due : v < u}), u, TRUE, r.turns[u])
           outputs == {Final(u) : u \in due}
           confirmed == Max({r.confirmed} \union {r.turns[u].to : u \in due})
           s == [r EXCEPT !.out = @ \union outputs, !.nextSeq = @ + Cardinality(due),
                          !.finalized = @ \union due, !.confirmed = confirmed,
                          !.turns = Without(@, due), !.openTurn = NoTurn,
                          !.acceptsRoot = FALSE, !.openSince = NoTick]
<1>1. FinalizeTurnNow(r, t) = s
  BY DEF FinalizeTurnNow, FinalizeUpTo, ClearOpenTurn
<1>2. /\ s.turn = r.turn /\ s.segments = r.segments /\ s.turnCheck = r.turnCheck
      /\ s.inFlight = r.inFlight /\ s.runner = r.runner
      /\ s.up = r.up /\ s.out = r.out \union outputs /\ s.confirmed = confirmed
      /\ s.acceptsRoot = FALSE /\ s.newTurns = r.newTurns /\ s.epoch = r.epoch
      /\ s.openEpoch = r.openEpoch /\ s.openSince = NoTick
      /\ s.turns = Without(r.turns, due)
  BY DEF Consistent, Fields
<1>3. \A u \in DOMAIN r.turns : r.turns[u] \in TurnDraft
  BY DEF Sound, Typed
<1>4. /\ DOMAIN s.turns = DOMAIN r.turns \ due
      /\ \A u \in DOMAIN s.turns : s.turns[u] = r.turns[u]
  BY <1>2 DEF Without
<1>5. \A u : Final(u).final = TRUE /\ Final(u).audio = r.turns[u].audio
  BY DEF Output
<1>6. confirmed \in Int
  <2> DEFINE f == [u \in due |-> r.turns[u].to]
             n == r.nextTurn - 1
  <2>1. n \in Nat /\ due \in SUBSET (1..n)
    BY DEF Consistent, Known
  <2>2. \A u \in due : f[u] \in Int /\ f[u] = r.turns[u].to
    BY <1>3 DEF TurnDraft
  <2>3. r.confirmed \in Int
    BY DEF Sound, Typed
  <2> DEFINE I == {r.turns[u].to : u \in due}
  <2>4. /\ \A u \in due : f[u] \in Int /\ f[u] \in I
        /\ \A x \in I : \E u \in due : x = f[u]
    BY <2>2
  <2>5. confirmed = Max({r.confirmed} \union I)
    OBVIOUS
  <2> HIDE DEF f, n, due, I, confirmed
  <2>6. Max({r.confirmed} \union I) \in Int
    <3>1. PICK c, m, D, g, J : c = r.confirmed /\ m = n /\ D = due /\ g = f /\ J = I
      OBVIOUS
    <3>2. /\ c \in Int /\ m \in Nat /\ D \in SUBSET (1..m)
          /\ \A u \in D : g[u] \in Int /\ g[u] \in J
          /\ \A x \in J : \E u \in D : x = g[u]
      BY <2>1, <2>3, <2>4, <3>1
    <3>3. Max({c} \union J) \in Int
      BY <3>2, GreatestOf
    <3> QED BY <3>1, <3>3
  <2> QED BY <2>5, <2>6
<1> HIDE DEF s, confirmed
<1>7. FinalsOf(s) = FinalsOf(r) \union outputs
  <2> HIDE DEF Final
  <2>1. \A o \in outputs : o.final = TRUE
    BY <1>5
  <2> HIDE DEF outputs
  <2> QED BY <1>2, <2>1 DEF FinalsOf
<1>8. Typed(s)
  <2>1. \A o \in s.out : o.audio \in Seq(Turn)
    <3>1. \A u \in due : Final(u).audio \in Seq(Turn)
      BY <1>3, <1>5 DEF TurnDraft
    <3> HIDE DEF Final, due
    <3> QED BY <1>2, <3>1 DEF Sound, Typed
  <2> HIDE DEF outputs, due
  <2> QED BY <1>2, <1>3, <1>4, <1>6, <2>1 DEF Sound, Typed
<1>9. OriginOK(s, b)
  BY <1>2 DEF Sound, OriginOK
<1> HIDE DEF Final
<1>10. AudioOK(s)
  <2>1. AudioOK(r)
    BY DEF Sound, Spoken
  <2>2. \A x \in DOMAIN s.turns : Rising(s.turns[x].audio)
    BY <1>4, <2>1 DEF AudioOK
  <2>3. \A o \in FinalsOf(s) : Rising(o.audio)
    BY <1>5, <1>7, <2>1 DEF AudioOK
  <2>4. \A x, u \in DOMAIN s.turns :
          x # u => Ids(s.turns[x].audio) \intersect Ids(s.turns[u].audio) = {}
    BY <1>4, <2>1 DEF AudioOK
  <2>5. \A o, p \in FinalsOf(s) : o # p => Ids(o.audio) \intersect Ids(p.audio) = {}
    <3>1. ASSUME NEW o \in FinalsOf(r), NEW p \in outputs
          PROVE  Ids(o.audio) \intersect Ids(p.audio) = {}
      BY <1>5, <2>1 DEF AudioOK
    <3>2. ASSUME NEW o \in outputs, NEW p \in outputs, o # p
          PROVE  Ids(o.audio) \intersect Ids(p.audio) = {}
      <4>1. PICK x \in due : o = Final(x)
        OBVIOUS
      <4>2. PICK u \in due : p = Final(u)
        OBVIOUS
      <4>3. x # u
        BY <3>2, <4>1, <4>2
      <4> QED BY <1>5, <2>1, <4>1, <4>2, <4>3 DEF AudioOK
    <3>3. ASSUME NEW o \in FinalsOf(r), NEW p \in FinalsOf(r), o # p
          PROVE  Ids(o.audio) \intersect Ids(p.audio) = {}
      BY <2>1, <3>3 DEF AudioOK
    <3> HIDE DEF outputs
    <3> QED BY <1>7, <3>1, <3>2, <3>3
  <2>6. \A x \in DOMAIN s.turns, o \in FinalsOf(s) :
          Ids(s.turns[x].audio) \intersect Ids(o.audio) = {}
    <3>1. ASSUME NEW x \in DOMAIN s.turns, NEW o \in outputs
          PROVE  Ids(s.turns[x].audio) \intersect Ids(o.audio) = {}
      <4>1. PICK u \in due : o = Final(u)
        OBVIOUS
      <4> QED BY <1>4, <1>5, <2>1, <4>1 DEF AudioOK
    <3>2. ASSUME NEW x \in DOMAIN s.turns, NEW o \in FinalsOf(r)
          PROVE  Ids(s.turns[x].audio) \intersect Ids(o.audio) = {}
      BY <1>4, <2>1 DEF AudioOK
    <3> QED BY <1>7, <3>1, <3>2
  <2> QED BY <2>2, <2>3, <2>4, <2>5, <2>6 DEF AudioOK
<1>11. ASSUME NEW m, HeardBefore(r, m) PROVE HeardBefore(s, m)
  BY <1>4, <1>5, <1>7, <1>11 DEF HeardBefore
<1>12. InTurn(s, s.inFlight, b)
  BY <1>2, <1>11 DEF Sound, Spoken, InTurn
<1>13. Spoken(s, b)
  BY <1>2, <1>10, <1>11, <1>12 DEF Sound, Spoken
<1> QED BY <1>1, <1>8, <1>9, <1>13 DEF Sound

LEMMA CompleteSound ==
  ASSUME NEW r, NEW b, NEW t \in Nat, Consistent(r), Sound(r, b)
  PROVE  Sound(CompleteTurn(r, t), b)
<1>1. CompleteTurn(r, t) \in
        {[r EXCEPT !.finalization = r.finalization], [r EXCEPT !.finalization = t],
         FinalizeTurnNow(r, t)}
  BY DEF CompleteTurn
<1> QED BY <1>1, DeferredSound, FinalizeSound

LEMMA KeepOpenSound ==
  ASSUME NEW r, NEW b, NEW t, NEW interim, b.tick \in Nat, Consistent(r), Sound(r, b),
         t \in DOMAIN r.turns
  PROVE  Sound(KeepTurnOpen(r, t, b.tick, interim), b)
<1> DEFINE s == [r EXCEPT !.openTurn = t, !.acceptsRoot = TRUE]
           open == ResetTimeoutOrigin(s, b.tick)
<1>1. Consistent(s) /\ Consistent(open)
  <2>1. Consistent(s)
    BY OpenQuiet, QuietKeeps
  <2> HIDE DEF s
  <2> QED BY <2>1, OriginQuiet, QuietKeeps
<1>2. Sound(s, b)
  BY OpenSound
<1>3. KeepTurnOpen(r, t, b.tick, interim) = IF interim THEN EmitInterim(open, t) ELSE open
  BY DEF KeepTurnOpen
<1> HIDE DEF s
<1>4. Sound(open, b)
  BY <1>1, <1>2, OriginSound
<1> HIDE DEF open
<1> QED BY <1>1, <1>3, <1>4, EmitInterimSound

LEMMA FollowUpSound ==
  ASSUME NEW r, NEW b, NEW t \in Nat, NEW purpose, NEW decision, NEW interim,
         b.tick \in Nat, Consistent(r), Sound(r, b)
  PROVE  Sound(FollowUp(r, t, purpose, decision, b.tick, interim), b)
<1>1. \/ FollowUp(r, t, purpose, decision, b.tick, interim)
           \in {CompleteTurn(r, t), FinalizeTurnNow(r, t), r}
      \/ /\ t \in DOMAIN r.turns
         /\ FollowUp(r, t, purpose, decision, b.tick, interim)
              = KeepTurnOpen(r, t, b.tick, interim)
  BY DEF FollowUp
<1> QED BY <1>1, CompleteSound, FinalizeSound, KeepOpenSound

LEMMA FallbackSound ==
  ASSUME NEW r, NEW b, NEW t, NEW decision, NEW interim, b.tick \in Nat,
         Consistent(r), Sound(r, b), t \in DOMAIN r.turns
  PROVE  Sound(FallbackCompletion(r, t, decision, b.tick, interim), b)
<1>1. t \in Nat
  BY TurnsAreNumbers DEF Known
<1> QED BY <1>1, CompleteSound, KeepOpenSound DEF FallbackCompletion

-----------------------------------------------------------------------------
(* Results. *)

LEMMA JoinedRising ==
  ASSUME NEW a \in Seq(Turn), NEW c \in Seq(Turn), Rising(a), Rising(c),
         \A x \in Ids(a), y \in Ids(c) : x < y
  PROVE  /\ a \o c \in Seq(Turn) /\ Rising(a \o c)
         /\ \A x : x \in Ids(a \o c) <=> x \in Ids(a) \/ x \in Ids(c)
<1> DEFINE w == a \o c
           m == Len(a)
           n == Len(c)
<1>1. /\ w \in Seq(Turn) /\ Len(w) = m + n
      /\ \A i \in 1..m : w[i] = a[i]
      /\ \A i \in (m + 1)..(m + n) : w[i] = c[i - m]
  BY JoinIs
<1>2. /\ m \in Nat /\ n \in Nat
      /\ DOMAIN a = 1..m /\ DOMAIN c = 1..n /\ DOMAIN w = 1..(m + n)
  BY <1>1
<1>3. a \in [1..m -> Turn] /\ c \in [1..n -> Turn]
  OBVIOUS
<1> HIDE DEF w, m, n
<1>4. \A i \in 1..m : a[i] \in Nat /\ a[i] \in Ids(a)
  BY <1>2, <1>3 DEF Ids, Turn
<1>5. \A i \in 1..n : c[i] \in Nat /\ c[i] \in Ids(c)
  BY <1>2, <1>3 DEF Ids, Turn
<1>6. Rising(w)
  <2> SUFFICES ASSUME NEW i \in 1..(m + n), NEW j \in 1..(m + n), i < j
               PROVE  w[i] < w[j]
    BY <1>2 DEF Rising
  <2>1. CASE j <= m
    <3>1. i \in 1..m /\ j \in 1..m
      BY <1>2, <2>1
    <3>2. a[i] < a[j]
      BY <1>2, <3>1 DEF Rising
    <3> QED BY <1>1, <3>1, <3>2
  <2>2. CASE i <= m /\ ~(j <= m)
    <3>1. i \in 1..m /\ j \in (m + 1)..(m + n) /\ j - m \in 1..n
      BY <1>2, <2>2
    <3>2. a[i] < c[j - m]
      BY <1>4, <1>5, <3>1
    <3> QED BY <1>1, <3>1, <3>2
  <2>3. CASE ~(i <= m)
    <3>1. /\ i \in (m + 1)..(m + n) /\ j \in (m + 1)..(m + n)
          /\ i - m \in 1..n /\ j - m \in 1..n /\ i - m < j - m
      BY <1>2, <2>3
    <3>2. c[i - m] < c[j - m]
      BY <1>2, <3>1 DEF Rising
    <3> QED BY <1>1, <3>1, <3>2
  <2> QED BY <2>1, <2>2, <2>3
<1>7. ASSUME NEW x PROVE x \in Ids(w) <=> x \in Ids(a) \/ x \in Ids(c)
  <2>1. ASSUME x \in Ids(w) PROVE x \in Ids(a) \/ x \in Ids(c)
    <3>1. PICK i \in 1..(m + n) : x = w[i]
      BY <1>2, <2>1 DEF Ids
    <3>2. i \in 1..m \/ (i \in (m + 1)..(m + n) /\ i - m \in 1..n)
      BY <1>2
    <3> QED BY <1>1, <1>4, <1>5, <3>1, <3>2
  <2>2. ASSUME x \in Ids(a) PROVE x \in Ids(w)
    <3>1. PICK i \in 1..m : x = a[i]
      BY <1>2, <2>2 DEF Ids
    <3>2. i \in 1..(m + n)
      BY <1>2
    <3> QED BY <1>1, <1>2, <3>1, <3>2 DEF Ids
  <2>3. ASSUME x \in Ids(c) PROVE x \in Ids(w)
    <3>1. PICK i \in 1..n : x = c[i]
      BY <1>2, <2>3 DEF Ids
    <3>2. i + m \in (m + 1)..(m + n) /\ i + m \in 1..(m + n) /\ (i + m) - m = i
      BY <1>2
    <3>3. w[i + m] = c[i]
      BY <1>1, <3>2
    <3> QED BY <1>2, <3>1, <3>2, <3>3 DEF Ids
  <2> QED BY <2>1, <2>2, <2>3
<1> QED BY <1>1, <1>6, <1>7 DEF w

LEMMA ApplyTranscriptSound ==
  ASSUME NEW r, NEW b, NEW q \in Request, Consistent(r), Sound(r, b), InTurn(r, q, b),
         r.inFlight = NoRequest, q.kind \in {"InterimDisplay", "CompletionCheck"}
  PROVE  Sound(ApplyTranscript(r, q), b)
<1> DEFINE t == TurnOf(r, q)
           draft == Draft(r, t, q)
           next == IF UnresolvedNew(r, q) \/ q.target # New
                   THEN Max({r.nextTurn, t + 1}) ELSE r.nextTurn
           given == IF UnresolvedNew(r, q) THEN Put(r.newTurns, q.first, t) ELSE r.newTurns
           heard == [draft EXCEPT !.audio = @ \o q.segments, !.latest = q.last,
                              !.emitted = IF @ = "never" THEN @ ELSE "stale",
                              !.from = Min({@, q.from}), !.to = Max({@, q.to})]
           s == [r EXCEPT !.turns = Put(@, t, heard), !.nextTurn = next, !.newTurns = given]
<1>1. ApplyTranscript(r, q) = s
  BY Zenon DEF ApplyTranscript
<1>2. /\ s.turn = r.turn /\ s.segments = r.segments /\ s.turnCheck = r.turnCheck
      /\ s.inFlight = r.inFlight /\ s.runner = r.runner
      /\ s.up = r.up /\ s.out = r.out /\ s.confirmed = r.confirmed
      /\ s.acceptsRoot = r.acceptsRoot /\ s.newTurns = given /\ s.epoch = r.epoch
      /\ s.openEpoch = r.openEpoch /\ s.openSince = r.openSince
      /\ s.turns = Put(r.turns, t, heard)
  BY DEF Consistent, Fields
<1> HIDE DEF s
<1>3. \A u \in DOMAIN r.turns : r.turns[u] \in TurnDraft
  BY DEF Sound, Typed
<1>4. /\ q.segments \in Seq(Turn) /\ q.last \in Turn /\ q.from \in Int /\ q.to \in Int
      /\ q.first \in Turn
  BY DEF Request
<1>5. /\ DOMAIN draft = {"audio", "first", "latest", "revision", "emitted", "from", "to"}
      /\ draft.audio \in Seq(Turn) /\ draft.first \in Turn /\ draft.revision \in {0, 1}
      /\ draft.emitted \in {"never", "stale", "current"}
      /\ draft.from \in Int /\ draft.to \in Int
      /\ Rising(draft.audio)
      /\ \/ t \in DOMAIN r.turns /\ draft = r.turns[t]
         \/ t \notin DOMAIN r.turns /\ draft.audio = << >>
  <2> HIDE DEF t
  <2>1. CASE t \in DOMAIN r.turns
    <3>1. draft = r.turns[t] /\ r.turns[t] \in TurnDraft
      BY <1>3, <2>1 DEF Draft
    <3>2. Rising(r.turns[t].audio)
      BY <2>1 DEF Sound, Spoken, AudioOK
    <3> HIDE DEF draft
    <3> QED BY <2>1, <3>1, <3>2 DEF TurnDraft
  <2>2. CASE t \notin DOMAIN r.turns
    <3>1. draft = [audio |-> << >>, first |-> q.last, latest |-> 0, emitted |-> "never",
                   revision |-> Revision(r, t), from |-> q.from, to |-> q.to]
      BY <2>2 DEF Draft
    <3>2. Revision(r, t) \in {0, 1}
      BY DEF Revision
    <3>3. << >> \in Seq(Turn) /\ Rising(<< >>)
      BY DEF Rising
    <3> HIDE DEF draft
    <3> QED BY <1>4, <2>2, <3>1, <3>2, <3>3
  <2> QED BY <2>1, <2>2
<1> HIDE DEF draft
<1>6. /\ Rising(q.segments)
      /\ \A x \in Ids(q.segments) :
           x < b.next /\ HeardBefore(r, x) /\ \A i \in DOMAIN r.segments : x < r.segments[i].id
  BY DEF InTurn
<1>7. \A x \in Ids(draft.audio), y \in Ids(q.segments) : x < y
  <2>1. Ids(<< >>) = {}
    BY DEF Ids
  <2> HIDE DEF t
  <2> QED BY <1>5, <1>6, <2>1 DEF HeardBefore
<1>8. /\ heard.audio \in Seq(Turn) /\ Rising(heard.audio)
      /\ \A x : x \in Ids(heard.audio) <=> x \in Ids(draft.audio) \/ x \in Ids(q.segments)
  <2>1. heard.audio = draft.audio \o q.segments
    BY <1>5
  <2> HIDE DEF heard
  <2>2. /\ draft.audio \o q.segments \in Seq(Turn) /\ Rising(draft.audio \o q.segments)
        /\ \A x : x \in Ids(draft.audio \o q.segments)
                    <=> x \in Ids(draft.audio) \/ x \in Ids(q.segments)
    <3>1. draft.audio \in Seq(Turn) /\ q.segments \in Seq(Turn)
      BY <1>4, <1>5
    <3> QED BY <1>5, <1>6, <1>7, <3>1, JoinedRising
  <2> QED BY <2>1, <2>2
<1>9. heard \in TurnDraft
  <2>1. Min({draft.from, q.from}) \in Int /\ Max({draft.to, q.to}) \in Int
    BY <1>4, <1>5, LesserIsMin, GreaterIsMax
  <2>2. /\ DOMAIN heard = {"audio", "first", "latest", "revision", "emitted", "from", "to"}
        /\ heard.first = draft.first /\ heard.latest = q.last
        /\ heard.revision = draft.revision
        /\ heard.emitted \in {draft.emitted, "stale"}
        /\ heard.from = Min({draft.from, q.from}) /\ heard.to = Max({draft.to, q.to})
    BY <1>5
  <2>3. heard = [x \in {"audio", "first", "latest", "revision", "emitted", "from", "to"} |-> heard[x]]
    BY <1>5
  <2> HIDE DEF heard
  <2> QED BY <1>4, <1>5, <1>8, <2>1, <2>2, <2>3 DEF TurnDraft
<1> HIDE DEF heard, t
<1>10. /\ DOMAIN s.turns = DOMAIN r.turns \union {t}
       /\ s.turns[t] = heard
       /\ \A u \in DOMAIN r.turns : u # t => s.turns[u] = r.turns[u]
  BY <1>2 DEF Put
<1>11. DOMAIN given \subseteq Turn
  <2>1. DOMAIN r.newTurns \subseteq Turn
    BY DEF Sound, Typed
  <2> QED BY <1>4, <2>1 DEF Put
<1> HIDE DEF given
<1>12. Typed(s)
  BY <1>2, <1>3, <1>9, <1>10, <1>11 DEF Sound, Typed
<1>13. OriginOK(s, b)
  BY <1>2 DEF Sound, OriginOK
<1>14. FinalsOf(s) = FinalsOf(r)
  BY <1>2 DEF FinalsOf
<1>15. AudioOK(r) /\ HeardBefore(r, b.next)
  BY DEF Sound, Spoken
\* What is heard is new.
<1>16. /\ \A u \in DOMAIN r.turns : u # t => Ids(heard.audio) \intersect Ids(r.turns[u].audio) = {}
       /\ \A o \in FinalsOf(r) : Ids(heard.audio) \intersect Ids(o.audio) = {}
  <2>1. \A x \in Ids(q.segments) : x \in Nat
    <3>1. q.segments \in [1..Len(q.segments) -> Turn]
      BY <1>4
    <3> QED BY <3>1 DEF Ids, Turn
  <2>2. \A x \in Ids(q.segments) :
          /\ \A u \in DOMAIN r.turns : x \notin Ids(r.turns[u].audio)
          /\ \A o \in FinalsOf(r) : x \notin Ids(o.audio)
    BY <1>6, <2>1 DEF HeardBefore
  <2>3. \A x \in Ids(draft.audio) :
          /\ \A u \in DOMAIN r.turns : u # t => x \notin Ids(r.turns[u].audio)
          /\ \A o \in FinalsOf(r) : x \notin Ids(o.audio)
    <3>1. Ids(<< >>) = {}
      BY DEF Ids
    <3> QED BY <1>5, <1>15, <3>1 DEF AudioOK
  <2> QED BY <1>8, <2>2, <2>3
<1>17. AudioOK(s)
  <2>1. \A x \in DOMAIN s.turns : Rising(s.turns[x].audio)
    BY <1>8, <1>10, <1>15 DEF AudioOK
  <2>2. \A x, u \in DOMAIN s.turns :
          x # u => Ids(s.turns[x].audio) \intersect Ids(s.turns[u].audio) = {}
    BY <1>10, <1>15, <1>16 DEF AudioOK
  <2>3. \A x \in DOMAIN s.turns, o \in FinalsOf(s) :
          Ids(s.turns[x].audio) \intersect Ids(o.audio) = {}
    BY <1>10, <1>14, <1>15, <1>16 DEF AudioOK
  <2> QED BY <1>14, <1>15, <2>1, <2>2, <2>3 DEF AudioOK
<1>18. ASSUME NEW m, HeardBefore(r, m), \A x \in Ids(q.segments) : x < m
       PROVE  HeardBefore(s, m)
  <2>1. \A x \in Ids(draft.audio) : x < m
    <3>1. Ids(<< >>) = {}
      BY DEF Ids
    <3> QED BY <1>5, <1>18, <3>1 DEF HeardBefore
  <2> QED BY <1>8, <1>10, <1>14, <1>18, <2>1 DEF HeardBefore
<1>19. Spoken(s, b)
  <2>1. HeardBefore(s, b.next)
    BY <1>6, <1>15, <1>18
  <2>2. \A i \in DOMAIN r.segments :
          r.segments[i].id < b.next /\ HeardBefore(s, r.segments[i].id)
    BY <1>6, <1>18 DEF Sound, Spoken
  <2>3. InTurn(s, s.inFlight, b)
    BY <1>2 DEF InTurn, NoRequest
  <2> QED BY <1>2, <1>17, <2>1, <2>2, <2>3 DEF Sound, Spoken
<1> QED BY <1>1, <1>12, <1>13, <1>19 DEF Sound

LEMMA ApplyInterimSound ==
  ASSUME NEW r, NEW b, NEW q \in Request, Consistent(r), Sound(r, b), InTurn(r, q, b),
         KnownTarget(r, q), ~IsStale(r, q), r.inFlight = NoRequest, q.kind = "InterimDisplay"
  PROVE  Sound(ApplyInterim(r, q), b)
<1> DEFINE t == TurnOf(r, q)
           s == ApplyTranscript(r, q)
           z == EmitInterim(s, t)
           root == z.acceptsRoot /\ r.openTurn = t
           open == [z EXCEPT !.openTurn = t, !.acceptsRoot = root]
<1>1. Sound(s, b)
  BY ApplyTranscriptSound
<1>2. Consistent(s) /\ t \in DOMAIN s.turns
  BY ApplyTranscriptHeard DEF Heard
<1>3. ApplyInterim(r, q) =
        IF r.openTurn > t THEN z ELSE [z EXCEPT !.openTurn = t, !.acceptsRoot = @ /\ r.openTurn = t]
  BY DEF ApplyInterim
<1> HIDE DEF s, t
<1>4. Sound(z, b) /\ Consistent(z)
  BY <1>1, <1>2, EmitInterimSound, EmitInterimMoves DEF Moves
<1> HIDE DEF z
<1>5. ApplyInterim(r, q) \in {z, open}
  <2>1. "acceptsRoot" \in DOMAIN z
    BY <1>4 DEF Consistent, Fields
  <2> QED BY <1>3, <2>1
<1>6. Sound(open, b)
  <2>1. root \in BOOLEAN
    BY DEF root
  <2> HIDE DEF root
  <2> QED BY <1>4, <2>1, OpenSound
<1> HIDE DEF open
<1> QED BY <1>4, <1>5, <1>6

LEMMA PurposeIs ==
  ASSUME NEW r
  PROVE  CompletionPurpose(r) \in {"None", "GrammarAfterCompletion", "SimpleTurnCheckFinal", "TimeoutFinal"}
  BY DEF CompletionPurpose

LEMMA ApplyCompletionSound ==
  ASSUME NEW r, NEW b, NEW q \in Request, Consistent(r), Sound(r, b), InTurn(r, q, b),
         KnownTarget(r, q), ~IsStale(r, q), r.inFlight = NoRequest, q.kind = "CompletionCheck"
  PROVE  Sound(ApplyCompletion(r, q), b)
<1> DEFINE t == TurnOf(r, q)
           s == ApplyTranscript(r, q)
           purpose == CompletionPurpose(r)
<1>1. Sound(s, b)
  BY ApplyTranscriptSound
<1>2. Consistent(s) /\ t \in DOMAIN s.turns
  BY ApplyTranscriptHeard DEF Heard
<1>3. ApplyCompletion(r, q) \in {Rerecognize(s, t, purpose), CompleteTurn(s, t)}
  BY DEF ApplyCompletion
<1>4. purpose \in {"None", "GrammarAfterCompletion", "SimpleTurnCheckFinal", "TimeoutFinal"}
  BY PurposeIs
<1> HIDE DEF s, t, purpose
<1>5. t \in Nat
  BY <1>2, TurnsAreNumbers DEF Known
<1> QED BY <1>1, <1>2, <1>3, <1>4, <1>5, RerecognizeSound, CompleteSound

LEMMA UnusableSound ==
  ASSUME NEW r, NEW b, NEW q, NEW decision, NEW interim, b.tick \in Nat,
         Consistent(r), Sound(r, b), KnownTarget(r, q), q.kind # "None"
  PROVE  Sound(Unusable(r, q, decision, b.tick, interim), b)
<1> DEFINE t == EffectiveTurn(r, q)
           s == [r EXCEPT !.unheard = @ \union {q.segments[i] : i \in DOMAIN q.segments}]
<1>1. Sound(s, b) /\ Consistent(s) /\ DOMAIN s.turns = DOMAIN r.turns
  <2>1. PICK segments : segments = {q.segments[i] : i \in DOMAIN q.segments}
    OBVIOUS
  <2>2. s = [r EXCEPT !.unheard = @ \union segments]
    BY <2>1
  <2> HIDE DEF s
  <2>3. Sound(s, b) /\ Quiet(r, s)
    BY <2>2, UnheardSound, UnheardQuiet
  <2> QED BY <2>3, QuietKeeps DEF Quiet
<1>2. \/ /\ q.kind = "Rerecognition"
         /\ Unusable(r, q, decision, b.tick, interim) =
              FollowUp(r, t, q.purpose, decision, b.tick, interim)
      \/ /\ t \in DOMAIN r.turns
         /\ Unusable(r, q, decision, b.tick, interim) =
              FallbackCompletion(s, t, decision, b.tick, interim)
      \/ Unusable(r, q, decision, b.tick, interim) = s
  BY DEF Unusable
<1>3. q.kind = "Rerecognition" => t \in Nat
  <2>1. ASSUME q.kind = "Rerecognition" PROVE t \in Known(r)
    <3>1. q.target # New
      BY <2>1 DEF KnownTarget, Consistent, New
    <3> QED BY <2>1, <3>1 DEF KnownTarget, EffectiveTurn, Resolved
  <2>2. Known(r) \subseteq Nat
    BY TurnsAreNumbers
  <2> QED BY <2>1, <2>2
<1> HIDE DEF s, t
<1> QED BY <1>1, <1>2, <1>3, FollowUpSound, FallbackSound

LEMMA ApplyResultSound ==
  ASSUME NEW r, NEW b, NEW decision, NEW emitted \in {"stale", "current"}, NEW interim,
         b.tick \in Nat, Consistent(r), Sound(r, b), ResultReady(r)
  PROVE  Sound(ApplyResult(r, decision, emitted, b.tick, interim), b)
<1> DEFINE q == r.inFlight
           s == [r EXCEPT !.inFlight = NoRequest, !.runner = "idle"]
           z == ReplaceText(s, q.turn, emitted)
           u == Unusable(s, q, decision, b.tick, interim)
           f == FollowUp(z, q.turn, q.purpose, decision, b.tick, interim)
<1>1. Quiet(r, s) /\ Consistent(s) /\ Sound(s, b)
  BY AnsweredQuiet, QuietKeeps, AnsweredSound
<1>2. q \in Request
  BY DEF Sound, Typed, ResultReady, RunnerStates
<1>3. KnownTarget(s, q) /\ q.kind # "None"
  BY <1>1 DEF Consistent, KnownTarget, Known, Quiet, ResultReady
<1>4. s.inFlight = NoRequest /\ InTurn(s, q, b)
  <2>1. s.inFlight = NoRequest /\ s.turns = r.turns /\ s.out = r.out /\ s.segments = r.segments
    BY DEF Consistent, Fields
  <2>2. InTurn(r, q, b)
    BY DEF Sound, Spoken
  <2> HIDE DEF s, q
  <2> QED BY <2>1, <2>2, SpokenKept DEF SameAudio, FinalsOf
<1>5. \/ ApplyResult(r, decision, emitted, b.tick, interim) \in {s, u}
      \/ /\ ~IsStale(s, q) /\ q.kind = "InterimDisplay"
         /\ ApplyResult(r, decision, emitted, b.tick, interim) = ApplyInterim(s, q)
      \/ /\ ~IsStale(s, q) /\ q.kind = "CompletionCheck"
         /\ ApplyResult(r, decision, emitted, b.tick, interim) = ApplyCompletion(s, q)
      \/ /\ q.kind \notin {"InterimDisplay", "CompletionCheck"}
         /\ ApplyResult(r, decision, emitted, b.tick, interim) = f
  <2> DEFINE ai == ApplyInterim(s, q)
             ac == ApplyCompletion(s, q)
  <2>1. ApplyResult(r, decision, emitted, b.tick, interim) =
          CASE IsStale(s, q) -> s
            [] ~IsStale(s, q) /\ r.runner = "unusable" -> u
            [] OTHER ->
                 CASE q.kind = "InterimDisplay"  -> ai
                   [] q.kind = "CompletionCheck" -> ac
                   [] OTHER -> f
    BY Zenon DEF ApplyResult
  <2> HIDE DEF s, q, u, f, ai, ac
  <2>2. CASE IsStale(s, q)
    BY <2>1, <2>2
  <2>3. CASE ~IsStale(s, q) /\ r.runner = "unusable"
    BY <2>1, <2>3
  <2>4. CASE ~IsStale(s, q) /\ r.runner # "unusable"
    <3>1. ApplyResult(r, decision, emitted, b.tick, interim) =
            CASE q.kind = "InterimDisplay"  -> ai
              [] q.kind = "CompletionCheck" -> ac
              [] OTHER -> f
      BY <2>1, <2>4
    <3>2. CASE q.kind = "InterimDisplay"
      BY <2>4, <3>1, <3>2 DEF ai
    <3>3. CASE q.kind = "CompletionCheck"
      BY <2>4, <3>1, <3>3 DEF ac
    <3>4. CASE q.kind \notin {"InterimDisplay", "CompletionCheck"}
      BY <3>1, <3>4
    <3> QED BY <3>2, <3>3, <3>4
  <2> QED BY <2>2, <2>3, <2>4
<1> HIDE DEF s, q
<1>6. Sound(u, b)
  BY <1>1, <1>3, UnusableSound
<1>7. Sound(z, b) /\ Consistent(z)
  BY <1>1, ReplaceTextSound, ReplaceTextQuiet, QuietKeeps
<1> HIDE DEF u, z
<1>8. q.kind \notin {"InterimDisplay", "CompletionCheck"} => Sound(f, b)
  <2>1. q.turn \in Nat
    BY <1>2 DEF Request, Turn
  <2> QED BY <1>7, <2>1, FollowUpSound
<1> HIDE DEF f
<1>9. ~IsStale(s, q) /\ q.kind = "InterimDisplay" => Sound(ApplyInterim(s, q), b)
  BY <1>1, <1>2, <1>3, <1>4, ApplyInterimSound
<1>10. ~IsStale(s, q) /\ q.kind = "CompletionCheck" => Sound(ApplyCompletion(s, q), b)
  BY <1>1, <1>2, <1>3, <1>4, ApplyCompletionSound
<1> QED BY <1>1, <1>5, <1>6, <1>8, <1>9, <1>10

-----------------------------------------------------------------------------
(* Dispatch: a plan is taken from the front of the queue, the rest stays. *)

LEMMA RestInLine ==
  ASSUME NEW q \in Seq(Segment), InLine(q), NEW k \in 1..(Len(q) + 1)
  PROVE  /\ From(q, k) \in Seq(Segment) /\ InLine(From(q, k))
         /\ \A i \in DOMAIN From(q, k) : k + i - 1 \in DOMAIN q /\ From(q, k)[i] = q[k + i - 1]
<1> DEFINE w == From(q, k)
<1>1. /\ w \in Seq(Segment) /\ Len(w) = Len(q) + 1 - k
      /\ \A i \in 1..Len(w) : w[i] = q[k + i - 1] /\ k + i - 1 \in 1..Len(q)
  BY FromIs
<1> HIDE DEF w
<1>2. DOMAIN q = 1..Len(q) /\ DOMAIN w = 1..Len(w)
  BY <1>1
<1>3. \A i \in DOMAIN w : k + i - 1 \in DOMAIN q /\ w[i] = q[k + i - 1]
  BY <1>1, <1>2
<1>4. InLine(w)
  <2>1. \A i, j \in DOMAIN w : i < j => k + i - 1 < k + j - 1
    BY <1>1, <1>2
  <2>2. \A i, j \in DOMAIN w : i < j => w[i].id < w[j].id
    BY <1>3, <2>1 DEF InLine
  <2>3. \A i \in DOMAIN w : w[i].previous \in {0, w[i].id - 1}
    BY <1>3 DEF InLine
  <2> QED BY <2>2, <2>3 DEF InLine
<1> QED BY <1>1, <1>3, <1>4 DEF w

LEMMA RestSound ==
  ASSUME NEW r, NEW b, NEW rest \in Seq(Segment), Consistent(r), Sound(r, b),
         r.inFlight = NoRequest, InLine(rest),
         \A i \in DOMAIN rest : rest[i].id < b.next /\ HeardBefore(r, rest[i].id)
  PROVE  Sound([r EXCEPT !.segments = rest], b)
<1> DEFINE s == [r EXCEPT !.segments = rest]
<1>1. /\ s.turn = r.turn /\ s.segments = rest /\ s.turnCheck = r.turnCheck
      /\ s.inFlight = r.inFlight /\ s.runner = r.runner
      /\ s.up = r.up /\ s.turns = r.turns /\ s.out = r.out /\ s.confirmed = r.confirmed
      /\ s.acceptsRoot = r.acceptsRoot /\ s.newTurns = r.newTurns /\ s.epoch = r.epoch
      /\ s.openEpoch = r.openEpoch /\ s.openSince = r.openSince
  BY DEF Consistent, Fields
<1> HIDE DEF s
<1>2. Typed(s) /\ OriginOK(s, b) /\ SameAudio(r, s)
  BY <1>1 DEF Sound, Typed, OriginOK, SameAudio, FinalsOf
<1>3. Spoken(s, b)
  <2>1. AudioOK(s) /\ \A m : HeardBefore(r, m) => HeardBefore(s, m)
    BY <1>2, SameAudioKeeps DEF Sound, Spoken
  <2>2. InTurn(s, s.inFlight, b)
    BY <1>1 DEF InTurn, NoRequest
  <2> QED BY <1>1, <2>1, <2>2 DEF Sound, Spoken
<1>4. Sound(s, b)
  BY <1>2, <1>3 DEF Sound
<1> QED BY <1>4 DEF s

LEMMA PlanIs ==
  ASSUME NEW T, NEW q \in Seq(T), NEW i \in 1..Len(q), NEW end \in (i + 1)..(Len(q) + 1)
  PROVE  /\ SubSeq(q, i, end - 1) \in Seq(T) /\ Len(SubSeq(q, i, end - 1)) = end - i
         /\ \A j \in 1..(end - i) : SubSeq(q, i, end - 1)[j] = q[i + j - 1]
  OBVIOUS

LEMMA SegmentTurnIs ==
  ASSUME NEW s \in Segment
  PROVE  SegmentTurn(s) \in Turn
  BY DEF Segment, SegmentTurn, Turn

\* The request for a plan.
LEMMA SegmentRequestTyped ==
  ASSUME NEW r, NEW plan \in Seq(Segment), Len(plan) > 0, Consistent(r)
  PROVE  SegmentRequest(r, plan) \in Request
<1> DEFINE first == plan[1]
           last == plan[Len(plan)]
<1>1. first \in Segment /\ last \in Segment
  OBVIOUS
<1>2. /\ first.id \in Turn /\ last.id \in Turn
      /\ first.from \in Int /\ first.to \in Int /\ last.from \in Int /\ last.to \in Int
  BY <1>1 DEF Segment
<1>3. SegmentTurn(first) \in Turn
  BY <1>1, SegmentTurnIs
<1>4. [i \in DOMAIN plan |-> plan[i].id] \in Seq(Turn)
  <2>1. \A i \in 1..Len(plan) : plan[i] \in Segment
    OBVIOUS
  <2>2. \A i \in 1..Len(plan) : plan[i].id \in Turn
    BY <2>1 DEF Segment
  <2>3. DOMAIN plan = 1..Len(plan) /\ Len(plan) \in Nat
    OBVIOUS
  <2> QED BY <2>2, <2>3
<1> HIDE DEF first, last
<1>5. r.openTurn \in Nat
  BY OpenTurnIsNumber
<1>6. ProjectedTurn(r, first) \in Turn
  <2>1. ProjectedTurn(r, first) \in {first.id, r.openTurn, SegmentTurn(first)}
    BY DEF ProjectedTurn
  <2>2. ProjectedTurn(r, first) = r.openTurn => r.openTurn # NoTurn \/ ProjectedTurn(r, first) \in Turn
    BY <1>2, <1>3 DEF ProjectedTurn
  <2> QED BY <1>2, <1>3, <1>5, <2>1, <2>2 DEF Turn, NoTurn
<1>7. TargetTurn(r, first) \in Nat
  BY <1>5, <1>6 DEF TargetTurn, Turn, New
<1>8. Min({first.from, last.from}) \in Int /\ Max({first.to, last.to}) \in Int
  BY <1>2, LesserIsMin, GreaterIsMax
<1>9. Kind(first) \in {"InterimDisplay", "CompletionCheck", "Rerecognition"}
  BY DEF Kind
<1>10. Revision(r, TargetTurn(r, first)) \in {0, 1}
  BY DEF Revision
<1>11. SegmentRequest(r, plan) =
        [kind |-> Kind(first), turn |-> ProjectedTurn(r, first),
         target |-> TargetTurn(r, first),
         revision |-> Revision(r, TargetTurn(r, first)),
         from |-> Min({first.from, last.from}), to |-> Max({first.to, last.to}),
         first |-> SegmentTurn(first), last |-> last.id,
         segments |-> [i \in DOMAIN plan |-> plan[i].id], purpose |-> "None"]
  BY Zenon DEF SegmentRequest, first, last
<1> QED BY <1>2, <1>3, <1>4, <1>6, <1>7, <1>8, <1>9, <1>10, <1>11 DEF Request

LEMMA DispatchSound ==
  ASSUME NEW r, NEW b, Consistent(r), Sound(r, b)
  PROVE  Sound(Dispatch(r), b)
<1>1. CASE InFlight(r)
  BY <1>1 DEF Dispatch
<1>2. CASE ~InFlight(r)
  <2> DEFINE q == DropCoveredInterims(r.segments)
             i == NextPlan(r, q)
             end == i + PlanLength(r, q, i)
             rest == SubSeq(q, end, Len(q))
             plan == SubSeq(q, i, end - 1)
             s == [r EXCEPT !.segments = rest]
             request == SegmentRequest(r, plan)
  <2>1. Dispatch(r) = IF i > Len(q) THEN [r EXCEPT !.segments = << >>] ELSE Submit(s, request)
    BY <1>2 DEF Dispatch
  <2>2. r.inFlight = NoRequest
    BY <1>2 DEF InFlight
  <2>3. /\ r.segments \in Seq(Segment) /\ InLine(r.segments)
        /\ \A j \in DOMAIN r.segments :
             r.segments[j].id < b.next /\ HeardBefore(r, r.segments[j].id)
    BY DEF Sound, Typed, Spoken
  <2>4. /\ q \in Seq(Segment) /\ InLine(q)
        /\ \A j \in DOMAIN q : q[j].id < b.next /\ HeardBefore(r, q[j].id)
    <3>1. q = r.segments \/ (Len(r.segments) >= 2 /\ q = From(r.segments, 2))
      BY <2>3, DropIs
    <3> HIDE DEF q
    <3>2. CASE Len(r.segments) >= 2 /\ q = From(r.segments, 2)
      <4>1. 2 \in 1..(Len(r.segments) + 1)
        BY <2>3, <3>2
      <4>2. /\ q \in Seq(Segment) /\ InLine(q)
            /\ \A j \in DOMAIN q : 2 + j - 1 \in DOMAIN r.segments /\ q[j] = r.segments[2 + j - 1]
        BY <2>3, <3>2, <4>1, RestInLine
      <4> QED BY <2>3, <4>2
    <3> QED BY <2>3, <3>1, <3>2
  <2> HIDE DEF q
  <2>5. i \in 1..(Len(q) + 1) /\ Len(q) \in Nat
    BY <2>4, NextPlanIs
  <2> HIDE DEF i
  <2>6. CASE i > Len(q)
    <3>1. << >> \in Seq(Segment) /\ InLine(<< >>) /\ DOMAIN << >> = {}
      BY DEF InLine
    <3>2. Sound([r EXCEPT !.segments = << >>], b)
      BY <2>2, <3>1, RestSound
    <3> QED BY <2>1, <2>6, <3>2
  <2>7. CASE ~(i > Len(q))
    <3>1. i \in 1..Len(q)
      BY <2>5, <2>7
    <3>2. end \in (i + 1)..(Len(q) + 1)
      BY <2>4, <3>1, PlanLengthIs
    <3> HIDE DEF end
    <3>3. /\ rest \in Seq(Segment) /\ InLine(rest)
          /\ \A j \in DOMAIN rest : end + j - 1 \in DOMAIN q /\ rest[j] = q[end + j - 1]
      <4>1. end \in 1..(Len(q) + 1)
        BY <2>5, <3>1, <3>2
      <4>2. rest = From(q, end)
        BY DEF From
      <4> QED BY <2>4, <4>1, <4>2, RestInLine
    <3>4. /\ plan \in Seq(Segment) /\ Len(plan) = end - i
          /\ \A j \in 1..(end - i) : plan[j] = q[i + j - 1]
      BY <2>4, <3>1, <3>2, PlanIs
    <3> HIDE DEF rest, plan
    <3>5. Sound(s, b)
      BY <2>2, <2>4, <3>3, RestSound
    <3>6. Consistent(s)
      BY SegmentsQuiet, QuietKeeps
    <3>7. request \in Request
      <4>1. Len(plan) > 0
        BY <2>5, <3>1, <3>2, <3>4
      <4> QED BY <3>4, <4>1, SegmentRequestTyped
    <3>8. InTurn(s, request, b)
      <4>1. s.turns = r.turns /\ s.out = r.out /\ s.segments = rest
        BY DEF Consistent, Fields
      <4>2. request.segments = [j \in DOMAIN plan |-> plan[j].id] /\ DOMAIN plan = 1..(end - i)
        BY <3>4 DEF SegmentRequest
      <4>3. \A j \in 1..(end - i) : i + j - 1 \in DOMAIN q /\ i + j - 1 < end
        BY <2>4, <2>5, <3>1, <3>2
      <4>4. DOMAIN request.segments = 1..(end - i)
            /\ \A j \in 1..(end - i) : request.segments[j] = q[i + j - 1].id
        BY <3>4, <4>2
      <4> HIDE DEF request, s
      <4>5. Rising(request.segments)
        <5>1. \A j, k \in 1..(end - i) : j < k => i + j - 1 < i + k - 1
          BY <2>5, <3>1, <3>2
        <5> QED BY <2>4, <4>3, <4>4, <5>1 DEF Rising, InLine
      <4>6. ASSUME NEW x \in Ids(request.segments)
            PROVE  /\ x < b.next /\ HeardBefore(s, x)
                   /\ \A j \in DOMAIN s.segments : x < s.segments[j].id
        <5>1. PICK k \in 1..(end - i) : x = q[i + k - 1].id
          BY <4>4 DEF Ids
        <5>2. x < b.next /\ HeardBefore(r, x)
          BY <2>4, <4>3, <5>1
        <5>3. HeardBefore(s, x)
          BY <4>1, <5>2 DEF HeardBefore, FinalsOf
        <5>4. ASSUME NEW j \in DOMAIN rest PROVE x < rest[j].id
          <6>1. i + k - 1 < end + j - 1
            <7>1. DOMAIN rest = 1..Len(rest)
              BY <3>3
            <7> QED BY <2>5, <3>1, <3>2, <4>3, <7>1
          <6> QED BY <2>4, <3>3, <4>3, <5>1, <6>1 DEF InLine
        <5> QED BY <4>1, <5>2, <5>3, <5>4
      <4> QED BY <4>5, <4>6 DEF InTurn
    <3> HIDE DEF s, request
    <3>9. Sound(Submit(s, request), b)
      BY <3>5, <3>6, <3>7, <3>8, SubmitSound
    <3> QED BY <2>1, <2>7, <3>9
  <2> QED BY <2>6, <2>7
<1> QED BY <1>1, <1>2

-----------------------------------------------------------------------------
(* The turn check and the timeout. *)

\* A promoted interim has another reason; its id and its parent are the same.
\* The queue when segment k has been promoted in front of it.
Promoted(q, k) ==
  <<[q[k] EXCEPT !.reason = "EndSilenceReached"]>> \o SubSeq(q, k + 1, Len(q))

LEMMA PromotedInLine ==
  ASSUME NEW q \in Seq(Segment), InLine(q), NEW k \in 1..Len(q), NEW p, p = Promoted(q, k)
  PROVE  /\ p \in Seq(Segment) /\ InLine(p)
         /\ \A i \in DOMAIN p :
              /\ k + i - 1 \in DOMAIN q /\ p[i].id = q[k + i - 1].id
              /\ p[i].previous = q[k + i - 1].previous /\ p[i].to = q[k + i - 1].to
<1> DEFINE first == [q[k] EXCEPT !.reason = "EndSilenceReached"]
           a == <<first>>
           c == From(q, k + 1)
           n == Len(q)
<1>1. /\ first \in Segment /\ first.id = q[k].id /\ first.previous = q[k].previous
      /\ first.to = q[k].to
  <2>1. q[k] \in Segment
    OBVIOUS
  <2> QED BY <2>1 DEF Segment
<1> HIDE DEF first
<1>2. a \in Seq(Segment) /\ Len(a) = 1 /\ a[1] = first
  BY <1>1
<1>3. n \in Nat /\ k \in 1..n /\ DOMAIN q = 1..n
  OBVIOUS
<1>4. /\ c \in Seq(Segment) /\ Len(c) = n - k
      /\ \A i \in 1..(n - k) : c[i] = q[k + i]
  <2>1. k + 1 \in 1..(Len(q) + 1)
    BY <1>3
  <2>2. /\ From(q, k + 1) \in Seq(Segment) /\ Len(From(q, k + 1)) = Len(q) + 1 - (k + 1)
        /\ \A i \in 1..Len(From(q, k + 1)) : From(q, k + 1)[i] = q[(k + 1) + i - 1]
    BY <2>1, FromIs
  <2>3. n \in Nat /\ k \in Nat
    BY <1>3
  <2> HIDE DEF c, n
  <2>4. n + 1 - (k + 1) = n - k /\ \A i \in 1..(n - k) : (k + 1) + i - 1 = k + i
    BY <2>3
  <2> QED BY <2>2, <2>4 DEF c, n
<1>5. p = a \o c
  BY Zenon DEF Promoted, From, first
<1> HIDE DEF a, c, n
<1>6. /\ a \o c \in Seq(Segment) /\ Len(a \o c) = Len(a) + Len(c)
      /\ \A i \in 1..Len(a) : (a \o c)[i] = a[i]
      /\ \A i \in (Len(a) + 1)..(Len(a) + Len(c)) : (a \o c)[i] = c[i - Len(a)]
  <2>1. a \in Seq(Segment) /\ c \in Seq(Segment)
    BY <1>2, <1>4
  <2> QED BY <2>1, JoinIs
<1> DEFINE m == n - k + 1
<1>7. m \in Nat /\ 1 + (n - k) = m
  BY <1>3
<1>8. p \in Seq(Segment) /\ Len(p) = m /\ DOMAIN p = 1..m
  <2>1. p \in Seq(Segment) /\ Len(p) = 1 + (n - k)
    BY <1>2, <1>4, <1>5, <1>6
  <2>2. DOMAIN p = 1..Len(p)
    BY <2>1
  <2> QED BY <1>7, <2>1, <2>2
<1>9. p[1] = first /\ \A i \in 2..m : p[i] = q[k + i - 1]
  <2>1. p[1] = first
    <3>1. 1 \in 1..1
      OBVIOUS
    <3> QED BY <1>2, <1>5, <1>6, <3>1
  <2>2. ASSUME NEW i \in 2..m PROVE p[i] = q[k + i - 1]
    <3>1. i \in (1 + 1)..(1 + (n - k)) /\ i - 1 \in 1..(n - k) /\ k + (i - 1) = k + i - 1
      BY <1>3
    <3> QED BY <1>2, <1>4, <1>5, <1>6, <3>1
  <2> QED BY <2>1, <2>2
<1>10. ASSUME NEW i \in DOMAIN p
       PROVE  /\ k + i - 1 \in DOMAIN q /\ p[i].id = q[k + i - 1].id
              /\ p[i].previous = q[k + i - 1].previous /\ p[i].to = q[k + i - 1].to
  <2>1. i \in 1..m /\ (i = 1 \/ i \in 2..m)
    BY <1>3, <1>8
  <2>2. k + i - 1 \in 1..n /\ k + 1 - 1 = k
    BY <1>3, <2>1
  <2> QED BY <1>1, <1>3, <1>9, <2>1, <2>2
<1>11. InLine(p)
  <2>1. \A i, j \in DOMAIN p : i < j => k + i - 1 < k + j - 1
    BY <1>3, <1>8
  <2>2. \A i, j \in DOMAIN p : i < j => p[i].id < p[j].id
    BY <1>10, <2>1 DEF InLine
  <2>3. \A i \in DOMAIN p : p[i].previous \in {0, p[i].id - 1}
    BY <1>10 DEF InLine
  <2> QED BY <2>2, <2>3 DEF InLine
<1> QED BY <1>8, <1>10, <1>11

LEMMA PromoteSound ==
  ASSUME NEW r, NEW b, NEW k \in DOMAIN r.segments, Consistent(r), Sound(r, b), ~InFlight(r)
  PROVE  Sound(Promote(r, k), b)
<1> DEFINE p == Promoted(r.segments, k)
           s == [r EXCEPT !.segments = p]
<1>1. /\ r.segments \in Seq(Segment) /\ InLine(r.segments)
      /\ \A j \in DOMAIN r.segments :
           r.segments[j].id < b.next /\ HeardBefore(r, r.segments[j].id)
  BY DEF Sound, Typed, Spoken
<1>2. Promote(r, k) = Dispatch(s)
  BY Zenon DEF Promote, Promoted
<1>3. PICK q : q = r.segments
  OBVIOUS
<1>4. /\ q \in Seq(Segment) /\ InLine(q) /\ k \in 1..Len(q)
      /\ p = Promoted(q, k)
  BY <1>1, <1>3
<1> HIDE DEF p
<1>5. /\ p \in Seq(Segment) /\ InLine(p)
      /\ \A i \in DOMAIN p : k + i - 1 \in DOMAIN q /\ p[i].id = q[k + i - 1].id
  BY <1>4, PromotedInLine
<1>6. \A i \in DOMAIN p : p[i].id < b.next /\ HeardBefore(r, p[i].id)
  BY <1>1, <1>3, <1>5
<1>7. Sound(s, b)
  <2>1. r.inFlight = NoRequest
    BY DEF InFlight
  <2> QED BY <1>5, <1>6, <2>1, RestSound
<1>8. Consistent(s)
  BY SegmentsQuiet, QuietKeeps
<1> HIDE DEF s
<1> QED BY <1>2, <1>7, <1>8, DispatchSound

LEMMA CheckOpenTurnSound ==
  ASSUME NEW r, NEW b, NEW t \in DOMAIN r.turns, Consistent(r), Sound(r, b)
  PROVE  Sound(CheckOpenTurn(r, t), b)
<1> DEFINE purpose == CompletionPurpose(r)
           c == CompleteTurn(r, t)
           q == Rerecognize(r, t, purpose)
<1>1. CheckOpenTurn(r, t) \in {Checked(c), Checked(q), r}
  BY DEF CheckOpenTurn
<1>2. purpose \in {"None", "GrammarAfterCompletion", "SimpleTurnCheckFinal", "TimeoutFinal"}
  BY PurposeIs
<1>3. t \in Nat
  BY TurnsAreNumbers DEF Known
<1>4. Consistent(c) /\ Consistent(q)
  <2>1. Consistent(c)
    BY <1>3, CompleteMoves DEF Moves
  <2>2. Quiet(r, q)
    BY RerecognizeQuiet
  <2> QED BY <2>1, <2>2, QuietKeeps
<1>5. Sound(c, b) /\ Sound(q, b)
  BY <1>2, <1>3, CompleteSound, RerecognizeSound
<1> HIDE DEF c, q
<1> QED BY <1>1, <1>4, <1>5, CheckedSound

LEMMA PromotableIs ==
  ASSUME NEW r, NEW previous, r.segments \in Seq(Segment), PromotableInterim(r, previous) # 0
  PROVE  /\ PromotableInterim(r, previous) \in DOMAIN r.segments
         /\ \A i \in 1..(PromotableInterim(r, previous) - 1) :
              Covers(r.segments[PromotableInterim(r, previous)], r.segments[i])
<1> DEFINE at == {i \in DOMAIN r.segments :
                   Kind(r.segments[i]) = "InterimDisplay" /\ r.segments[i].id = previous}
           k == Min(at)
<1>1. /\ at # {} /\ PromotableInterim(r, previous) = k
      /\ \A i \in 1..(k - 1) : Covers(r.segments[k], r.segments[i])
  BY DEF PromotableInterim
<1>2. at \in SUBSET Nat /\ at \subseteq DOMAIN r.segments
  OBVIOUS
<1> HIDE DEF at
<1> QED BY <1>1, <1>2, LeastOf

LEMMA HandleTurnCheckSound ==
  ASSUME NEW r, NEW b, Consistent(r), Sound(r, b)
  PROVE  Sound(HandleTurnCheck(r), b)
<1> DEFINE t == r.openTurn
           k == PromotableInterim(r, r.turnCheck.previous)
           s == Promote(r, k)
<1>1. \/ HandleTurnCheck(r) \in {r, Checked(r)}
      \/ ~InFlight(r) /\ k # 0 /\ HandleTurnCheck(r) \in {s, Checked(s)}
      \/ t \in DOMAIN r.turns /\ HandleTurnCheck(r) = CheckOpenTurn(r, t)
  BY DEF HandleTurnCheck
<1>2. ASSUME ~InFlight(r), k # 0 PROVE Sound(s, b) /\ Consistent(s)
  <2>1. k \in DOMAIN r.segments
    BY <1>2, PromotableIs DEF Sound, Typed
  <2> HIDE DEF k
  <2> QED BY <1>2, <2>1, PromoteSound, PromoteQuiet, QuietKeeps
<1> HIDE DEF s, k
<1> QED BY <1>1, <1>2, CheckedSound, CheckOpenTurnSound

LEMMA TimeoutSound ==
  ASSUME NEW r, NEW b, Consistent(r), Sound(r, b), r.openTurn # NoTurn
  PROVE  Sound(TimeoutOpenTurn(r), b)
<1>1. r.openTurn \in DOMAIN r.turns /\ r.openTurn \in Nat
  BY OpenTurnIsNumber DEF Consistent
<1>2. TimeoutOpenTurn(r) \in
        {Rerecognize(r, r.openTurn, "TimeoutFinal"), CompleteTurn(r, r.openTurn)}
  BY DEF TimeoutOpenTurn
<1> QED BY <1>1, <1>2, CompleteSound, RerecognizeSound

LEMMA RefreshSound ==
  ASSUME NEW r, NEW b, b.tick \in Nat, Consistent(r), Sound(r, b)
  PROVE  Sound(Dispatch(RefreshTimeout(r, b.tick)), b)
<1> DEFINE s == RefreshTimeout(r, b.tick)
<1>1. Sound(s, b) /\ Consistent(s)
  BY OriginSound, OriginQuiet, QuietKeeps DEF RefreshTimeout
<1> HIDE DEF s
<1> QED BY <1>1, DispatchSound DEF s

LEMMA FinalizePendingSound ==
  ASSUME NEW r, NEW b, Consistent(r), Sound(r, b)
  PROVE  Sound(FinalizeTurnNow([r EXCEPT !.finalization = NoTurn], r.finalization), b)
<1> DEFINE s == [r EXCEPT !.finalization = NoTurn]
<1>1. Sound(s, b) /\ Consistent(s)
  BY DeferredSound, DeferredQuiet, QuietKeeps DEF NoTurn
<1>2. r.finalization \in Nat
  BY DEF Consistent
<1> HIDE DEF s
<1> QED BY <1>1, <1>2, FinalizeSound DEF s

-----------------------------------------------------------------------------
(* The builder. *)

LEMMA GreatestIn ==
  ASSUME NEW n \in Nat, NEW S \in SUBSET (1..n), S # {}
  PROVE  Max(S) \in S /\ \A y \in S : y <= Max(S)
<1> DEFINE R == {k \in 0..n : n - k \in S}
<1>1. R \in SUBSET Nat /\ R # {}
  <2>1. PICK x : x \in S
    OBVIOUS
  <2>2. x \in 1..n
    BY <2>1
  <2>3. n - x \in 0..n /\ n - (n - x) = x
    BY <2>2
  <2>4. n - x \in R
    BY <2>1, <2>3
  <2>5. R \subseteq 0..n /\ 0..n \subseteq Nat
    OBVIOUS
  <2> QED BY <2>4, <2>5
<1>2. PICK k \in R : \A m \in R : k <= m
  <2> HIDE DEF R
  <2> QED BY <1>1, LeastNatural
<1>3. ASSUME NEW y \in S PROVE y <= n - k
  <2>1. y \in 1..n
    OBVIOUS
  <2>2. n - y \in 0..n /\ n - (n - y) = y
    BY <2>1
  <2>3. k <= n - y
    BY <1>2, <2>2
  <2> QED BY <1>2, <2>1, <2>3
<1>4. n - k \in S /\ \A y \in S : y <= n - k
  BY <1>2, <1>3
<1> HIDE DEF R
<1> QED BY <1>4 DEF Max

LEMMA PruneIs ==
  ASSUME NEW q \in Seq(Chunk), NEW max \in Nat \ {0}
  PROVE  Prune(q, max) \in Seq(Chunk)
<1> DEFINE k == IF Len(q) > max THEN Len(q) - max + 1 ELSE 1
<1>1. k \in 1..(Len(q) + 1)
  OBVIOUS
<1>2. Prune(q, max) = From(q, k)
  BY DEF Prune, From
<1> HIDE DEF k
<1> QED BY <1>1, <1>2, FromIs

LEMMA TrailingSilenceIs ==
  ASSUME NEW q \in Seq(Chunk)
  PROVE  TrailingSilence(q) \in Seq(Chunk)
<1> DEFINE spoken == {i \in DOMAIN q : q[i].speech}
           k == (IF spoken = {} THEN 0 ELSE Max(spoken)) + 1
<1>1. k \in 1..(Len(q) + 1)
  <2>1. spoken \in SUBSET (1..Len(q)) /\ Len(q) \in Nat
    OBVIOUS
  <2> HIDE DEF spoken
  <2>2. spoken # {} => Max(spoken) \in 1..Len(q)
    BY <2>1, GreatestIn
  <2> QED BY <2>1, <2>2
<1>2. TrailingSilence(q) = From(q, k)
  BY DEF TrailingSilence, From
<1> HIDE DEF k
<1> QED BY <1>1, <1>2, FromIs

LEMMA PaddingIs ==
  ASSUME NEW q \in Seq(Chunk)
  PROVE  Padding(q) \in Seq(Chunk)
<1>1. \A i \in 1..Len(q) : q[i] \in Chunk
  OBVIOUS
<1>2. \A c \in Chunk : [c EXCEPT !.source = FALSE] \in Chunk
  BY DEF Chunk
<1>3. \A i \in 1..Len(q) : [q[i] EXCEPT !.source = FALSE] \in Chunk
  BY <1>1, <1>2
<1>4. DOMAIN q = 1..Len(q) /\ Len(q) \in Nat
  OBVIOUS
<1> QED BY <1>3, <1>4 DEF Padding

LEMMA ConfigIs ==
  ASSUME config \in Configs
  PROVE  config.turnCheck \in Nat \ {0} /\ config.start \in Nat
  BY ConfigsAssumption DEF SegmentBuilderConfig

\* What an event tells a session whose builder goes from b to c.
EventOK(e, b, c) ==
  /\ e.type = "SegmentClosed" =>
       /\ e.id = b.next /\ e.previous \in {0, b.next - 1}
       /\ e.reason \in {"InterimResultSilenceReached", "SegmentMaxChunksReached",
                        "EndSilenceReached"}
       /\ Len(e.chunks) \in Nat
       /\ c.next = b.next + 1
  /\ e.type = "TurnCheckSilenceReached" => e.previous \in Nat

EventsOK(evs, b, c) ==
  /\ Len(evs) \in Nat /\ DOMAIN evs = 1..Len(evs)
  /\ b.next \in Turn /\ c.next \in {b.next, b.next + 1}
  /\ \A i \in DOMAIN evs : EventOK(evs[i], b, c)
  /\ c.active => \E i \in DOMAIN evs : evs[i].type \in {"SegmentStarted", "SegmentExtended"}

LEMMA AbsorbSound ==
  ASSUME NEW r, NEW evs, NEW cursor \in Int, NEW b, NEW c, Consistent(r), Sound(r, b),
         EventsOK(evs, b, c)
  PROVE  Sound(Absorb(r, evs, cursor), c)
<1> DEFINE active == {i \in DOMAIN evs : evs[i].type \in {"SegmentStarted", "SegmentExtended"}}
           closed == {i \in DOMAIN evs : evs[i].type = "SegmentClosed"}
           check  == {i \in DOMAIN evs : evs[i].type = "TurnCheckSilenceReached"}
           Pending(e) == [id |-> e.id, previous |-> e.previous, reason |-> e.reason,
                          from |-> cursor - Len(e.chunks), to |-> cursor]
           segment == Pending(evs[Min(closed)])
           reset == IF \E i \in closed : evs[i].reason = "EndSilenceReached"
                    THEN ResetStreamingSessions(r) ELSE r
           epoch == r.epoch + Cardinality(active)
           segments == IF closed = {} THEN r.segments ELSE Append(r.segments, segment)
           turnCheck == IF check = {} THEN r.turnCheck
                        ELSE [previous |-> evs[Min(check)].previous, epoch |-> r.epoch]
           s == Absorb(r, evs, cursor)
<1>1. /\ DOMAIN reset = Fields
      /\ reset.turn = r.turn /\ reset.segments = r.segments /\ reset.turnCheck = r.turnCheck
      /\ reset.inFlight = r.inFlight
      /\ reset.runner \in RunnerStates /\ (reset.runner = "idle" <=> r.runner = "idle")
      /\ reset.up = r.up /\ reset.turns = r.turns /\ reset.out = r.out
      /\ reset.confirmed = r.confirmed
      /\ reset.acceptsRoot = r.acceptsRoot /\ reset.newTurns = r.newTurns
      /\ reset.epoch = r.epoch /\ reset.openEpoch = r.openEpoch /\ reset.openSince = r.openSince
  <2>1. r.runner \in RunnerStates /\ DOMAIN r = Fields
    BY DEF Sound, Typed, Consistent
  <2> HIDE DEF closed
  <2> QED BY <2>1 DEF ResetStreamingSessions, Fields, RunnerStates
<1>2. s = [reset EXCEPT !.epoch = @ + Cardinality(active),
             !.segments = IF closed = {} THEN @ ELSE Append(@, segment),
             !.turnCheck = IF check = {} THEN @
                           ELSE [previous |-> evs[Min(check)].previous, epoch |-> r.epoch]]
  BY Zenon DEF Absorb
<1> HIDE DEF s, reset, segment, active, closed, check
<1>3. /\ s.turn = r.turn /\ s.segments = segments /\ s.turnCheck = turnCheck
      /\ s.inFlight = r.inFlight /\ s.runner = reset.runner
      /\ s.up = r.up /\ s.turns = r.turns /\ s.out = r.out /\ s.confirmed = r.confirmed
      /\ s.acceptsRoot = r.acceptsRoot /\ s.newTurns = r.newTurns /\ s.epoch = epoch
      /\ s.openEpoch = r.openEpoch /\ s.openSince = r.openSince
  BY <1>1, <1>2 DEF Fields
<1>4. Cardinality(active) \in Nat /\ (c.active => Cardinality(active) > 0)
  <2>1. active \subseteq 1..Len(evs) /\ Len(evs) \in Nat
    BY DEF active, EventsOK
  <2>2. IsFiniteSet(active)
    <3>1. PICK m \in Nat : m = Len(evs)
      BY <2>1
    <3>2. IsFiniteSet(1..m)
      BY FS_Interval
    <3> QED BY <2>1, <3>1, <3>2, FS_Subset
  <2>3. Cardinality(active) \in Nat
    BY <2>2, FS_CardinalityType
  <2>4. c.active => active # {}
    BY DEF active, EventsOK
  <2>5. active # {} => Cardinality(active) # 0
    BY <2>2, FS_EmptySet
  <2> QED BY <2>3, <2>4, <2>5
<1>5. closed # {} => /\ segment \in Segment /\ segment.id = b.next
                     /\ segment.previous \in {0, segment.id - 1} /\ c.next = b.next + 1
  <2> SUFFICES ASSUME closed # {}
               PROVE  /\ segment \in Segment /\ segment.id = b.next
                      /\ segment.previous \in {0, segment.id - 1} /\ c.next = b.next + 1
    OBVIOUS
  <2>1. closed \in SUBSET Nat
    BY DEF closed, EventsOK
  <2>2. PICK m : m = Min(closed)
    OBVIOUS
  <2>3. m \in closed
    BY <2>1, <2>2, LeastOf
  <2>4. /\ evs[m].id = b.next /\ evs[m].previous \in {0, b.next - 1}
        /\ evs[m].reason \in {"InterimResultSilenceReached", "SegmentMaxChunksReached",
                              "EndSilenceReached"}
        /\ Len(evs[m].chunks) \in Nat /\ c.next = b.next + 1
    BY <2>3 DEF closed, EventsOK, EventOK
  <2>5. segment = [id |-> evs[m].id, previous |-> evs[m].previous, reason |-> evs[m].reason,
                   from |-> cursor - Len(evs[m].chunks), to |-> cursor]
    BY <2>2 DEF segment
  <2>6. b.next \in Turn
    BY DEF EventsOK
  <2> QED BY <2>4, <2>5, <2>6 DEF Segment, Turn
<1>6. turnCheck \in [previous : Nat, epoch : Nat \union {-1}]
  <2>1. CASE check = {}
    BY <2>1 DEF Sound, Typed
  <2>2. CASE check # {}
    <3>1. check \in SUBSET Nat
      BY DEF check, EventsOK
    <3>2. PICK m : m = Min(check)
      OBVIOUS
    <3>3. m \in check
      BY <2>2, <3>1, <3>2, LeastOf
    <3>4. evs[m].previous \in Nat /\ r.epoch \in Nat
      BY <3>3 DEF check, EventsOK, EventOK, Sound, Typed
    <3> QED BY <2>2, <3>2, <3>4
  <2> QED BY <2>1, <2>2
<1>7. /\ r.segments \in Seq(Segment) /\ InLine(r.segments)
      /\ \A i \in DOMAIN r.segments : r.segments[i].id < b.next /\ HeardBefore(r, r.segments[i].id)
      /\ HeardBefore(r, b.next) /\ b.next \in Nat
  BY DEF Sound, Typed, Spoken, EventsOK, Turn
<1> DEFINE n == Len(r.segments)
<1>8. /\ segments \in Seq(Segment) /\ n \in Nat
      /\ \A i \in DOMAIN segments :
           \/ i \in 1..n /\ i \in DOMAIN r.segments /\ segments[i] = r.segments[i]
           \/ closed # {} /\ i = n + 1 /\ segments[i] = segment
  BY <1>5, <1>7
<1> HIDE DEF segments, n, turnCheck
<1>9. InLine(segments)
  <2>1. ASSUME NEW i \in DOMAIN segments, NEW j \in DOMAIN segments, i < j
        PROVE  segments[i].id < segments[j].id
    <3>1. i \in 1..n /\ i \in DOMAIN r.segments /\ segments[i] = r.segments[i]
      BY <1>8, <2>1
    <3>2. CASE j \in DOMAIN r.segments /\ segments[j] = r.segments[j]
      BY <1>7, <2>1, <3>1, <3>2 DEF InLine
    <3>3. CASE closed # {} /\ segments[j] = segment
      BY <1>5, <1>7, <3>1, <3>3
    <3> QED BY <1>8, <3>2, <3>3
  <2>2. \A i \in DOMAIN segments : segments[i].previous \in {0, segments[i].id - 1}
    BY <1>5, <1>7, <1>8 DEF InLine
  <2> QED BY <2>1, <2>2 DEF InLine
<1>10. Typed(s)
  <2>1. epoch \in Nat
    BY <1>4 DEF Sound, Typed
  <2> HIDE DEF epoch
  <2> QED BY <1>1, <1>3, <1>6, <1>8, <2>1 DEF Sound, Typed
<1>11. OriginOK(s, c)
  <2>1. r.epoch \in Nat /\ r.openEpoch \in Nat /\ r.openEpoch <= r.epoch
    BY DEF Sound, Typed, OriginOK
  <2>2. r.openEpoch <= epoch /\ (c.active => r.openEpoch # epoch)
    BY <1>4, <2>1
  <2> HIDE DEF epoch
  <2> QED BY <1>3, <2>2 DEF OriginOK
<1>12. /\ AudioOK(s) /\ \A m : HeardBefore(r, m) => HeardBefore(s, m)
  BY <1>3, SameAudioKeeps DEF SameAudio, FinalsOf, Sound, Spoken
<1>13. b.next <= c.next /\ c.next \in Nat
  BY <1>7 DEF EventsOK
<1>14. ASSUME NEW m \in {b.next, c.next} PROVE HeardBefore(s, m)
  <2>1. ASSUME NEW x, x < b.next, x \in Nat PROVE x < m
    BY <1>7, <1>13, <1>14, <2>1
  <2>2. /\ \A t \in DOMAIN r.turns : Ids(r.turns[t].audio) \subseteq Nat
        /\ \A o \in FinalsOf(r) : Ids(o.audio) \subseteq Nat
    <3>1. \A q \in Seq(Turn) : Ids(q) \subseteq Nat
      <4> SUFFICES ASSUME NEW q \in Seq(Turn) PROVE Ids(q) \subseteq Nat
        OBVIOUS
      <4>1. \A i \in 1..Len(q) : q[i] \in Turn
        OBVIOUS
      <4>2. DOMAIN q = 1..Len(q)
        OBVIOUS
      <4> QED BY <4>1, <4>2 DEF Ids, Turn
    <3>2. \A t \in DOMAIN r.turns : r.turns[t].audio \in Seq(Turn)
      BY DEF Sound, Typed, TurnDraft
    <3>3. \A o \in FinalsOf(r) : o.audio \in Seq(Turn)
      BY DEF Sound, Typed, FinalsOf
    <3> QED BY <3>1, <3>2, <3>3
  <2>3. HeardBefore(r, m)
    BY <1>7, <2>1, <2>2 DEF HeardBefore
  <2> QED BY <1>12, <2>3
<1>15. \A i \in DOMAIN segments : segments[i].id < c.next /\ HeardBefore(s, segments[i].id)
  <2>1. \A i \in DOMAIN r.segments : r.segments[i].id \in Nat
    <3>1. \A i \in DOMAIN r.segments : r.segments[i] \in Segment
      BY <1>7
    <3> QED BY <3>1 DEF Segment, Turn
  <2> QED BY <1>5, <1>7, <1>8, <1>12, <1>13, <1>14, <2>1
<1>16. InTurn(s, s.inFlight, c)
  <2> DEFINE q == r.inFlight
  <2> SUFFICES ASSUME q.kind \in {"InterimDisplay", "CompletionCheck"}
               PROVE  /\ Rising(q.segments)
                      /\ \A x \in Ids(q.segments) :
                           /\ x < c.next /\ HeardBefore(s, x)
                           /\ \A i \in DOMAIN segments : x < segments[i].id
    BY <1>3 DEF InTurn
  <2>1. /\ Rising(q.segments)
        /\ \A x \in Ids(q.segments) :
             /\ x < b.next /\ HeardBefore(r, x)
             /\ \A i \in DOMAIN r.segments : x < r.segments[i].id
    BY DEF Sound, Spoken, InTurn
  <2>2. \A x \in Ids(q.segments) : x \in Nat
    <3>1. q # NoRequest
      BY DEF NoRequest
    <3>2. q.segments \in Seq(Turn)
      BY <3>1 DEF Sound, Typed, Request
    <3>3. \A i \in 1..Len(q.segments) : q.segments[i] \in Turn
      BY <3>2
    <3>4. DOMAIN q.segments = 1..Len(q.segments)
      BY <3>2
    <3> QED BY <3>3, <3>4 DEF Ids, Turn
  <2> QED BY <1>5, <1>7, <1>8, <1>12, <1>13, <2>1, <2>2
<1>17. Spoken(s, c)
  <2>1. HeardBefore(s, c.next)
    BY <1>14
  <2> QED BY <1>3, <1>9, <1>12, <1>15, <1>16, <2>1 DEF Spoken
<1>18. Sound(s, c)
  BY <1>10, <1>11, <1>17 DEF Sound
<1> QED BY <1>18 DEF s

LEMMA EventsAre ==
  ASSUME NEW b, NEW c, NEW e, NEW f, b.next \in Turn, c.next \in {b.next, b.next + 1}
  PROVE  /\ ~c.active => EventsOK(<< >>, b, c)
         /\ /\ EventOK(e, b, c)
            /\ c.active => e.type \in {"SegmentStarted", "SegmentExtended"}
            => EventsOK(<<e>>, b, c)
         /\ /\ EventOK(e, b, c) /\ EventOK(f, b, c)
            /\ c.active => f.type \in {"SegmentStarted", "SegmentExtended"}
            => EventsOK(<<e, f>>, b, c)
<1>1. ~c.active => EventsOK(<< >>, b, c)
  BY DEF EventsOK
<1>2. ASSUME EventOK(e, b, c), c.active => e.type \in {"SegmentStarted", "SegmentExtended"}
      PROVE  EventsOK(<<e>>, b, c)
  <2>1. Len(<<e>>) = 1 /\ DOMAIN <<e>> = {1} /\ <<e>>[1] = e /\ 1..1 = {1}
    OBVIOUS
  <2> QED BY <1>2, <2>1 DEF EventsOK
<1>3. ASSUME EventOK(e, b, c), EventOK(f, b, c),
             c.active => f.type \in {"SegmentStarted", "SegmentExtended"}
      PROVE  EventsOK(<<e, f>>, b, c)
  <2>1. /\ Len(<<e, f>>) = 2 /\ DOMAIN <<e, f>> = {1, 2} /\ 1..2 = {1, 2}
        /\ <<e, f>>[1] = e /\ <<e, f>>[2] = f
    OBVIOUS
  <2> QED BY <1>3, <2>1 DEF EventsOK
<1> QED BY <1>1, <1>2, <1>3

LEMMA BuilderIs ==
  ASSUME BuilderOK
  PROVE  /\ config.turnCheck \in Nat \ {0} /\ config.start \in Nat
         /\ frames \in Nat /\ nextSegmentId \in Turn
         /\ state.kind \in {"Idle", "AfterInterimSilence", "Active"}
         /\ state.kind = "Idle" => state \in IdleStates
         /\ state.kind = "AfterInterimSilence" => state \in WaitingStates
         /\ state.kind = "Active" => state \in ActiveStates
         /\ state.kind = "Active" => nextSegmentId = state.id + 1
         /\ Position.next \in Turn /\ Position.tick = frames
         /\ Position.active <=> state.kind = "Active"
<1>1. config.turnCheck \in Nat \ {0} /\ config.start \in Nat
  BY ConfigIs DEF BuilderOK
<1>2. /\ state.kind \in {"Idle", "AfterInterimSilence", "Active"}
      /\ state.kind = "Idle" => state \in IdleStates
      /\ state.kind = "AfterInterimSilence" => state \in WaitingStates
      /\ state.kind = "Active" => state \in ActiveStates
  BY DEF BuilderOK, IdleStates, WaitingStates, ActiveStates
<1>3. state.kind = "Active" => nextSegmentId = state.id + 1 /\ state.id \in Turn
  BY <1>2 DEF BuilderOK, ActiveStates, Turn
<1> QED BY <1>1, <1>2, <1>3 DEF BuilderOK, Position

\* The states the builder goes to.
LEMMA StatesAre ==
  ASSUME NEW p \in Seq(Chunk), NEW q \in Seq(Chunk), NEW n \in Nat, NEW i \in Turn, NEW m \in Nat,
         config.start \in Nat
  PROVE  /\ Idle(p, q) \in IdleStates /\ Idle(p, q).kind = "Idle"
         /\ AfterInterim(p, q, i, n) \in WaitingStates
         /\ AfterInterim(p, q, i, n).kind = "AfterInterimSilence"
         /\ AfterInterim(p, q, i, n).previous = i
         /\ Started(i, m, p) \in ActiveStates /\ Started(i, m, p).kind = "Active"
         /\ Started(i, m, p).id = i /\ Started(i, m, p).previous = m
  BY DEF Idle, AfterInterim, Started, IdleStates, WaitingStates, ActiveStates

LEMMA SilenceIs ==
  ASSUME BuilderOK, NEW chunk \in Chunk, state.kind \in {"Idle", "AfterInterimSilence"}
  PROVE  PreWithSilence(chunk) \in Seq(Chunk) /\ state.pre \o Append(state.pending, chunk) \in Seq(Chunk)
<1>1. state.pre \in Seq(Chunk) /\ state.pending \in Seq(Chunk)
  BY BuilderIs DEF IdleStates, WaitingStates
<1>2. state.pre \o Append(state.pending, chunk) \in Seq(Chunk)
  BY <1>1
<1>3. config.turnCheck \in Nat \ {0}
  BY BuilderIs
<1> QED BY <1>2, <1>3, PruneIs DEF PreWithSilence

\* A step of the builder, when its next state and its position are known.
LEMMA NextBuilder ==
  ASSUME BuilderOK, config' \in Configs, frames' \in Nat, nextSegmentId' \in Turn,
         pendingPrevious' \in {0, nextSegmentId' - 1},
         \/ state' \in IdleStates
         \/ /\ state' \in WaitingStates /\ state'.previous = nextSegmentId' - 1
            /\ pendingPrevious' = NoSegment
         \/ /\ state' \in ActiveStates /\ state'.id = nextSegmentId' - 1
            /\ state'.previous \in {0, state'.id - 1}
            /\ pendingPrevious' = NoSegment
  PROVE  /\ BuilderOK'
         /\ Position'.active <=> state' \in ActiveStates
         /\ Position'.next = IF state' \in ActiveStates THEN nextSegmentId' - 1 ELSE nextSegmentId'
         /\ Position'.tick = frames'
<1>1. CASE state' \in IdleStates
  <2>1. state'.kind = "Idle" /\ state' \notin ActiveStates
    BY <1>1 DEF IdleStates, ActiveStates
  <2> QED BY <1>1, <2>1 DEF BuilderOK, Position
<1>2. CASE /\ state' \in WaitingStates /\ state'.previous = nextSegmentId' - 1
           /\ pendingPrevious' = NoSegment
  <2>1. state'.kind = "AfterInterimSilence" /\ state' \notin ActiveStates
    BY <1>2 DEF WaitingStates, ActiveStates
  <2> QED BY <1>2, <2>1 DEF BuilderOK, Position
<1>3. CASE /\ state' \in ActiveStates /\ state'.id = nextSegmentId' - 1
           /\ state'.previous \in {0, state'.id - 1}
           /\ pendingPrevious' = NoSegment
  <2>1. state'.kind = "Active"
    BY <1>3 DEF ActiveStates
  <2> QED BY <1>3, <2>1 DEF BuilderOK, Position
<1> QED BY <1>1, <1>2, <1>3

LEMMA WaitingSound ==
  ASSUME BuilderOK, config' = config, frames' \in Nat, NEW chunk \in Chunk,
         \/ HoldSpeech(chunk) \/ StartFromIdle(chunk) \/ StartAfterInterim(chunk)
         \/ IdleSilence(chunk) \/ AfterInterimSilence(chunk) \/ AfterInterimTurnCheck(chunk)
  PROVE  BuilderOK' /\ EventsOK(events', Position, Position') /\ Position'.tick = frames'
<1> DEFINE b == Position
           c == Position'
<1>1. /\ config.turnCheck \in Nat \ {0} /\ config.start \in Nat /\ nextSegmentId \in Turn
      /\ state.kind \in {"Idle", "AfterInterimSilence"}
      /\ config' \in Configs
      /\ state.kind = "Idle" => state \in IdleStates
      /\ state.kind = "AfterInterimSilence" =>
           /\ state \in WaitingStates /\ state.previous = nextSegmentId - 1
           /\ pendingPrevious = NoSegment
      /\ pendingPrevious \in {0, nextSegmentId - 1}
  <2>1. state.kind \in {"Idle", "AfterInterimSilence"}
    BY DEF HoldSpeech, StartFromIdle, StartAfterInterim, IdleSilence, AfterInterimSilence,
           AfterInterimTurnCheck, Waiting
  <2> QED BY <2>1, BuilderIs DEF BuilderOK
<1>2. b.next = nextSegmentId /\ nextSegmentId \in Nat
  BY <1>1 DEF Position, Turn
<1>3. PreWithSilence(chunk) \in Seq(Chunk) /\ << >> \in Seq(Chunk)
  BY <1>1, SilenceIs
<1>4. CASE HoldSpeech(chunk)
  <2>1. /\ state' = [state EXCEPT !.pending = Append(@, chunk)] /\ events' = << >>
        /\ nextSegmentId' = nextSegmentId /\ pendingPrevious' = pendingPrevious
    BY <1>4 DEF HoldSpeech
  <2>2. \/ state.kind = "Idle" /\ state' \in IdleStates
        \/ /\ state.kind = "AfterInterimSilence" /\ state' \in WaitingStates
           /\ state'.previous = state.previous
    <3>1. ASSUME NEW q \in Seq(Chunk) PROVE Append(q, chunk) \in Seq(Chunk)
      OBVIOUS
    <3>2. CASE state.kind = "Idle"
      <4>1. state \in IdleStates
        BY <1>1, <3>2
      <4>2. Append(state.pending, chunk) \in Seq(Chunk)
        BY <3>1, <4>1 DEF IdleStates
      <4> QED BY <2>1, <3>2, <4>1, <4>2 DEF IdleStates
    <3>3. CASE state.kind = "AfterInterimSilence"
      <4>1. state \in WaitingStates
        BY <1>1, <3>3
      <4>2. Append(state.pending, chunk) \in Seq(Chunk)
        BY <3>1, <4>1 DEF WaitingStates
      <4> QED BY <2>1, <3>3, <4>1, <4>2 DEF WaitingStates
    <3> QED BY <1>1, <3>2, <3>3
  <2>3. state' \notin ActiveStates
    BY <2>2 DEF IdleStates, WaitingStates, ActiveStates
  <2>4. BuilderOK' /\ c.next = b.next /\ ~c.active /\ c.tick = frames'
    BY <1>1, <1>2, <2>1, <2>2, <2>3, NextBuilder
  <2>5. EventsOK(<< >>, b, c)
    BY <1>1, <1>2, <2>4, EventsAre
  <2> QED BY <2>1, <2>4, <2>5
<1>5. CASE StartFromIdle(chunk) \/ StartAfterInterim(chunk)
  <2>1. PICK p, chunks :
          /\ chunks = state.pre \o Append(state.pending, chunk)
          /\ p \in {0, nextSegmentId - 1}
          /\ state' = Started(nextSegmentId, p, chunks)
          /\ events' = <<SegmentStarted(nextSegmentId, p, chunks)>>
          /\ nextSegmentId' = nextSegmentId + 1 /\ pendingPrevious' = NoSegment
    BY <1>1, <1>5 DEF StartFromIdle, StartAfterInterim
  <2>2. chunks \in Seq(Chunk) /\ p \in Nat
    BY <1>1, <1>2, <2>1, SilenceIs DEF Turn
  <2>3. /\ state' \in ActiveStates /\ state'.id = nextSegmentId /\ state'.previous = p
    <3>1. /\ Started(nextSegmentId, p, chunks) \in ActiveStates
          /\ Started(nextSegmentId, p, chunks).id = nextSegmentId
          /\ Started(nextSegmentId, p, chunks).previous = p
      BY <1>1, <1>3, <2>2, StatesAre, 0 \in Nat
    <3> QED BY <2>1, <3>1
  <2>4. nextSegmentId' \in Turn /\ nextSegmentId' - 1 = nextSegmentId
    BY <1>2, <2>1 DEF Turn
  <2>5. BuilderOK' /\ c.next = b.next /\ c.active /\ c.tick = frames'
    <3>1. pendingPrevious' \in {0, nextSegmentId' - 1}
      BY <2>1 DEF NoSegment
    <3> QED BY <1>1, <1>2, <2>1, <2>3, <2>4, <3>1, NextBuilder
  <2>6. EventOK(SegmentStarted(nextSegmentId, p, chunks), b, c)
    BY DEF EventOK, SegmentStarted
  <2>7. SegmentStarted(nextSegmentId, p, chunks).type = "SegmentStarted"
    BY DEF SegmentStarted
  <2>8. EventsOK(<<SegmentStarted(nextSegmentId, p, chunks)>>, b, c)
    BY <1>1, <1>2, <2>5, <2>6, <2>7, EventsAre
  <2> QED BY <2>1, <2>5, <2>8
<1>6. CASE IdleSilence(chunk) \/ AfterInterimTurnCheck(chunk)
  <2>1. /\ state' = Idle(PreWithSilence(chunk), << >>) /\ nextSegmentId' = nextSegmentId
        /\ pendingPrevious' \in {0, nextSegmentId - 1}
    BY <1>1, <1>6 DEF IdleSilence, AfterInterimTurnCheck, NoSegment
  <2>2. state' \in IdleStates
    BY <1>1, <1>3, <2>1, StatesAre, 0 \in Nat, 1 \in Turn DEF Turn
  <2>3. state' \notin ActiveStates
    BY <2>2 DEF IdleStates, ActiveStates
  <2>4. BuilderOK' /\ c.next = b.next /\ ~c.active /\ c.tick = frames'
    BY <1>1, <1>2, <2>1, <2>2, <2>3, NextBuilder
  <2>5. CASE IdleSilence(chunk)
    <3>1. events' = << >>
      BY <2>5 DEF IdleSilence
    <3>2. EventsOK(<< >>, b, c)
      BY <1>1, <1>2, <2>4, EventsAre
    <3> QED BY <2>4, <3>1, <3>2
  <2>6. CASE AfterInterimTurnCheck(chunk)
    <3>1. /\ events' = <<TurnCheckSilenceReached(state.previous)>>
          /\ state.kind = "AfterInterimSilence"
      BY <2>6 DEF AfterInterimTurnCheck
    <3>2. state.previous \in Nat
      BY <1>1, <1>2, <3>1 DEF Turn
    <3>3. EventOK(TurnCheckSilenceReached(state.previous), b, c)
      BY <3>2 DEF EventOK, TurnCheckSilenceReached
    <3>4. EventsOK(<<TurnCheckSilenceReached(state.previous)>>, b, c)
      BY <1>1, <1>2, <2>4, <3>3, EventsAre
    <3> QED BY <2>4, <3>1, <3>4
  <2> QED BY <1>6, <2>5, <2>6
<1>7. CASE AfterInterimSilence(chunk)
  <2>1. /\ state' = AfterInterim(PreWithSilence(chunk), << >>, state.previous, state.silence + 1)
        /\ events' = << >> /\ nextSegmentId' = nextSegmentId
        /\ pendingPrevious' = pendingPrevious /\ state.kind = "AfterInterimSilence"
    BY <1>7 DEF AfterInterimSilence
  <2>2. state.previous \in Turn /\ state.silence + 1 \in Nat
    BY <1>1, <2>1 DEF WaitingStates
  <2>3. state' \in WaitingStates /\ state'.previous = state.previous
    <3>1. PICK q, i, n : q = PreWithSilence(chunk) /\ i = state.previous /\ n = state.silence + 1
      OBVIOUS
    <3>2. q \in Seq(Chunk) /\ i \in Turn /\ n \in Nat /\ << >> \in Seq(Chunk)
      BY <1>3, <2>2, <3>1
    <3>3. /\ AfterInterim(q, << >>, i, n) \in WaitingStates
          /\ AfterInterim(q, << >>, i, n).previous = i
      BY <3>2 DEF AfterInterim, WaitingStates
    <3> QED BY <2>1, <3>1, <3>3
  <2>4. state' \notin ActiveStates
    BY <2>3 DEF WaitingStates, ActiveStates
  <2>5. BuilderOK' /\ c.next = b.next /\ ~c.active /\ c.tick = frames'
    BY <1>1, <1>2, <2>1, <2>3, <2>4, NextBuilder
  <2>6. EventsOK(<< >>, b, c)
    BY <1>1, <1>2, <2>5, EventsAre
  <2> QED BY <2>1, <2>5, <2>6
<1> QED BY <1>4, <1>5, <1>6, <1>7

LEMMA ActiveIs ==
  ASSUME BuilderOK, state.kind = "Active"
  PROVE  /\ state \in ActiveStates /\ state.id \in Turn /\ state.id = nextSegmentId - 1
         /\ state.previous \in {0, state.id - 1} /\ state.previous \in Nat
         /\ state.chunks \in Seq(Chunk) /\ pendingPrevious = NoSegment
         /\ Position.next = state.id /\ nextSegmentId = state.id + 1 /\ nextSegmentId \in Turn
<1>1. state \in ActiveStates
  BY BuilderIs
<1>2. state.id \in Turn /\ state.previous \in Nat /\ state.chunks \in Seq(Chunk)
  BY <1>1 DEF ActiveStates
<1> QED BY <1>1, <1>2 DEF BuilderOK, Position, Turn

\* What is kept of the silence that closes a segment.
LEMMA KeptIs ==
  ASSUME BuilderOK, NEW q \in Seq(Chunk)
  PROVE  /\ Prune(Padding(TrailingSilence(q)), config.turnCheck) \in Seq(Chunk)
         /\ Len(TrailingSilence(q)) \in Nat
<1>1. config.turnCheck \in Nat \ {0}
  BY BuilderIs
<1>2. PICK silent : silent = TrailingSilence(q)
  OBVIOUS
<1>3. silent \in Seq(Chunk)
  BY <1>2, TrailingSilenceIs
<1>4. PICK padding : padding = Padding(silent)
  OBVIOUS
<1>5. padding \in Seq(Chunk)
  BY <1>3, <1>4, PaddingIs
<1>6. Prune(padding, config.turnCheck) \in Seq(Chunk)
  BY <1>1, <1>5, PruneIs
<1>7. Len(silent) \in Nat
  BY <1>3
<1> QED BY <1>2, <1>4, <1>6, <1>7

LEMMA InterimCloseSound ==
  ASSUME BuilderOK, config' = config, frames' \in Nat, NEW chunk \in Chunk, InterimClose(chunk)
  PROVE  BuilderOK' /\ EventsOK(events', Position, Position') /\ Position'.tick = frames'
<1> DEFINE b == Position
           c == Position'
<1>1. state.kind = "Active" /\ pendingPrevious' = pendingPrevious
  BY DEF InterimClose
<1>2. /\ state \in ActiveStates /\ state.id \in Turn /\ state.id = nextSegmentId - 1
      /\ state.previous \in {0, state.id - 1} /\ state.previous \in Nat
      /\ state.chunks \in Seq(Chunk) /\ pendingPrevious = NoSegment
      /\ b.next = state.id /\ nextSegmentId = state.id + 1 /\ nextSegmentId \in Turn
      /\ config.start \in Nat /\ config' \in Configs
  BY <1>1, ActiveIs, BuilderIs DEF BuilderOK
<1>3. PICK closed, silent, pre, chunks :
        /\ closed = SegmentClosed(state, "InterimResultSilenceReached")
        /\ silent = TrailingSilence(state.chunks)
        /\ pre = Prune(Padding(silent), config.turnCheck)
        /\ chunks = Append(pre, chunk)
        /\ \/ /\ state' = Started(nextSegmentId, state.id, chunks)
              /\ events' = <<closed, SegmentStarted(nextSegmentId, state.id, chunks)>>
              /\ nextSegmentId' = nextSegmentId + 1
           \/ /\ state' = AfterInterim(pre, <<chunk>>, state.id, Len(silent))
              /\ events' = <<closed>>
              /\ nextSegmentId' = nextSegmentId
  BY DEF InterimClose
<1>4. pre \in Seq(Chunk) /\ Len(silent) \in Nat /\ chunks \in Seq(Chunk)
  <2>1. pre \in Seq(Chunk) /\ Len(silent) \in Nat
    BY <1>2, <1>3, KeptIs
  <2> QED BY <1>3, <2>1
<1>5. c.next = b.next + 1 => EventOK(closed, b, c)
  <2>1. /\ closed.id = state.id /\ closed.previous = state.previous /\ closed.type = "SegmentClosed"
        /\ closed.chunks = state.chunks /\ closed.reason = "InterimResultSilenceReached"
    BY <1>3 DEF SegmentClosed
  <2>2. Len(state.chunks) \in Nat
    BY <1>2
  <2> QED BY <1>2, <2>1, <2>2 DEF EventOK
<1>6. CASE /\ state' = Started(nextSegmentId, state.id, chunks)
           /\ events' = <<closed, SegmentStarted(nextSegmentId, state.id, chunks)>>
           /\ nextSegmentId' = nextSegmentId + 1
  <2>1. /\ Started(nextSegmentId, state.id, chunks) \in ActiveStates
        /\ Started(nextSegmentId, state.id, chunks).id = nextSegmentId
        /\ Started(nextSegmentId, state.id, chunks).previous = state.id
    BY <1>2, <1>4 DEF Started, ActiveStates, Turn
  <2>2. /\ state' \in ActiveStates /\ state'.id = nextSegmentId /\ state'.previous = state.id
        /\ nextSegmentId' \in Turn /\ nextSegmentId' - 1 = nextSegmentId
    BY <1>2, <1>6, <2>1 DEF Turn
  <2>3. pendingPrevious' = NoSegment /\ pendingPrevious' \in {0, nextSegmentId' - 1}
    BY <1>1, <1>2 DEF NoSegment
  <2>4. state'.id = nextSegmentId' - 1 /\ state'.previous \in {0, state'.id - 1}
    BY <1>2, <2>2
  <2>5. BuilderOK' /\ c.next = b.next + 1 /\ c.active /\ c.tick = frames'
    BY <1>2, <2>2, <2>3, <2>4, NextBuilder
  <2>6. EventOK(SegmentStarted(nextSegmentId, state.id, chunks), b, c)
    BY DEF EventOK, SegmentStarted
  <2>7. SegmentStarted(nextSegmentId, state.id, chunks).type = "SegmentStarted"
    BY DEF SegmentStarted
  <2>8. EventsOK(<<closed, SegmentStarted(nextSegmentId, state.id, chunks)>>, b, c)
    BY <1>2, <1>5, <2>5, <2>6, <2>7, EventsAre
  <2> QED BY <1>6, <2>5, <2>8
<1>7. CASE /\ state' = AfterInterim(pre, <<chunk>>, state.id, Len(silent))
           /\ events' = <<closed>>
           /\ nextSegmentId' = nextSegmentId
  <2>1. <<chunk>> \in Seq(Chunk)
    OBVIOUS
  <2>2. /\ AfterInterim(pre, <<chunk>>, state.id, Len(silent)) \in WaitingStates
        /\ AfterInterim(pre, <<chunk>>, state.id, Len(silent)).previous = state.id
    BY <1>2, <1>4, <2>1 DEF AfterInterim, WaitingStates
  <2>3. /\ state' \in WaitingStates /\ state'.previous = nextSegmentId' - 1
        /\ nextSegmentId' \in Turn
    BY <1>2, <1>7, <2>2
  <2>4. pendingPrevious' = NoSegment /\ pendingPrevious' \in {0, nextSegmentId' - 1}
    BY <1>1, <1>2 DEF NoSegment
  <2>5. state' \notin ActiveStates
    BY <2>3 DEF WaitingStates, ActiveStates
  <2>6. BuilderOK' /\ c.next = b.next + 1 /\ ~c.active /\ c.tick = frames'
    BY <1>2, <1>7, <2>3, <2>4, <2>5, NextBuilder
  <2>7. EventsOK(<<closed>>, b, c)
    BY <1>2, <1>5, <2>6, EventsAre
  <2> QED BY <1>7, <2>6, <2>7
<1> QED BY <1>3, <1>6, <1>7

LEMMA ActiveSound ==
  ASSUME BuilderOK, config' = config, frames' \in Nat, NEW chunk \in Chunk,
         ActiveExtend(chunk) \/ MaxChunksClose(chunk) \/ EndSilenceClose(chunk)
  PROVE  BuilderOK' /\ EventsOK(events', Position, Position') /\ Position'.tick = frames'
<1> DEFINE b == Position
           c == Position'
           e == SegmentExtended(state, chunk)
<1>1. state.kind = "Active" /\ nextSegmentId' = nextSegmentId
  BY DEF ActiveExtend, MaxChunksClose, EndSilenceClose
<1>2. /\ state \in ActiveStates /\ state.id \in Turn /\ state.id = nextSegmentId - 1
      /\ state.previous \in {0, state.id - 1} /\ state.previous \in Nat
      /\ state.chunks \in Seq(Chunk) /\ pendingPrevious = NoSegment
      /\ b.next = state.id /\ nextSegmentId = state.id + 1 /\ nextSegmentId \in Turn
      /\ config' \in Configs
  BY <1>1, ActiveIs DEF BuilderOK
<1>3. PICK active : active = Extended(chunk)
  OBVIOUS
<1>4. /\ active \in ActiveStates /\ active.id = state.id /\ active.previous = state.previous
      /\ active.chunks \in Seq(Chunk)
  <2>1. Append(state.chunks, chunk) \in Seq(Chunk)
    BY <1>2
  <2>2. /\ state.audioChunks + 1 \in Nat
        /\ (IF chunk.speech THEN 0 ELSE state.silence + 1) \in Nat
    BY <1>2 DEF ActiveStates
  <2>3. active = [state EXCEPT !.chunks = Append(@, chunk), !.audioChunks = @ + 1,
                               !.silence = IF chunk.speech THEN 0 ELSE @ + 1]
    BY <1>3 DEF Extended
  <2> QED BY <1>2, <2>1, <2>2, <2>3 DEF ActiveStates
<1>5. EventOK(e, b, c) /\ e.type = "SegmentExtended"
  BY DEF EventOK, SegmentExtended
<1> HIDE DEF e
<1>6. CASE ActiveExtend(chunk)
  <2>1. state' = active /\ events' = <<e>> /\ pendingPrevious' = pendingPrevious
    BY <1>3, <1>6 DEF ActiveExtend, e
  <2>2. pendingPrevious' = NoSegment /\ pendingPrevious' \in {0, nextSegmentId' - 1}
    BY <1>2, <2>1 DEF NoSegment
  <2>3. /\ state' \in ActiveStates /\ state'.id = nextSegmentId' - 1
        /\ state'.previous \in {0, state'.id - 1}
    BY <1>1, <1>2, <1>4, <2>1
  <2>4. BuilderOK' /\ c.next = b.next /\ c.active /\ c.tick = frames'
    BY <1>1, <1>2, <2>2, <2>3, NextBuilder
  <2>5. EventsOK(<<e>>, b, c)
    BY <1>2, <1>5, <2>4, EventsAre
  <2> QED BY <2>1, <2>4, <2>5
<1>7. CASE MaxChunksClose(chunk) \/ EndSilenceClose(chunk)
  <2>1. PICK reason \in {"SegmentMaxChunksReached", "EndSilenceReached"} :
          events' = <<e, SegmentClosed(active, reason)>>
    BY <1>3, <1>7 DEF MaxChunksClose, EndSilenceClose, e
  <2>2. state' \in IdleStates /\ pendingPrevious' \in {0, nextSegmentId' - 1}
    <3>1. CASE MaxChunksClose(chunk)
      <4>1. state' = Idle(<< >>, << >>) /\ pendingPrevious' = state.id
        BY <3>1 DEF MaxChunksClose
      <4>2. Idle(<< >>, << >>) \in IdleStates
        BY DEF Idle, IdleStates
      <4>3. state.id = nextSegmentId' - 1
        BY <1>1, <1>2
      <4> QED BY <4>1, <4>2, <4>3
    <3>2. CASE EndSilenceClose(chunk)
      <4>1. state' = IdleAfterEnd(active) /\ pendingPrevious' = NoSegment
        BY <1>3, <3>2 DEF EndSilenceClose
      <4>2. PICK kept : kept = Prune(Padding(TrailingSilence(active.chunks)), config.turnCheck)
        OBVIOUS
      <4>3. kept \in Seq(Chunk)
        BY <1>4, <4>2, KeptIs
      <4>4. state' = Idle(kept, << >>)
        BY <4>1, <4>2 DEF IdleAfterEnd
      <4> QED BY <4>1, <4>3, <4>4 DEF Idle, IdleStates, NoSegment
    <3> QED BY <1>7, <3>1, <3>2
  <2>3. state' \notin ActiveStates
    BY <2>2 DEF IdleStates, ActiveStates
  <2>4. BuilderOK' /\ c.next = b.next + 1 /\ ~c.active /\ c.tick = frames'
    BY <1>1, <1>2, <2>2, <2>3, NextBuilder
  <2>5. EventOK(SegmentClosed(active, reason), b, c)
    <3>1. /\ SegmentClosed(active, reason).id = state.id
          /\ SegmentClosed(active, reason).previous = state.previous
          /\ SegmentClosed(active, reason).chunks = active.chunks
          /\ SegmentClosed(active, reason).reason = reason
          /\ SegmentClosed(active, reason).type = "SegmentClosed"
      BY <1>4 DEF SegmentClosed
    <3>2. Len(active.chunks) \in Nat
      BY <1>4
    <3> QED BY <1>2, <2>4, <3>1, <3>2 DEF EventOK
  <2>6. EventsOK(<<e, SegmentClosed(active, reason)>>, b, c)
    BY <1>2, <1>5, <2>4, <2>5, EventsAre
  <2> QED BY <2>1, <2>4, <2>6
<1> QED BY <1>6, <1>7

LEMMA PushSound ==
  ASSUME BuilderOK, NEW speech \in BOOLEAN, Push(speech)
  PROVE  BuilderOK' /\ EventsOK(events', Position, Position') /\ Position'.tick = frames'
<1>1. PICK chunk : chunk = [at |-> frames, speech |-> speech, source |-> TRUE]
  OBVIOUS
<1>2. frames \in Nat
  BY BuilderIs
<1>3. chunk \in Chunk
  BY <1>1, <1>2 DEF Chunk
<1>4. PushChunk(chunk) /\ frames' \in Nat /\ config' = config
  BY <1>1, <1>2 DEF Push
<1> QED BY <1>3, <1>4, WaitingSound, InterimCloseSound, ActiveSound DEF PushChunk

LEMMA FlushSound ==
  ASSUME BuilderOK, Flush
  PROVE  BuilderOK' /\ EventsOK(events', Position, Position') /\ Position'.tick = frames'
<1> DEFINE b == Position
           c == Position'
<1>1. /\ config' \in Configs /\ nextSegmentId' = nextSegmentId /\ frames' = frames
      /\ frames' \in Nat /\ nextSegmentId \in Turn /\ nextSegmentId' \in Turn
      /\ pendingPrevious \in {0, nextSegmentId - 1}
  BY DEF Flush, BuilderOK
<1>2. CASE FlushActive
  <2>1. /\ state.kind = "Active" /\ state' = IdleAfterEnd(state)
        /\ pendingPrevious' = NoSegment
        /\ events' = <<SegmentClosed(state, "EndSilenceReached")>>
    BY <1>2 DEF FlushActive
  <2>2. /\ state.id \in Turn /\ state.previous \in {0, state.id - 1}
        /\ state.chunks \in Seq(Chunk) /\ b.next = state.id /\ nextSegmentId = state.id + 1
    BY <2>1, ActiveIs
  <2>3. PICK kept : kept = Prune(Padding(TrailingSilence(state.chunks)), config.turnCheck)
    OBVIOUS
  <2>4. kept \in Seq(Chunk)
    BY <2>2, <2>3, KeptIs
  <2>5. state' \in IdleStates /\ pendingPrevious' \in {0, nextSegmentId' - 1}
    BY <2>1, <2>3, <2>4 DEF IdleAfterEnd, Idle, IdleStates, NoSegment
  <2>6. state' \notin ActiveStates
    BY <2>5 DEF IdleStates, ActiveStates
  <2>7. BuilderOK' /\ c.next = b.next + 1 /\ ~c.active /\ c.tick = frames'
    BY <1>1, <2>2, <2>5, <2>6, NextBuilder
  <2>8. EventOK(SegmentClosed(state, "EndSilenceReached"), b, c)
    <3>1. /\ SegmentClosed(state, "EndSilenceReached").id = state.id
          /\ SegmentClosed(state, "EndSilenceReached").previous = state.previous
          /\ SegmentClosed(state, "EndSilenceReached").chunks = state.chunks
          /\ SegmentClosed(state, "EndSilenceReached").reason = "EndSilenceReached"
          /\ SegmentClosed(state, "EndSilenceReached").type = "SegmentClosed"
      BY DEF SegmentClosed
    <3>2. Len(state.chunks) \in Nat
      BY <2>2
    <3> QED BY <2>2, <2>7, <3>1, <3>2 DEF EventOK
  <2>9. EventsOK(<<SegmentClosed(state, "EndSilenceReached")>>, b, c)
    BY <2>2, <2>7, <2>8, EventsAre
  <2> QED BY <2>1, <2>7, <2>9
<1>3. CASE FlushAfterInterim
  <2>1. /\ state.kind = "AfterInterimSilence" /\ state' = Idle(<< >>, << >>)
        /\ pendingPrevious' = NoSegment
        /\ events' = <<TurnCheckSilenceReached(state.previous)>>
    BY <1>3 DEF FlushAfterInterim
  <2>2. state.previous \in Nat /\ b.next = nextSegmentId
    BY <2>1, BuilderIs DEF WaitingStates, Turn, Position
  <2>3. state' \in IdleStates /\ pendingPrevious' \in {0, nextSegmentId' - 1}
    BY <2>1 DEF Idle, IdleStates, NoSegment
  <2>4. state' \notin ActiveStates
    BY <2>3 DEF IdleStates, ActiveStates
  <2>5. BuilderOK' /\ c.next = b.next /\ ~c.active /\ c.tick = frames'
    BY <1>1, <2>2, <2>3, <2>4, NextBuilder
  <2>6. EventOK(TurnCheckSilenceReached(state.previous), b, c)
    BY <2>2 DEF EventOK, TurnCheckSilenceReached
  <2>7. EventsOK(<<TurnCheckSilenceReached(state.previous)>>, b, c)
    BY <1>1, <2>2, <2>5, <2>6, EventsAre
  <2> QED BY <2>1, <2>5, <2>7
<1>4. CASE FlushIdle
  <2>1. /\ state.kind = "Idle" /\ state' = state /\ pendingPrevious' = pendingPrevious
        /\ events' = << >>
    BY <1>4 DEF FlushIdle
  <2>2. state' \in IdleStates /\ b.next = nextSegmentId
    BY <2>1, BuilderIs DEF Position
  <2>3. state' \notin ActiveStates
    BY <2>2 DEF IdleStates, ActiveStates
  <2>4. BuilderOK' /\ c.next = b.next /\ ~c.active /\ c.tick = frames'
    BY <1>1, <2>1, <2>2, <2>3, NextBuilder
  <2>5. EventsOK(<< >>, b, c)
    BY <1>1, <2>2, <2>4, EventsAre
  <2> QED BY <2>1, <2>4, <2>5
<1> QED BY <1>2, <1>3, <1>4 DEF Flush

LEMMA UpdateSound ==
  ASSUME BuilderOK, NEW next \in Configs, UpdateConfig(next)
  PROVE  BuilderOK' /\ Position' = Position
<1>1. next.turnCheck \in Nat \ {0}
  BY ConfigsAssumption DEF SegmentBuilderConfig
<1>2. /\ config' = next /\ nextSegmentId' = nextSegmentId /\ frames' = frames
      /\ pendingPrevious' = pendingPrevious
      /\ state' = IF state.kind = "Active" THEN state
                  ELSE [state EXCEPT !.pre = Prune(@, next.turnCheck)]
  BY DEF UpdateConfig
<1>3. CASE state.kind = "Active"
  BY <1>2, <1>3 DEF BuilderOK, Position
<1>4. CASE state.kind # "Active"
  <2>1. state.pre \in Seq(Chunk) /\ state \in IdleStates \union WaitingStates
    BY <1>4, BuilderIs DEF IdleStates, WaitingStates
  <2>2. PICK pre : pre = Prune(state.pre, next.turnCheck)
    OBVIOUS
  <2>3. pre \in Seq(Chunk)
    BY <1>1, <2>1, <2>2, PruneIs
  <2>4. state' = [state EXCEPT !.pre = pre]
    BY <1>2, <1>4, <2>2
  <2>5. /\ state' \in IdleStates \union WaitingStates /\ state'.kind = state.kind
        /\ state.kind = "AfterInterimSilence" => state'.previous = state.previous
    BY <2>1, <2>3, <2>4 DEF IdleStates, WaitingStates
  <2> QED BY <1>2, <1>4, <2>5 DEF BuilderOK, Position
<1> QED BY <1>3, <1>4

-----------------------------------------------------------------------------
(* The engine. *)

LEMMA InitSound == Init => IInv
<1> SUFFICES ASSUME Init PROVE IInv
  OBVIOUS
<1>1. PICK turn \in TurnConfigs : rt = Runtime0(turn)
  BY DEF Init
<1>2. BuilderOK /\ Position.next = 1 /\ ~Position.active
  <2>1. /\ config \in Configs /\ state = Idle(<< >>, << >>) /\ nextSegmentId = 1
        /\ pendingPrevious = 0 /\ frames = 0
    BY DEF Init, BuilderInit, NoSegment
  <2>2. state.kind = "Idle" /\ state \in IdleStates
    BY <2>1 DEF Idle, IdleStates
  <2>3. /\ nextSegmentId \in Turn /\ frames \in Nat /\ pendingPrevious \in {0, nextSegmentId - 1}
        /\ state.kind # "AfterInterimSilence" /\ state.kind # "Active"
    BY <2>1, <2>2 DEF Turn
  <2>4. BuilderOK
    BY <2>1, <2>2, <2>3 DEF BuilderOK
  <2>5. Position.next = 1 /\ ~Position.active
    BY <2>1, <2>3 DEF Position
  <2> QED BY <2>4, <2>5
<1>3. /\ rt.turn = turn /\ rt.segments = << >> /\ rt.turnCheck = NoCheck
      /\ rt.inFlight = NoRequest /\ rt.runner = "idle" /\ rt.up = TRUE /\ rt.turns = << >>
      /\ rt.confirmed = 0 /\ rt.acceptsRoot = FALSE /\ rt.newTurns = << >>
      /\ rt.epoch = 0 /\ rt.openEpoch = 0 /\ rt.openSince = NoTick /\ rt.out = {}
  BY <1>1 DEF Runtime0
<1>4. DOMAIN rt.turns = {} /\ DOMAIN rt.newTurns = {} /\ FinalsOf(rt) = {}
      /\ DOMAIN rt.segments = {} /\ rt.segments \in Seq(Segment)
  BY <1>3 DEF FinalsOf
<1>5. Typed(rt)
  <2>1. NoCheck \in [previous : Nat, epoch : Nat \union {-1}]
    BY DEF NoCheck
  <2>2. rt.turn \in TurnConfigs
    BY <1>3
  <2>3. rt.runner \in RunnerStates /\ rt.up \in BOOLEAN /\ rt.acceptsRoot \in BOOLEAN
    BY <1>3 DEF RunnerStates
  <2>4. /\ rt.confirmed \in Int /\ rt.epoch \in Nat /\ rt.openEpoch \in Nat
        /\ rt.openSince \in Nat \union {NoTick}
    BY <1>3
  <2> QED BY <1>3, <1>4, <2>1, <2>2, <2>3, <2>4 DEF Typed
<1>6. OriginOK(rt, Position)
  BY <1>2, <1>3 DEF OriginOK
<1>7. Spoken(rt, Position)
  <2>1. InTurn(rt, rt.inFlight, Position)
    BY <1>3 DEF InTurn, NoRequest
  <2> QED BY <1>4, <2>1 DEF Spoken, AudioOK, InLine, HeardBefore
<1> QED BY <1>2, <1>5, <1>6, <1>7, InitConsistent DEF IInv, Sound, Init, Phases

LEMMA StepSound ==
  ASSUME NEW b, b.tick = Tick, b.tick \in Nat, Consistent(rt), Sound(rt, b), Step
  PROVE  Sound(rt', b)
<1>1. CASE ApplyAnswer
  <2>1. PICK decision \in Decisions(rt), emitted \in {"stale", "current"} :
          rt' = ApplyResult(rt, decision, emitted, Tick, InterimEnabled)
    BY <1>1 DEF ApplyAnswer
  <2>2. ResultReady(rt)
    BY <1>1 DEF ApplyAnswer
  <2> QED BY <2>1, <2>2, ApplyResultSound
<1>2. CASE FinalizePending
  BY <1>2, FinalizePendingSound DEF FinalizePending
<1>3. CASE CheckTurn
  BY <1>3, HandleTurnCheckSound, CheckedSound DEF CheckTurn, TurnChecked
<1>4. CASE TimeoutOrDispatch
  <2>1. CASE OpenTurnTimedOut(rt, Tick, TimeoutTicks)
    <3>1. rt.openTurn # NoTurn /\ rt' = TimeoutOpenTurn(rt)
      BY <1>4, <2>1 DEF TimeoutOrDispatch, TimedOutOrDispatched, OpenTurnTimedOut
    <3> QED BY <3>1, TimeoutSound
  <2>2. CASE ~OpenTurnTimedOut(rt, Tick, TimeoutTicks)
    <3>1. rt' = Dispatch(RefreshTimeout(rt, b.tick))
      BY <1>4, <2>2 DEF TimeoutOrDispatch, TimedOutOrDispatched
    <3> QED BY <3>1, RefreshSound
  <2> QED BY <2>1, <2>2
<1> QED BY <1>1, <1>2, <1>3, <1>4 DEF Step

LEMMA SamePosition ==
  ASSUME UNCHANGED builderVars, BuilderOK
  PROVE  BuilderOK' /\ Position' = Position
  BY DEF builderVars, BuilderOK, Position

LEMMA NextSound == IInv /\ [Next]_vars => IInv'
<1> SUFFICES ASSUME IInv, [Next]_vars
             PROVE  IInv'
  OBVIOUS
<1> DEFINE b == Position
           c == Position'
<1>0. /\ Consistent(rt) /\ Sound(rt, b) /\ BuilderOK /\ phase \in Phases
      /\ b.tick = Tick /\ b.tick \in Nat
  BY BuilderIs DEF IInv, Tick
<1>1. Consistent(rt')
  BY <1>0, NextFollows DEF Follows
<1> SUFFICES Sound(rt', c) /\ BuilderOK' /\ phase' \in Phases
  BY <1>1 DEF IInv
<1>2. ASSUME NEW speech \in BOOLEAN, PushFrame(speech)
      PROVE  Sound(rt', c) /\ BuilderOK' /\ phase' \in Phases
  <2>1. Push(speech) /\ rt' = Absorb(rt, events', frames') /\ phase' = phase
    BY <1>2 DEF PushFrame
  <2>2. BuilderOK' /\ EventsOK(events', b, c)
    BY <1>0, <2>1, PushSound
  <2>3. frames' \in Int
    BY <2>2 DEF BuilderOK
  <2>4. Sound(Absorb(rt, events', frames'), c)
    BY <1>0, <2>2, <2>3, AbsorbSound
  <2> QED BY <1>0, <2>1, <2>2, <2>4
<1>3. ASSUME NEW next \in Configs, NEW turn \in TurnConfigs, UpdateParameters(next, turn)
      PROVE  Sound(rt', c) /\ BuilderOK' /\ phase' \in Phases
  <2>1. UpdateConfig(next) /\ rt' = [rt EXCEPT !.turn = turn] /\ phase' = phase
    BY <1>3 DEF UpdateParameters
  <2>2. BuilderOK' /\ c = b
    BY <1>0, <2>1, UpdateSound
  <2>3. Sound([rt EXCEPT !.turn = turn], b)
    BY <1>0, TurnSound
  <2> QED BY <1>0, <2>1, <2>2, <2>3
<1>4. CASE StopGracefully
  <2>1. Flush /\ rt' = Absorb(rt, events', frames) /\ phase' = "Draining"
    BY <1>4 DEF StopGracefully
  <2>2. BuilderOK' /\ EventsOK(events', b, c)
    BY <1>0, <2>1, FlushSound
  <2>3. frames \in Int
    BY <1>0 DEF BuilderOK
  <2>4. Sound(Absorb(rt, events', frames), c)
    BY <1>0, <2>2, <2>3, AbsorbSound
  <2> QED BY <2>1, <2>2, <2>4 DEF Phases
<1>5. CASE Step \/ RunnerProgress \/ StopRunner \/ FinishDrain \/ DrainTimesOut \/ Cancel
           \/ UNCHANGED vars
  <2>1. UNCHANGED builderVars /\ phase' \in Phases
    BY <1>0, <1>5 DEF Step, RunnerProgress, StartRequest, Answer, StopRunner, RunnerSteps,
                      FinishDrain, DrainTimesOut, Cancel, vars, Phases
  <2>2. BuilderOK' /\ c = b
    BY <1>0, <2>1, SamePosition
  <2>3. Sound(rt', b)
    <3>1. CASE Step
      BY <1>0, <3>1, StepSound
    <3>2. CASE RunnerProgress \/ StopRunner
      <4>1. /\ DOMAIN rt = Fields /\ rt.up \in BOOLEAN /\ rt.runner \in RunnerStates
        BY <1>0 DEF Consistent, Sound, Typed
      <4> DEFINE Answered(answer, up) ==
                   /\ answer \in RunnerStates /\ (answer = "idle" <=> rt.runner = "idle")
                   /\ rt' = [rt EXCEPT !.up = up, !.runner = answer]
      <4>2. PICK answer, up : up \in BOOLEAN /\ Answered(answer, up)
        <5>1. CASE RunnerProgress
          <6>1. PICK answer \in {"running", "usable", "unusable"} :
                  rt.runner # "idle" /\ rt' = [rt EXCEPT !.runner = answer]
            BY <5>1 DEF RunnerProgress, StartRequest, Answer
          <6>2. rt' = [rt EXCEPT !.up = rt.up, !.runner = answer]
            BY <4>1, <6>1 DEF Fields
          <6>3. answer \in RunnerStates /\ (answer = "idle" <=> rt.runner = "idle")
            BY <6>1 DEF RunnerStates
          <6>4. Answered(answer, rt.up)
            BY <6>2, <6>3
          <6> HIDE DEF Answered
          <6> QED BY <4>1, <6>4
        <5>2. CASE StopRunner
          <6>1. PICK answer : answer = IF rt.runner \in {"queued", "running"} THEN "lost" ELSE rt.runner
            OBVIOUS
          <6>2. rt' = [rt EXCEPT !.up = FALSE, !.runner = answer]
            BY <4>1, <5>2, <6>1 DEF StopRunner, Fields
          <6>3. answer \in RunnerStates /\ (answer = "idle" <=> rt.runner = "idle")
            BY <4>1, <6>1 DEF RunnerStates
          <6>4. Answered(answer, FALSE)
            BY <6>2, <6>3
          <6> HIDE DEF Answered
          <6> QED BY <6>4
        <5> QED BY <3>2, <5>1, <5>2
      <4> QED BY <1>0, <4>2, RunnerSound
    <3>3. CASE FinishDrain
      <4>1. rt.openTurn \in Nat
        BY <1>0, OpenTurnIsNumber
      <4>2. Sound(CompleteTurn(rt, rt.openTurn), b)
        BY <1>0, <4>1, CompleteSound
      <4> QED BY <1>0, <3>3, <4>2 DEF FinishDrain
    <3>4. CASE UNCHANGED rt
      BY <1>0, <3>4
    <3> QED BY <1>5, <3>1, <3>2, <3>3, <3>4 DEF DrainTimesOut, Cancel, vars
  <2> QED BY <2>1, <2>2, <2>3
<1> QED BY <1>2, <1>3, <1>4, <1>5 DEF Next

LEMMA InvariantAlways == Spec => []IInv
  BY InitSound, NextSound, PTL DEF Spec

(***************************************************************************)
(* The session keeps its types: in particular the queue, the request in    *)
(* flight and the drafts stay well formed, and the runner is idle exactly  *)
(* when no request is in flight.                                           *)
(***************************************************************************)
THEOREM TypeCorrect == Spec => []TypeOK
<1>1. IInv => TypeOK
  <2> SUFFICES ASSUME IInv PROVE TypeOK
    OBVIOUS
  <2>1. Consistent(rt) /\ Typed(rt) /\ phase \in Phases
    BY DEF IInv, Sound
  <2>2. DOMAIN rt.turns \subseteq Turn /\ rt.finalized \subseteq Turn /\ Known(rt) \subseteq Turn
    BY <2>1, TurnsAreNumbers DEF Known, Turn
  <2>3. rt.openTurn \in Nat
    BY <2>1, OpenTurnIsNumber
  <2>4. /\ rt.finalization \in Nat /\ rt.nextTurn \in Turn /\ rt.nextSeq \in Turn
        /\ \A s \in DOMAIN rt.newTurns : rt.newTurns[s] \in Turn
    BY <2>1, <2>2 DEF Consistent, Turn
  <2> QED BY <2>1, <2>2, <2>3, <2>4 DEF Typed, TypeOK
<1> QED BY <1>1, InvariantAlways, PTL

(***************************************************************************)
(* No segment reaches the text of two finals, and a final has its segments *)
(* in the order they were spoken.                                          *)
(***************************************************************************)
THEOREM SegmentsCountOnce == Spec => []SegmentsOnce
<1>1. IInv => SegmentsOnce
  <2> SUFFICES ASSUME IInv PROVE SegmentsOnce
    OBVIOUS
  <2>1. AudioOK(rt)
    BY DEF IInv, Sound, Spoken
  <2>2. Finals = FinalsOf(rt) /\ \A o : AudioIn(o) = Ids(o.audio)
    BY DEF Finals, FinalsOf, AudioIn, Ids
  <2> QED BY <2>1, <2>2 DEF AudioOK, Rising, SegmentsOnce
<1> QED BY <1>1, InvariantAlways, PTL

(***************************************************************************)
(* No open turn times out while speech is active.                          *)
(***************************************************************************)
THEOREM TimeoutsInSilence == Spec => []TimeoutOnlyInSilence
<1>1. IInv => TimeoutOnlyInSilence
  <2> SUFFICES ASSUME IInv, OpenTurnTimedOut(rt, Tick, TimeoutTicks), ~Waiting
               PROVE  FALSE
    BY DEF TimeoutOnlyInSilence
  <2>1. /\ BuilderOK /\ OriginOK(rt, Position) /\ config.timeout \in Nat \ {0}
        /\ frames \in Nat
    BY ConfigsAssumption DEF IInv, Sound, BuilderOK, SegmentBuilderConfig
  <2>2. Position.active /\ Position.tick = frames
    BY <2>1, BuilderIs DEF Waiting
  <2> QED BY <2>1, <2>2 DEF OriginOK, OpenTurnTimedOut, Tick, TimeoutTicks, NoTick
<1> QED BY <1>1, InvariantAlways, PTL

-----------------------------------------------------------------------------
(* SegmentHistory: what a step of the builder adds to the history. *)

Closed ==
  [id : Turn, previous : Nat,
   reason : {"InterimResultSilenceReached", "SegmentMaxChunksReached", "EndSilenceReached"},
   at : Nat, chunks : Seq(Chunk)]

HistoryTyped ==
  /\ BuilderOK
  /\ closes \in Seq(Closed) /\ starts \in Seq(Nat)
  /\ input \in Seq(BOOLEAN) /\ Len(input) = frames
  /\ runFrom \in 0..frames /\ flushes \subseteq 0..frames /\ updates \in Nat

Now(speech) == [at |-> frames, speech |-> speech, source |-> TRUE]

\* The padding that is kept of a closed segment.
KeptSilence == Prune(Padding(TrailingSilence(state.chunks)), config.turnCheck)

\* The run of speech, when it is long enough to be owed.
Due(speech) == IF speech /\ frames + 1 - runFrom >= config.start THEN runFrom..frames ELSE {}

ClosedAs(reason, at, chunks) ==
  [id |-> state.id, previous |-> state.previous, reason |-> reason, at |-> at, chunks |-> chunks]

LEMMA SourceOfEmpty == SourceIn(<< >>) = {} /\ SourceOf(<< >>) = {}
  BY DEF SourceIn, SourceOf

LEMMA SourceOfAppend ==
  ASSUME NEW q \in Seq(Chunk), NEW c \in Chunk
  PROVE  SourceOf(Append(q, c)) = SourceOf(q) \union (IF c.source THEN {c.at} ELSE {})
<1> DEFINE n == Len(q)
           r == Append(q, c)
<1>1. /\ n \in Nat /\ DOMAIN q = 1..n /\ DOMAIN r = 1..(n + 1)
      /\ r[n + 1] = c /\ \A i \in 1..n : r[i] = q[i]
  OBVIOUS
<1>2. 1..(n + 1) = 1..n \union {n + 1}
  BY <1>1
<1> HIDE DEF n, r
<1>3. SourceIn(r) = SourceIn(q) \union (IF c.source THEN {n + 1} ELSE {})
  BY <1>1, <1>2 DEF SourceIn
<1>4. \A i \in SourceIn(q) : r[i] = q[i]
  BY <1>1 DEF SourceIn
<1>5. SourceOf(r) = SourceOf(q) \union (IF c.source THEN {c.at} ELSE {})
  BY <1>1, <1>3, <1>4 DEF SourceOf
<1> QED BY <1>5 DEF r

LEMMA SourceOfJoined ==
  ASSUME NEW p \in Seq(Chunk), NEW q \in Seq(Chunk)
  PROVE  SourceOf(p \o q) = SourceOf(p) \union SourceOf(q)
<1> DEFINE m == Len(p)
           n == Len(q)
           r == p \o q
<1>1. /\ m \in Nat /\ n \in Nat /\ DOMAIN p = 1..m /\ DOMAIN q = 1..n /\ DOMAIN r = 1..(m + n)
      /\ \A i \in 1..m : r[i] = p[i]
      /\ \A i \in 1..n : r[m + i] = q[i]
  OBVIOUS
<1>2. \A i \in 1..(m + n) : i \in 1..m \/ (i - m \in 1..n /\ i = m + (i - m))
  BY <1>1
<1>3. (\A i \in 1..m : i \in 1..(m + n)) /\ \A i \in 1..n : m + i \in 1..(m + n)
  BY <1>1
<1> HIDE DEF m, n, r
<1>4. SourceOf(r) \subseteq SourceOf(p) \union SourceOf(q)
  <2> SUFFICES ASSUME NEW i \in 1..(m + n), r[i].source
               PROVE  r[i].at \in SourceOf(p) \union SourceOf(q)
    BY <1>1 DEF SourceOf, SourceIn
  <2>1. CASE i \in 1..m
    BY <1>1, <2>1 DEF SourceOf, SourceIn
  <2>2. CASE i - m \in 1..n /\ i = m + (i - m)
    <3>1. PICK j \in 1..n : i = m + j
      BY <2>2
    <3> QED BY <1>1, <3>1 DEF SourceOf, SourceIn
  <2> QED BY <1>2, <2>1, <2>2
<1>5. SourceOf(p) \subseteq SourceOf(r)
  BY <1>1, <1>3 DEF SourceOf, SourceIn
<1>6. SourceOf(q) \subseteq SourceOf(r)
  BY <1>1, <1>3 DEF SourceOf, SourceIn
<1>7. SourceOf(r) = SourceOf(p) \union SourceOf(q)
  BY <1>4, <1>5, <1>6
<1> QED BY <1>7 DEF r

\* What is kept of a close is not Turn audio.
LEMMA PaddingHasNoSource ==
  ASSUME NEW q \in Seq(Chunk), NEW max \in Nat \ {0}
  PROVE  /\ Prune(Padding(q), max) \in Seq(Chunk)
         /\ SourceIn(Prune(Padding(q), max)) = {} /\ SourceOf(Prune(Padding(q), max)) = {}
<1> DEFINE p == Padding(q)
           k == IF Len(p) > max THEN Len(p) - max + 1 ELSE 1
<1>1. p \in Seq(Chunk)
  BY PaddingIs
<1>2. \A i \in DOMAIN p : ~p[i].source
  <2>1. \A i \in DOMAIN q : q[i] \in Chunk
    OBVIOUS
  <2>2. \A i \in DOMAIN q : [q[i] EXCEPT !.source = FALSE].source = FALSE
    BY <2>1 DEF Chunk
  <2> QED BY <2>2 DEF Padding
<1> HIDE DEF p
<1>3. k \in 1..(Len(p) + 1)
  BY <1>1
<1>4. Prune(p, max) = From(p, k)
  BY DEF Prune, From
<1> HIDE DEF k
<1>5. From(p, k) \in Seq(Chunk) /\ \A i \in DOMAIN From(p, k) : \E j \in DOMAIN p : From(p, k)[i] = p[j]
  BY <1>1, <1>3, FromIs
<1>6. SourceIn(Prune(p, max)) = {}
  BY <1>2, <1>4, <1>5 DEF SourceIn
<1>7. SourceOf(Prune(p, max)) = {} /\ Prune(p, max) \in Seq(Chunk)
  BY <1>4, <1>5, <1>6 DEF SourceOf
<1> QED BY <1>6, <1>7 DEF p

\* What the handlers return, and what the history gets of it.
LEMMA ReturnedNothing ==
  ASSUME events' = << >>, Record
  PROVE  /\ starts' = starts /\ closes' = closes /\ owed' = owed \union OwedNow
         /\ Announced = {} /\ ~ClosedAtLimit
<1>1. \A type : Returned(type) = {}
  BY DEF Returned
<1> QED BY <1>1 DEF Record, Announced, ClosedAtLimit

LEMMA ReturnedOne ==
  ASSUME NEW e, events' = <<e>>
  PROVE  \A type : Returned(type) = IF e.type = type THEN {e} ELSE {}
<1>1. DOMAIN events' = {1} /\ events'[1] = e
  OBVIOUS
<1> QED BY <1>1 DEF Returned

LEMMA ReturnedTwo ==
  ASSUME NEW e, NEW f, events' = <<e, f>>
  PROVE  \A type : Returned(type) = (IF e.type = type THEN {e} ELSE {})
                                      \union (IF f.type = type THEN {f} ELSE {})
<1>1. DOMAIN events' = {1, 2} /\ events'[1] = e /\ events'[2] = f
  OBVIOUS
<1> QED BY <1>1 DEF Returned

LEMMA ReturnedTurnCheck ==
  ASSUME NEW previous, events' = <<TurnCheckSilenceReached(previous)>>, Record
  PROVE  /\ starts' = starts /\ closes' = closes /\ owed' = owed \union OwedNow
         /\ Announced = {} /\ ~ClosedAtLimit
<1>1. TurnCheckSilenceReached(previous).type = "TurnCheckSilenceReached"
  BY DEF TurnCheckSilenceReached
<1>2. /\ Returned("SegmentStarted") = {} /\ Returned("SegmentExtended") = {}
      /\ Returned("SegmentClosed") = {}
  BY <1>1, ReturnedOne
<1> QED BY <1>2 DEF Record, Announced, ClosedAtLimit

LEMMA ReturnedStart ==
  ASSUME NEW id, NEW previous, NEW chunks,
         events' = <<SegmentStarted(id, previous, chunks)>>, Record
  PROVE  /\ starts' = Append(starts, frames) /\ closes' = closes
         /\ owed' = owed \union OwedNow
         /\ Announced = SourceOf(chunks) /\ ~ClosedAtLimit
<1> DEFINE e == SegmentStarted(id, previous, chunks)
<1>1. e.type = "SegmentStarted" /\ e.chunks = chunks
  BY DEF SegmentStarted
<1> HIDE DEF e
<1>2. events' = <<e>>
  BY DEF e
<1>3. /\ Returned("SegmentStarted") = {e} /\ Returned("SegmentExtended") = {}
      /\ Returned("SegmentClosed") = {}
  BY <1>1, <1>2, ReturnedOne
<1> QED BY <1>1, <1>3 DEF Record, Announced, ClosedAtLimit

LEMMA ReturnedExtend ==
  ASSUME NEW active, NEW chunk, events' = <<SegmentExtended(active, chunk)>>, Record
  PROVE  /\ starts' = starts /\ closes' = closes /\ owed' = owed \union OwedNow
         /\ Announced = SourceOf(<<chunk>>) /\ ~ClosedAtLimit
<1> DEFINE e == SegmentExtended(active, chunk)
<1>1. e.type = "SegmentExtended" /\ e.chunks = <<chunk>>
  BY DEF SegmentExtended
<1> HIDE DEF e
<1>2. events' = <<e>>
  BY DEF e
<1>3. /\ Returned("SegmentStarted") = {} /\ Returned("SegmentExtended") = {e}
      /\ Returned("SegmentClosed") = {}
  BY <1>1, <1>2, ReturnedOne
<1> QED BY <1>1, <1>3 DEF Record, Announced, ClosedAtLimit

LEMMA ReturnedClose ==
  ASSUME NEW active, NEW reason, events' = <<SegmentClosed(active, reason)>>, Record
  PROVE  /\ starts' = starts /\ closes' = Append(closes, Close(SegmentClosed(active, reason)))
         /\ owed' = owed \union OwedNow /\ Announced = {}
         /\ ClosedAtLimit <=> reason = "SegmentMaxChunksReached"
<1> DEFINE e == SegmentClosed(active, reason)
<1>1. e.type = "SegmentClosed" /\ e.reason = reason
  BY DEF SegmentClosed
<1> HIDE DEF e
<1>2. events' = <<e>>
  BY DEF e
<1>3. /\ Returned("SegmentStarted") = {} /\ Returned("SegmentExtended") = {}
      /\ Returned("SegmentClosed") = {e}
  BY <1>1, <1>2, ReturnedOne
<1>4. closes' = Append(closes, Close(e))
  BY <1>3 DEF Record
<1> QED BY <1>1, <1>3, <1>4 DEF Record, Announced, ClosedAtLimit, e

LEMMA ReturnedLastChunk ==
  ASSUME NEW active, NEW chunk, NEW closed, NEW reason, Record,
         events' = <<SegmentExtended(active, chunk), SegmentClosed(closed, reason)>>
  PROVE  /\ starts' = starts /\ closes' = Append(closes, Close(SegmentClosed(closed, reason)))
         /\ owed' = owed \union OwedNow /\ Announced = SourceOf(<<chunk>>)
         /\ ClosedAtLimit <=> reason = "SegmentMaxChunksReached"
<1> DEFINE e == SegmentExtended(active, chunk)
           f == SegmentClosed(closed, reason)
<1>1. e.type = "SegmentExtended" /\ e.chunks = <<chunk>> /\ f.type = "SegmentClosed" /\ f.reason = reason
  BY DEF SegmentClosed, SegmentExtended
<1> HIDE DEF e, f
<1>2. events' = <<e, f>>
  BY DEF e, f
<1>3. /\ Returned("SegmentStarted") = {} /\ Returned("SegmentExtended") = {e}
      /\ Returned("SegmentClosed") = {f}
  BY <1>1, <1>2, ReturnedTwo
<1>4. closes' = Append(closes, Close(f))
  BY <1>3 DEF Record
<1> QED BY <1>1, <1>3, <1>4 DEF Record, Announced, ClosedAtLimit, f

LEMMA ReturnedNextSegment ==
  ASSUME NEW closed, NEW reason, NEW id, NEW previous, NEW chunks, Record,
         events' = <<SegmentClosed(closed, reason), SegmentStarted(id, previous, chunks)>>
  PROVE  /\ starts' = Append(starts, frames)
         /\ closes' = Append(closes, Close(SegmentClosed(closed, reason)))
         /\ owed' = owed \union OwedNow /\ Announced = SourceOf(chunks)
         /\ ClosedAtLimit <=> reason = "SegmentMaxChunksReached"
<1> DEFINE e == SegmentStarted(id, previous, chunks)
           f == SegmentClosed(closed, reason)
<1>1. e.type = "SegmentStarted" /\ e.chunks = chunks /\ f.type = "SegmentClosed" /\ f.reason = reason
  BY DEF SegmentClosed, SegmentStarted
<1> HIDE DEF e, f
<1>2. events' = <<f, e>>
  BY DEF e, f
<1>3. /\ Returned("SegmentStarted") = {e} /\ Returned("SegmentExtended") = {}
      /\ Returned("SegmentClosed") = {f}
  BY <1>1, <1>2, ReturnedTwo
<1>4. closes' = Append(closes, Close(f))
  BY <1>3 DEF Record
<1> QED BY <1>1, <1>3, <1>4 DEF Record, Announced, ClosedAtLimit, f

(* The steps of SegmentHistory, by what they do to the audio. *)

Pushes(speech) ==
  /\ frames' = frames + 1 /\ config' = config /\ input' = Append(input, speech)
  /\ flushes' = flushes /\ updates' = updates

Holds(speech) ==
  /\ speech /\ Waiting /\ Len(state.pending) + 1 < config.start
  /\ state'.kind = state.kind
  /\ state'.pre = state.pre /\ state'.pending = Append(state.pending, Now(speech))
  /\ state.kind = "AfterInterimSilence" =>
       state'.previous = state.previous /\ state'.silence = state.silence
  /\ nextSegmentId' = nextSegmentId /\ pendingPrevious' = pendingPrevious
  /\ starts' = starts /\ closes' = closes
  /\ owed' = owed \union Due(speech) /\ runFrom' = runFrom

Begins(speech) ==
  /\ speech /\ Waiting /\ Len(state.pending) + 1 >= config.start
  /\ state'.kind = "Active" /\ state'.id = nextSegmentId
  /\ state'.previous = IF state.kind = "Idle" THEN pendingPrevious ELSE state.previous
  /\ state'.chunks = state.pre \o Append(state.pending, Now(speech))
  /\ state'.audioChunks = config.start /\ state'.silence = 0
  /\ nextSegmentId' = nextSegmentId + 1 /\ pendingPrevious' = NoSegment
  /\ starts' = Append(starts, frames) /\ closes' = closes
  /\ owed' = owed \union SourceOf(state'.chunks) \union Due(speech) /\ runFrom' = runFrom

Quietens(speech) ==
  /\ ~speech /\ Waiting
  /\ state'.pre = PreWithSilence(Now(speech)) /\ state'.pending = << >>
  /\ \/ state.kind = "Idle" /\ state'.kind = "Idle"
     \/ /\ state.kind = "AfterInterimSilence" /\ state'.kind = "AfterInterimSilence"
        /\ state.silence + 1 < config.turnCheck
        /\ state'.previous = state.previous /\ state'.silence = state.silence + 1
     \/ /\ state.kind = "AfterInterimSilence" /\ state'.kind = "Idle"
        /\ state.silence + 1 >= config.turnCheck
  /\ nextSegmentId' = nextSegmentId /\ pendingPrevious' = NoSegment
  /\ starts' = starts /\ closes' = closes /\ owed' = owed /\ runFrom' = frames + 1

Splits(speech) ==
  /\ speech /\ state.kind = "Active"
  /\ config.interim # 0 /\ state.silence >= config.interim /\ state.silence < config.turnCheck
  /\ closes' = Append(closes, ClosedAs("InterimResultSilenceReached", frames + 1, state.chunks))
  /\ runFrom' = runFrom /\ pendingPrevious' = NoSegment
  /\ \/ /\ config.start <= 1
        /\ state'.kind = "Active" /\ state'.id = nextSegmentId /\ state'.previous = state.id
        /\ state'.chunks = Append(KeptSilence, Now(speech))
        /\ state'.audioChunks = config.start /\ state'.silence = 0
        /\ nextSegmentId' = nextSegmentId + 1 /\ starts' = Append(starts, frames)
        /\ owed' = owed \union SourceOf(state'.chunks) \union Due(speech)
     \/ /\ config.start > 1
        /\ state'.kind = "AfterInterimSilence" /\ state'.previous = state.id
        /\ state'.pre = KeptSilence /\ state'.pending = <<Now(speech)>>
        /\ state'.silence = Len(TrailingSilence(state.chunks))
        /\ nextSegmentId' = nextSegmentId /\ starts' = starts
        /\ owed' = owed \union Due(speech)

Lengthens(speech) ==
  /\ state.kind = "Active" /\ state'.kind = "Active"
  /\ state'.id = state.id /\ state'.previous = state.previous
  /\ state'.chunks = Append(state.chunks, Now(speech))
  /\ state'.audioChunks = state.audioChunks + 1 /\ state'.audioChunks < config.maxChunks
  /\ state'.silence = (IF speech THEN 0 ELSE state.silence + 1)
  /\ state'.silence < config.turnCheck
  /\ nextSegmentId' = nextSegmentId /\ pendingPrevious' = pendingPrevious
  /\ starts' = starts /\ closes' = closes
  /\ owed' = owed \union {frames} \union Due(speech)
  /\ runFrom' = IF speech THEN runFrom ELSE frames + 1

Limits(speech) ==
  /\ state.kind = "Active" /\ state.audioChunks + 1 >= config.maxChunks
  /\ state'.kind = "Idle" /\ state'.pre = << >> /\ state'.pending = << >>
  /\ nextSegmentId' = nextSegmentId /\ pendingPrevious' = state.id
  /\ starts' = starts
  /\ closes' = Append(closes, ClosedAs("SegmentMaxChunksReached", frames + 1,
                                       Append(state.chunks, Now(speech))))
  /\ owed' = owed \union {frames} \union Due(speech) /\ runFrom' = frames + 1

Ends(speech) ==
  /\ ~speech /\ state.kind = "Active" /\ state.audioChunks + 1 < config.maxChunks
  /\ state'.kind = "Idle" /\ state'.pending = << >>
  /\ state'.pre = Prune(Padding(TrailingSilence(Append(state.chunks, Now(speech)))),
                        config.turnCheck)
  /\ nextSegmentId' = nextSegmentId /\ pendingPrevious' = NoSegment
  /\ starts' = starts
  /\ closes' = Append(closes, ClosedAs("EndSilenceReached", frames + 1,
                                       Append(state.chunks, Now(speech))))
  /\ owed' = owed \union {frames} /\ runFrom' = frames + 1

PushKind(speech) ==
  \/ Holds(speech) \/ Begins(speech) \/ Quietens(speech) \/ Splits(speech)
  \/ Lengthens(speech) \/ Limits(speech) \/ Ends(speech)

Flushes ==
  /\ frames' = frames /\ config' = config /\ nextSegmentId' = nextSegmentId
  /\ input' = input /\ starts' = starts /\ owed' = owed /\ updates' = updates
  /\ runFrom' = frames /\ flushes' = flushes \union {frames}
  /\ \/ /\ state.kind = "Active" /\ state'.kind = "Idle"
        /\ state'.pre = KeptSilence /\ state'.pending = << >>
        /\ pendingPrevious' = NoSegment
        /\ closes' = Append(closes, ClosedAs("EndSilenceReached", frames, state.chunks))
     \/ /\ state.kind = "AfterInterimSilence" /\ state'.kind = "Idle"
        /\ state'.pre = << >> /\ state'.pending = << >>
        /\ pendingPrevious' = NoSegment /\ closes' = closes
     \/ /\ state.kind = "Idle" /\ state' = state
        /\ pendingPrevious' = pendingPrevious /\ closes' = closes

Updates(next) ==
  /\ config' = next /\ next.maxChunks = config.maxChunks
  /\ updates' = updates + 1
  /\ UNCHANGED <<frames, nextSegmentId, pendingPrevious, input, starts, closes, runFrom,
                 flushes, owed>>
  /\ \/ state.kind = "Active" /\ state' = state
     \/ /\ Waiting /\ state'.kind = state.kind
        /\ state'.pre = Prune(state.pre, next.turnCheck) /\ state'.pending = state.pending
        /\ state.kind = "AfterInterimSilence" =>
             state'.previous = state.previous /\ state'.silence = state.silence

LEMMA OwedByPush ==
  ASSUME HistoryTyped, NEW speech \in BOOLEAN, PushRecorded(speech)
  PROVE  /\ Pushes(speech) /\ Record /\ frames \in Nat
         /\ OwedNow = Announced \union Due(speech)
         /\ runFrom' = IF ~speech \/ ClosedAtLimit THEN frames + 1 ELSE runFrom
         /\ Now(speech) \in Chunk
         /\ Now(speech).source = TRUE /\ Now(speech).speech = speech /\ Now(speech).at = frames
         /\ SourceOf(<<Now(speech)>>) = {frames}
         /\ PushChunk(Now(speech))
<1>1. /\ frames \in Nat /\ frames' = frames + 1 /\ input' = Append(input, speech)
      /\ PushChunk(Now(speech))
  BY BuilderIs DEF HistoryTyped, PushRecorded, Push, Now
<1>2. input'[frames'] = speech
  BY <1>1 DEF HistoryTyped
<1>3. OwedNow = Announced \union Due(speech)
  <2>1. frames' - 1 = frames /\ frames' > frames
    BY <1>1
  <2> DEFINE due == speech /\ frames + 1 - runFrom >= config.start
  <2>2. frames' > frames /\ input'[frames'] /\ frames' - runFrom >= config.start <=> due
    <3>1. frames' - runFrom = frames + 1 - runFrom
      BY <1>1 DEF HistoryTyped
    <3> QED BY <1>2, <2>1, <3>1, Zenon
  <2>3. OwedNow = IF due THEN Announced \union runFrom..frames ELSE Announced
    BY <2>1, <2>2 DEF OwedNow
  <2>4. Due(speech) = IF due THEN runFrom..frames ELSE {}
    BY DEF Due
  <2> HIDE DEF due
  <2> QED BY <2>3, <2>4
<1>4. /\ Now(speech) \in Chunk
      /\ Now(speech).source = TRUE /\ Now(speech).speech = speech /\ Now(speech).at = frames
  BY <1>1 DEF Now, Chunk
<1>5. SourceOf(<<Now(speech)>>) = {frames}
  <2> DEFINE q == <<Now(speech)>>
  <2>1. DOMAIN q = {1} /\ q[1] = Now(speech)
    OBVIOUS
  <2> HIDE DEF q
  <2>2. SourceIn(q) = {1}
    BY <1>4, <2>1 DEF SourceIn
  <2>3. SourceOf(q) = {frames}
    BY <1>4, <2>1, <2>2 DEF SourceOf
  <2> QED BY <2>3 DEF q
<1>6. Pushes(speech) /\ Record /\ runFrom' = IF ~speech \/ ClosedAtLimit THEN frames + 1 ELSE runFrom
  BY <1>1 DEF PushRecorded, Push, Pushes
<1> QED BY <1>1, <1>3, <1>4, <1>5, <1>6

LEMMA WaitingKinds ==
  ASSUME HistoryTyped, NEW speech \in BOOLEAN, PushRecorded(speech),
         NEW c, c = Now(speech),
         \/ HoldSpeech(c) \/ StartFromIdle(c) \/ StartAfterInterim(c)
         \/ IdleSilence(c) \/ AfterInterimSilence(c) \/ AfterInterimTurnCheck(c)
  PROVE  Holds(speech) \/ Begins(speech) \/ Quietens(speech)
<1>1. /\ Record /\ OwedNow = Announced \union Due(speech) /\ c.speech = speech
      /\ runFrom' = IF ~speech \/ ClosedAtLimit THEN frames + 1 ELSE runFrom
  BY OwedByPush
<1>2. /\ state.kind = "Idle" => state \in IdleStates
      /\ state.kind = "AfterInterimSilence" => state \in WaitingStates /\ pendingPrevious = NoSegment
  BY BuilderIs DEF HistoryTyped, BuilderOK
<1>3. CASE HoldSpeech(c)
  <2>1. /\ Waiting /\ speech /\ Len(state.pending) + 1 < config.start
        /\ state' = [state EXCEPT !.pending = Append(@, c)] /\ events' = << >>
        /\ nextSegmentId' = nextSegmentId /\ pendingPrevious' = pendingPrevious
    BY <1>1, <1>3 DEF HoldSpeech
  <2>2. /\ starts' = starts /\ closes' = closes /\ owed' = owed \union Due(speech)
        /\ runFrom' = runFrom
    BY <1>1, <2>1, ReturnedNothing
  <2>3. /\ state'.kind = state.kind /\ state'.pre = state.pre
        /\ state'.pending = Append(state.pending, c)
        /\ state.kind = "AfterInterimSilence" =>
             state'.previous = state.previous /\ state'.silence = state.silence
    <3>1. CASE state.kind = "Idle"
      BY <1>2, <2>1, <3>1 DEF IdleStates
    <3>2. CASE state.kind = "AfterInterimSilence"
      BY <1>2, <2>1, <3>2 DEF WaitingStates
    <3> QED BY <2>1, <3>1, <3>2 DEF Waiting
  <2> QED BY <2>1, <2>2, <2>3 DEF Holds
<1>4. CASE StartFromIdle(c) \/ StartAfterInterim(c)
  <2> DEFINE p == IF state.kind = "Idle" THEN pendingPrevious ELSE state.previous
             chunks == state.pre \o Append(state.pending, c)
  <2>1. /\ Waiting /\ speech /\ Len(state.pending) + 1 >= config.start
        /\ state' = Started(nextSegmentId, p, chunks)
        /\ events' = <<SegmentStarted(nextSegmentId, p, chunks)>>
        /\ nextSegmentId' = nextSegmentId + 1 /\ pendingPrevious' = NoSegment
    BY <1>1, <1>2, <1>4 DEF StartFromIdle, StartAfterInterim, Waiting
  <2>2. /\ starts' = Append(starts, frames) /\ closes' = closes
        /\ owed' = owed \union SourceOf(chunks) \union Due(speech) /\ runFrom' = runFrom
    BY <1>1, <2>1, ReturnedStart
  <2>3. /\ state'.kind = "Active" /\ state'.id = nextSegmentId /\ state'.previous = p
        /\ state'.chunks = chunks /\ state'.audioChunks = config.start /\ state'.silence = 0
    BY <2>1 DEF Started
  <2> QED BY <2>1, <2>2, <2>3 DEF Begins
<1>5. CASE IdleSilence(c)
  <2>1. /\ state.kind = "Idle" /\ ~speech
        /\ state' = Idle(PreWithSilence(c), << >>) /\ pendingPrevious' = NoSegment
        /\ events' = << >> /\ nextSegmentId' = nextSegmentId
    BY <1>1, <1>5 DEF IdleSilence
  <2>2. /\ starts' = starts /\ closes' = closes /\ owed' = owed /\ runFrom' = frames + 1
    BY <1>1, <2>1, ReturnedNothing DEF Due
  <2> QED BY <2>1, <2>2 DEF Quietens, Idle, Waiting
<1>6. CASE AfterInterimSilence(c)
  <2>1. /\ state.kind = "AfterInterimSilence" /\ ~speech
        /\ state.silence + 1 < config.turnCheck
        /\ state' = AfterInterim(PreWithSilence(c), << >>, state.previous, state.silence + 1)
        /\ events' = << >> /\ nextSegmentId' = nextSegmentId
        /\ pendingPrevious' = NoSegment
    BY <1>1, <1>2, <1>6 DEF AfterInterimSilence
  <2>2. /\ starts' = starts /\ closes' = closes /\ owed' = owed /\ runFrom' = frames + 1
    BY <1>1, <2>1, ReturnedNothing DEF Due
  <2> QED BY <2>1, <2>2 DEF Quietens, AfterInterim, Waiting
<1>7. CASE AfterInterimTurnCheck(c)
  <2>1. /\ state.kind = "AfterInterimSilence" /\ ~speech
        /\ state.silence + 1 >= config.turnCheck
        /\ state' = Idle(PreWithSilence(c), << >>)
        /\ events' = <<TurnCheckSilenceReached(state.previous)>> /\ nextSegmentId' = nextSegmentId
        /\ pendingPrevious' = NoSegment
    BY <1>1, <1>2, <1>7 DEF AfterInterimTurnCheck
  <2>2. /\ starts' = starts /\ closes' = closes /\ owed' = owed /\ runFrom' = frames + 1
    BY <1>1, <2>1, ReturnedTurnCheck DEF Due
  <2> QED BY <2>1, <2>2 DEF Quietens, Idle, Waiting
<1> QED BY <1>3, <1>4, <1>5, <1>6, <1>7

LEMMA ActiveKinds ==
  ASSUME HistoryTyped, NEW speech \in BOOLEAN, PushRecorded(speech),
         NEW c, c = Now(speech),
         InterimClose(c) \/ ActiveExtend(c) \/ MaxChunksClose(c) \/ EndSilenceClose(c)
  PROVE  Splits(speech) \/ Lengthens(speech) \/ Limits(speech) \/ Ends(speech)
<1>1. /\ Record /\ OwedNow = Announced \union Due(speech) /\ c.speech = speech
      /\ runFrom' = IF ~speech \/ ClosedAtLimit THEN frames + 1 ELSE runFrom
      /\ SourceOf(<<c>>) = {frames} /\ c \in Chunk /\ frames' = frames + 1
  BY OwedByPush DEF Pushes
<1>2. state.kind = "Active"
  BY DEF InterimClose, ActiveExtend, MaxChunksClose, EndSilenceClose
<1>3. /\ state \in ActiveStates /\ pendingPrevious = NoSegment
      /\ config.turnCheck \in Nat \ {0}
  BY <1>2, ActiveIs, BuilderIs DEF HistoryTyped
<1> DEFINE active == Extended(c)
<1>4. /\ active.kind = "Active" /\ active.id = state.id /\ active.previous = state.previous
      /\ active.chunks = Append(state.chunks, c)
      /\ active.audioChunks = state.audioChunks + 1
      /\ active.silence = IF speech THEN 0 ELSE state.silence + 1
  BY <1>1, <1>2, <1>3 DEF Extended, ActiveStates
<1>5. CASE InterimClose(c)
  <2> DEFINE closed == SegmentClosed(state, "InterimResultSilenceReached")
             silent == TrailingSilence(state.chunks)
             chunks == Append(KeptSilence, c)
  <2>1. /\ speech /\ config.interim # 0 /\ state.silence >= config.interim
        /\ state.silence < config.turnCheck /\ pendingPrevious' = NoSegment
    BY <1>1, <1>3, <1>5 DEF InterimClose, InterimDue
  <2>2. Close(closed) = ClosedAs("InterimResultSilenceReached", frames + 1, state.chunks)
    BY <1>1 DEF Close, SegmentClosed, ClosedAs
  <2>3. CASE config.start <= 1
    <3>1. /\ state' = Started(nextSegmentId, state.id, chunks)
          /\ events' = <<closed, SegmentStarted(nextSegmentId, state.id, chunks)>>
          /\ nextSegmentId' = nextSegmentId + 1
      BY <1>5, <2>3 DEF InterimClose, KeptSilence
    <3>2. /\ starts' = Append(starts, frames) /\ closes' = Append(closes, Close(closed))
          /\ owed' = owed \union OwedNow /\ Announced = SourceOf(chunks) /\ ~ClosedAtLimit
      BY <1>1, <3>1, ReturnedNextSegment
    <3>3. /\ state'.kind = "Active" /\ state'.id = nextSegmentId /\ state'.previous = state.id
          /\ state'.chunks = chunks /\ state'.audioChunks = config.start /\ state'.silence = 0
      BY <3>1 DEF Started
    <3>4. owed' = owed \union SourceOf(state'.chunks) \union Due(speech) /\ runFrom' = runFrom
      BY <1>1, <2>1, <3>2, <3>3
    <3> HIDE DEF closed, chunks
    <3>5. state'.chunks = Append(KeptSilence, Now(speech))
      BY <3>3 DEF chunks
    <3>6. Splits(speech)
      BY <1>2, <2>1, <2>2, <2>3, <3>1, <3>2, <3>3, <3>4, <3>5 DEF Splits
    <3> QED BY <3>6
  <2>4. CASE ~(config.start <= 1)
    <3>1. /\ state' = AfterInterim(KeptSilence, <<c>>, state.id, Len(silent))
          /\ events' = <<closed>> /\ nextSegmentId' = nextSegmentId
      BY <1>5, <2>4 DEF InterimClose, KeptSilence
    <3>2. /\ starts' = starts /\ closes' = Append(closes, Close(closed))
          /\ owed' = owed \union OwedNow /\ Announced = {} /\ ~ClosedAtLimit
      BY <1>1, <3>1, ReturnedClose
    <3>3. /\ state'.kind = "AfterInterimSilence" /\ state'.previous = state.id
          /\ state'.pre = KeptSilence /\ state'.pending = <<Now(speech)>>
          /\ state'.silence = Len(TrailingSilence(state.chunks))
      BY <3>1 DEF AfterInterim
    <3>4. owed' = owed \union Due(speech) /\ runFrom' = runFrom
      BY <1>1, <2>1, <3>2
    <3>5. config.start > 1
      BY <2>4, BuilderIs DEF HistoryTyped
    <3> HIDE DEF closed, silent
    <3>6. Splits(speech)
      BY <1>2, <2>1, <2>2, <3>1, <3>2, <3>3, <3>4, <3>5 DEF Splits
    <3> QED BY <3>6
  <2> QED BY <2>3, <2>4
<1>6. CASE ActiveExtend(c)
  <2>1. /\ active.audioChunks < config.maxChunks /\ active.silence < config.turnCheck
        /\ state' = active /\ events' = <<SegmentExtended(state, c)>>
        /\ nextSegmentId' = nextSegmentId /\ pendingPrevious' = pendingPrevious
    BY <1>6 DEF ActiveExtend
  <2>2. /\ starts' = starts /\ closes' = closes /\ owed' = owed \union OwedNow
        /\ Announced = {frames} /\ ~ClosedAtLimit
    BY <1>1, <2>1, ReturnedExtend
  <2>3. /\ owed' = owed \union {frames} \union Due(speech)
        /\ runFrom' = IF speech THEN runFrom ELSE frames + 1
    BY <1>1, <2>2
  <2> HIDE DEF active
  <2> QED BY <1>2, <1>4, <2>1, <2>2, <2>3 DEF Lengthens
<1>7. CASE MaxChunksClose(c)
  <2> DEFINE closed == SegmentClosed(active, "SegmentMaxChunksReached")
  <2>1. /\ active.audioChunks >= config.maxChunks
        /\ events' = <<SegmentExtended(state, c), closed>>
        /\ state' = Idle(<< >>, << >>) /\ pendingPrevious' = state.id
        /\ nextSegmentId' = nextSegmentId
    BY <1>7 DEF MaxChunksClose
  <2>2. /\ starts' = starts /\ closes' = Append(closes, Close(closed))
        /\ owed' = owed \union OwedNow /\ Announced = {frames} /\ ClosedAtLimit
    BY <1>1, <2>1, ReturnedLastChunk
  <2> HIDE DEF active
  <2>3. Close(closed) = ClosedAs("SegmentMaxChunksReached", frames + 1,
                                 Append(state.chunks, Now(speech)))
    BY <1>1, <1>4 DEF Close, SegmentClosed, ClosedAs
  <2>4. owed' = owed \union {frames} \union Due(speech) /\ runFrom' = frames + 1
    BY <1>1, <2>2
  <2>5. state'.kind = "Idle" /\ state'.pre = << >> /\ state'.pending = << >>
    BY <2>1 DEF Idle
  <2> HIDE DEF closed
  <2>6. Limits(speech)
    BY <1>2, <1>4, <2>1, <2>2, <2>3, <2>4, <2>5 DEF Limits
  <2> QED BY <2>6
<1>8. CASE EndSilenceClose(c)
  <2> DEFINE closed == SegmentClosed(active, "EndSilenceReached")
  <2>1. /\ active.audioChunks < config.maxChunks /\ active.silence >= config.turnCheck
        /\ state' = IdleAfterEnd(active)
        /\ events' = <<SegmentExtended(state, c), closed>>
        /\ pendingPrevious' = NoSegment /\ nextSegmentId' = nextSegmentId
    BY <1>8 DEF EndSilenceClose
  <2>2. ~speech
    BY <1>3, <1>4, <2>1
  <2>3. /\ starts' = starts /\ closes' = Append(closes, Close(closed))
        /\ owed' = owed \union OwedNow /\ Announced = {frames}
    BY <1>1, <2>1, ReturnedLastChunk
  <2> HIDE DEF active
  <2>4. Close(closed) = ClosedAs("EndSilenceReached", frames + 1,
                                 Append(state.chunks, Now(speech)))
    BY <1>1, <1>4 DEF Close, SegmentClosed, ClosedAs
  <2>5. owed' = owed \union {frames} /\ runFrom' = frames + 1
    BY <1>1, <2>2, <2>3 DEF Due
  <2>6. /\ state'.kind = "Idle" /\ state'.pending = << >>
        /\ state'.pre = Prune(Padding(TrailingSilence(Append(state.chunks, Now(speech)))),
                              config.turnCheck)
    BY <1>4, <2>1 DEF IdleAfterEnd, Idle
  <2> HIDE DEF closed
  <2>7. Ends(speech)
    BY <1>2, <1>4, <2>1, <2>2, <2>3, <2>4, <2>5, <2>6 DEF Ends
  <2> QED BY <2>7
<1> QED BY <1>5, <1>6, <1>7, <1>8

LEMMA PushKinds ==
  ASSUME HistoryTyped, NEW speech \in BOOLEAN, PushRecorded(speech)
  PROVE  Pushes(speech) /\ PushKind(speech) /\ Now(speech) \in Chunk
<1>1. Pushes(speech) /\ PushChunk(Now(speech)) /\ Now(speech) \in Chunk
  BY OwedByPush
<1>2. PICK c : c = Now(speech)
  OBVIOUS
<1>3. \/ HoldSpeech(c) \/ StartFromIdle(c) \/ StartAfterInterim(c)
      \/ IdleSilence(c) \/ AfterInterimSilence(c) \/ AfterInterimTurnCheck(c)
      \/ InterimClose(c) \/ ActiveExtend(c) \/ MaxChunksClose(c) \/ EndSilenceClose(c)
  BY <1>1, <1>2, Zenon DEF PushChunk
<1> QED BY <1>1, <1>2, <1>3, WaitingKinds, ActiveKinds DEF PushKind

LEMMA FlushKinds ==
  ASSUME HistoryTyped, FlushRecorded
  PROVE  Flushes
<1>1. /\ frames' = frames /\ config' = config /\ nextSegmentId' = nextSegmentId
      /\ input' = input /\ updates' = updates /\ frames \in Nat
      /\ runFrom' = frames /\ flushes' = flushes \union {frames} /\ Record
      /\ FlushActive \/ FlushAfterInterim \/ FlushIdle
  BY BuilderIs DEF FlushRecorded, Flush, HistoryTyped
<1>2. OwedNow = Announced
  BY <1>1 DEF OwedNow
<1>3. CASE FlushActive
  <2> DEFINE closed == SegmentClosed(state, "EndSilenceReached")
  <2>1. /\ state.kind = "Active" /\ state' = IdleAfterEnd(state)
        /\ pendingPrevious' = NoSegment /\ events' = <<closed>>
    BY <1>3 DEF FlushActive
  <2>2. /\ starts' = starts /\ closes' = Append(closes, Close(closed))
        /\ owed' = owed
    BY <1>1, <1>2, <2>1, ReturnedClose
  <2>3. Close(closed) = ClosedAs("EndSilenceReached", frames, state.chunks)
    BY <1>1 DEF Close, SegmentClosed, ClosedAs
  <2>4. state'.kind = "Idle" /\ state'.pre = KeptSilence /\ state'.pending = << >>
    BY <2>1 DEF IdleAfterEnd, Idle, KeptSilence
  <2> HIDE DEF closed
  <2> QED BY <1>1, <2>1, <2>2, <2>3, <2>4 DEF Flushes
<1>4. CASE FlushAfterInterim
  <2>1. /\ state.kind = "AfterInterimSilence" /\ state' = Idle(<< >>, << >>)
        /\ pendingPrevious' = NoSegment
        /\ events' = <<TurnCheckSilenceReached(state.previous)>>
    BY <1>4 DEF FlushAfterInterim
  <2>2. starts' = starts /\ closes' = closes /\ owed' = owed
    BY <1>1, <1>2, <2>1, ReturnedTurnCheck
  <2>3. state'.kind = "Idle" /\ state'.pre = << >> /\ state'.pending = << >>
    BY <2>1 DEF Idle
  <2> QED BY <1>1, <2>1, <2>2, <2>3 DEF Flushes
<1>5. CASE FlushIdle
  <2>1. /\ state.kind = "Idle" /\ state' = state /\ pendingPrevious' = pendingPrevious
        /\ events' = << >>
    BY <1>5 DEF FlushIdle
  <2>2. starts' = starts /\ closes' = closes /\ owed' = owed
    BY <1>1, <1>2, <2>1, ReturnedNothing
  <2> QED BY <1>1, <2>1, <2>2 DEF Flushes
<1> QED BY <1>1, <1>3, <1>4, <1>5

LEMMA UpdateKinds ==
  ASSUME HistoryTyped, NEW next \in Configs, UpdateRecorded(next)
  PROVE  Updates(next)
<1>1. /\ config' = next /\ nextSegmentId' = nextSegmentId /\ frames' = frames
      /\ pendingPrevious' = pendingPrevious /\ next.maxChunks = config.maxChunks
      /\ state' = IF state.kind = "Active" THEN state
                  ELSE [state EXCEPT !.pre = Prune(@, next.turnCheck)]
      /\ updates' = updates + 1
      /\ UNCHANGED <<input, starts, closes, runFrom, flushes, owed>>
  BY DEF UpdateRecorded, UpdateConfig
<1>2. \/ state.kind = "Active"
      \/ state.kind = "Idle" /\ state \in IdleStates
      \/ state.kind = "AfterInterimSilence" /\ state \in WaitingStates
  BY BuilderIs DEF HistoryTyped
<1>3. CASE state.kind = "Active"
  BY <1>1, <1>3 DEF Updates
<1>4. CASE state.kind = "Idle" /\ state \in IdleStates
  BY <1>1, <1>4 DEF Updates, Waiting, IdleStates
<1>5. CASE state.kind = "AfterInterimSilence" /\ state \in WaitingStates
  BY <1>1, <1>5 DEF Updates, Waiting, WaitingStates
<1> QED BY <1>2, <1>3, <1>4, <1>5

LEMMA BuilderStarts == BuilderInit => BuilderOK
<1> SUFFICES ASSUME BuilderInit PROVE BuilderOK
  OBVIOUS
<1>1. /\ config \in Configs /\ state = Idle(<< >>, << >>) /\ nextSegmentId = 1
      /\ pendingPrevious = 0 /\ frames = 0
  BY DEF BuilderInit, NoSegment
<1>2. state \in IdleStates /\ state.kind = "Idle"
  BY <1>1 DEF Idle, IdleStates
<1> QED BY <1>1, <1>2 DEF BuilderOK, Turn

LEMMA HeldIs ==
  ASSUME BuilderOK
  PROVE  /\ HeldChunks \in Seq(Chunk)
         /\ state.kind = "Active" => HeldChunks = state.chunks
         /\ Waiting => /\ HeldChunks = state.pre \o state.pending
                       /\ state.pre \in Seq(Chunk) /\ state.pending \in Seq(Chunk)
         /\ Waiting <=> state.kind # "Active"
<1>1. CASE state.kind = "Active"
  BY <1>1, BuilderIs DEF HeldChunks, Waiting, ActiveStates
<1>2. CASE state.kind = "Idle"
  BY <1>2, BuilderIs DEF HeldChunks, Waiting, IdleStates
<1>3. CASE state.kind = "AfterInterimSilence"
  BY <1>3, BuilderIs DEF HeldChunks, Waiting, WaitingStates
<1> QED BY <1>1, <1>2, <1>3, BuilderIs

LEMMA ClosedAsTyped ==
  ASSUME BuilderOK, state.kind = "Active", NEW at \in Nat, NEW chunks \in Seq(Chunk),
         NEW reason \in {"InterimResultSilenceReached", "SegmentMaxChunksReached",
                         "EndSilenceReached"}
  PROVE  /\ ClosedAs(reason, at, chunks) \in Closed
         /\ ClosedAs(reason, at, chunks).chunks = chunks
         /\ ClosedAs(reason, at, chunks).id = state.id
         /\ ClosedAs(reason, at, chunks).previous = state.previous
         /\ ClosedAs(reason, at, chunks).reason = reason
         /\ ClosedAs(reason, at, chunks).at = at
  BY ActiveIs DEF ClosedAs, Closed

LEMMA HistoryStarts == HistoryInit => HistoryTyped
<1> SUFFICES ASSUME HistoryInit PROVE HistoryTyped
  OBVIOUS
<1>1. BuilderOK /\ frames = 0
  BY BuilderStarts DEF HistoryInit, BuilderInit
<1>2. << >> \in Seq(Closed) /\ << >> \in Seq(Nat) /\ << >> \in Seq(BOOLEAN) /\ Len(<< >>) = 0
  OBVIOUS
<1> QED BY <1>1, <1>2 DEF HistoryInit, HistoryTyped

\* The segment that a push or a flush closes.
LEMMA PushTyped ==
  ASSUME HistoryTyped, NEW speech \in BOOLEAN, Pushes(speech), PushKind(speech), BuilderOK'
  PROVE  HistoryTyped'
<1>1. /\ frames \in Nat /\ frames' = frames + 1 /\ input' = Append(input, speech)
      /\ flushes' = flushes /\ updates' = updates /\ Now(speech) \in Chunk
  BY BuilderIs DEF HistoryTyped, Pushes, Now, Chunk
<1>2. input' \in Seq(BOOLEAN) /\ Len(input') = frames'
  BY <1>1 DEF HistoryTyped
<1>3. starts' \in Seq(Nat)
  <2>1. starts' = starts \/ starts' = Append(starts, frames)
    BY DEF PushKind, Holds, Begins, Quietens, Splits, Lengthens, Limits, Ends
  <2>2. starts \in Seq(Nat)
    BY DEF HistoryTyped
  <2> QED BY <1>1, <2>1, <2>2
<1>4. closes' \in Seq(Closed)
  <2>0. closes \in Seq(Closed) /\ BuilderOK
    BY DEF HistoryTyped
  <2>1. CASE closes' = closes
    BY <2>0, <2>1
  <2>2. CASE state.kind = "Active" /\ closes' # closes
    <3>1. state.chunks \in Seq(Chunk) /\ Append(state.chunks, Now(speech)) \in Seq(Chunk)
      BY <1>1, <2>0, <2>2, ActiveIs
    <3>2. PICK reason \in {"InterimResultSilenceReached", "SegmentMaxChunksReached",
                           "EndSilenceReached"},
               chunks \in Seq(Chunk) :
               closes' = Append(closes, ClosedAs(reason, frames + 1, chunks))
      BY <2>2, <3>1 DEF PushKind, Holds, Begins, Quietens, Splits, Lengthens, Limits, Ends
    <3>3. ClosedAs(reason, frames + 1, chunks) \in Closed
      BY <1>1, <2>0, <2>2, ClosedAsTyped
    <3> QED BY <2>0, <3>2, <3>3
  <2>3. closes' = closes \/ state.kind = "Active"
    BY DEF PushKind, Holds, Begins, Quietens, Splits, Lengthens, Limits, Ends
  <2> QED BY <2>1, <2>2, <2>3
<1>5. runFrom' \in 0..frames'
  <2>1. runFrom' = runFrom \/ runFrom' = frames + 1
    BY DEF PushKind, Holds, Begins, Quietens, Splits, Lengthens, Limits, Ends
  <2> QED BY <1>1, <2>1 DEF HistoryTyped
<1>6. flushes' \subseteq 0..frames' /\ updates' \in Nat
  BY <1>1 DEF HistoryTyped
<1> QED BY <1>2, <1>3, <1>4, <1>5, <1>6 DEF HistoryTyped

LEMMA FlushTyped ==
  ASSUME HistoryTyped, Flushes, BuilderOK'
  PROVE  HistoryTyped'
<1>1. /\ frames \in Nat /\ frames' = frames /\ input' = input /\ starts' = starts
      /\ flushes' = flushes \union {frames} /\ updates' = updates /\ runFrom' = frames
      /\ BuilderOK
  BY BuilderIs DEF HistoryTyped, Flushes
<1>2. closes' \in Seq(Closed)
  <2>1. CASE closes' = closes
    BY <2>1 DEF HistoryTyped
  <2>2. CASE /\ state.kind = "Active"
             /\ closes' = Append(closes, ClosedAs("EndSilenceReached", frames, state.chunks))
    <3>1. ClosedAs("EndSilenceReached", frames, state.chunks) \in Closed
      BY <1>1, <2>2, ActiveIs, ClosedAsTyped
    <3> QED BY <2>2, <3>1 DEF HistoryTyped
  <2> QED BY <2>1, <2>2 DEF Flushes
<1> QED BY <1>1, <1>2 DEF HistoryTyped

\* The step lemma of an invariant of SegmentHistory: its kinds.
HistoryKinds ==
  \/ \E speech \in BOOLEAN : Pushes(speech) /\ PushKind(speech) /\ Now(speech) \in Chunk
  \/ Flushes
  \/ \E next \in Configs : Updates(next)
  \/ UNCHANGED historyVars

LEMMA HistorySteps ==
  ASSUME HistoryTyped, [HistoryNext]_historyVars
  PROVE  HistoryTyped' /\ HistoryKinds
<1>1. ASSUME NEW speech \in BOOLEAN, PushRecorded(speech)
      PROVE  HistoryTyped' /\ HistoryKinds
  <2>1. Pushes(speech) /\ PushKind(speech) /\ Now(speech) \in Chunk
    BY <1>1, PushKinds
  <2>2. BuilderOK'
    BY <1>1, PushSound DEF HistoryTyped, PushRecorded
  <2> QED BY <2>1, <2>2, PushTyped DEF HistoryKinds
<1>2. ASSUME FlushRecorded
      PROVE  HistoryTyped' /\ HistoryKinds
  <2>1. Flushes
    BY <1>2, FlushKinds
  <2>2. BuilderOK'
    BY <1>2, FlushSound DEF HistoryTyped, FlushRecorded
  <2> QED BY <2>1, <2>2, FlushTyped DEF HistoryKinds
<1>3. ASSUME NEW next \in Configs, UpdateRecorded(next)
      PROVE  HistoryTyped' /\ HistoryKinds
  <2>1. Updates(next)
    BY <1>3, UpdateKinds
  <2>2. BuilderOK'
    BY <1>3, UpdateSound DEF HistoryTyped, UpdateRecorded
  <2>3. HistoryTyped'
    BY <2>1, <2>2 DEF HistoryTyped, Updates
  <2> QED BY <2>1, <2>3 DEF HistoryKinds
<1>4. ASSUME UNCHANGED historyVars
      PROVE  HistoryTyped' /\ HistoryKinds
  <2>1. HistoryTyped'
    BY <1>4 DEF HistoryTyped, historyVars, builderVars, BuilderOK
  <2> QED BY <1>4, <2>1 DEF HistoryKinds
<1> QED BY <1>1, <1>2, <1>3, <1>4 DEF HistoryNext

LEMMA HistoryTypedAlways == HistorySpec => []HistoryTyped
<1>1. HistoryTyped /\ [HistoryNext]_historyVars => HistoryTyped'
  BY HistorySteps
<1> QED BY HistoryStarts, <1>1, PTL DEF HistorySpec

-----------------------------------------------------------------------------
(* SourceFramesOnce, and that a segment has no gap. *)

\* Chunks of the first n positions: in order, and without a gap up to the last.
Stream(chunks, n) ==
  /\ SourceOf(chunks) \subseteq 0..(n - 1)
  /\ \A i, j \in SourceIn(chunks) : i < j => chunks[i].at < chunks[j].at
  /\ \A a \in SourceOf(chunks) : a..(n - 1) \subseteq SourceOf(chunks)

AllBefore(S, T) == \A a \in S, b \in T : a < b

\* A closed segment was a stream when it was closed.
ClosedStream(chunks, last) == \E n \in 0..last : Stream(chunks, n)

AudioInOrder ==
  /\ Stream(HeldChunks, frames)
  /\ \A n \in DOMAIN closes :
       /\ ClosedStream(closes[n].chunks, frames)
       /\ AllBefore(SourceOf(closes[n].chunks), SourceOf(HeldChunks))
       /\ \A m \in DOMAIN closes : n < m =>
            AllBefore(SourceOf(closes[n].chunks), SourceOf(closes[m].chunks))

LEMMA StreamOfAppend ==
  ASSUME NEW n \in Nat, NEW q \in Seq(Chunk), Stream(q, n), NEW c \in Chunk,
         c.source = TRUE, c.at = n
  PROVE  Stream(Append(q, c), n + 1)
<1> DEFINE k == Len(q)
           r == Append(q, c)
<1>1. /\ k \in Nat /\ DOMAIN q = 1..k /\ DOMAIN r = 1..(k + 1)
      /\ r[k + 1] = c /\ \A i \in 1..k : r[i] = q[i]
  OBVIOUS
<1>2. SourceOf(r) = SourceOf(q) \union {n}
  BY SourceOfAppend
<1> HIDE DEF k, r
<1>3. SourceOf(q) \subseteq 0..(n - 1)
  BY DEF Stream
<1>4. SourceOf(r) \subseteq 0..((n + 1) - 1)
  BY <1>2, <1>3
<1>5. ASSUME NEW i \in SourceIn(r), NEW j \in SourceIn(r), i < j
      PROVE  r[i].at < r[j].at
  <2>1. i \in 1..k /\ j \in 1..(k + 1)
    BY <1>1, <1>5 DEF SourceIn
  <2>2. i \in SourceIn(q) /\ r[i] = q[i]
    BY <1>1, <2>1 DEF SourceIn
  <2>3. CASE j = k + 1
    <3>1. q[i].at \in 0..(n - 1)
      BY <1>3, <2>2 DEF SourceOf
    <3> QED BY <1>1, <2>2, <2>3, <3>1
  <2>4. CASE j \in 1..k
    <3>1. j \in SourceIn(q) /\ r[j] = q[j]
      BY <1>1, <2>4 DEF SourceIn
    <3> QED BY <1>5, <2>2, <3>1 DEF Stream
  <2> QED BY <1>1, <2>1, <2>3, <2>4
<1>6. ASSUME NEW a \in SourceOf(r), NEW x \in a..((n + 1) - 1)
      PROVE  x \in SourceOf(r)
  <2>1. CASE x = n
    BY <1>2, <2>1
  <2>2. CASE x # n
    <3>1. a \in 0..n /\ x \in a..n
      BY <1>4
    <3>2. a \in SourceOf(q) /\ x \in a..(n - 1)
      BY <1>2, <2>2, <3>1
    <3> QED BY <1>2, <3>2 DEF Stream
  <2> QED BY <2>1, <2>2
<1>7. Stream(r, n + 1)
  BY <1>4, <1>5, <1>6 DEF Stream
<1> QED BY <1>7 DEF r

LEMMA StreamOfFrom ==
  ASSUME NEW n \in Nat, NEW q \in Seq(Chunk), Stream(q, n), NEW k \in 1..(Len(q) + 1)
  PROVE  Stream(From(q, k), n) /\ SourceOf(From(q, k)) \subseteq SourceOf(q)
<1> DEFINE r == From(q, k)
<1>1. /\ r \in Seq(Chunk) /\ Len(r) = Len(q) + 1 - k
      /\ \A i \in 1..Len(r) : r[i] = q[k + i - 1] /\ k + i - 1 \in 1..Len(q)
  BY FromIs
<1>2. DOMAIN r = 1..Len(r) /\ DOMAIN q = 1..Len(q) /\ Len(q) \in Nat /\ k \in Nat
  BY <1>1
<1> HIDE DEF r
<1>3. ASSUME NEW i \in SourceIn(r)
      PROVE  i \in 1..Len(r) /\ k + i - 1 \in SourceIn(q) /\ r[i] = q[k + i - 1]
  BY <1>1, <1>2 DEF SourceIn
<1>4. ASSUME NEW j \in SourceIn(q), j >= k
      PROVE  j - k + 1 \in SourceIn(r) /\ r[j - k + 1] = q[j]
  <2>1. j \in 1..Len(q)
    BY <1>2 DEF SourceIn
  <2>2. PICK i \in Nat : i = j - k + 1
    BY <1>2, <1>4, <2>1
  <2>3. i \in 1..Len(r) /\ k + i - 1 = j
    BY <1>1, <1>2, <1>4, <2>1, <2>2
  <2>4. r[i] = q[j] /\ q[j].source
    BY <1>1, <2>3 DEF SourceIn
  <2> QED BY <1>2, <2>2, <2>3, <2>4 DEF SourceIn
<1>5. SourceOf(r) \subseteq SourceOf(q)
  BY <1>3 DEF SourceOf
<1>6. ASSUME NEW i \in SourceIn(r), NEW j \in SourceIn(r), i < j
      PROVE  r[i].at < r[j].at
  <2>1. k + i - 1 < k + j - 1
    BY <1>2, <1>3, <1>6
  <2> QED BY <1>3, <2>1 DEF Stream
<1>7. ASSUME NEW a \in SourceOf(r), NEW x \in a..(n - 1)
      PROVE  x \in SourceOf(r)
  <2>1. PICK i \in SourceIn(r) : a = r[i].at
    BY DEF SourceOf
  <2>2. PICK m : m = k + i - 1
    OBVIOUS
  <2>3. m \in SourceIn(q) /\ a = q[m].at /\ m >= k /\ m \in Nat
    BY <1>2, <1>3, <2>1, <2>2
  <2>4. a \in SourceOf(q) /\ a \in Int
    BY <1>5 DEF Stream
  <2>5. x \in SourceOf(q)
    BY <2>4 DEF Stream
  <2>6. PICK j \in SourceIn(q) : x = q[j].at
    BY <2>5 DEF SourceOf
  <2>7. j \in Nat
    BY <1>2 DEF SourceIn
  <2>8. j >= m
    <3> SUFFICES ASSUME j < m PROVE FALSE
      BY <2>3, <2>7
    <3>1. x < a
      BY <2>3, <2>6 DEF Stream
    <3> QED BY <2>4, <3>1
  <2>9. j >= k
    BY <1>2, <2>3, <2>7, <2>8
  <2> QED BY <1>4, <2>6, <2>9 DEF SourceOf
<1>8. Stream(r, n)
  BY <1>5, <1>6, <1>7 DEF Stream
<1> QED BY <1>5, <1>8 DEF r

LEMMA StreamOfPadding ==
  ASSUME NEW q, SourceIn(q) = {}, NEW n
  PROVE  Stream(q, n) /\ SourceOf(q) = {}
  BY DEF Stream, SourceOf

\* What a step does to the audio: it is cut in front, or closed.
CutOf(q) == {From(q, k) : k \in 1..(Len(q) + 1)}

Grows(q, at) ==
  /\ closes' = closes /\ frames' = at /\ HeldChunks' \in CutOf(q)

Closes(q, at) ==
  /\ frames' = at
  /\ \E closed \in Closed : closes' = Append(closes, closed) /\ closed.chunks = q
  /\ \/ SourceIn(HeldChunks') = {}
     \/ \E p \in Seq(Chunk) :
          /\ SourceIn(p) = {} /\ q = HeldChunks /\ at = frames + 1
          /\ HeldChunks' = Append(p, Now(TRUE))

LEMMA PruneCuts ==
  ASSUME NEW p \in Seq(Chunk), NEW q \in Seq(Chunk), NEW max \in Nat \ {0}
  PROVE  Prune(p, max) \in CutOf(p) /\ Prune(p, max) \o q \in CutOf(p \o q) /\ p \in CutOf(p)
         /\ Prune(p, max) \in Seq(Chunk)
<1> DEFINE k == IF Len(p) > max THEN Len(p) - max + 1 ELSE 1
<1>1. k \in 1..(Len(p) + 1)
  OBVIOUS
<1>2. Prune(p, max) = From(p, k)
  BY DEF Prune, From
<1> HIDE DEF k
<1>3. From(p, k) \o q = From(p \o q, k) /\ k \in 1..(Len(p \o q) + 1)
  <2>1. /\ From(p, k) \in Seq(Chunk) /\ Len(From(p, k)) = Len(p) + 1 - k
        /\ \A i \in 1..Len(From(p, k)) : From(p, k)[i] = p[k + i - 1] /\ k + i - 1 \in 1..Len(p)
    BY <1>1, FromIs
  <2>2. p \o q \in Seq(Chunk) /\ Len(p \o q) = Len(p) + Len(q) /\ k \in 1..(Len(p \o q) + 1)
    BY <1>1
  <2>3. /\ From(p \o q, k) \in Seq(Chunk) /\ Len(From(p \o q, k)) = Len(p \o q) + 1 - k
        /\ \A i \in 1..Len(From(p \o q, k)) : From(p \o q, k)[i] = (p \o q)[k + i - 1]
    <3>1. PICK r \in Seq(Chunk) : r = p \o q
      BY <2>2
    <3>2. k \in 1..(Len(r) + 1)
      BY <2>2, <3>1
    <3>3. /\ From(r, k) \in Seq(Chunk) /\ Len(From(r, k)) = Len(r) + 1 - k
          /\ \A i \in 1..Len(From(r, k)) : From(r, k)[i] = r[k + i - 1]
      BY <3>2, FromIs
    <3> QED BY <3>1, <3>3
  <2> DEFINE l == From(p, k)
             r == From(p \o q, k)
  <2> HIDE DEF l, r
  <2>4. l \in Seq(Chunk) /\ r \in Seq(Chunk) /\ Len(l) = Len(p) + 1 - k
    BY <2>1, <2>3 DEF l, r
  <2>5. /\ Len(l \o q) = Len(l) + Len(q) /\ l \o q \in Seq(Chunk)
        /\ \A i \in 1..(Len(l) + Len(q)) :
             (l \o q)[i] = IF i <= Len(l) THEN l[i] ELSE q[i - Len(l)]
        /\ \A i \in 1..(Len(p) + Len(q)) :
             (p \o q)[i] = IF i <= Len(p) THEN p[i] ELSE q[i - Len(p)]
    <3>1. ASSUME NEW u \in Seq(Chunk), NEW v \in Seq(Chunk)
          PROVE  /\ Len(u \o v) = Len(u) + Len(v) /\ u \o v \in Seq(Chunk)
                 /\ \A i \in 1..(Len(u) + Len(v)) :
                      (u \o v)[i] = IF i <= Len(u) THEN u[i] ELSE v[i - Len(u)]
      OBVIOUS
    <3> QED BY <2>4, <3>1
  <2>7. Len(r) = Len(l) + Len(q) /\ Len(l) \in Nat /\ Len(q) \in Nat /\ Len(p) \in Nat
    BY <1>1, <2>2, <2>3, <2>4 DEF r
  <2>8. ASSUME NEW i \in 1..Len(r) PROVE (l \o q)[i] = r[i]
    <3>1. r[i] = (p \o q)[k + i - 1] /\ k + i - 1 \in 1..(Len(p) + Len(q))
      BY <1>1, <2>2, <2>3, <2>7 DEF r
    <3>2. CASE i <= Len(l)
      <4>1. (l \o q)[i] = l[i] /\ l[i] = p[k + i - 1] /\ k + i - 1 <= Len(p)
        BY <1>1, <2>1, <2>5, <2>7, <3>2 DEF l
      <4> QED BY <2>5, <3>1, <4>1
    <3>3. CASE ~(i <= Len(l))
      <4>1. (l \o q)[i] = q[i - Len(l)]
        BY <2>5, <2>7, <3>3
      <4>2. ~(k + i - 1 <= Len(p)) /\ (k + i - 1) - Len(p) = i - Len(l)
        BY <1>1, <2>4, <2>7, <3>3
      <4>3. r[i] = q[(k + i - 1) - Len(p)]
        BY <2>5, <3>1, <4>2
      <4> QED BY <4>1, <4>2, <4>3
    <3> QED BY <3>2, <3>3
  <2>6. l \o q = r
    BY <2>4, <2>5, <2>7, <2>8
  <2> QED BY <2>2, <2>6 DEF l, r
<1>4. p = From(p, 1) /\ 1 \in 1..(Len(p) + 1)
  BY DEF From
<1>5. From(p, k) \in Seq(Chunk)
  BY <1>1, FromIs
<1> QED BY <1>1, <1>2, <1>3, <1>4, <1>5 DEF CutOf

LEMMA JoinAppend ==
  ASSUME NEW p \in Seq(Chunk), NEW q \in Seq(Chunk), NEW c \in Chunk
  PROVE  /\ p \o Append(q, c) = Append(p \o q, c) /\ Append(p \o q, c) \in Seq(Chunk)
         /\ p \o << >> = p /\ p \o <<c>> = Append(p, c)
<1>1. p \o Append(q, c) = Append(p \o q, c) /\ Append(p \o q, c) \in Seq(Chunk)
  OBVIOUS
<1>2. p \o << >> = p
  OBVIOUS
<1>3. p \o <<c>> = Append(p, c)
  OBVIOUS
<1> QED BY <1>1, <1>2, <1>3

LEMMA PushAudio ==
  ASSUME HistoryTyped, NEW speech \in BOOLEAN, Pushes(speech), PushKind(speech),
         Now(speech) \in Chunk
  PROVE  \/ Grows(Append(HeldChunks, Now(speech)), frames + 1)
         \/ Closes(HeldChunks, frames + 1)
         \/ Closes(Append(HeldChunks, Now(speech)), frames + 1)
<1> DEFINE c == Now(speech)
<1>1. /\ c \in Chunk /\ frames \in Nat /\ BuilderOK /\ frames' = frames + 1
      /\ config.turnCheck \in Nat \ {0}
  BY BuilderIs DEF HistoryTyped, Pushes
<1>2. /\ HeldChunks \in Seq(Chunk) /\ Append(HeldChunks, c) \in Seq(Chunk)
      /\ Append(HeldChunks, c) \in CutOf(Append(HeldChunks, c))
  <2>1. HeldChunks \in Seq(Chunk)
    BY <1>1, HeldIs
  <2>2. Append(HeldChunks, c) \in Seq(Chunk)
    BY <1>1, <2>1
  <2> HIDE DEF c
  <2> QED BY <1>1, <2>1, <2>2, PruneCuts
<1> HIDE DEF c
<1>3. ASSUME Waiting
      PROVE  /\ state.pre \o Append(state.pending, c) = Append(HeldChunks, c)
             /\ state.pre \in Seq(Chunk) /\ state.pending \in Seq(Chunk)
  <2>1. /\ HeldChunks = state.pre \o state.pending
        /\ state.pre \in Seq(Chunk) /\ state.pending \in Seq(Chunk)
    BY <1>1, <1>3, HeldIs
  <2>2. state.pre \o Append(state.pending, c) = Append(state.pre \o state.pending, c)
    BY <1>1, <2>1, JoinAppend
  <2> QED BY <2>1, <2>2
<1>4. CASE Holds(speech)
  <2>1. HeldChunks' = Append(HeldChunks, c)
    BY <1>3, <1>4 DEF Holds, HeldChunks, Waiting, c
  <2> QED BY <1>1, <1>2, <1>4, <2>1 DEF Grows, Holds, c
<1>5. CASE Begins(speech)
  <2>1. HeldChunks' = Append(HeldChunks, c)
    BY <1>3, <1>5 DEF Begins, HeldChunks, c
  <2> QED BY <1>1, <1>2, <1>5, <2>1 DEF Grows, Begins, c
<1>6. CASE Quietens(speech)
  <2>1. /\ HeldChunks' = PreWithSilence(c) \o << >>
        /\ PreWithSilence(c) = Prune(Append(HeldChunks, c), config.turnCheck)
    BY <1>3, <1>6 DEF Quietens, HeldChunks, c, PreWithSilence
  <2>2. /\ Prune(Append(HeldChunks, c), config.turnCheck) \in CutOf(Append(HeldChunks, c))
        /\ Prune(Append(HeldChunks, c), config.turnCheck) \in Seq(Chunk)
    BY <1>1, <1>2, PruneCuts
  <2>3. HeldChunks' = Prune(Append(HeldChunks, c), config.turnCheck)
    BY <1>1, <2>1, <2>2, JoinAppend
  <2> QED BY <1>1, <1>6, <2>2, <2>3 DEF Grows, Quietens, c
<1>7. CASE Lengthens(speech)
  <2>1. HeldChunks' = Append(HeldChunks, c)
    BY <1>1, <1>7, HeldIs DEF Lengthens, HeldChunks, c
  <2> QED BY <1>1, <1>2, <1>7, <2>1 DEF Grows, Lengthens, c
<1>8. CASE Splits(speech)
  <2>1. /\ state.kind = "Active" /\ speech = TRUE
        /\ closes' = Append(closes, ClosedAs("InterimResultSilenceReached", frames + 1, state.chunks))
    BY <1>8 DEF Splits
  <2>2. HeldChunks = state.chunks
    BY <1>1, <2>1, HeldIs
  <2>3. /\ ClosedAs("InterimResultSilenceReached", frames + 1, state.chunks) \in Closed
        /\ ClosedAs("InterimResultSilenceReached", frames + 1, state.chunks).chunks = state.chunks
    BY <1>1, <1>2, <2>1, <2>2, ClosedAsTyped
  <2>4. TrailingSilence(state.chunks) \in Seq(Chunk)
    BY <1>2, <2>2, TrailingSilenceIs
  <2>5. PICK silent \in Seq(Chunk) : silent = TrailingSilence(state.chunks)
    BY <2>4
  <2>6. KeptSilence \in Seq(Chunk) /\ SourceIn(KeptSilence) = {}
    BY <1>1, <2>5, PaddingHasNoSource DEF KeptSilence
  <2>7. HeldChunks' = Append(KeptSilence, c)
    <3>1. KeptSilence \o <<c>> = Append(KeptSilence, c)
      BY <1>1, <2>6, JoinAppend
    <3> QED BY <1>8, <3>1 DEF Splits, HeldChunks, c
  <2>8. HeldChunks' = Append(KeptSilence, Now(TRUE))
    BY <2>1, <2>7 DEF c
  <2>9. Closes(HeldChunks, frames + 1)
    BY <1>1, <2>1, <2>2, <2>3, <2>6, <2>8 DEF Closes
  <2> QED BY <2>9
<1>9. CASE Limits(speech)
  <2>1. /\ state.kind = "Active" /\ HeldChunks' = << >> \o << >>
        /\ closes' = Append(closes, ClosedAs("SegmentMaxChunksReached", frames + 1,
                                             Append(state.chunks, c)))
    BY <1>9 DEF Limits, HeldChunks, c
  <2>2. HeldChunks = state.chunks
    BY <1>1, <2>1, HeldIs
  <2>3. /\ ClosedAs("SegmentMaxChunksReached", frames + 1, Append(state.chunks, c)) \in Closed
        /\ ClosedAs("SegmentMaxChunksReached", frames + 1, Append(state.chunks, c)).chunks
             = Append(HeldChunks, c)
    <3>1. Append(state.chunks, c) \in Seq(Chunk) /\ frames + 1 \in Nat
      BY <1>1, <1>2, <2>2
    <3>2. PICK at \in Nat : at = frames + 1
      BY <3>1
    <3>3. PICK chunks \in Seq(Chunk) : chunks = Append(state.chunks, c)
      BY <3>1
    <3>4. /\ ClosedAs("SegmentMaxChunksReached", at, chunks) \in Closed
          /\ ClosedAs("SegmentMaxChunksReached", at, chunks).chunks = chunks
      BY <1>1, <2>1, ClosedAsTyped
    <3> QED BY <2>2, <3>2, <3>3, <3>4
  <2>4. HeldChunks' = << >>
    <3>1. << >> \o << >> = << >>
      OBVIOUS
    <3> QED BY <2>1, <3>1
  <2>5. SourceIn(HeldChunks') = {}
    BY <2>4, SourceOfEmpty
  <2>6. Closes(Append(HeldChunks, c), frames + 1)
    BY <1>1, <2>1, <2>2, <2>3, <2>5 DEF Closes
  <2> QED BY <2>6 DEF c
<1>10. CASE Ends(speech)
  <2> DEFINE kept == Prune(Padding(TrailingSilence(Append(state.chunks, c))), config.turnCheck)
  <2>1. /\ state.kind = "Active" /\ HeldChunks' = kept \o << >>
        /\ closes' = Append(closes, ClosedAs("EndSilenceReached", frames + 1,
                                             Append(state.chunks, c)))
    BY <1>10 DEF Ends, HeldChunks, c
  <2>2. HeldChunks = state.chunks
    BY <1>1, <2>1, HeldIs
  <2>3. /\ ClosedAs("EndSilenceReached", frames + 1, Append(state.chunks, c)) \in Closed
        /\ ClosedAs("EndSilenceReached", frames + 1, Append(state.chunks, c)).chunks
             = Append(HeldChunks, c)
    <3>1. Append(state.chunks, c) \in Seq(Chunk) /\ frames + 1 \in Nat
      BY <1>1, <1>2, <2>2
    <3>2. PICK at \in Nat : at = frames + 1
      BY <3>1
    <3>3. PICK chunks \in Seq(Chunk) : chunks = Append(state.chunks, c)
      BY <3>1
    <3>4. /\ ClosedAs("EndSilenceReached", at, chunks) \in Closed
          /\ ClosedAs("EndSilenceReached", at, chunks).chunks = chunks
      BY <1>1, <2>1, ClosedAsTyped
    <3> QED BY <2>2, <3>2, <3>3, <3>4
  <2>4. TrailingSilence(Append(state.chunks, c)) \in Seq(Chunk)
    BY <1>2, <2>2, TrailingSilenceIs
  <2>5. PICK silent \in Seq(Chunk) : silent = TrailingSilence(Append(state.chunks, c))
    BY <2>4
  <2>6. kept \in Seq(Chunk) /\ SourceIn(kept) = {}
    BY <1>1, <2>5, PaddingHasNoSource
  <2>7. HeldChunks' = kept
    <3>1. ASSUME NEW p \in Seq(Chunk) PROVE p \o << >> = p
      OBVIOUS
    <3> HIDE DEF kept
    <3> QED BY <2>1, <2>6, <3>1
  <2> HIDE DEF kept
  <2>8. Closes(Append(HeldChunks, c), frames + 1)
    BY <1>1, <2>1, <2>2, <2>3, <2>6, <2>7 DEF Closes
  <2> QED BY <2>8 DEF c
<1> QED BY <1>4, <1>5, <1>6, <1>7, <1>8, <1>9, <1>10 DEF PushKind

LEMMA FlushAudio ==
  ASSUME HistoryTyped, Flushes
  PROVE  \/ Grows(HeldChunks, frames)
         \/ Grows(<< >>, frames)
         \/ Closes(HeldChunks, frames)
<1>1. /\ frames \in Nat /\ BuilderOK /\ frames' = frames /\ config.turnCheck \in Nat \ {0}
      /\ HeldChunks \in Seq(Chunk)
  BY BuilderIs, HeldIs DEF HistoryTyped, Flushes
<1>2. CASE state.kind = "Active"
  <2>1. /\ HeldChunks' = KeptSilence \o << >>
        /\ closes' = Append(closes, ClosedAs("EndSilenceReached", frames, state.chunks))
    BY <1>2 DEF Flushes, HeldChunks
  <2>2. HeldChunks = state.chunks
    BY <1>1, <1>2, HeldIs
  <2>3. /\ ClosedAs("EndSilenceReached", frames, state.chunks) \in Closed
        /\ ClosedAs("EndSilenceReached", frames, state.chunks).chunks = HeldChunks
    <3>1. PICK at \in Nat : at = frames
      BY <1>1
    <3>2. PICK chunks \in Seq(Chunk) : chunks = state.chunks
      BY <1>1, <2>2
    <3>3. PICK reason \in {"InterimResultSilenceReached", "SegmentMaxChunksReached",
                           "EndSilenceReached"} : reason = "EndSilenceReached"
      OBVIOUS
    <3>4. BuilderOK /\ state.kind = "Active"
      BY <1>1, <1>2
    <3>5. ClosedAs(reason, at, chunks) \in Closed /\ ClosedAs(reason, at, chunks).chunks = chunks
      BY <3>4, ClosedAsTyped
    <3> QED BY <2>2, <3>1, <3>2, <3>3, <3>5
  <2>4. TrailingSilence(state.chunks) \in Seq(Chunk)
    BY <1>1, <2>2, TrailingSilenceIs
  <2>5. PICK silent \in Seq(Chunk) : silent = TrailingSilence(state.chunks)
    BY <2>4
  <2>6. KeptSilence \in Seq(Chunk) /\ SourceIn(KeptSilence) = {}
    BY <1>1, <2>5, PaddingHasNoSource DEF KeptSilence
  <2>7. HeldChunks' = KeptSilence
    <3>1. KeptSilence \o << >> = KeptSilence
      BY <2>6
    <3> QED BY <2>1, <3>1
  <2>8. Closes(HeldChunks, frames)
    BY <1>1, <2>1, <2>3, <2>6, <2>7 DEF Closes
  <2> QED BY <2>8
<1>3. CASE state.kind = "AfterInterimSilence"
  <2>1. HeldChunks' = << >> \o << >> /\ closes' = closes
    BY <1>3 DEF Flushes, HeldChunks
  <2>2. HeldChunks' = << >> /\ << >> \in Seq(Chunk)
    <3>1. << >> \o << >> = << >>
      OBVIOUS
    <3> QED BY <2>1, <3>1
  <2>3. << >> \in CutOf(<< >>)
    BY <1>1, <2>2, PruneCuts
  <2> QED BY <1>1, <2>1, <2>2, <2>3 DEF Grows
<1>4. CASE state.kind = "Idle"
  <2>1. HeldChunks' = HeldChunks /\ closes' = closes
    BY <1>4 DEF Flushes, HeldChunks
  <2>2. HeldChunks \in CutOf(HeldChunks)
    BY <1>1, PruneCuts
  <2> QED BY <1>1, <2>1, <2>2 DEF Grows
<1> QED BY <1>1, <1>2, <1>3, <1>4, BuilderIs

LEMMA UpdateAudio ==
  ASSUME HistoryTyped, NEW next \in Configs, Updates(next)
  PROVE  Grows(HeldChunks, frames)
<1>1. /\ frames \in Nat /\ BuilderOK /\ frames' = frames /\ closes' = closes
      /\ HeldChunks \in Seq(Chunk) /\ next.turnCheck \in Nat \ {0}
  BY BuilderIs, HeldIs, ConfigsAssumption DEF HistoryTyped, Updates, SegmentBuilderConfig
<1>2. CASE state' = state
  <2>1. HeldChunks' = HeldChunks
    BY <1>2 DEF HeldChunks
  <2> QED BY <1>1, <2>1, PruneCuts DEF Grows
<1>3. CASE Waiting /\ state' # state
  <2>1. /\ HeldChunks' = Prune(state.pre, next.turnCheck) \o state.pending
        /\ HeldChunks = state.pre \o state.pending
        /\ state.pre \in Seq(Chunk) /\ state.pending \in Seq(Chunk)
    BY <1>1, <1>3, HeldIs DEF Updates, HeldChunks, Waiting
  <2> QED BY <1>1, <2>1, PruneCuts DEF Grows
<1> QED BY <1>2, <1>3 DEF Updates

\* Audio that may follow what is closed.
Follower(q, at) ==
  /\ q \in Seq(Chunk) /\ at \in {frames, frames + 1} /\ Stream(q, at)
  /\ \A n \in DOMAIN closes : AllBefore(SourceOf(closes[n].chunks), SourceOf(q))

LEMMA ClosedSourceIs ==
  ASSUME HistoryTyped, AudioInOrder, NEW n \in DOMAIN closes
  PROVE  SourceOf(closes[n].chunks) \subseteq 0..(frames - 1)
<1>1. frames \in Nat
  BY BuilderIs DEF HistoryTyped
<1>2. PICK m \in 0..frames : Stream(closes[n].chunks, m)
  BY DEF AudioInOrder, ClosedStream
<1> QED BY <1>1, <1>2 DEF Stream

LEMMA HeldFollows ==
  ASSUME HistoryTyped, AudioInOrder, NEW speech, Now(speech) \in Chunk
  PROVE  /\ Follower(HeldChunks, frames) /\ Follower(<< >>, frames)
         /\ Follower(Append(HeldChunks, Now(speech)), frames + 1)
<1>1. frames \in Nat /\ HeldChunks \in Seq(Chunk)
  BY BuilderIs, HeldIs DEF HistoryTyped
<1>2. Follower(HeldChunks, frames)
  BY <1>1 DEF Follower, AudioInOrder
<1>3. Follower(<< >>, frames)
  <2>1. << >> \in Seq(Chunk)
    OBVIOUS
  <2> QED BY <1>1, <2>1, SourceOfEmpty, StreamOfPadding DEF Follower, AllBefore
<1>4. Follower(Append(HeldChunks, Now(speech)), frames + 1)
  <2>1. PICK c \in Chunk : c = Now(speech)
    OBVIOUS
  <2>2. c.source = TRUE /\ c.at = frames
    BY <2>1 DEF Now
  <2>3. Stream(Append(HeldChunks, c), frames + 1)
    BY <1>1, <2>2, StreamOfAppend DEF AudioInOrder
  <2>4. Append(HeldChunks, c) \in Seq(Chunk)
    BY <1>1
  <2>5. SourceOf(Append(HeldChunks, c)) = SourceOf(HeldChunks) \union {frames}
    BY <1>1, <2>2, SourceOfAppend
  <2>6. ASSUME NEW n \in DOMAIN closes
        PROVE  AllBefore(SourceOf(closes[n].chunks), SourceOf(Append(HeldChunks, c)))
    <3>1. SourceOf(closes[n].chunks) \subseteq 0..(frames - 1)
      BY ClosedSourceIs
    <3>2. AllBefore(SourceOf(closes[n].chunks), SourceOf(HeldChunks))
      BY DEF AudioInOrder
    <3> QED BY <1>1, <2>5, <3>1, <3>2 DEF AllBefore
  <2>7. frames + 1 \in {frames, frames + 1}
    OBVIOUS
  <2> QED BY <2>1, <2>3, <2>4, <2>6, <2>7 DEF Follower
<1> QED BY <1>2, <1>3, <1>4

LEMMA GrowsKeepsOrder ==
  ASSUME HistoryTyped, AudioInOrder, NEW q, NEW at, Follower(q, at), Grows(q, at)
  PROVE  AudioInOrder'
<1>1. frames \in Nat /\ at \in {frames, frames + 1} /\ frames' = at /\ closes' = closes
      /\ q \in Seq(Chunk) /\ Stream(q, at)
  BY BuilderIs DEF HistoryTyped, Follower, Grows
<1>2. PICK k \in 1..(Len(q) + 1) : HeldChunks' = From(q, k)
  BY DEF Grows, CutOf
<1>3. Stream(From(q, k), at) /\ SourceOf(From(q, k)) \subseteq SourceOf(q)
  BY <1>1, StreamOfFrom
<1>4. ASSUME NEW n \in DOMAIN closes
      PROVE  /\ ClosedStream(closes[n].chunks, frames')
             /\ AllBefore(SourceOf(closes[n].chunks), SourceOf(HeldChunks'))
             /\ \A m \in DOMAIN closes : n < m =>
                  AllBefore(SourceOf(closes[n].chunks), SourceOf(closes[m].chunks))
  <2>1. PICK m \in 0..frames : Stream(closes[n].chunks, m)
    BY DEF AudioInOrder, ClosedStream
  <2>2. m \in 0..frames'
    BY <1>1
  <2>3. ClosedStream(closes[n].chunks, frames')
    BY <1>1, <2>1, <2>2 DEF ClosedStream
  <2>4. AllBefore(SourceOf(closes[n].chunks), SourceOf(HeldChunks'))
    BY <1>2, <1>3 DEF Follower, AllBefore
  <2> QED BY <2>3, <2>4 DEF AudioInOrder
<1> QED BY <1>1, <1>2, <1>3, <1>4 DEF AudioInOrder

LEMMA ClosesKeepsOrder ==
  ASSUME HistoryTyped, AudioInOrder, NEW q, NEW end, Follower(q, end),
         NEW at \in {frames, frames + 1}, end <= at, Closes(q, at), Now(TRUE) \in Chunk
  PROVE  AudioInOrder'
<1>0. /\ frames \in Nat /\ closes \in Seq(Closed) /\ frames' = at
      /\ q \in Seq(Chunk) /\ Stream(q, end) /\ end \in {frames, frames + 1}
  BY BuilderIs DEF HistoryTyped, Follower, Closes
<1>1. /\ frames \in Nat /\ at \in {frames, frames + 1} /\ frames' = at /\ closes \in Seq(Closed)
      /\ q \in Seq(Chunk) /\ Stream(q, end) /\ at \in Nat /\ end \in 0..at
  BY <1>0
<1>2. PICK closed \in Closed : closes' = Append(closes, closed) /\ closed.chunks = q
  BY DEF Closes
<1> DEFINE k == Len(closes)
<1>3. /\ k \in Nat /\ DOMAIN closes = 1..k /\ DOMAIN closes' = 1..(k + 1)
      /\ closes'[k + 1].chunks = q /\ \A n \in 1..k : closes'[n] = closes[n]
  BY <1>1, <1>2
<1> HIDE DEF k
<1>4. /\ Stream(HeldChunks', at)
      /\ \A n \in 1..k : AllBefore(SourceOf(closes[n].chunks), SourceOf(HeldChunks'))
      /\ AllBefore(SourceOf(q), SourceOf(HeldChunks'))
  <2>1. CASE SourceIn(HeldChunks') = {}
    BY <2>1, StreamOfPadding DEF AllBefore
  <2>2. CASE \E p \in Seq(Chunk) :
               /\ SourceIn(p) = {} /\ q = HeldChunks /\ at = frames + 1
               /\ HeldChunks' = Append(p, Now(TRUE))
    <3>1. PICK p \in Seq(Chunk) :
            /\ SourceIn(p) = {} /\ q = HeldChunks /\ at = frames + 1
            /\ HeldChunks' = Append(p, Now(TRUE))
      BY <2>2
    <3>2. PICK c \in Chunk : c = Now(TRUE)
      OBVIOUS
    <3>3. c.source = TRUE /\ c.at = frames
      BY <3>2 DEF Now
    <3>4. Stream(p, frames) /\ SourceOf(p) = {}
      BY <3>1, StreamOfPadding
    <3>5. Stream(HeldChunks', at)
      BY <1>1, <3>1, <3>2, <3>3, <3>4, StreamOfAppend
    <3>6. SourceOf(HeldChunks') = {frames}
      BY <3>1, <3>2, <3>3, <3>4, SourceOfAppend
    <3>7. SourceOf(q) \subseteq 0..(frames - 1)
      BY <3>1 DEF AudioInOrder, Stream
    <3>8. \A n \in 1..k : SourceOf(closes[n].chunks) \subseteq 0..(frames - 1)
      BY <1>3, ClosedSourceIs
    <3>9. AllBefore(SourceOf(q), {frames})
      <4>1. \A a \in 0..(frames - 1) : a < frames
        BY <1>1
      <4> QED BY <3>7, <4>1 DEF AllBefore
    <3>10. \A n \in 1..k : AllBefore(SourceOf(closes[n].chunks), {frames})
      <4>1. \A a \in 0..(frames - 1) : a < frames
        BY <1>1
      <4> QED BY <3>8, <4>1 DEF AllBefore
    <3> QED BY <3>5, <3>6, <3>9, <3>10
  <2> QED BY <2>1, <2>2 DEF Closes
<1>5. ASSUME NEW n \in 1..(k + 1)
      PROVE  /\ ClosedStream(closes'[n].chunks, frames')
             /\ AllBefore(SourceOf(closes'[n].chunks), SourceOf(HeldChunks'))
             /\ \A m \in 1..(k + 1) : n < m =>
                  AllBefore(SourceOf(closes'[n].chunks), SourceOf(closes'[m].chunks))
  <2>1. CASE n \in 1..k
    <3>1. PICK m \in 0..frames : Stream(closes[n].chunks, m)
      BY <1>3, <2>1 DEF AudioInOrder, ClosedStream
    <3>2. m \in 0..frames' /\ closes'[n] = closes[n]
      BY <1>1, <1>3, <2>1
    <3>3. ClosedStream(closes'[n].chunks, frames')
      BY <3>1, <3>2 DEF ClosedStream
    <3>4. AllBefore(SourceOf(closes[n].chunks), SourceOf(q))
      BY <1>3, <2>1 DEF Follower
    <3>5. \A i \in 1..(k + 1) : n < i =>
                  AllBefore(SourceOf(closes'[n].chunks), SourceOf(closes'[i].chunks))
      <4> SUFFICES ASSUME NEW i \in 1..(k + 1), n < i
                   PROVE  AllBefore(SourceOf(closes[n].chunks), SourceOf(closes'[i].chunks))
        BY <3>2
      <4>1. CASE i \in 1..k
        BY <1>3, <2>1, <4>1 DEF AudioInOrder
      <4>2. CASE i = k + 1
        BY <1>3, <3>4, <4>2
      <4> QED BY <1>3, <4>1, <4>2
    <3> QED BY <1>4, <2>1, <3>2, <3>3, <3>5
  <2>2. CASE n = k + 1
    <3>1. ClosedStream(closes'[n].chunks, frames')
      <4>1. end \in 0..frames'
        BY <1>1
      <4>2. closes'[n].chunks = q
        BY <1>3, <2>2
      <4>3. Stream(closes'[n].chunks, end)
        BY <1>1, <4>2
      <4> QED BY <4>1, <4>3 DEF ClosedStream
    <3>2. \A m \in 1..(k + 1) : ~(n < m)
      BY <1>3, <2>2
    <3> QED BY <1>3, <1>4, <2>2, <3>1, <3>2
  <2> QED BY <1>3, <2>1, <2>2
<1> QED BY <1>1, <1>3, <1>4, <1>5 DEF AudioInOrder

LEMMA AudioOrderStarts == HistoryInit => AudioInOrder
<1> SUFFICES ASSUME HistoryInit PROVE AudioInOrder
  OBVIOUS
<1>1. closes = << >> /\ state = Idle(<< >>, << >>)
  BY DEF HistoryInit, BuilderInit
<1>2. HeldChunks = << >>
  <2>1. << >> \o << >> = << >>
    OBVIOUS
  <2> QED BY <1>1, <2>1 DEF HeldChunks, Idle
<1>3. Stream(HeldChunks, frames)
  BY <1>2, SourceOfEmpty, StreamOfPadding
<1>4. DOMAIN closes = {}
  BY <1>1
<1> QED BY <1>3, <1>4 DEF AudioInOrder

LEMMA AudioOrderKept ==
  ASSUME HistoryTyped, AudioInOrder, HistoryKinds
  PROVE  AudioInOrder'
<1>0. \A speech \in BOOLEAN : Now(speech) \in Chunk
  BY BuilderIs DEF HistoryTyped, Now, Chunk
<1>1. ASSUME NEW speech \in BOOLEAN, Pushes(speech), PushKind(speech), Now(speech) \in Chunk
      PROVE  AudioInOrder'
  <2>1. \/ Grows(Append(HeldChunks, Now(speech)), frames + 1)
        \/ Closes(HeldChunks, frames + 1)
        \/ Closes(Append(HeldChunks, Now(speech)), frames + 1)
    BY <1>1, PushAudio
  <2>2. frames \in Nat /\ frames <= frames + 1 /\ frames + 1 <= frames + 1
    BY BuilderIs DEF HistoryTyped
  <2>3. /\ Follower(HeldChunks, frames)
        /\ Follower(Append(HeldChunks, Now(speech)), frames + 1)
    BY <1>1, HeldFollows
  <2>4. CASE Grows(Append(HeldChunks, Now(speech)), frames + 1)
    BY <2>3, <2>4, GrowsKeepsOrder
  <2>5. CASE Closes(HeldChunks, frames + 1)
    BY <1>0, <2>2, <2>3, <2>5, ClosesKeepsOrder
  <2>6. CASE Closes(Append(HeldChunks, Now(speech)), frames + 1)
    BY <1>0, <2>2, <2>3, <2>6, ClosesKeepsOrder
  <2> QED BY <2>1, <2>4, <2>5, <2>6
<1>2. CASE Flushes
  <2>1. Grows(HeldChunks, frames) \/ Grows(<< >>, frames) \/ Closes(HeldChunks, frames)
    BY <1>2, FlushAudio
  <2>2. frames \in Nat /\ frames <= frames
    BY BuilderIs DEF HistoryTyped
  <2>3. Follower(HeldChunks, frames) /\ Follower(<< >>, frames)
    BY <1>0, HeldFollows
  <2>4. CASE Grows(HeldChunks, frames) \/ Grows(<< >>, frames)
    BY <2>3, <2>4, GrowsKeepsOrder
  <2>5. CASE Closes(HeldChunks, frames)
    BY <1>0, <2>2, <2>3, <2>5, ClosesKeepsOrder
  <2> QED BY <2>1, <2>4, <2>5
<1>3. ASSUME NEW next \in Configs, Updates(next)
      PROVE  AudioInOrder'
  BY <1>0, <1>3, UpdateAudio, HeldFollows, GrowsKeepsOrder
<1>4. CASE UNCHANGED historyVars
  BY <1>4 DEF AudioInOrder, historyVars, builderVars, HeldChunks, ClosedStream
<1> QED BY <1>1, <1>2, <1>3, <1>4 DEF HistoryKinds

LEMMA AudioInOrderAlways == HistorySpec => []AudioInOrder
<1>1. HistoryTyped /\ AudioInOrder /\ [HistoryNext]_historyVars => AudioInOrder'
  BY HistorySteps, AudioOrderKept
<1> QED BY AudioOrderStarts, HistoryTypedAlways, <1>1, PTL DEF HistorySpec

LEMMA AudioIs ==
  ASSUME HistoryTyped
  PROVE  /\ DOMAIN Audio = 1..(Len(closes) + 1) /\ Len(closes) \in Nat
         /\ \A n \in 1..Len(closes) : n \in DOMAIN closes /\ Audio[n] = closes[n].chunks
         /\ Audio[Len(closes) + 1] = HeldChunks
<1> DEFINE k == Len(closes)
           q == [n \in DOMAIN closes |-> closes[n].chunks]
<1>1. closes \in Seq(Closed) /\ k \in Nat /\ DOMAIN closes = 1..k
  BY DEF HistoryTyped
<1>2. \A n \in 1..k : closes[n].chunks \in Seq(Chunk)
  <2>1. \A n \in 1..k : closes[n] \in Closed
    BY <1>1
  <2> QED BY <2>1 DEF Closed
<1>3. q \in Seq(Seq(Chunk)) /\ Len(q) = k
  BY <1>1, <1>2
<1>4. Audio = Append(q, HeldChunks)
  BY DEF Audio
<1>5. \A n \in 1..k : q[n] = closes[n].chunks
  BY <1>1
<1> HIDE DEF q, k
<1>6. /\ DOMAIN Audio = 1..(k + 1) /\ Audio[k + 1] = HeldChunks
      /\ \A n \in 1..k : Audio[n] = q[n]
  BY <1>1, <1>3, <1>4
<1>7. /\ DOMAIN Audio = 1..(k + 1) /\ k \in Nat
      /\ \A n \in 1..k : n \in DOMAIN closes /\ Audio[n] = closes[n].chunks
      /\ Audio[k + 1] = HeldChunks
  BY <1>1, <1>5, <1>6
<1> QED BY <1>7 DEF k

(***************************************************************************)
(* Turn audio never repeats or reorders input, whatever is pushed, and     *)
(* whenever the builder is flushed or its settings change.                 *)
(***************************************************************************)
THEOREM AudioOnce == HistorySpec => []SourceFramesOnce
<1>1. ASSUME HistoryTyped, AudioInOrder PROVE SourceFramesOnce
  <2> DEFINE k == Len(closes)
  <2>1. PICK audio : audio = Audio
    OBVIOUS
  <2>2. /\ DOMAIN audio = 1..(k + 1) /\ k \in Nat
        /\ \A n \in 1..k : n \in DOMAIN closes /\ audio[n] = closes[n].chunks
        /\ audio[k + 1] = HeldChunks
    BY <1>1, <2>1, AudioIs
  <2> HIDE DEF k
  <2>3. ASSUME NEW n \in 1..(k + 1), NEW i \in SourceIn(audio[n]), NEW j \in SourceIn(audio[n]),
               i < j
        PROVE  audio[n][i].at < audio[n][j].at
    <3>1. \E m : Stream(audio[n], m)
      BY <1>1, <2>2 DEF AudioInOrder, ClosedStream
    <3> QED BY <2>3, <3>1 DEF Stream
  <2>4. ASSUME NEW n \in 1..(k + 1), NEW m \in 1..(k + 1), n < m
        PROVE  AllBefore(SourceOf(audio[n]), SourceOf(audio[m]))
    <3>1. n \in 1..k
      BY <2>2, <2>4
    <3>2. CASE m \in 1..k
      BY <1>1, <2>2, <2>4, <3>1, <3>2 DEF AudioInOrder
    <3>3. CASE m = k + 1
      BY <1>1, <2>2, <3>1, <3>3 DEF AudioInOrder
    <3> QED BY <2>2, <3>2, <3>3
  <2>5. ASSUME NEW n \in 1..(k + 1), NEW m \in 1..(k + 1), n <= m,
               NEW i \in SourceIn(audio[n]), NEW j \in SourceIn(audio[m]), n < m \/ i < j
        PROVE  audio[n][i].at < audio[m][j].at
    <3>1. CASE n < m
      BY <2>4, <3>1 DEF AllBefore, SourceOf
    <3>2. CASE n = m
      BY <2>2, <2>3, <2>5, <3>2
    <3> QED BY <2>2, <2>5, <3>1, <3>2
  <2> QED BY <2>1, <2>2, <2>5 DEF SourceFramesOnce
<1> QED BY <1>1, HistoryTypedAlways, AudioInOrderAlways, PTL

-----------------------------------------------------------------------------
(* AcceptedAudioKept: while the builder waits, everything owed is closed,  *)
(* and the run of speech is held back as a whole.                          *)

AudioKept ==
  /\ Waiting =>
       /\ owed \subseteq ClosedSource
       /\ runFrom..(frames - 1) \subseteq SourceOf(state.pending)
       /\ frames - runFrom <= Len(state.pending)
  /\ state.kind = "Active" =>
       /\ owed \subseteq ClosedSource \union SourceOf(state.chunks)
       /\ runFrom..(frames - 1) \subseteq SourceOf(state.chunks)
       /\ state.silence > 0 => runFrom = frames

LEMMA ClosedSourceGrows ==
  ASSUME HistoryTyped, NEW closed, closes' = Append(closes, closed)
  PROVE  ClosedSource' = ClosedSource \union SourceOf(closed.chunks)
<1> DEFINE k == Len(closes)
<1>1. closes \in Seq(Closed)
  BY DEF HistoryTyped
<1>2. /\ k \in Nat /\ DOMAIN closes = 1..k /\ DOMAIN closes' = 1..(k + 1)
      /\ closes'[k + 1] = closed /\ \A n \in 1..k : closes'[n] = closes[n]
  BY <1>1
<1>3. 1..(k + 1) = 1..k \union {k + 1}
  BY <1>2
<1> HIDE DEF k
<1>4. ClosedSource' = UNION {SourceOf(closes'[n].chunks) : n \in 1..(k + 1)}
  BY <1>2 DEF ClosedSource
<1>5. ClosedSource = UNION {SourceOf(closes[n].chunks) : n \in 1..k}
  BY <1>2 DEF ClosedSource
<1>6. ASSUME NEW a PROVE a \in ClosedSource' <=> a \in ClosedSource \union SourceOf(closed.chunks)
  <2>1. a \in ClosedSource' <=> \E n \in 1..(k + 1) : a \in SourceOf(closes'[n].chunks)
    BY <1>4
  <2>2. a \in ClosedSource <=> \E n \in 1..k : a \in SourceOf(closes[n].chunks)
    BY <1>5
  <2> QED BY <1>2, <1>3, <2>1, <2>2
<1> QED BY <1>6

\* The run of speech, one chunk longer.
LEMMA RunGrows ==
  ASSUME HistoryTyped, NEW S, runFrom..(frames - 1) \subseteq S
  PROVE  /\ runFrom..frames \subseteq S \union {frames}
         /\ (frames + 1)..frames = {} /\ frames..(frames - 1) = {}
         /\ frames \in Nat /\ runFrom \in 0..frames
         /\ frames = runFrom => runFrom..frames = {frames}
<1>1. frames \in Nat /\ runFrom \in 0..frames
  BY BuilderIs DEF HistoryTyped
<1>2. ASSUME NEW a \in runFrom..frames PROVE a \in S \union {frames}
  <2>1. a = frames \/ a \in runFrom..(frames - 1)
    BY <1>1
  <2> QED BY <2>1
<1> QED BY <1>1, <1>2

LEMMA KeptByPush ==
  ASSUME HistoryTyped, AudioKept, NEW speech \in BOOLEAN, Pushes(speech), PushKind(speech),
         Now(speech) \in Chunk
  PROVE  AudioKept'
<1> DEFINE c == Now(speech)
<1>1. /\ c \in Chunk /\ c.source = TRUE /\ c.at = frames /\ frames \in Nat
      /\ runFrom \in 0..frames /\ frames' = frames + 1 /\ frames' - 1 = frames
      /\ config.start \in Nat \ {0} /\ BuilderOK
  <2>1. config.start \in Nat \ {0}
    BY ConfigsAssumption DEF HistoryTyped, BuilderOK, SegmentBuilderConfig
  <2>2. frames \in Nat /\ runFrom \in 0..frames /\ frames' = frames + 1 /\ BuilderOK
    BY BuilderIs DEF HistoryTyped, Pushes
  <2>3. c.source = TRUE /\ c.at = frames
    BY DEF Now
  <2> HIDE DEF c
  <2> QED BY <2>1, <2>2, <2>3 DEF c
<1> HIDE DEF c
<1>2. \A q \in Seq(Chunk) : SourceOf(Append(q, c)) = SourceOf(q) \union {frames}
                            /\ Append(q, c) \in Seq(Chunk)
  BY <1>1, SourceOfAppend
<1>3. ASSUME Waiting
      PROVE  /\ owed \subseteq ClosedSource
             /\ runFrom..(frames - 1) \subseteq SourceOf(state.pending)
             /\ frames - runFrom <= Len(state.pending)
             /\ state.pre \in Seq(Chunk) /\ state.pending \in Seq(Chunk)
             /\ runFrom..frames \subseteq SourceOf(state.pending) \union {frames}
  <2>1. state.pre \in Seq(Chunk) /\ state.pending \in Seq(Chunk)
    BY <1>1, <1>3, HeldIs
  <2> QED BY <1>3, <2>1, RunGrows DEF AudioKept
<1>4. ASSUME state.kind = "Active"
      PROVE  /\ owed \subseteq ClosedSource \union SourceOf(state.chunks)
             /\ runFrom..(frames - 1) \subseteq SourceOf(state.chunks)
             /\ state.silence > 0 => runFrom = frames
             /\ state.chunks \in Seq(Chunk) /\ state.silence \in Nat
             /\ runFrom..frames \subseteq SourceOf(state.chunks) \union {frames}
  <2>1. state.chunks \in Seq(Chunk) /\ state.silence \in Nat
    BY <1>1, <1>4, ActiveIs DEF ActiveStates
  <2> QED BY <1>4, <2>1, RunGrows DEF AudioKept
<1>5. Due(speech) \subseteq runFrom..frames
  BY DEF Due
<1>6. ASSUME Waiting', owed' \subseteq ClosedSource', runFrom' = frames + 1,
             Len(state'.pending) = 0
      PROVE  AudioKept'
  BY <1>1, <1>6 DEF AudioKept, Waiting
<1>7. CASE Holds(speech)
  <2>1. /\ Waiting /\ state'.kind = state.kind /\ state'.pending = Append(state.pending, c)
        /\ runFrom' = runFrom /\ closes' = closes /\ owed' = owed \union Due(speech)
        /\ Len(state.pending) + 1 < config.start
    BY <1>7 DEF Holds, c
  <2>2. Due(speech) = {}
    <3>1. Len(state.pending) \in Nat /\ frames - runFrom <= Len(state.pending)
      BY <1>3, <2>1
    <3>2. ~(frames + 1 - runFrom >= config.start)
      BY <1>1, <2>1, <3>1
    <3> QED BY <3>2 DEF Due
  <2>3. owed' \subseteq ClosedSource'
    BY <1>3, <2>1, <2>2 DEF ClosedSource
  <2>4. runFrom'..(frames' - 1) \subseteq SourceOf(state'.pending)
    BY <1>1, <1>2, <1>3, <2>1
  <2>5. frames' - runFrom' <= Len(state'.pending)
    <3>1. Len(Append(state.pending, c)) = Len(state.pending) + 1 /\ Len(state.pending) \in Nat
      BY <1>3, <2>1
    <3> QED BY <1>1, <1>3, <2>1, <3>1
  <2> QED BY <2>1, <2>3, <2>4, <2>5 DEF AudioKept, Waiting
<1>8. CASE Begins(speech)
  <2>1. /\ Waiting /\ state'.kind = "Active" /\ state'.chunks = state.pre \o Append(state.pending, c)
        /\ runFrom' = runFrom /\ closes' = closes /\ state'.silence = 0
        /\ owed' = owed \union SourceOf(state'.chunks) \union Due(speech)
    BY <1>8 DEF Begins, c
  <2>2. SourceOf(state'.chunks) = SourceOf(state.pre) \union SourceOf(state.pending) \union {frames}
    <3>1. SourceOf(state.pre \o Append(state.pending, c))
            = SourceOf(state.pre) \union SourceOf(Append(state.pending, c))
      BY <1>2, <1>3, <2>1, SourceOfJoined
    <3>2. SourceOf(Append(state.pending, c)) = SourceOf(state.pending) \union {frames}
      BY <1>2, <1>3, <2>1
    <3> QED BY <2>1, <3>1, <3>2
  <2>3. owed' \subseteq ClosedSource' \union SourceOf(state'.chunks)
    BY <1>3, <1>5, <2>1, <2>2 DEF ClosedSource
  <2>4. runFrom'..(frames' - 1) \subseteq SourceOf(state'.chunks)
    BY <1>1, <1>3, <2>1, <2>2
  <2> QED BY <2>1, <2>3, <2>4 DEF AudioKept, Waiting
<1>9. CASE Quietens(speech)
  <2>1. /\ Waiting /\ Waiting' /\ state'.pending = << >> /\ runFrom' = frames + 1
        /\ closes' = closes /\ owed' = owed
    BY <1>9 DEF Quietens, Waiting
  <2>2. owed' \subseteq ClosedSource' /\ Len(state'.pending) = 0
    BY <1>3, <2>1 DEF ClosedSource
  <2> QED BY <1>6, <2>1, <2>2
<1>10. CASE Lengthens(speech)
  <2>1. /\ state.kind = "Active" /\ state'.kind = "Active"
        /\ state'.chunks = Append(state.chunks, c)
        /\ closes' = closes /\ owed' = owed \union {frames} \union Due(speech)
        /\ runFrom' = IF speech THEN runFrom ELSE frames + 1
        /\ speech => state'.silence = 0
    BY <1>10 DEF Lengthens, c
  <2>2. SourceOf(state'.chunks) = SourceOf(state.chunks) \union {frames}
    BY <1>2, <1>4, <2>1
  <2>3. owed' \subseteq ClosedSource' \union SourceOf(state'.chunks)
    BY <1>4, <1>5, <2>1, <2>2 DEF ClosedSource
  <2>4. runFrom'..(frames' - 1) \subseteq SourceOf(state'.chunks)
    <3>1. CASE speech
      BY <1>1, <1>4, <2>1, <2>2, <3>1
    <3>2. CASE ~speech
      <4>1. runFrom'..(frames' - 1) = {}
        BY <1>1, <2>1, <3>2
      <4> QED BY <4>1
    <3> QED BY <3>1, <3>2
  <2>5. state'.silence > 0 => runFrom' = frames'
    BY <1>1, <2>1
  <2> QED BY <2>1, <2>3, <2>4, <2>5 DEF AudioKept, Waiting
<1>11. CASE Splits(speech)
  <2> DEFINE closed == ClosedAs("InterimResultSilenceReached", frames + 1, state.chunks)
  <2>1. /\ state.kind = "Active" /\ config.interim # 0 /\ state.silence >= config.interim
        /\ closes' = Append(closes, closed) /\ runFrom' = runFrom
    BY <1>11 DEF Splits
  <2>0. \/ /\ config.start <= 1
           /\ state'.kind = "Active" /\ state'.chunks = Append(KeptSilence, c)
           /\ state'.silence = 0
           /\ owed' = owed \union SourceOf(state'.chunks) \union Due(speech)
        \/ /\ config.start > 1
           /\ state'.kind = "AfterInterimSilence" /\ state'.pending = <<c>>
           /\ owed' = owed \union Due(speech)
    BY <1>11 DEF Splits, c
  <2>2. closed.chunks = state.chunks
    BY DEF ClosedAs
  <2> HIDE DEF closed
  <2>3. ClosedSource' = ClosedSource \union SourceOf(state.chunks)
    BY <2>1, <2>2, ClosedSourceGrows
  <2>4. runFrom = frames
    <3>1. config.interim \in Nat
      BY ConfigsAssumption DEF HistoryTyped, BuilderOK, SegmentBuilderConfig
    <3> QED BY <1>4, <2>1, <3>1
  <2>5. owed \subseteq ClosedSource' /\ runFrom'..(frames' - 1) = {frames}
    BY <1>1, <1>4, <2>1, <2>3, <2>4
  <2>6. CASE config.start <= 1
    <3>1. /\ state'.kind = "Active" /\ state'.chunks = Append(KeptSilence, c)
          /\ state'.silence = 0
          /\ owed' = owed \union SourceOf(state'.chunks) \union Due(speech)
      BY <1>1, <2>0, <2>6
    <3>2. KeptSilence \in Seq(Chunk)
      <4>1. TrailingSilence(state.chunks) \in Seq(Chunk) /\ config.turnCheck \in Nat \ {0}
        BY <1>1, <1>4, <2>1, TrailingSilenceIs, BuilderIs
      <4>2. PICK silent \in Seq(Chunk) : silent = TrailingSilence(state.chunks)
        BY <4>1
      <4> QED BY <4>1, <4>2, PaddingHasNoSource DEF KeptSilence
    <3>3. frames \in SourceOf(state'.chunks)
      BY <1>2, <3>1, <3>2
    <3>4. Due(speech) \subseteq {frames}
      BY <1>1, <1>5, <2>4
    <3> QED BY <2>5, <3>1, <3>3, <3>4 DEF AudioKept, Waiting
  <2>7. CASE config.start > 1
    <3>1. /\ state'.kind = "AfterInterimSilence" /\ state'.pending = <<c>>
          /\ owed' = owed \union Due(speech)
      BY <1>1, <2>0, <2>7
    <3>2. Due(speech) = {}
      BY <1>1, <2>4, <2>7 DEF Due
    <3>3. SourceOf(<<c>>) = {frames} /\ Len(<<c>>) = 1
      <4>1. << >> \in Seq(Chunk) /\ Append(<< >>, c) = <<c>> /\ Len(<<c>>) = 1
        OBVIOUS
      <4> QED BY <1>2, <4>1, SourceOfEmpty
    <3>4. frames' - runFrom' <= Len(state'.pending)
      BY <1>1, <2>1, <2>4, <3>1, <3>3
    <3>5. owed' \subseteq ClosedSource' /\ runFrom'..(frames' - 1) \subseteq SourceOf(state'.pending)
      BY <2>5, <3>1, <3>2, <3>3
    <3> QED BY <3>1, <3>4, <3>5 DEF AudioKept, Waiting
  <2> QED BY <1>1, <2>6, <2>7
<1>12. CASE Limits(speech) \/ Ends(speech)
  <2>1. PICK reason : closes' = Append(closes, ClosedAs(reason, frames + 1, Append(state.chunks, c)))
    BY <1>12 DEF Limits, Ends, c
  <2> DEFINE closed == ClosedAs(reason, frames + 1, Append(state.chunks, c))
  <2>2. closed.chunks = Append(state.chunks, c)
    BY DEF ClosedAs
  <2>3. /\ state.kind = "Active" /\ state'.kind = "Idle" /\ state'.pending = << >>
        /\ runFrom' = frames + 1 /\ owed' \subseteq owed \union {frames} \union Due(speech)
    BY <1>12 DEF Limits, Ends
  <2> HIDE DEF closed
  <2>4. ClosedSource' = ClosedSource \union SourceOf(Append(state.chunks, c))
    BY <2>1, <2>2, ClosedSourceGrows DEF closed
  <2>5. owed' \subseteq ClosedSource'
    BY <1>2, <1>4, <1>5, <2>3, <2>4
  <2> QED BY <1>6, <2>3, <2>5 DEF Waiting
<1> QED BY <1>7, <1>8, <1>9, <1>10, <1>11, <1>12 DEF PushKind

LEMMA KeptByFlush ==
  ASSUME HistoryTyped, AudioKept, Flushes
  PROVE  AudioKept'
<1>1. frames \in Nat /\ BuilderOK /\ frames' = frames /\ runFrom' = frames /\ owed' = owed
  BY BuilderIs DEF HistoryTyped, Flushes
<1>2. runFrom'..(frames' - 1) = {} /\ frames' - runFrom' = 0
  BY <1>1
<1>3. CASE state.kind = "Active"
  <2> DEFINE closed == ClosedAs("EndSilenceReached", frames, state.chunks)
  <2>1. state'.kind = "Idle" /\ state'.pending = << >> /\ closes' = Append(closes, closed)
    BY <1>3 DEF Flushes
  <2>2. closed.chunks = state.chunks
    BY DEF ClosedAs
  <2> HIDE DEF closed
  <2>3. owed' \subseteq ClosedSource'
    BY <1>1, <1>3, <2>1, <2>2, ClosedSourceGrows DEF AudioKept
  <2> QED BY <1>2, <2>1, <2>3 DEF AudioKept, Waiting
<1>4. CASE state.kind # "Active"
  <2>1. Waiting /\ closes' = closes /\ state'.kind = "Idle"
        /\ (state'.pending = << >> \/ state'.pending = state.pending)
    BY <1>1, <1>4, BuilderIs DEF Flushes, Waiting
  <2>2. Len(state'.pending) \in Nat
    BY <1>1, <2>1, HeldIs
  <2>3. owed' \subseteq ClosedSource'
    BY <1>1, <2>1 DEF AudioKept, ClosedSource
  <2>4. frames' - runFrom' <= Len(state'.pending)
    BY <1>2, <2>2
  <2> QED BY <1>2, <2>1, <2>3, <2>4 DEF AudioKept, Waiting
<1> QED BY <1>3, <1>4

LEMMA KeptByUpdate ==
  ASSUME HistoryTyped, AudioKept, NEW next \in Configs, Updates(next)
  PROVE  AudioKept'
<1>1. /\ frames' = frames /\ runFrom' = runFrom /\ owed' = owed /\ closes' = closes
      /\ \/ state' = state
         \/ Waiting /\ state'.kind = state.kind /\ state'.pending = state.pending
  BY DEF Updates
<1>2. ClosedSource' = ClosedSource
  BY <1>1 DEF ClosedSource
<1>3. CASE state' = state
  BY <1>1, <1>2, <1>3 DEF AudioKept, Waiting
<1>4. CASE Waiting /\ state'.kind = state.kind /\ state'.pending = state.pending
  BY <1>1, <1>2, <1>4 DEF AudioKept, Waiting
<1> QED BY <1>1, <1>3, <1>4

LEMMA AudioKeptAlways == HistorySpec => []AudioKept
<1>1. HistoryInit => AudioKept
  <2> SUFFICES ASSUME HistoryInit PROVE AudioKept
    OBVIOUS
  <2>1. state = Idle(<< >>, << >>) /\ frames = 0 /\ runFrom = 0 /\ owed = {}
    BY DEF HistoryInit, BuilderInit
  <2>2. state.kind = "Idle" /\ state.pending = << >>
    BY <2>1 DEF Idle
  <2>3. 0..(0 - 1) = {} /\ Len(<< >>) = 0
    OBVIOUS
  <2> QED BY <2>1, <2>2, <2>3 DEF AudioKept
<1>2. ASSUME HistoryTyped, AudioKept, UNCHANGED historyVars PROVE AudioKept'
  BY <1>2 DEF AudioKept, historyVars, builderVars, Waiting, ClosedSource
<1>3. HistoryTyped /\ AudioKept /\ [HistoryNext]_historyVars => AudioKept'
  BY <1>2, HistorySteps, KeptByPush, KeptByFlush, KeptByUpdate DEF HistoryKinds
<1> QED BY <1>1, <1>3, HistoryTypedAlways, PTL DEF HistorySpec

(***************************************************************************)
(* Audio that was announced as part of a segment, and speech that reached  *)
(* the start threshold, is never dropped by a close, a flush or a change   *)
(* of settings, for every configuration of the builder.                    *)
(***************************************************************************)
THEOREM AcceptedIsKept == HistorySpec => []AcceptedAudioKept
<1>1. ASSUME HistoryTyped, AudioKept PROVE AcceptedAudioKept
  <2>1. CASE Waiting
    BY <1>1, <2>1 DEF AudioKept, AcceptedAudioKept
  <2>2. CASE ~Waiting
    <3>1. state.kind = "Active" /\ HeldChunks = state.chunks
      BY <1>1, <2>2, HeldIs DEF HistoryTyped
    <3> QED BY <1>1, <3>1 DEF AudioKept, AcceptedAudioKept
  <2> QED BY <2>1, <2>2
<1> QED BY <1>1, HistoryTypedAlways, AudioKeptAlways, PTL

-----------------------------------------------------------------------------
(* SegmentLengthBounded. *)

LongEnough == \A c \in Configs : c.maxChunks > 1

\* The pre-speech under one reachable turn check, the speech held back under one
\* reachable start threshold.
LengthBound ==
  /\ Waiting => \E c, d \in Reachable :
       Len(state.pre) <= c.turnCheck /\ Len(state.pending) < d.start
  /\ state.kind = "Active" => \E c, d \in Reachable :
       /\ state.audioChunks > 0
       /\ Len(state.chunks) <= c.turnCheck + d.start + state.audioChunks - 1
       /\ \/ Len(state.chunks) <= c.turnCheck + d.start
          \/ state.audioChunks < config.maxChunks

LEMMA PruneIsShort ==
  ASSUME NEW q \in Seq(Chunk), NEW max \in Nat \ {0}
  PROVE  Len(Prune(q, max)) \in Nat /\ Len(Prune(q, max)) <= max
<1> DEFINE k == IF Len(q) > max THEN Len(q) - max + 1 ELSE 1
<1>1. k \in 1..(Len(q) + 1) /\ Len(q) + 1 - k <= max /\ Len(q) + 1 - k \in Nat
  OBVIOUS
<1>2. Prune(q, max) = From(q, k)
  BY DEF Prune, From
<1> HIDE DEF k
<1>3. Len(From(q, k)) = Len(q) + 1 - k
  BY <1>1, FromIs
<1> QED BY <1>1, <1>2, <1>3

LEMMA JoinedLength ==
  ASSUME NEW p \in Seq(Chunk), NEW q \in Seq(Chunk), NEW c \in Chunk
  PROVE  /\ Len(p \o Append(q, c)) = Len(p) + Len(q) + 1
         /\ p \o Append(q, c) \in Seq(Chunk)
         /\ Append(q, c) \in Seq(Chunk) /\ Len(Append(q, c)) = Len(q) + 1
         /\ Len(p) \in Nat /\ Len(q) \in Nat /\ Len(<<c>>) = 1
<1>0. Append(q, c) \in Seq(Chunk) /\ Len(Append(q, c)) = Len(q) + 1
  OBVIOUS
<1>1. PICK r \in Seq(Chunk) : r = Append(q, c) /\ Len(r) = Len(q) + 1
  BY <1>0
<1>2. Len(p \o r) = Len(p) + Len(r) /\ p \o r \in Seq(Chunk)
  OBVIOUS
<1>3. Len(p) \in Nat /\ Len(q) \in Nat /\ Len(<<c>>) = 1
  OBVIOUS
<1> QED BY <1>1, <1>2, <1>3

LEMMA ReachableIs ==
  ASSUME HistoryTyped
  PROVE  /\ config \in Reachable /\ config.maxChunks \in Nat
         /\ \A c \in Reachable : /\ c.turnCheck \in Nat \ {0} /\ c.start \in Nat \ {0}
                                 /\ c.maxChunks = config.maxChunks
BY ConfigsAssumption DEF HistoryTyped, BuilderOK, Reachable, SegmentBuilderConfig

LEMMA ReachableStays ==
  ASSUME HistoryTyped, HistoryKinds
  PROVE  Reachable' = Reachable /\ config'.maxChunks = config.maxChunks
<1>1. config'.maxChunks = config.maxChunks
  BY DEF HistoryKinds, Pushes, Flushes, Updates, historyVars, builderVars
<1> QED BY <1>1 DEF Reachable

LEMMA KeptIsShort ==
  ASSUME HistoryTyped, state.kind = "Active"
  PROVE  /\ KeptSilence \in Seq(Chunk) /\ Len(KeptSilence) \in Nat
         /\ Len(KeptSilence) <= config.turnCheck
<1>1. state.chunks \in Seq(Chunk) /\ config.turnCheck \in Nat \ {0}
  BY ActiveIs, BuilderIs DEF HistoryTyped
<1>2. TrailingSilence(state.chunks) \in Seq(Chunk)
  BY <1>1, TrailingSilenceIs
<1>3. PICK silent \in Seq(Chunk) : silent = TrailingSilence(state.chunks)
  BY <1>2
<1>4. Padding(silent) \in Seq(Chunk)
  BY PaddingIs
<1>5. PICK padding \in Seq(Chunk) : padding = Padding(silent)
  BY <1>4
<1>6. Prune(padding, config.turnCheck) \in Seq(Chunk)
  BY <1>1, PruneIs
<1> QED BY <1>1, <1>3, <1>5, <1>6, PruneIsShort DEF KeptSilence

LEMMA LengthKeptByPush ==
  ASSUME HistoryTyped, LengthBound, NEW speech \in BOOLEAN, Pushes(speech), PushKind(speech),
         Now(speech) \in Chunk
  PROVE  LengthBound'
<1>1. /\ config \in Reachable /\ config.maxChunks \in Nat /\ BuilderOK
      /\ config.turnCheck \in Nat \ {0} /\ config.start \in Nat \ {0}
      /\ Reachable' = Reachable /\ config' = config
  BY ReachableIs, ReachableStays DEF HistoryKinds, Pushes, HistoryTyped
<1>2. ASSUME Waiting
      PROVE  /\ state.pre \in Seq(Chunk) /\ state.pending \in Seq(Chunk)
             /\ state.kind # "Active"
             /\ \E c, d \in Reachable :
                  Len(state.pre) <= c.turnCheck /\ Len(state.pending) < d.start
  BY <1>1, <1>2, HeldIs DEF LengthBound
<1>3. ASSUME NEW c \in Reachable, NEW d \in Reachable, Waiting',
             Len(state'.pre) <= c.turnCheck, Len(state'.pending) < d.start
      PROVE  LengthBound'
  BY <1>1, <1>3 DEF LengthBound, Waiting
<1>4. ASSUME NEW c \in Reachable, NEW d \in Reachable, state'.kind = "Active",
             state'.audioChunks > 0,
             Len(state'.chunks) <= c.turnCheck + d.start + state'.audioChunks - 1,
             \/ Len(state'.chunks) <= c.turnCheck + d.start
             \/ state'.audioChunks < config.maxChunks
      PROVE  LengthBound'
  BY <1>1, <1>4 DEF LengthBound, Waiting
<1>5. CASE Holds(speech)
  <2>1. /\ Waiting /\ Waiting' /\ state'.pre = state.pre
        /\ state'.pending = Append(state.pending, Now(speech))
        /\ Len(state.pending) + 1 < config.start
    BY <1>5 DEF Holds, Waiting
  <2>2. Len(state'.pending) < config.start
    BY <1>2, <2>1
  <2> QED BY <1>1, <1>2, <1>3, <2>1, <2>2
<1>6. CASE Begins(speech)
  <2>1. /\ Waiting /\ state'.kind = "Active" /\ state'.audioChunks = config.start
        /\ state'.chunks = state.pre \o Append(state.pending, Now(speech))
    BY <1>6 DEF Begins
  <2>2. PICK c \in Reachable, d \in Reachable :
          Len(state.pre) <= c.turnCheck /\ Len(state.pending) < d.start
    BY <1>2, <2>1
  <2>3. PICK pre \in Seq(Chunk), pending \in Seq(Chunk) : pre = state.pre /\ pending = state.pending
    BY <1>2, <2>1
  <2>4. PICK l : l = Len(state'.chunks)
    OBVIOUS
  <2>5. l = Len(pre) + Len(pending) + 1 /\ Len(pre) \in Nat /\ Len(pending) \in Nat
    <3>1. Len(pre \o Append(pending, Now(speech))) = Len(pre) + Len(pending) + 1
          /\ Len(pre) \in Nat /\ Len(pending) \in Nat
      BY <2>3, JoinedLength
    <3>2. l = Len(pre \o Append(pending, Now(speech)))
      BY <2>1, <2>3, <2>4
    <3> QED BY <3>1, <3>2
  <2>6. c.turnCheck \in Nat /\ d.start \in Nat /\ Len(pre) <= c.turnCheck /\ Len(pending) < d.start
    BY <2>2, <2>3, ReachableIs
  <2>7. l <= c.turnCheck + d.start /\ l \in Nat
    BY <2>5, <2>6
  <2>8. l <= c.turnCheck + d.start + config.start - 1
    BY <1>1, <2>6, <2>7
  <2>9. config.start > 0
    BY <1>1
  <2> QED BY <1>4, <2>1, <2>2, <2>4, <2>7, <2>8, <2>9
<1>7. CASE Quietens(speech)
  <2>1. /\ Waiting /\ Waiting' /\ state'.pre = PreWithSilence(Now(speech))
        /\ state'.pending = << >>
    BY <1>7 DEF Quietens, Waiting
  <2>2. PICK q \in Seq(Chunk) : q = state.pre \o Append(state.pending, Now(speech))
    BY <1>2, <2>1, JoinedLength
  <2>3. Len(state'.pre) <= config.turnCheck
    BY <1>1, <2>1, <2>2, PruneIsShort DEF PreWithSilence
  <2>4. Len(state'.pending) < config.start
    BY <1>1, <2>1
  <2> QED BY <1>1, <1>3, <2>1, <2>3, <2>4
<1>8. CASE Splits(speech)
  <2>1. /\ state.kind = "Active"
        /\ \/ /\ config.start <= 1
              /\ state'.kind = "Active" /\ state'.chunks = Append(KeptSilence, Now(speech))
              /\ state'.audioChunks = config.start
           \/ /\ config.start > 1 /\ state'.kind = "AfterInterimSilence"
              /\ state'.pre = KeptSilence /\ state'.pending = <<Now(speech)>>
    BY <1>8 DEF Splits
  <2>2. KeptSilence \in Seq(Chunk) /\ Len(KeptSilence) \in Nat /\ Len(KeptSilence) <= config.turnCheck
    BY <2>1, KeptIsShort
  <2>3. CASE config.start <= 1
    <3>1. /\ state'.kind = "Active" /\ Len(state'.chunks) = Len(KeptSilence) + 1
          /\ state'.audioChunks = config.start
      BY <1>1, <2>1, <2>2, <2>3
    <3>2. Len(state'.chunks) <= config.turnCheck + config.start
      BY <1>1, <2>2, <3>1
    <3>3. Len(state'.chunks) <= config.turnCheck + config.start + state'.audioChunks - 1
      BY <1>1, <2>2, <3>1
    <3> QED BY <1>1, <1>4, <3>1, <3>2, <3>3
  <2>4. CASE config.start > 1
    <3>1. /\ state'.kind = "AfterInterimSilence" /\ Len(state'.pre) <= config.turnCheck
          /\ Len(state'.pending) = 1
      <4>1. Len(<<Now(speech)>>) = 1
        OBVIOUS
      <4>2. ~(config.start <= 1)
        BY <1>1, <2>4
      <4>3. state'.kind = "AfterInterimSilence" /\ state'.pre = KeptSilence
            /\ state'.pending = <<Now(speech)>>
        BY <2>1, <4>2
      <4> QED BY <2>2, <4>1, <4>3
    <3>2. Len(state'.pending) < config.start
      BY <2>4, <3>1
    <3> QED BY <1>1, <1>3, <3>1, <3>2 DEF Waiting
  <2> QED BY <1>1, <2>3, <2>4
<1>9. CASE Lengthens(speech)
  <2>1. /\ state.kind = "Active" /\ state'.kind = "Active"
        /\ state'.chunks = Append(state.chunks, Now(speech))
        /\ state'.audioChunks = state.audioChunks + 1 /\ state'.audioChunks < config.maxChunks
    BY <1>9 DEF Lengthens
  <2>2. PICK c \in Reachable, d \in Reachable :
          /\ state.audioChunks > 0
          /\ Len(state.chunks) <= c.turnCheck + d.start + state.audioChunks - 1
    BY <2>1 DEF LengthBound
  <2>3. /\ state.chunks \in Seq(Chunk) /\ state.audioChunks \in Nat
        /\ c.turnCheck \in Nat /\ d.start \in Nat
    BY <1>1, <2>1, <2>2, ActiveIs, ReachableIs DEF ActiveStates
  <2>4. Len(state'.chunks) = Len(state.chunks) + 1 /\ Len(state.chunks) \in Nat
    BY <2>1, <2>3
  <2>5. Len(state'.chunks) <= c.turnCheck + d.start + state'.audioChunks - 1
    BY <2>1, <2>2, <2>3, <2>4
  <2>6. state'.audioChunks > 0
    BY <2>1, <2>3
  <2> QED BY <1>4, <2>1, <2>2, <2>5, <2>6
<1>10. CASE Limits(speech)
  <2>1. Waiting' /\ state'.pre = << >> /\ state'.pending = << >>
    BY <1>10 DEF Limits, Waiting
  <2>2. Len(state'.pre) <= config.turnCheck /\ Len(state'.pending) < config.start
    BY <1>1, <2>1
  <2> QED BY <1>1, <1>3, <2>1, <2>2
<1>11. CASE Ends(speech)
  <2>1. /\ Waiting' /\ state'.pending = << >> /\ state.kind = "Active"
        /\ state'.pre = Prune(Padding(TrailingSilence(Append(state.chunks, Now(speech)))),
                              config.turnCheck)
    BY <1>11 DEF Ends, Waiting
  <2>2. PICK q \in Seq(Chunk) : q = Append(state.chunks, Now(speech))
    BY <1>1, <2>1, ActiveIs, JoinedLength
  <2>3. TrailingSilence(q) \in Seq(Chunk)
    BY TrailingSilenceIs
  <2>4. PICK silent \in Seq(Chunk) : silent = TrailingSilence(q)
    BY <2>3
  <2>5. Padding(silent) \in Seq(Chunk)
    BY PaddingIs
  <2>6. PICK padding \in Seq(Chunk) : padding = Padding(silent)
    BY <2>5
  <2>7. Len(state'.pre) <= config.turnCheck /\ Len(state'.pending) < config.start
    BY <1>1, <2>1, <2>2, <2>4, <2>6, PruneIsShort
  <2> QED BY <1>1, <1>3, <2>1, <2>7
<1> QED BY <1>5, <1>6, <1>7, <1>8, <1>9, <1>10, <1>11 DEF PushKind

LEMMA LengthKeptByFlush ==
  ASSUME HistoryTyped, LengthBound, Flushes
  PROVE  LengthBound'
<1>1. /\ config \in Reachable /\ BuilderOK
      /\ config.turnCheck \in Nat \ {0} /\ config.start \in Nat \ {0}
      /\ Reachable' = Reachable /\ config' = config
  BY ReachableIs, ReachableStays DEF HistoryKinds, Flushes, HistoryTyped
<1>2. ASSUME state'.kind = "Idle", Len(state'.pre) <= config.turnCheck,
             Len(state'.pending) < config.start
      PROVE  LengthBound'
  BY <1>1, <1>2 DEF LengthBound, Waiting
<1>3. CASE state.kind = "Active"
  <2>1. state'.kind = "Idle" /\ state'.pre = KeptSilence /\ state'.pending = << >>
    BY <1>3 DEF Flushes
  <2> QED BY <1>1, <1>2, <1>3, <2>1, KeptIsShort
<1>4. CASE state.kind = "AfterInterimSilence"
  <2>1. state'.kind = "Idle" /\ state'.pre = << >> /\ state'.pending = << >>
    BY <1>4 DEF Flushes
  <2> QED BY <1>1, <1>2, <2>1
<1>5. CASE state.kind = "Idle"
  <2>1. state' = state
    BY <1>5 DEF Flushes
  <2> QED BY <1>1, <1>5, <2>1 DEF LengthBound, Waiting
<1> QED BY <1>1, <1>3, <1>4, <1>5, BuilderIs

LEMMA LengthKeptByUpdate ==
  ASSUME HistoryTyped, LengthBound, NEW next \in Configs, Updates(next)
  PROVE  LengthBound'
<1>1. /\ Reachable' = Reachable /\ config'.maxChunks = config.maxChunks /\ BuilderOK
      /\ next \in Reachable /\ next.turnCheck \in Nat \ {0}
  <2>1. Reachable' = Reachable /\ config'.maxChunks = config.maxChunks /\ BuilderOK
    BY ReachableStays DEF HistoryKinds, HistoryTyped
  <2>2. next \in Reachable
    BY DEF Updates, Reachable
  <2> QED BY <2>1, <2>2, ReachableIs
<1>2. CASE state' = state
  BY <1>1, <1>2 DEF LengthBound, Waiting
<1>3. CASE /\ Waiting /\ state'.kind = state.kind
           /\ state'.pre = Prune(state.pre, next.turnCheck) /\ state'.pending = state.pending
  <2>1. state.pre \in Seq(Chunk) /\ state.kind # "Active" /\ Waiting'
    BY <1>1, <1>3, HeldIs DEF Waiting
  <2>2. PICK q \in Seq(Chunk) : q = state.pre
    BY <2>1
  <2>3. Len(state'.pre) <= next.turnCheck
    BY <1>1, <1>3, <2>2, PruneIsShort
  <2>4. PICK d \in Reachable : Len(state'.pending) < d.start
    BY <1>3 DEF LengthBound
  <2> QED BY <1>1, <1>3, <2>1, <2>3, <2>4 DEF LengthBound
<1> QED BY <1>2, <1>3 DEF Updates

LEMMA LengthBoundAlways == HistorySpec => []LengthBound
<1>1. HistoryInit => LengthBound
  <2> SUFFICES ASSUME HistoryInit PROVE LengthBound
    OBVIOUS
  <2>1. HistoryTyped /\ state = Idle(<< >>, << >>)
    BY HistoryStarts DEF HistoryInit, BuilderInit
  <2>2. state.kind = "Idle" /\ state.pre = << >> /\ state.pending = << >>
    BY <2>1 DEF Idle
  <2>3. config \in Reachable /\ config.turnCheck \in Nat \ {0} /\ config.start \in Nat \ {0}
    BY <2>1, ReachableIs
  <2>4. Len(state.pre) <= config.turnCheck /\ Len(state.pending) < config.start
    BY <2>2, <2>3
  <2> QED BY <2>2, <2>3, <2>4 DEF LengthBound
<1>2. ASSUME HistoryTyped, LengthBound, UNCHANGED historyVars PROVE LengthBound'
  BY <1>2 DEF LengthBound, historyVars, builderVars, Waiting, Reachable
<1>3. HistoryTyped /\ LengthBound /\ [HistoryNext]_historyVars => LengthBound'
  BY <1>2, HistorySteps, LengthKeptByPush, LengthKeptByFlush, LengthKeptByUpdate DEF HistoryKinds
<1> QED BY <1>1, <1>3, HistoryTypedAlways, PTL DEF HistorySpec

\* A segment that closes now, with its last chunk or without it.
LEMMA ActiveIsBounded ==
  ASSUME LongEnough, HistoryTyped, LengthBound, state.kind = "Active"
  PROVE  /\ state.chunks \in Seq(Chunk)
         /\ \E c, d \in Reachable :
              Len(state.chunks) + 1 <= config.maxChunks + c.turnCheck + d.start - 1
<1>1. PICK c \in Reachable, d \in Reachable :
        /\ Len(state.chunks) <= c.turnCheck + d.start + state.audioChunks - 1
        /\ \/ Len(state.chunks) <= c.turnCheck + d.start
           \/ state.audioChunks < config.maxChunks
  BY DEF LengthBound
<1>2. /\ c.turnCheck \in Nat /\ d.start \in Nat /\ config.maxChunks \in Nat
      /\ config.maxChunks > 1
  BY <1>1, ReachableIs DEF LongEnough, Reachable
<1>3. state.chunks \in Seq(Chunk) /\ state.audioChunks \in Nat
  BY ActiveIs DEF HistoryTyped, ActiveStates
<1>4. Len(state.chunks) \in Nat
  BY <1>3
<1>5. Len(state.chunks) + 1 <= config.maxChunks + c.turnCheck + d.start - 1
  <2>1. CASE Len(state.chunks) <= c.turnCheck + d.start
    BY <1>2, <1>4, <2>1
  <2>2. CASE state.audioChunks < config.maxChunks
    <3>1. PICK length \in Nat : length = Len(state.chunks)
      BY <1>4
    <3>2. PICK audio \in Nat : audio = state.audioChunks
      BY <1>3
    <3>3. length <= c.turnCheck + d.start + audio - 1 /\ audio < config.maxChunks
      BY <1>1, <2>2, <3>1, <3>2
    <3>4. length + 1 <= config.maxChunks + c.turnCheck + d.start - 1
      BY <1>2, <3>3
    <3> QED BY <3>1, <3>4
  <2> QED BY <1>1, <2>1, <2>2
<1> QED BY <1>3, <1>5

LEMMA LengthKept ==
  ASSUME LongEnough, HistoryTyped, LengthBound, SegmentLengthBounded, HistoryKinds
  PROVE  SegmentLengthBounded'
<1>1. Reachable' = Reachable /\ config'.maxChunks = config.maxChunks /\ closes \in Seq(Closed)
  BY ReachableStays DEF HistoryTyped
<1>2. CASE closes' = closes
  BY <1>1, <1>2 DEF SegmentLengthBounded
<1>3. CASE closes' # closes
  <2>1. PICK reason, at, chunks :
          /\ closes' = Append(closes, ClosedAs(reason, at, chunks))
          /\ state.kind = "Active"
          /\ chunks = state.chunks \/ \E c : chunks = Append(state.chunks, c)
    BY <1>3 DEF HistoryKinds, PushKind, Holds, Begins, Quietens, Splits, Lengthens, Limits,
                Ends, Flushes, Updates, historyVars
  <2>2. PICK c \in Reachable, d \in Reachable :
          Len(state.chunks) + 1 <= config.maxChunks + c.turnCheck + d.start - 1
    BY <2>1, ActiveIsBounded
  <2>3. Len(chunks) <= Len(state.chunks) + 1 /\ Len(chunks) \in Nat
    <3>1. state.chunks \in Seq(Chunk) /\ Len(state.chunks) \in Nat
      BY <2>1, ActiveIsBounded
    <3>2. \A e : Len(Append(state.chunks, e)) = Len(state.chunks) + 1
      BY <3>1
    <3> QED BY <2>1, <3>1, <3>2
  <2>4. Len(chunks) <= config.maxChunks + c.turnCheck + d.start - 1
    <3>1. /\ config.maxChunks \in Nat /\ c.turnCheck \in Nat /\ d.start \in Nat
          /\ Len(state.chunks) \in Nat
      BY <2>1, <2>2, ReachableIs, ActiveIsBounded
    <3> QED BY <2>2, <2>3, <3>1
  <2> DEFINE closed == ClosedAs(reason, at, chunks)
             k == Len(closes)
  <2>5. closed.chunks = chunks
    BY DEF ClosedAs
  <2> HIDE DEF closed
  <2>6. /\ k \in Nat /\ DOMAIN closes = 1..k /\ DOMAIN closes' = 1..(k + 1)
        /\ closes'[k + 1] = closed /\ \A n \in 1..k : closes'[n] = closes[n]
    BY <1>1, <2>1 DEF closed
  <2> HIDE DEF k
  <2>7. ASSUME NEW n \in 1..(k + 1)
        PROVE  \E e, f \in Reachable :
                 Len(closes'[n].chunks) <= config.maxChunks + e.turnCheck + f.start - 1
    <3>1. CASE n \in 1..k
      BY <2>6, <3>1 DEF SegmentLengthBounded
    <3>2. CASE n = k + 1
      BY <2>2, <2>4, <2>5, <2>6, <3>2
    <3> QED BY <2>6, <3>1, <3>2
  <2> QED BY <1>1, <2>6, <2>7 DEF SegmentLengthBounded
<1> QED BY <1>2, <1>3

(***************************************************************************)
(* The length of a segment is bounded by the settings in use, whenever     *)
(* they change: with a length limit of more than one chunk (25 seconds at  *)
(* the fixed VAD interval of 32 ms).                                       *)
(***************************************************************************)
THEOREM LengthIsBounded ==
  ASSUME LongEnough
  PROVE  HistorySpec => []SegmentLengthBounded
<1>1. HistoryInit => SegmentLengthBounded
  <2> SUFFICES ASSUME HistoryInit PROVE SegmentLengthBounded
    OBVIOUS
  <2>1. closes = << >> /\ DOMAIN << >> = {}
    BY DEF HistoryInit
  <2> QED BY <2>1 DEF SegmentLengthBounded
<1>2. HistoryTyped /\ LengthBound /\ SegmentLengthBounded /\ [HistoryNext]_historyVars
        => SegmentLengthBounded'
  BY HistorySteps, LengthKept
<1> QED BY <1>1, <1>2, HistoryTypedAlways, LengthBoundAlways, PTL DEF HistorySpec

-----------------------------------------------------------------------------
(* Silence at the end of the input, and in between. *)

LEMMA GreatestIs ==
  ASSUME NEW S \in SUBSET Int, NEW m \in S, \A k \in S : k <= m
  PROVE  Max(S) = m
<1>1. \A k \in S : m >= k
  OBVIOUS
<1>2. \A k \in S : (\A l \in S : k >= l) => k = m
  OBVIOUS
<1> QED BY <1>1, <1>2 DEF Max

LEMMA AppendIs ==
  ASSUME NEW T, NEW b \in Seq(T), NEW x \in T
  PROVE  /\ Append(b, x) \in Seq(T) /\ Len(Append(b, x)) = Len(b) + 1 /\ Len(b) \in Nat
         /\ Append(b, x)[Len(b) + 1] = x /\ \A i \in 1..Len(b) : Append(b, x)[i] = b[i]
  OBVIOUS

\* The VAD decisions of chunks.
SpeechOf(chunks) == [i \in DOMAIN chunks |-> chunks[i].speech]

\* The last speech in b is followed by n silent chunks.
Hushed(b, n) ==
  /\ n \in Nat /\ n < Len(b) /\ b[Len(b) - n]
  /\ \A i \in (Len(b) - n + 1)..Len(b) : ~b[i]

LEMMA SpeechOfIs ==
  ASSUME NEW q \in Seq(Chunk)
  PROVE  /\ SpeechOf(q) \in Seq(BOOLEAN) /\ Len(SpeechOf(q)) = Len(q)
         /\ \A i \in 1..Len(q) : SpeechOf(q)[i] = q[i].speech
         /\ \A c \in Chunk : SpeechOf(Append(q, c)) = Append(SpeechOf(q), c.speech)
<1> DEFINE k == Len(q)
           b == SpeechOf(q)
<1>1. k \in Nat /\ DOMAIN q = 1..k /\ \A i \in 1..k : q[i] \in Chunk
  OBVIOUS
<1> HIDE DEF k
<1>2. \A i \in 1..k : q[i].speech \in BOOLEAN
  BY <1>1 DEF Chunk
<1>3. b = [i \in 1..k |-> q[i].speech]
  BY <1>1 DEF SpeechOf
<1> HIDE DEF b
<1>4. b \in Seq(BOOLEAN) /\ Len(b) = k /\ \A i \in 1..k : b[i] = q[i].speech
  BY <1>1, <1>2, <1>3
<1>5. ASSUME NEW c \in Chunk PROVE SpeechOf(Append(q, c)) = Append(b, c.speech)
  <2> DEFINE r == Append(q, c)
             l == SpeechOf(r)
             s == Append(b, c.speech)
  <2>1. /\ DOMAIN r = 1..(k + 1) /\ r[k + 1] = c /\ \A i \in 1..k : r[i] = q[i]
    BY DEF k
  <2> HIDE DEF r
  <2>2. l = [i \in 1..(k + 1) |-> r[i].speech]
    BY <2>1 DEF SpeechOf
  <2>3. c.speech \in BOOLEAN
    BY DEF Chunk
  <2>4. s \in Seq(BOOLEAN) /\ Len(s) = k + 1 /\ s[k + 1] = c.speech /\ \A i \in 1..k : s[i] = b[i]
    BY <1>1, <1>4, <2>3
  <2> HIDE DEF l, s
  <2>5. \A i \in 1..(k + 1) : i \in 1..k \/ i = k + 1
    BY <1>1
  <2>6. \A i \in 1..(k + 1) : l[i] = s[i]
    BY <1>4, <2>1, <2>2, <2>4, <2>5
  <2>7. s = [i \in 1..(k + 1) |-> s[i]]
    BY <1>1, <2>4
  <2>8. l = s
    BY <2>2, <2>6, <2>7
  <2> QED BY <2>8 DEF l, r, s
<1> QED BY <1>4, <1>5 DEF k, b

LEMMA HushedAppend ==
  ASSUME NEW b \in Seq(BOOLEAN)
  PROVE  /\ Hushed(Append(b, TRUE), 0)
         /\ \A n : Hushed(b, n) => Hushed(Append(b, FALSE), n + 1)
<1> DEFINE k == Len(b)
<1>1. k \in Nat
  OBVIOUS
<1>2. Hushed(Append(b, TRUE), 0)
  <2>1. PICK r : r = Append(b, TRUE) /\ Len(r) = k + 1 /\ r[k + 1] = TRUE
    BY AppendIs
  <2> HIDE DEF k
  <2> QED BY <1>1, <2>1 DEF Hushed
<1>3. ASSUME NEW n, Hushed(b, n) PROVE Hushed(Append(b, FALSE), n + 1)
  <2>0. PICK r : r = Append(b, FALSE)
    OBVIOUS
  <2>1. /\ r = Append(b, FALSE) /\ Len(r) = k + 1 /\ r[k + 1] = FALSE
        /\ \A i \in 1..k : r[i] = b[i]
    BY <2>0, AppendIs
  <2>2. n \in Nat /\ n < k /\ b[k - n] /\ \A i \in (k - n + 1)..k : ~b[i]
    BY <1>3 DEF Hushed
  <2> HIDE DEF k
  <2>3. k - n \in 1..k /\ (k + 1) - (n + 1) = k - n
    BY <1>1, <2>2
  <2>4. ASSUME NEW i \in (Len(r) - (n + 1) + 1)..Len(r) PROVE ~r[i]
    <3>1. i = k + 1 \/ (i \in (k - n + 1)..k /\ i \in 1..k)
      BY <1>1, <2>1, <2>2
    <3> QED BY <2>1, <2>2, <3>1
  <2>5. n + 1 \in Nat /\ n + 1 < Len(r) /\ r[Len(r) - (n + 1)]
    BY <1>1, <2>1, <2>2, <2>3
  <2> QED BY <2>1, <2>4, <2>5 DEF Hushed
<1> QED BY <1>2, <1>3

LEMMA TrailingSilenceLength ==
  ASSUME NEW q \in Seq(Chunk), NEW n, Hushed(SpeechOf(q), n)
  PROVE  Len(TrailingSilence(q)) = n
<1> DEFINE k == Len(q)
           spoken == {i \in DOMAIN q : q[i].speech}
<1>1. k \in Nat /\ DOMAIN q = 1..k
  OBVIOUS
<1>2. /\ n \in Nat /\ n < k /\ q[k - n].speech
      /\ \A i \in (k - n + 1)..k : ~q[i].speech
  <2>1. /\ Len(SpeechOf(q)) = k /\ \A i \in 1..k : SpeechOf(q)[i] = q[i].speech
    BY SpeechOfIs
  <2>2. n \in Nat /\ n < k /\ SpeechOf(q)[k - n] /\ \A i \in (k - n + 1)..k : ~SpeechOf(q)[i]
    BY <2>1 DEF Hushed
  <2>3. k - n \in 1..k /\ \A i \in (k - n + 1)..k : i \in 1..k
    BY <1>1, <2>2
  <2> QED BY <2>1, <2>2, <2>3
<1> HIDE DEF k
<1>3. k - n \in spoken /\ spoken \in SUBSET Int
  BY <1>1, <1>2
<1>4. \A i \in spoken : i <= k - n
  <2> SUFFICES ASSUME NEW i \in spoken, ~(i <= k - n) PROVE FALSE
    OBVIOUS
  <2>1. i \in (k - n + 1)..k
    BY <1>1, <1>2
  <2> QED BY <1>2, <2>1
<1> HIDE DEF spoken
<1>5. Max(spoken) = k - n /\ spoken # {}
  BY <1>3, <1>4, GreatestIs
<1>6. TrailingSilence(q) = From(q, k - n + 1)
  BY <1>5 DEF TrailingSilence, From, spoken, k
<1>7. k - n + 1 \in 1..(Len(q) + 1)
  BY <1>1, <1>2 DEF k
<1>8. Len(From(q, k - n + 1)) = Len(q) + 1 - (k - n + 1)
  BY <1>7, FromIs
<1> QED BY <1>1, <1>2, <1>6, <1>8 DEF k

\* SilentChunks and LastSpeechBefore of any input.
SilentIn(b, from, to) == Cardinality({i \in from..to : ~b[i]})

LastSpeechIn(b, n) == Max({i \in 1..n : b[i]} \union {0})

LEMMA SilentInIs ==
  ASSUME NEW b, NEW from \in Int, NEW to \in Int
  PROVE  /\ SilentIn(b, from, to) \in Nat
         /\ SilentIn(b, from, to) = 0 <=> \A i \in from..to : b[i]
         /\ IsFiniteSet({i \in from..to : ~b[i]})
<1> DEFINE S == {i \in from..to : ~b[i]}
<1>1. IsFiniteSet(S)
  BY FS_Interval, FS_Subset
<1>2. S = {} <=> \A i \in from..to : b[i]
  OBVIOUS
<1> HIDE DEF S
<1>3. Cardinality(S) \in Nat /\ (Cardinality(S) = 0 <=> S = {})
  BY <1>1, FS_CardinalityType, FS_EmptySet
<1> QED BY <1>1, <1>2, <1>3 DEF SilentIn, S

LEMMA SilentInAppend ==
  ASSUME NEW b \in Seq(BOOLEAN), NEW speech \in BOOLEAN, NEW from \in Nat \ {0}
  PROVE  /\ \A to \in 0..Len(b) : SilentIn(Append(b, speech), from, to) = SilentIn(b, from, to)
         /\ from <= Len(b) + 1 =>
              SilentIn(Append(b, speech), from, Len(b) + 1)
                = SilentIn(b, from, Len(b)) + (IF speech THEN 0 ELSE 1)
<1> DEFINE k == Len(b)
<1>0. PICK r : r = Append(b, speech)
  OBVIOUS
<1>1. r = Append(b, speech) /\ r[k + 1] = speech /\ \A i \in 1..k : r[i] = b[i]
  BY <1>0, AppendIs
<1>2. k \in Nat
  OBVIOUS
<1> HIDE DEF k
<1>3. ASSUME NEW to \in 0..k
      PROVE  {i \in from..to : ~r[i]} = {i \in from..to : ~b[i]}
  <2>1. \A i \in from..to : i \in 1..k
    BY <1>2
  <2> QED BY <1>1, <2>1
<1>4. ASSUME from <= k + 1
      PROVE  SilentIn(r, from, k + 1) = SilentIn(b, from, k) + (IF speech THEN 0 ELSE 1)
  <2> DEFINE S == {i \in from..k : ~b[i]}
             T == {i \in from..(k + 1) : ~r[i]}
  <2>1. \A i \in from..(k + 1) : i \in from..k \/ i = k + 1
    BY <1>2
  <2>2. \A i \in from..k : i \in 1..k /\ i \in from..(k + 1)
    BY <1>2
  <2>3. k + 1 \in from..(k + 1) /\ k + 1 \notin from..k
    BY <1>2, <1>4
  <2>4. IsFiniteSet(S) /\ Cardinality(S) \in Nat
    BY <1>2, SilentInIs DEF SilentIn
  <2>5. T = IF speech THEN S ELSE S \union {k + 1}
    <3>1. CASE speech
      BY <1>1, <2>1, <2>2, <2>3, <3>1
    <3>2. CASE ~speech
      BY <1>1, <2>1, <2>2, <2>3, <3>2
    <3> QED BY <3>1, <3>2
  <2>6. k + 1 \notin S
    BY <2>3
  <2> HIDE DEF S, T
  <2>7. Cardinality(T) = Cardinality(S) + (IF speech THEN 0 ELSE 1)
    <3>1. CASE speech
      BY <2>4, <2>5, <3>1
    <3>2. CASE ~speech
      <4>1. Cardinality(S \union {k + 1}) = Cardinality(S) + 1
        BY <2>4, <2>6, FS_AddElement
      <4> QED BY <2>5, <3>2, <4>1
    <3> QED BY <3>1, <3>2
  <2> QED BY <2>7 DEF SilentIn, S, T
<1>5. \A to \in 0..k : SilentIn(r, from, to) = SilentIn(b, from, to)
  BY <1>3 DEF SilentIn
<1> QED BY <1>1, <1>4, <1>5 DEF k

LEMMA LastSpeechIs ==
  ASSUME NEW b \in Seq(BOOLEAN), NEW n \in Int, n <= Len(b)
  PROVE  LastSpeechIn(b, n) \in 0..Len(b)
<1> DEFINE S == {i \in 1..n : b[i]}
           k == Len(b)
<1>1. k \in Nat /\ S \in SUBSET (1..k)
  OBVIOUS
<1>2. LastSpeechIn(b, n) = Max(S \union {0})
  BY DEF LastSpeechIn
<1> HIDE DEF S, k
<1>3. CASE S = {}
  <2>1. Max({0}) = 0
    <3>1. {0} \in SUBSET Int /\ 0 \in {0} /\ \A x \in {0} : x <= 0
      OBVIOUS
    <3> QED BY <3>1, GreatestIs
  <2>2. S \union {0} = {0}
    BY <1>3
  <2>3. LastSpeechIn(b, n) = 0
    BY <1>2, <2>1, <2>2
  <2> QED BY <1>1, <2>3 DEF k
<1>4. CASE S # {}
  <2>1. PICK m \in S : \A x \in S : x <= m
    BY <1>1, <1>4, GreatestIn
  <2>2. m \in S \union {0} /\ S \union {0} \in SUBSET Int /\ \A x \in S \union {0} : x <= m
    BY <1>1, <2>1
  <2>3. Max(S \union {0}) = m
    BY <2>2, GreatestIs
  <2> QED BY <1>1, <1>2, <2>1, <2>3 DEF k
<1> QED BY <1>3, <1>4

LEMMA LastSpeechAppend ==
  ASSUME NEW b \in Seq(BOOLEAN), NEW speech \in BOOLEAN, NEW n \in Int, n <= Len(b)
  PROVE  LastSpeechIn(Append(b, speech), n) = LastSpeechIn(b, n)
<1>0. PICK r : r = Append(b, speech)
  OBVIOUS
<1>1. r = Append(b, speech) /\ \A i \in 1..Len(b) : r[i] = b[i]
  BY <1>0, AppendIs
<1>2. \A i \in 1..n : i \in 1..Len(b)
  OBVIOUS
<1>3. {i \in 1..n : r[i]} = {i \in 1..n : b[i]}
  BY <1>1, <1>2
<1> QED BY <1>1, <1>3 DEF LastSpeechIn

\* After the last speech come n silent chunks.
LEMMA HushedIs ==
  ASSUME NEW b \in Seq(BOOLEAN), NEW n, Hushed(b, n)
  PROVE  /\ LastSpeechIn(b, Len(b)) = Len(b) - n
         /\ SilentIn(b, Len(b) - n + 1, Len(b)) = n
         /\ n \in Nat /\ n < Len(b)
<1> DEFINE k == Len(b)
<1>1. /\ k \in Nat /\ n \in Nat /\ n < k /\ b[k - n]
      /\ \A i \in (k - n + 1)..k : ~b[i]
  BY DEF Hushed
<1> HIDE DEF k
<1>2. LastSpeechIn(b, k) = k - n
  <2> DEFINE S == {i \in 1..k : b[i]} \union {0}
  <2>1. k - n \in S /\ S \in SUBSET Int
    BY <1>1
  <2>2. \A i \in S : i <= k - n
    <3> SUFFICES ASSUME NEW i \in S, ~(i <= k - n) PROVE FALSE
      OBVIOUS
    <3>1. i \in (k - n + 1)..k /\ i # 0
      BY <1>1
    <3> QED BY <1>1, <3>1
  <2> HIDE DEF S
  <2>3. Max(S) = k - n
    BY <2>1, <2>2, GreatestIs
  <2> QED BY <2>3 DEF LastSpeechIn, S
<1>3. SilentIn(b, k - n + 1, k) = n
  <2>1. {i \in (k - n + 1)..k : ~b[i]} = (k - n + 1)..k
    BY <1>1
  <2>2. k - n + 1 \in Int /\ k \in Int
    BY <1>1
  <2>3. Cardinality((k - n + 1)..k) = IF k - n + 1 > k THEN 0 ELSE k - (k - n + 1) + 1
    BY <2>2, FS_Interval
  <2>4. Cardinality((k - n + 1)..k) = n
    BY <1>1, <2>3
  <2> QED BY <2>1, <2>4 DEF SilentIn
<1> QED BY <1>1, <1>2, <1>3 DEF k

-----------------------------------------------------------------------------
(* ChildIffSpeechContinued. *)

\* A segment in progress ends in its counted silence, as the input does.
SilentEnd ==
  state.kind = "Active" =>
    Hushed(input, state.silence) /\ Hushed(SpeechOf(state.chunks), state.silence)

\* Segments are numbered in the order in which they start and close.
Counted ==
  /\ Len(starts) = nextSegmentId - 1
  /\ Len(closes) = IF Waiting THEN Len(starts) ELSE Len(starts) - 1
  /\ \A n \in 1..Len(closes) : closes[n].id = n /\ closes[n].at <= frames
  /\ \A n \in 1..Len(starts) : starts[n] < frames

LEMMA SilentEndKept ==
  ASSUME HistoryTyped, SilentEnd, NEW speech \in BOOLEAN, Pushes(speech), PushKind(speech),
         Now(speech) \in Chunk
  PROVE  SilentEnd'
<1> DEFINE c == Now(speech)
<1>1. /\ c \in Chunk /\ c.speech = speech /\ input \in Seq(BOOLEAN)
      /\ input' = Append(input, speech) /\ BuilderOK
  BY DEF HistoryTyped, Pushes, Now
<1> HIDE DEF c
<1>2. ASSUME NEW q \in Seq(Chunk), state'.chunks = Append(q, c), speech = TRUE, state'.silence = 0
      PROVE  SilentEnd'
  <2>1. SpeechOf(state'.chunks) = Append(SpeechOf(q), TRUE) /\ SpeechOf(q) \in Seq(BOOLEAN)
    BY <1>1, <1>2, SpeechOfIs
  <2>2. Hushed(SpeechOf(state'.chunks), 0) /\ Hushed(input', 0)
    BY <1>1, <1>2, <2>1, HushedAppend
  <2> QED BY <1>2, <2>2 DEF SilentEnd
<1>3. CASE Begins(speech)
  <2>1. /\ Waiting /\ speech = TRUE /\ state'.silence = 0
        /\ state'.chunks = state.pre \o Append(state.pending, c)
    BY <1>3 DEF Begins, c
  <2>2. state.pre \in Seq(Chunk) /\ state.pending \in Seq(Chunk)
    BY <1>1, <2>1, HeldIs
  <2>3. PICK q \in Seq(Chunk) : q = state.pre \o state.pending
    BY <1>1, <2>1, HeldIs
  <2>4. state'.chunks = Append(q, c)
    BY <1>1, <2>1, <2>2, <2>3, JoinAppend
  <2> QED BY <1>2, <2>1, <2>3, <2>4
<1>4. CASE Lengthens(speech)
  <2>1. /\ state.kind = "Active" /\ state'.chunks = Append(state.chunks, c)
        /\ state'.silence = (IF speech THEN 0 ELSE state.silence + 1)
    BY <1>4 DEF Lengthens, c
  <2>2. state.chunks \in Seq(Chunk)
    BY <1>1, <2>1, ActiveIs
  <2>3. CASE speech = TRUE
    BY <1>2, <2>1, <2>2, <2>3
  <2>4. CASE speech = FALSE
    <3>1. SpeechOf(state'.chunks) = Append(SpeechOf(state.chunks), FALSE)
          /\ SpeechOf(state.chunks) \in Seq(BOOLEAN)
      BY <1>1, <2>1, <2>2, <2>4, SpeechOfIs
    <3>2. Hushed(input, state.silence) /\ Hushed(SpeechOf(state.chunks), state.silence)
      BY <2>1 DEF SilentEnd
    <3>3. state'.silence = state.silence + 1
      BY <2>1, <2>4
    <3>4. Hushed(SpeechOf(state'.chunks), state'.silence) /\ Hushed(input', state'.silence)
      BY <1>1, <2>4, <3>1, <3>2, <3>3, HushedAppend
    <3> QED BY <3>4 DEF SilentEnd
  <2> QED BY <2>3, <2>4
<1>5. CASE Splits(speech)
  <2>1. /\ state.kind = "Active" /\ speech = TRUE
        /\ \/ state'.kind = "AfterInterimSilence"
           \/ state'.silence = 0 /\ state'.chunks = Append(KeptSilence, c)
    BY <1>5 DEF Splits, c
  <2>2. KeptSilence \in Seq(Chunk)
    BY <2>1, KeptIsShort
  <2>3. CASE state'.kind = "AfterInterimSilence"
    BY <2>3 DEF SilentEnd
  <2>4. CASE state'.silence = 0 /\ state'.chunks = Append(KeptSilence, c)
    BY <1>2, <2>1, <2>2, <2>4
  <2> QED BY <2>1, <2>3, <2>4
<1>6. CASE Holds(speech) \/ Quietens(speech) \/ Limits(speech) \/ Ends(speech)
  <2>1. state'.kind # "Active"
    BY <1>6 DEF Holds, Quietens, Limits, Ends, Waiting
  <2> QED BY <2>1 DEF SilentEnd
<1> QED BY <1>3, <1>4, <1>5, <1>6 DEF PushKind

LEMMA SilentEndAlways == HistorySpec => []SilentEnd
<1>1. HistoryInit => SilentEnd
  BY DEF HistoryInit, BuilderInit, Idle, SilentEnd
<1>2. ASSUME HistoryTyped, SilentEnd, Flushes PROVE SilentEnd'
  <2>1. state'.kind # "Active"
    BY <1>2, BuilderIs DEF Flushes, HistoryTyped
  <2> QED BY <2>1 DEF SilentEnd
<1>3. ASSUME HistoryTyped, SilentEnd, NEW next \in Configs, Updates(next) PROVE SilentEnd'
  <2>1. input' = input /\ (state' = state \/ (Waiting /\ state'.kind = state.kind))
    BY <1>3 DEF Updates
  <2> QED BY <1>3, <2>1 DEF SilentEnd, Waiting
<1>4. ASSUME HistoryTyped, SilentEnd, UNCHANGED historyVars PROVE SilentEnd'
  BY <1>4 DEF SilentEnd, historyVars, builderVars
<1>5. HistoryTyped /\ SilentEnd /\ [HistoryNext]_historyVars => SilentEnd'
  BY <1>2, <1>3, <1>4, HistorySteps, SilentEndKept DEF HistoryKinds
<1> QED BY <1>1, <1>5, HistoryTypedAlways, PTL DEF HistorySpec

\* The segment in progress closes, maybe at the start of the next one.
ClosesOne(closed) ==
  /\ state.kind = "Active" /\ closed \in Closed /\ closed.id = state.id
  /\ closed.previous = state.previous /\ closed.at <= frames'
  /\ closes' = Append(closes, closed)
  /\ \/ state'.kind # "Active" /\ starts' = starts /\ nextSegmentId' = nextSegmentId
     \/ /\ state'.kind = "Active" /\ starts' = Append(starts, frames)
        /\ nextSegmentId' = nextSegmentId + 1 /\ frames' = frames + 1

\* Nothing closes; a segment may start.
ClosesNone ==
  /\ closes' = closes
  /\ \/ starts' = starts /\ nextSegmentId' = nextSegmentId /\ Waiting' = Waiting
     \/ /\ Waiting /\ ~Waiting' /\ starts' = Append(starts, frames)
        /\ nextSegmentId' = nextSegmentId + 1 /\ frames' = frames + 1

LEMMA CountKinds ==
  ASSUME HistoryTyped, HistoryKinds
  PROVE  /\ frames' \in {frames, frames + 1} /\ frames \in Nat
         /\ ClosesNone \/ \E closed : ClosesOne(closed)
<1>1. BuilderOK /\ frames \in Nat /\ (Waiting <=> state.kind # "Active")
  BY HeldIs, BuilderIs DEF HistoryTyped
<1>2. ASSUME NEW speech \in BOOLEAN, Pushes(speech), PushKind(speech), Now(speech) \in Chunk
      PROVE  ClosesNone \/ \E closed : ClosesOne(closed)
  <2>1. frames' = frames + 1
    BY <1>2 DEF Pushes
  <2>2. CASE Holds(speech) \/ Begins(speech) \/ Quietens(speech) \/ Lengthens(speech)
    <3>1. CASE Holds(speech)
      BY <1>1, <3>1 DEF Holds, ClosesNone, Waiting
    <3>2. CASE Begins(speech)
      BY <1>1, <2>1, <3>2 DEF Begins, ClosesNone, Waiting
    <3>3. CASE Quietens(speech)
      BY <1>1, <3>3 DEF Quietens, ClosesNone, Waiting
    <3>4. CASE Lengthens(speech)
      BY <1>1, <3>4 DEF Lengthens, ClosesNone, Waiting
    <3> QED BY <2>2, <3>1, <3>2, <3>3, <3>4
  <2>3. CASE Splits(speech) \/ Limits(speech) \/ Ends(speech)
    <3>1. state.kind = "Active"
      BY <2>3 DEF Splits, Limits, Ends
    <3>2. state.chunks \in Seq(Chunk) /\ Append(state.chunks, Now(speech)) \in Seq(Chunk)
      BY <1>1, <1>2, <3>1, ActiveIs, JoinedLength
    <3>3. PICK reason \in {"InterimResultSilenceReached", "SegmentMaxChunksReached",
                           "EndSilenceReached"}, chunks \in Seq(Chunk) :
            /\ closes' = Append(closes, ClosedAs(reason, frames + 1, chunks))
            /\ \/ state'.kind # "Active" /\ starts' = starts /\ nextSegmentId' = nextSegmentId
               \/ /\ state'.kind = "Active" /\ starts' = Append(starts, frames)
                  /\ nextSegmentId' = nextSegmentId + 1
      <4>1. CASE Splits(speech)
        <5>1. closes' = Append(closes, ClosedAs("InterimResultSilenceReached", frames + 1,
                                                state.chunks))
          BY <4>1 DEF Splits
        <5>2. \/ state'.kind # "Active" /\ starts' = starts /\ nextSegmentId' = nextSegmentId
              \/ /\ state'.kind = "Active" /\ starts' = Append(starts, frames)
                 /\ nextSegmentId' = nextSegmentId + 1
          BY <4>1 DEF Splits
        <5> QED BY <3>2, <5>1, <5>2
      <4>2. CASE Limits(speech)
        BY <3>2, <4>2 DEF Limits
      <4>3. CASE Ends(speech)
        BY <3>2, <4>3 DEF Ends
      <4> QED BY <2>3, <4>1, <4>2, <4>3
    <3>4. frames + 1 \in Nat /\ frames + 1 <= frames'
      BY <1>1, <2>1
    <3> DEFINE closed == ClosedAs(reason, frames + 1, chunks)
    <3>5. /\ closed \in Closed /\ closed.id = state.id /\ closed.previous = state.previous
          /\ closed.at = frames + 1
      <4>1. PICK at \in Nat : at = frames + 1
        BY <3>4
      <4>2. /\ ClosedAs(reason, at, chunks) \in Closed
            /\ ClosedAs(reason, at, chunks).id = state.id
            /\ ClosedAs(reason, at, chunks).previous = state.previous
            /\ ClosedAs(reason, at, chunks).at = at
        BY <1>1, <3>1, ClosedAsTyped
      <4> QED BY <4>1, <4>2
    <3> HIDE DEF closed
    <3>6. closes' = Append(closes, closed)
      BY <3>3 DEF closed
    <3>7. ClosesOne(closed)
      BY <2>1, <3>1, <3>3, <3>4, <3>5, <3>6 DEF ClosesOne
    <3> QED BY <3>7
  <2> QED BY <1>2, <2>2, <2>3 DEF PushKind
<1>3. ASSUME Flushes PROVE ClosesNone \/ \E closed : ClosesOne(closed)
  <2>1. frames' = frames /\ starts' = starts /\ nextSegmentId' = nextSegmentId
    BY <1>3 DEF Flushes
  <2>2. CASE state.kind = "Active"
    <3> DEFINE closed == ClosedAs("EndSilenceReached", frames, state.chunks)
    <3>1. closes' = Append(closes, closed) /\ state'.kind = "Idle"
      BY <1>3, <2>2 DEF Flushes
    <3>2. /\ closed \in Closed /\ closed.id = state.id /\ closed.previous = state.previous
          /\ closed.at = frames
      BY <1>1, <2>2, ActiveIs, ClosedAsTyped
    <3> HIDE DEF closed
    <3>3. ClosesOne(closed)
      BY <1>1, <2>1, <2>2, <3>1, <3>2 DEF ClosesOne
    <3> QED BY <3>3
  <2>3. CASE state.kind # "Active"
    BY <1>1, <1>3, <2>1, <2>3 DEF Flushes, ClosesNone, Waiting
  <2> QED BY <2>2, <2>3
<1>4. ASSUME NEW next \in Configs, Updates(next) PROVE ClosesNone
  BY <1>1, <1>4 DEF Updates, ClosesNone, Waiting
<1>5. ASSUME UNCHANGED historyVars PROVE ClosesNone
  BY <1>5 DEF historyVars, builderVars, ClosesNone, Waiting
<1>6. frames' \in {frames, frames + 1}
  BY DEF HistoryKinds, Pushes, Flushes, Updates, historyVars, builderVars
<1> QED BY <1>1, <1>2, <1>3, <1>4, <1>5, <1>6 DEF HistoryKinds

LEMMA CountedKept ==
  ASSUME HistoryTyped, Counted, HistoryKinds, HistoryTyped'
  PROVE  Counted'
<1> DEFINE k == Len(closes)
           s == Len(starts)
<1>1. /\ frames \in Nat /\ frames' \in {frames, frames + 1} /\ starts \in Seq(Nat)
      /\ closes \in Seq(Closed) /\ k \in Nat /\ s \in Nat
      /\ nextSegmentId \in Nat /\ s = nextSegmentId - 1
  <2>1. starts \in Seq(Nat) /\ closes \in Seq(Closed) /\ nextSegmentId \in Nat
    BY BuilderIs DEF HistoryTyped, Turn
  <2> QED BY <2>1, CountKinds DEF Counted
<1>2. /\ k = IF Waiting THEN s ELSE s - 1
      /\ \A n \in 1..k : closes[n].id = n /\ closes[n].at <= frames
      /\ \A n \in 1..s : starts[n] < frames
  BY DEF Counted
<1>3. /\ Waiting <=> state.kind # "Active"
      /\ Waiting' <=> state'.kind # "Active"
  <2>1. Waiting <=> state.kind # "Active"
    BY HeldIs DEF HistoryTyped
  <2>2. state'.kind \in {"Idle", "AfterInterimSilence", "Active"}
    BY DEF HistoryTyped, BuilderOK, IdleStates, WaitingStates, ActiveStates
  <2> QED BY <2>1, <2>2 DEF Waiting
<1>4. \A n \in 1..k : closes[n] \in Closed /\ closes[n].at \in Nat
  <2>1. \A n \in 1..k : closes[n] \in Closed
    BY <1>1
  <2> QED BY <2>1 DEF Closed
<1>5. \A n \in 1..s : starts[n] \in Nat
  BY <1>1
<1>6. ASSUME starts' = Append(starts, frames), frames' = frames + 1
      PROVE  Len(starts') = s + 1 /\ \A n \in 1..(s + 1) : starts'[n] < frames'
  <2>1. /\ Len(starts') = s + 1 /\ starts'[s + 1] = frames
        /\ \A n \in 1..s : starts'[n] = starts[n]
    BY <1>1, <1>6, AppendIs
  <2> HIDE DEF s
  <2>2. \A n \in 1..(s + 1) : n \in 1..s \/ n = s + 1
    BY <1>1
  <2> QED BY <1>1, <1>2, <1>5, <1>6, <2>1, <2>2
<1>7. ASSUME NEW closed, ClosesOne(closed)
      PROVE  /\ Len(closes') = k + 1
             /\ \A n \in 1..(k + 1) : closes'[n].id = n /\ closes'[n].at <= frames'
  <2>1. closed \in Closed /\ closed.id = state.id /\ closed.at <= frames' /\ closes' = Append(closes, closed)
        /\ state.kind = "Active"
    BY <1>7 DEF ClosesOne
  <2>2. /\ Len(closes') = k + 1 /\ closes'[k + 1] = closed
        /\ \A n \in 1..k : closes'[n] = closes[n]
    BY <1>1, <2>1, AppendIs
  <2>3. state.id = nextSegmentId - 1
    BY <2>1, ActiveIs DEF HistoryTyped
  <2> HIDE DEF k, s
  <2>4. state.id = k + 1
    BY <1>1, <1>2, <1>3, <2>1, <2>3
  <2>5. \A n \in 1..(k + 1) : n \in 1..k \/ n = k + 1
    BY <1>1
  <2> QED BY <1>1, <1>2, <1>4, <2>1, <2>2, <2>4, <2>5
<1> HIDE DEF k, s
<1>8. CASE ClosesNone
  <2>1. closes' = closes /\ Len(closes') = k
    BY <1>8 DEF ClosesNone, k
  <2>2. \A n \in 1..k : closes'[n].id = n /\ closes'[n].at <= frames'
    BY <1>1, <1>2, <1>4, <2>1
  <2>3. CASE starts' = starts /\ nextSegmentId' = nextSegmentId /\ Waiting' = Waiting
    <3>1. \A n \in 1..s : starts'[n] < frames'
      BY <1>1, <1>2, <1>5, <2>3
    <3> QED BY <1>1, <1>2, <2>1, <2>2, <2>3, <3>1 DEF Counted, s
  <2>4. CASE /\ Waiting /\ ~Waiting' /\ starts' = Append(starts, frames)
             /\ nextSegmentId' = nextSegmentId + 1 /\ frames' = frames + 1
    <3>1. Len(starts') = s + 1 /\ \A n \in 1..Len(starts') : starts'[n] < frames'
      BY <1>6, <2>4
    <3>2. s + 1 = nextSegmentId' - 1 /\ k = (s + 1) - 1
      BY <1>1, <1>2, <2>4
    <3>3. Len(starts') = nextSegmentId' - 1 /\ Len(closes') = IF Waiting' THEN Len(starts') ELSE Len(starts') - 1
      BY <2>1, <2>4, <3>1, <3>2
    <3>4. \A n \in 1..Len(closes') : closes'[n].id = n /\ closes'[n].at <= frames'
      BY <2>1, <2>2
    <3> QED BY <3>1, <3>3, <3>4 DEF Counted
  <2> QED BY <1>8, <2>3, <2>4 DEF ClosesNone
<1>9. ASSUME NEW closed, ClosesOne(closed)
      PROVE  Counted'
  <2>1. Len(closes') = k + 1 /\ \A n \in 1..Len(closes') : closes'[n].id = n /\ closes'[n].at <= frames'
    BY <1>7, <1>9
  <2>2. k = s - 1
    BY <1>2, <1>3, <1>9 DEF ClosesOne
  <2>3. CASE state'.kind # "Active" /\ starts' = starts /\ nextSegmentId' = nextSegmentId
    <3>1. \A n \in 1..s : starts'[n] < frames'
      BY <1>1, <1>2, <1>5, <2>3
    <3>2. Len(starts') = s /\ k + 1 = s /\ s = nextSegmentId' - 1 /\ Waiting'
      BY <1>1, <1>3, <2>2, <2>3 DEF s
    <3> QED BY <2>1, <3>1, <3>2 DEF Counted
  <2>4. CASE /\ state'.kind = "Active" /\ starts' = Append(starts, frames)
             /\ nextSegmentId' = nextSegmentId + 1 /\ frames' = frames + 1
    <3>1. Len(starts') = s + 1 /\ \A n \in 1..Len(starts') : starts'[n] < frames'
      BY <1>6, <2>4
    <3>2. s + 1 = nextSegmentId' - 1 /\ k + 1 = (s + 1) - 1 /\ ~Waiting'
      BY <1>1, <1>3, <2>2, <2>4
    <3>3. Len(starts') = nextSegmentId' - 1
          /\ Len(closes') = IF Waiting' THEN Len(starts') ELSE Len(starts') - 1
      BY <2>1, <3>1, <3>2
    <3> QED BY <2>1, <3>1, <3>3 DEF Counted
  <2> QED BY <1>9, <2>3, <2>4 DEF ClosesOne
<1> QED BY <1>8, <1>9, CountKinds

LEMMA CountedAlways == HistorySpec => []Counted
<1>1. HistoryInit => Counted
  <2> SUFFICES ASSUME HistoryInit PROVE Counted
    OBVIOUS
  <2>1. /\ closes = << >> /\ starts = << >> /\ nextSegmentId = 1 /\ state.kind = "Idle"
    BY DEF HistoryInit, BuilderInit, Idle
  <2>2. Len(<< >>) = 0 /\ 1..0 = {}
    OBVIOUS
  <2> QED BY <2>1, <2>2 DEF Counted, Waiting
<1>2. HistoryTyped /\ Counted /\ [HistoryNext]_historyVars => Counted'
  BY HistorySteps, CountedKept
<1> QED BY <1>1, <1>2, HistoryTypedAlways, PTL DEF HistorySpec

\* Continues, of any input, flushes and turn check silence.
HeardIn(b, parent, start) == SilentIn(b, LastSpeechIn(b, parent.at - 1) + 1, start)

ContinuesIn(b, called, check, parent, start) ==
  \/ /\ parent.reason = "SegmentMaxChunksReached"
     /\ SilentIn(b, parent.at + 1, start) = 0
  \/ /\ parent.reason = "InterimResultSilenceReached"
     /\ HeardIn(b, parent, start) < check
     /\ called \intersect (parent.at..start) = {}

LEMMA ContinuesIs ==
  ASSUME NEW parent \in Closed, NEW start
  PROVE  Continues(parent, start)
           <=> ContinuesIn(input, flushes, config.turnCheck, parent, start)
<1>1. parent.reason \in {"InterimResultSilenceReached", "SegmentMaxChunksReached",
                         "EndSilenceReached"}
  BY DEF Closed
<1>2. CASE parent.reason = "InterimResultSilenceReached"
  BY <1>2 DEF Continues, ContinuesIn, SilentChunks, LastSpeechBefore, HeardIn, SilentIn,
              LastSpeechIn
<1>3. CASE parent.reason = "SegmentMaxChunksReached"
  BY <1>3 DEF Continues, ContinuesIn, SilentChunks, SilentIn
<1>4. CASE parent.reason = "EndSilenceReached"
  BY <1>4 DEF Continues, ContinuesIn
<1> QED BY <1>1, <1>2, <1>3, <1>4

\* Input pushed after the start changes nothing.
LEMMA StartedStays ==
  ASSUME NEW b \in Seq(BOOLEAN), NEW speech \in BOOLEAN, NEW parent \in Closed,
         parent.at <= Len(b) + 1, NEW called, NEW check, NEW start \in 0..Len(b)
  PROVE  /\ ContinuesIn(Append(b, speech), called, check, parent, start)
              <=> ContinuesIn(b, called, check, parent, start)
         /\ HeardIn(Append(b, speech), parent, start) = HeardIn(b, parent, start)
<1>1. PICK r : r = Append(b, speech)
  OBVIOUS
<1>2. parent.at \in Nat /\ parent.at + 1 \in Nat \ {0} /\ parent.at - 1 \in Int
      /\ parent.at - 1 <= Len(b)
  BY DEF Closed
<1>3. PICK last \in Nat : last = LastSpeechIn(b, parent.at - 1) /\ last + 1 \in Nat \ {0}
  BY <1>2, LastSpeechIs
<1>4. LastSpeechIn(r, parent.at - 1) = last
  BY <1>1, <1>2, <1>3, LastSpeechAppend
<1>5. SilentIn(r, last + 1, start) = SilentIn(b, last + 1, start)
  BY <1>1, <1>3, SilentInAppend
<1>6. SilentIn(r, parent.at + 1, start) = SilentIn(b, parent.at + 1, start)
  BY <1>1, <1>2, SilentInAppend
<1>7. HeardIn(r, parent, start) = HeardIn(b, parent, start)
  BY <1>3, <1>4, <1>5 DEF HeardIn
<1> QED BY <1>1, <1>6, <1>7 DEF ContinuesIn

\* One more chunk before the start.
LEMMA StartsLater ==
  ASSUME NEW b \in Seq(BOOLEAN), NEW speech \in BOOLEAN, NEW parent \in Closed,
         parent.at <= Len(b), NEW called \in SUBSET (0..Len(b)), NEW check \in Nat
  PROVE  /\ HeardIn(b, parent, Len(b)) \in Nat
         /\ HeardIn(Append(b, speech), parent, Len(b) + 1)
              = HeardIn(b, parent, Len(b)) + (IF speech THEN 0 ELSE 1)
         /\ speech => (ContinuesIn(Append(b, speech), called, check, parent, Len(b) + 1)
                         <=> ContinuesIn(b, called, check, parent, Len(b)))
         /\ ~speech /\ ContinuesIn(Append(b, speech), called, check, parent, Len(b) + 1)
              => /\ ContinuesIn(b, called, check, parent, Len(b))
                 /\ parent.reason = "InterimResultSilenceReached"
                 /\ HeardIn(b, parent, Len(b)) + 1 < check
         /\ /\ ~speech /\ ContinuesIn(b, called, check, parent, Len(b))
            /\ parent.reason = "InterimResultSilenceReached"
            /\ HeardIn(b, parent, Len(b)) + 1 < check
            => ContinuesIn(Append(b, speech), called, check, parent, Len(b) + 1)
<1> DEFINE k == Len(b)
<1>1. PICK r : r = Append(b, speech)
  OBVIOUS
<1>2. parent.at \in Nat /\ parent.at + 1 \in Nat \ {0} /\ parent.at - 1 \in Int
      /\ parent.at - 1 <= k /\ k \in Nat /\ parent.at + 1 <= k + 1
  BY DEF Closed
<1>3. PICK last \in 0..k : last = LastSpeechIn(b, parent.at - 1)
  BY <1>2, LastSpeechIs
<1>4. LastSpeechIn(r, parent.at - 1) = last
  BY <1>1, <1>2, <1>3, LastSpeechAppend
<1>5. last + 1 \in Nat \ {0} /\ last + 1 <= k + 1
  BY <1>2, <1>3
<1>0. ASSUME NEW from \in Nat \ {0}, from <= k + 1
      PROVE  /\ SilentIn(r, from, k + 1) = SilentIn(b, from, k) + (IF speech THEN 0 ELSE 1)
             /\ SilentIn(b, from, k) \in Nat
  <2>1. SilentIn(r, from, k + 1) = SilentIn(b, from, k) + (IF speech THEN 0 ELSE 1)
    BY <1>0, <1>1, SilentInAppend
  <2>2. from \in Int /\ k \in Int
    BY <1>2
  <2>3. SilentIn(b, from, k) \in Nat
    <3> HIDE DEF k
    <3> QED BY <2>2, SilentInIs
  <2> QED BY <2>1, <2>3
<1> HIDE DEF k
<1>6. /\ SilentIn(r, last + 1, k + 1) = SilentIn(b, last + 1, k) + (IF speech THEN 0 ELSE 1)
      /\ SilentIn(b, last + 1, k) \in Nat
  BY <1>0, <1>5
<1>7. /\ SilentIn(r, parent.at + 1, k + 1)
           = SilentIn(b, parent.at + 1, k) + (IF speech THEN 0 ELSE 1)
      /\ SilentIn(b, parent.at + 1, k) \in Nat
  BY <1>0, <1>2
<1>8. called \intersect (parent.at..(k + 1)) = called \intersect (parent.at..k)
  <2>1. \A a \in called : a \in 0..k
    BY DEF k
  <2> QED BY <1>2, <2>1
<1>9. /\ HeardIn(b, parent, k) \in Nat
      /\ HeardIn(r, parent, k + 1) = HeardIn(b, parent, k) + (IF speech THEN 0 ELSE 1)
  BY <1>3, <1>4, <1>6 DEF HeardIn
<1>10. speech => (ContinuesIn(r, called, check, parent, k + 1)
                    <=> ContinuesIn(b, called, check, parent, k))
  BY <1>7, <1>8, <1>9 DEF ContinuesIn
<1>11. ~speech /\ ContinuesIn(r, called, check, parent, k + 1)
         => /\ ContinuesIn(b, called, check, parent, k)
            /\ parent.reason = "InterimResultSilenceReached"
            /\ HeardIn(b, parent, k) + 1 < check
  BY <1>7, <1>8, <1>9 DEF ContinuesIn
<1>12. /\ ~speech /\ ContinuesIn(b, called, check, parent, k)
       /\ parent.reason = "InterimResultSilenceReached"
       /\ HeardIn(b, parent, k) + 1 < check
       => ContinuesIn(r, called, check, parent, k + 1)
  BY <1>7, <1>8, <1>9 DEF ContinuesIn
<1> QED BY <1>1, <1>9, <1>10, <1>11, <1>12 DEF k

\* A flush after the start changes nothing; one before it ends an interim chain.
LEMMA FlushedLater ==
  ASSUME NEW b, NEW parent \in Closed, NEW called, NEW check, NEW start \in Nat, NEW at \in Nat
  PROVE  /\ start < at => (ContinuesIn(b, called \union {at}, check, parent, start)
                             <=> ContinuesIn(b, called, check, parent, start))
         /\ ContinuesIn(b, called \union {at}, check, parent, start)
              => ContinuesIn(b, called, check, parent, start)
         /\ parent.reason # "InterimResultSilenceReached" =>
              (ContinuesIn(b, called \union {at}, check, parent, start)
                 <=> ContinuesIn(b, called, check, parent, start))
         /\ /\ parent.reason = "InterimResultSilenceReached"
            /\ parent.at <= at /\ at <= start
            => ~ContinuesIn(b, called \union {at}, check, parent, start)
<1>1. parent.at \in Nat
  BY DEF Closed
<1>2. start < at =>
        (called \union {at}) \intersect (parent.at..start) = called \intersect (parent.at..start)
  BY <1>1
<1>3. parent.at <= at /\ at <= start => at \in (called \union {at}) \intersect (parent.at..start)
  BY <1>1
<1> QED BY <1>2, <1>3 DEF ContinuesIn

\* The parent of a segment, as the input so far makes it.
Goes(parent, start) == ContinuesIn(input, flushes, config.turnCheck, parent, start)

ParentOr(parent, start) == IF Goes(parent, start) THEN parent.id ELSE NoSegment

\* The segments that have closed.
Lineage ==
  \A n \in 1..(Len(closes) - 1) : closes[n + 1].previous = ParentOr(closes[n], starts[n + 1])

\* The segment in progress, or the one that would start now.
Heritage(parent) ==
  /\ state.kind = "Active" => state.previous = ParentOr(parent, starts[Len(closes) + 1])
  /\ state.kind = "Idle" =>
       /\ pendingPrevious = ParentOr(parent, frames)
       /\ parent.reason = "InterimResultSilenceReached" => ~Goes(parent, frames)
  /\ state.kind = "AfterInterimSilence" =>
       /\ parent.reason = "InterimResultSilenceReached" /\ state.previous = parent.id
       /\ Goes(parent, frames) /\ HeardIn(input, parent, frames) = state.silence

Descent == closes # << >> => Heritage(closes[Len(closes)])

LEMMA HistoryIs ==
  ASSUME HistoryTyped, Counted
  PROVE  /\ input \in Seq(BOOLEAN) /\ Len(input) = frames /\ frames \in Nat
         /\ flushes \in SUBSET (0..frames) /\ config.turnCheck \in Nat /\ updates \in Nat
         /\ closes \in Seq(Closed) /\ starts \in Seq(Nat)
         /\ Len(closes) \in Nat /\ Len(starts) \in Nat
         /\ closes = << >> <=> Len(closes) = 0
         /\ \A n \in 1..Len(closes) : closes[n] \in Closed /\ closes[n].at <= frames
         /\ \A n \in 1..Len(starts) : starts[n] \in Nat /\ starts[n] < frames
         /\ Waiting <=> state.kind # "Active"
         /\ Waiting => Len(starts) = Len(closes)
         /\ state.kind = "Active" => Len(starts) = Len(closes) + 1
<1>1. /\ input \in Seq(BOOLEAN) /\ Len(input) = frames /\ frames \in Nat
      /\ flushes \in SUBSET (0..frames) /\ config.turnCheck \in Nat /\ updates \in Nat
      /\ closes \in Seq(Closed) /\ starts \in Seq(Nat)
  BY BuilderIs DEF HistoryTyped
<1>2. Len(closes) \in Nat /\ Len(starts) \in Nat /\ (closes = << >> <=> Len(closes) = 0)
  BY <1>1
<1>3. \A n \in 1..Len(closes) : closes[n] \in Closed
  BY <1>1
<1>4. \A n \in 1..Len(starts) : starts[n] \in Nat
  BY <1>1
<1>5. Waiting <=> state.kind # "Active"
  BY HeldIs DEF HistoryTyped
<1> QED BY <1>1, <1>2, <1>3, <1>4, <1>5 DEF Counted

\* Once a segment has started its parent is settled.
LEMMA SettledStays ==
  ASSUME HistoryTyped, Counted, HistoryKinds, updates' = 0,
         NEW parent \in Closed, parent.at <= frames, NEW start \in Nat,
         start < frames \/ (start = frames /\ frames' = frames + 1)
  PROVE  (Goes(parent, start))' <=> Goes(parent, start)
<1>1. /\ input \in Seq(BOOLEAN) /\ Len(input) = frames /\ frames \in Nat /\ updates \in Nat
  BY HistoryIs
<1>2. ASSUME NEW speech \in BOOLEAN, Pushes(speech)
      PROVE  (Goes(parent, start))' <=> Goes(parent, start)
  <2>1. input' = Append(input, speech) /\ flushes' = flushes /\ config' = config
    BY <1>2 DEF Pushes
  <2>2. start \in 0..Len(input) /\ parent.at <= Len(input) + 1
    BY <1>1 DEF Closed
  <2>3. ContinuesIn(Append(input, speech), flushes, config.turnCheck, parent, start)
          <=> ContinuesIn(input, flushes, config.turnCheck, parent, start)
    BY <1>1, <2>2, StartedStays
  <2> QED BY <2>1, <2>3 DEF Goes
<1>3. ASSUME Flushes
      PROVE  (Goes(parent, start))' <=> Goes(parent, start)
  <2>1. /\ input' = input /\ flushes' = flushes \union {frames} /\ config' = config
        /\ frames' = frames
    BY <1>3 DEF Flushes
  <2>2. start < frames
    BY <1>1, <2>1
  <2>3. ContinuesIn(input, flushes \union {frames}, config.turnCheck, parent, start)
          <=> ContinuesIn(input, flushes, config.turnCheck, parent, start)
    BY <1>1, <2>2, FlushedLater
  <2> QED BY <2>1, <2>3 DEF Goes
<1>4. ASSUME NEW next \in Configs, Updates(next) PROVE FALSE
  BY <1>1, <1>4 DEF Updates
<1>5. ASSUME UNCHANGED historyVars
      PROVE  (Goes(parent, start))' <=> Goes(parent, start)
  BY <1>5 DEF historyVars, builderVars, Goes
<1> QED BY <1>2, <1>3, <1>4, <1>5 DEF HistoryKinds

LEMMA UpdatesStay ==
  ASSUME HistoryTyped, HistoryKinds, updates' = 0
  PROVE  updates = 0
  BY DEF HistoryTyped, HistoryKinds, Pushes, Flushes, Updates, historyVars

LEMMA LineageKept ==
  ASSUME HistoryTyped, Counted, HistoryKinds, updates' = 0, Lineage, Descent
  PROVE  Lineage'
<1> DEFINE k == Len(closes)
<1>1. /\ k \in Nat /\ closes \in Seq(Closed) /\ starts \in Seq(Nat) /\ Len(starts) \in Nat
      /\ \A n \in 1..k : closes[n] \in Closed /\ closes[n].at <= frames
      /\ \A n \in 1..Len(starts) : starts[n] \in Nat /\ starts[n] < frames
      /\ k <= Len(starts) /\ frames \in Nat
      /\ state.kind = "Active" => Len(starts) = k + 1
  BY HistoryIs
<1>2. starts' = starts \/ starts' = Append(starts, frames)
  BY CountKinds DEF ClosesOne, ClosesNone
<1>3. \A n \in 1..Len(starts) : starts'[n] = starts[n]
  <2>1. \A n \in 1..Len(starts) : Append(starts, frames)[n] = starts[n]
    BY <1>1, AppendIs
  <2> QED BY <1>2, <2>1
<1>4. ASSUME NEW n \in 1..k, NEW m \in 1..Len(starts)
      PROVE  (Goes(closes[n], starts[m]))' <=> ContinuesIn(input', flushes', config'.turnCheck, closes'[n], starts'[m])
  BY DEF Goes
<1>5. ASSUME NEW n \in 1..k, NEW m \in 1..Len(starts), closes'[n] = closes[n]
      PROVE  ContinuesIn(input', flushes', config'.turnCheck, closes'[n], starts'[m])
               <=> Goes(closes[n], starts[m])
  <2>1. PICK parent \in Closed : parent = closes[n] /\ parent.at <= frames
    BY <1>1
  <2>2. PICK start \in Nat : start = starts[m] /\ start < frames
    BY <1>1
  <2>3. (Goes(parent, start))' <=> Goes(parent, start)
    BY <2>1, <2>2, SettledStays
  <2>4. (Goes(parent, start))' <=> ContinuesIn(input', flushes', config'.turnCheck, parent, start)
    BY DEF Goes
  <2>5. closes'[n] = parent /\ starts'[m] = start
    BY <1>3, <1>5, <2>1, <2>2
  <2> QED BY <2>1, <2>2, <2>3, <2>4, <2>5
<1> HIDE DEF k
<1>6. CASE ClosesNone
  <2>1. closes' = closes
    BY <1>6 DEF ClosesNone
  <2>2. ASSUME NEW n \in 1..(k - 1)
        PROVE  closes'[n + 1].previous = (ParentOr(closes[n], starts[n + 1]))'
    <3>1. n \in 1..k /\ n + 1 \in 1..Len(starts)
      BY <1>1
    <3>2. closes[n + 1].previous = ParentOr(closes[n], starts[n + 1])
      BY DEF Lineage, k
    <3>3. (Goes(closes[n], starts[n + 1]))' <=> Goes(closes[n], starts[n + 1])
      BY <1>4, <1>5, <2>1, <3>1
    <3> QED BY <2>1, <3>2, <3>3 DEF ParentOr
  <2> QED BY <2>1, <2>2 DEF Lineage, k
<1>7. ASSUME NEW closed, ClosesOne(closed)
      PROVE  Lineage'
  <2>1. /\ state.kind = "Active" /\ closed \in Closed /\ closed.previous = state.previous
        /\ closes' = Append(closes, closed)
    BY <1>7 DEF ClosesOne
  <2>2. /\ Len(closes') = k + 1 /\ closes'[k + 1] = closed
        /\ \A n \in 1..k : closes'[n] = closes[n]
    BY <1>1, <2>1, AppendIs DEF k
  <2>3. ASSUME NEW n \in 1..k
        PROVE  closes'[n + 1].previous = (ParentOr(closes[n], starts[n + 1]))'
    <3>1. n + 1 \in 1..Len(starts)
      BY <1>1, <2>1
    <3>2. (Goes(closes[n], starts[n + 1]))' <=> Goes(closes[n], starts[n + 1])
      BY <1>4, <1>5, <2>2, <3>1
    <3>3. closes'[n + 1].previous = ParentOr(closes[n], starts[n + 1])
      <4>1. CASE n = k
        <5>1. closes # << >> /\ n + 1 = k + 1
          BY <4>1, HistoryIs DEF k
        <5>2. state.previous = ParentOr(closes[k], starts[k + 1])
          BY <2>1, <5>1 DEF Descent, Heritage, k
        <5> QED BY <2>1, <2>2, <4>1, <5>1, <5>2
      <4>2. CASE n # k
        <5>1. n \in 1..(k - 1) /\ n + 1 \in 1..k
          BY <1>1, <4>2
        <5> QED BY <2>2, <5>1 DEF Lineage, k
      <4> QED BY <4>1, <4>2
    <3> QED BY <2>2, <3>2, <3>3 DEF ParentOr
  <2>4. (k + 1) - 1 = k
    BY <1>1
  <2> QED BY <2>2, <2>3, <2>4 DEF Lineage
<1> QED BY <1>6, <1>7, CountKinds

LEMMA GoesOn ==
  ASSUME HistoryTyped, Counted, NEW speech \in BOOLEAN, Pushes(speech),
         NEW parent \in Closed, parent.at <= frames
  PROVE  /\ HeardIn(input, parent, frames) \in Nat
         /\ HeardIn(input', parent, frames')
              = HeardIn(input, parent, frames) + (IF speech THEN 0 ELSE 1)
         /\ speech => ((Goes(parent, frames))' <=> Goes(parent, frames))
         /\ ~speech /\ (Goes(parent, frames))'
              => /\ Goes(parent, frames)
                 /\ parent.reason = "InterimResultSilenceReached"
                 /\ HeardIn(input, parent, frames) + 1 < config.turnCheck
         /\ /\ ~speech /\ Goes(parent, frames)
            /\ parent.reason = "InterimResultSilenceReached"
            /\ HeardIn(input, parent, frames) + 1 < config.turnCheck
            => (Goes(parent, frames))'
<1>1. /\ input \in Seq(BOOLEAN) /\ Len(input) = frames /\ flushes \in SUBSET (0..frames)
      /\ config.turnCheck \in Nat
  BY HistoryIs
<1>a. PICK b \in Seq(BOOLEAN) : b = input
  BY <1>1
<1>b. PICK called \in SUBSET (0..Len(b)) : called = flushes
  BY <1>1, <1>a
<1>c. PICK check \in Nat : check = config.turnCheck
  BY <1>1
<1>2. b = input /\ called = flushes /\ check = config.turnCheck
  BY <1>a, <1>b, <1>c
<1>3. /\ input' = Append(b, speech) /\ flushes' = called /\ config'.turnCheck = check
      /\ frames' = Len(b) + 1 /\ frames = Len(b) /\ parent.at <= Len(b)
  BY <1>1, <1>2 DEF Pushes
<1>4. /\ HeardIn(b, parent, Len(b)) \in Nat
      /\ HeardIn(Append(b, speech), parent, Len(b) + 1)
           = HeardIn(b, parent, Len(b)) + (IF speech THEN 0 ELSE 1)
      /\ speech => (ContinuesIn(Append(b, speech), called, check, parent, Len(b) + 1)
                      <=> ContinuesIn(b, called, check, parent, Len(b)))
      /\ ~speech /\ ContinuesIn(Append(b, speech), called, check, parent, Len(b) + 1)
           => /\ ContinuesIn(b, called, check, parent, Len(b))
              /\ parent.reason = "InterimResultSilenceReached"
              /\ HeardIn(b, parent, Len(b)) + 1 < check
      /\ /\ ~speech /\ ContinuesIn(b, called, check, parent, Len(b))
         /\ parent.reason = "InterimResultSilenceReached"
         /\ HeardIn(b, parent, Len(b)) + 1 < check
         => ContinuesIn(Append(b, speech), called, check, parent, Len(b) + 1)
  BY <1>3, StartsLater
<1>5. (Goes(parent, frames))' <=> ContinuesIn(Append(b, speech), called, check, parent, Len(b) + 1)
  BY <1>3 DEF Goes
<1>6. Goes(parent, frames) <=> ContinuesIn(b, called, check, parent, Len(b))
  BY <1>2, <1>3 DEF Goes
<1> QED BY <1>2, <1>3, <1>4, <1>5, <1>6

\* The segment that an interim close or a length limit closes goes on.
LEMMA ClosedGoesOn ==
  ASSUME HistoryTyped, Counted, NEW speech \in BOOLEAN, Pushes(speech),
         NEW parent \in Closed, parent.at = frames + 1
  PROVE  /\ parent.reason = "SegmentMaxChunksReached" => (Goes(parent, frames))'
         /\ /\ parent.reason = "InterimResultSilenceReached" /\ speech
            /\ state.kind = "Active" /\ SilentEnd /\ state.silence < config.turnCheck
            => /\ (Goes(parent, frames))'
               /\ HeardIn(input', parent, frames') = state.silence
               /\ ContinuesIn(input', flushes', config'.turnCheck, parent, frames)
         /\ parent.reason = "EndSilenceReached" => ~(Goes(parent, frames))'
<1>1. /\ input \in Seq(BOOLEAN) /\ Len(input) = frames /\ flushes \in SUBSET (0..frames)
      /\ config.turnCheck \in Nat /\ frames \in Nat
  BY HistoryIs
<1>2. /\ input' = Append(input, speech) /\ flushes' = flushes /\ config' = config
      /\ frames' = frames + 1
  BY DEF Pushes
<1>3. (Goes(parent, frames))' <=> ContinuesIn(input', flushes, config.turnCheck, parent, frames + 1)
  BY <1>2 DEF Goes
<1>4. ASSUME parent.reason = "SegmentMaxChunksReached"
      PROVE  (Goes(parent, frames))'
  <2>1. frames + 1 + 1 \in Int /\ frames + 1 \in Int /\ (frames + 1 + 1)..(frames + 1) = {}
    BY <1>1
  <2>2. SilentIn(input', parent.at + 1, frames + 1) = 0
    BY <2>1, SilentInIs
  <2> QED BY <1>3, <1>4, <2>2 DEF ContinuesIn
<1>5. ASSUME parent.reason = "InterimResultSilenceReached", speech,
             state.kind = "Active", SilentEnd, state.silence < config.turnCheck
      PROVE  /\ (Goes(parent, frames))'
             /\ HeardIn(input', parent, frames') = state.silence
             /\ ContinuesIn(input', flushes', config'.turnCheck, parent, frames)
  <2>1. Hushed(input, state.silence)
    BY <1>5 DEF SilentEnd
  <2> DEFINE from == frames - state.silence + 1
  <2>2. /\ LastSpeechIn(input, frames) = frames - state.silence
        /\ SilentIn(input, from, frames) = state.silence
        /\ state.silence \in Nat /\ state.silence < frames
    BY <1>1, <2>1, HushedIs
  <2>3. parent.at - 1 = frames
    BY <1>1
  <2>4. LastSpeechIn(input', parent.at - 1) = frames - state.silence
    BY <1>1, <1>2, <2>2, <2>3, LastSpeechAppend
  <2>5. from \in Nat \ {0} /\ from <= frames + 1 /\ frames \in 0..Len(input)
    BY <1>1, <2>2
  <2> HIDE DEF from
  <2>6. /\ SilentIn(Append(input, TRUE), from, frames) = SilentIn(input, from, frames)
        /\ SilentIn(Append(input, TRUE), from, frames + 1) = SilentIn(input, from, frames) + 0
    BY <1>1, <2>5, SilentInAppend
  <2>7. input' = Append(input, TRUE)
    BY <1>2, <1>5
  <2>8. /\ HeardIn(input', parent, frames + 1) = state.silence
        /\ HeardIn(input', parent, frames) = state.silence
    <3>1. LastSpeechIn(input', parent.at - 1) + 1 = from
      BY <2>4 DEF from
    <3>2. /\ HeardIn(input', parent, frames + 1) = SilentIn(input', from, frames + 1)
          /\ HeardIn(input', parent, frames) = SilentIn(input', from, frames)
      BY <3>1 DEF HeardIn
    <3>3. SilentIn(input, from, frames) + 0 = state.silence
      BY <2>2 DEF from
    <3>4. SilentIn(input, from, frames) = state.silence
      BY <2>2 DEF from
    <3> QED BY <2>6, <2>7, <3>2, <3>3, <3>4
  <2>9. /\ flushes \intersect (parent.at..(frames + 1)) = {}
        /\ flushes \intersect (parent.at..frames) = {}
    <3>1. \A a \in flushes : a \in 0..frames
      BY <1>1
    <3> QED BY <1>1, <3>1
  <2> QED BY <1>2, <1>3, <1>5, <2>8, <2>9 DEF ContinuesIn
<1>6. ASSUME parent.reason = "EndSilenceReached"
      PROVE  ~(Goes(parent, frames))'
  BY <1>3, <1>6 DEF ContinuesIn
<1> QED BY <1>4, <1>5, <1>6

LEMMA DescentOf ==
  ASSUME NEW parent, Len(closes') > 0 => closes'[Len(closes')] = parent, closes' \in Seq(Closed),
         (Heritage(parent))'
  PROVE  Descent'
<1>1. closes' # << >> => Len(closes') > 0
  OBVIOUS
<1>2. SUFFICES ASSUME closes' # << >> PROVE (Heritage(closes[Len(closes)]))'
  BY DEF Descent
<1> QED BY <1>1, <1>2 DEF Heritage, ParentOr, Goes

LEMMA DescentByPush ==
  ASSUME HistoryTyped, Counted, SilentEnd, Descent, updates' = 0,
         NEW speech \in BOOLEAN, Pushes(speech), PushKind(speech), Now(speech) \in Chunk
  PROVE  Descent'
<1>k. PICK k \in Nat : k = Len(closes)
  BY HistoryIs
<1>1. /\ k \in Nat /\ closes \in Seq(Closed) /\ starts \in Seq(Nat) /\ Len(starts) \in Nat
      /\ \A n \in 1..k : closes[n] \in Closed /\ closes[n].at <= frames
      /\ \A n \in 1..Len(starts) : starts[n] \in Nat /\ starts[n] < frames
      /\ frames \in Nat /\ frames' = frames + 1
      /\ Waiting => Len(starts) = k
      /\ state.kind = "Active" => Len(starts) = k + 1
      /\ closes = << >> <=> k = 0
      /\ Waiting <=> state.kind # "Active"
      /\ BuilderOK /\ nextSegmentId \in Nat
  BY <1>k, HistoryIs, BuilderIs DEF Pushes, HistoryTyped, Turn
<1>2. HistoryKinds
  BY DEF HistoryKinds
<1>3. ASSUME closes' = closes,
             \A parent \in Closed : parent.at <= frames /\ parent = closes[k] /\ k > 0
                                      /\ Heritage(parent) => (Heritage(parent))'
      PROVE  Descent'
  <2> SUFFICES ASSUME closes # << >> PROVE Descent'
    BY <1>3 DEF Descent
  <2>1. k > 0 /\ k \in 1..k
    BY <1>1
  <2>2. PICK parent \in Closed : parent = closes[k] /\ parent.at <= frames
    BY <1>1, <2>1
  <2>3. Heritage(parent)
    BY <1>k, <2>2 DEF Descent
  <2>4. (Heritage(parent))'
    BY <1>3, <2>1, <2>2, <2>3
  <2>5. Len(closes') = k /\ closes'[Len(closes')] = parent /\ closes' \in Seq(Closed)
    BY <1>1, <1>3, <1>k, <2>2
  <2> QED BY <2>4, <2>5, DescentOf
<1>4. CASE Holds(speech)
  <2>1. /\ speech /\ state'.kind = state.kind /\ pendingPrevious' = pendingPrevious
        /\ closes' = closes /\ Waiting
        /\ state.kind = "AfterInterimSilence" =>
             state'.previous = state.previous /\ state'.silence = state.silence
    BY <1>4 DEF Holds
  <2>2. ASSUME NEW parent \in Closed, parent.at <= frames, Heritage(parent)
        PROVE  (Heritage(parent))'
    <3>1. /\ HeardIn(input, parent, frames) \in Nat
          /\ HeardIn(input', parent, frames') = HeardIn(input, parent, frames)
          /\ (Goes(parent, frames))' <=> Goes(parent, frames)
      <4>1. /\ HeardIn(input, parent, frames) \in Nat
            /\ HeardIn(input', parent, frames') = HeardIn(input, parent, frames) + 0
            /\ (Goes(parent, frames))' <=> Goes(parent, frames)
        BY <2>1, <2>2, GoesOn
      <4> QED BY <4>1
    <3>2. state.kind # "Active" /\ state'.kind = state.kind
      BY <1>1, <2>1
    <3>3. (ParentOr(parent, frames))' = ParentOr(parent, frames)
      BY <3>1 DEF ParentOr
    <3> QED BY <2>1, <2>2, <3>1, <3>2, <3>3 DEF Heritage
  <2> QED BY <1>3, <2>1, <2>2
<1>5. CASE Begins(speech)
  <2>1. /\ Waiting /\ state'.kind = "Active" /\ closes' = closes
        /\ state'.previous = IF state.kind = "Idle" THEN pendingPrevious ELSE state.previous
        /\ starts' = Append(starts, frames)
    BY <1>5 DEF Begins
  <2>2. starts'[k + 1] = frames
    BY <1>1, <2>1, AppendIs
  <2>3. ASSUME NEW parent \in Closed, parent.at <= frames, Heritage(parent)
        PROVE  (Heritage(parent))'
    <3>1. ContinuesIn(input', flushes', config'.turnCheck, parent, frames) <=> Goes(parent, frames)
      <4>1. PICK start \in Nat : start = frames
        BY <1>1
      <4>2. (Goes(parent, start))' <=> Goes(parent, start)
        BY <1>1, <1>2, <2>3, <4>1, SettledStays
      <4> QED BY <4>1, <4>2 DEF Goes
    <3>2. state'.previous = ParentOr(parent, frames)
      BY <1>1, <2>1, <2>3 DEF Heritage, ParentOr, Waiting
    <3>5. Len(closes') = k
      BY <1>k, <2>1
    <3>3. (Goes(parent, starts[Len(closes) + 1]))' <=> Goes(parent, frames)
      BY <2>2, <3>1, <3>5 DEF Goes
    <3>4. state'.previous = (ParentOr(parent, starts[Len(closes) + 1]))'
      BY <3>2, <3>3 DEF ParentOr
    <3> QED BY <2>1, <3>4, <3>5 DEF Heritage
  <2> QED BY <1>3, <2>1, <2>3
<1>6. CASE Quietens(speech)
  <2>1. /\ ~speech /\ closes' = closes /\ Waiting /\ pendingPrevious' = NoSegment
        /\ \/ state.kind = "Idle" /\ state'.kind = "Idle"
           \/ /\ state.kind = "AfterInterimSilence" /\ state'.kind = "AfterInterimSilence"
              /\ state.silence + 1 < config.turnCheck
              /\ state'.previous = state.previous /\ state'.silence = state.silence + 1
           \/ /\ state.kind = "AfterInterimSilence" /\ state'.kind = "Idle"
              /\ state.silence + 1 >= config.turnCheck
    BY <1>6 DEF Quietens
  <2>2. ASSUME NEW parent \in Closed, parent.at <= frames, Heritage(parent)
        PROVE  (Heritage(parent))'
    <3>1. /\ HeardIn(input, parent, frames) \in Nat
          /\ HeardIn(input', parent, frames') = HeardIn(input, parent, frames) + 1
          /\ (Goes(parent, frames))'
               => /\ Goes(parent, frames)
                  /\ parent.reason = "InterimResultSilenceReached"
                  /\ HeardIn(input, parent, frames) + 1 < config.turnCheck
          /\ /\ Goes(parent, frames) /\ parent.reason = "InterimResultSilenceReached"
             /\ HeardIn(input, parent, frames) + 1 < config.turnCheck
             => (Goes(parent, frames))'
      BY <2>1, <2>2, GoesOn
    <3>2. CASE state.kind = "Idle" /\ state'.kind = "Idle"
      <4>1. ~(Goes(parent, frames))'
        BY <2>2, <3>1, <3>2 DEF Heritage
      <4> QED BY <2>1, <3>2, <4>1 DEF Heritage, ParentOr
    <3>3. CASE /\ state.kind = "AfterInterimSilence" /\ state'.kind = "AfterInterimSilence"
               /\ state.silence + 1 < config.turnCheck
               /\ state'.previous = state.previous /\ state'.silence = state.silence + 1
      BY <2>2, <3>1, <3>3 DEF Heritage
    <3>4. CASE /\ state.kind = "AfterInterimSilence" /\ state'.kind = "Idle"
               /\ state.silence + 1 >= config.turnCheck
      <4>1. state.silence \in Nat /\ config.turnCheck \in Nat
        BY <1>1, <3>4, BuilderIs DEF WaitingStates
      <4>2. ~(Goes(parent, frames))'
        BY <2>2, <3>1, <3>4, <4>1 DEF Heritage
      <4> QED BY <2>1, <3>4, <4>2 DEF Heritage, ParentOr
    <3> QED BY <2>1, <3>2, <3>3, <3>4
  <2> QED BY <1>3, <2>1, <2>2
<1>7. CASE Lengthens(speech)
  <2>1. /\ state.kind = "Active" /\ state'.kind = "Active" /\ closes' = closes
        /\ state'.previous = state.previous /\ starts' = starts
    BY <1>7 DEF Lengthens
  <2>2. ASSUME NEW parent \in Closed, parent.at <= frames, Heritage(parent)
        PROVE  (Heritage(parent))'
    <3>1. PICK start \in Nat : start = starts[k + 1] /\ start < frames
      BY <1>1, <2>1
    <3>2. (Goes(parent, start))' <=> Goes(parent, start)
      BY <1>2, <2>2, <3>1, SettledStays
    <3>3. state.previous = ParentOr(parent, start)
      BY <1>k, <2>1, <2>2, <3>1 DEF Heritage
    <3>5. Len(closes') = k
      BY <1>k, <2>1
    <3>6. starts'[Len(closes') + 1] = start
      BY <2>1, <3>1, <3>5
    <3>4. state'.previous = (ParentOr(parent, starts[Len(closes) + 1]))'
      BY <2>1, <3>2, <3>3, <3>6 DEF ParentOr, Goes
    <3> QED BY <2>1, <3>4, <3>5 DEF Heritage
  <2> QED BY <1>3, <2>1, <2>2
<1>8. ASSUME NEW closed \in Closed, closes' = Append(closes, closed), (Heritage(closed))'
      PROVE  Descent'
  <2>1. /\ Len(closes') = k + 1 /\ closes'[Len(closes')] = closed
        /\ closes' \in Seq(Closed)
    BY <1>1, <1>8, <1>k, AppendIs
  <2> QED BY <1>8, <2>1, DescentOf
<1>9. CASE Splits(speech)
  <2>c. PICK closed : closed = ClosedAs("InterimResultSilenceReached", frames + 1, state.chunks)
    OBVIOUS
  <2>1. /\ state.kind = "Active" /\ closes' = Append(closes, closed)
        /\ speech /\ state.silence < config.turnCheck /\ config' = config
        /\ \/ /\ state'.kind = "Active" /\ state'.previous = state.id
              /\ starts' = Append(starts, frames)
           \/ /\ state'.kind = "AfterInterimSilence" /\ state'.previous = state.id
              /\ state'.silence = Len(TrailingSilence(state.chunks))
    BY <1>9, <2>c DEF Splits, Pushes
  <2>2. /\ closed \in Closed /\ closed.id = state.id /\ closed.at = frames + 1
        /\ closed.reason = "InterimResultSilenceReached" /\ state.chunks \in Seq(Chunk)
    <3>1. PICK at \in Nat : at = frames + 1
      BY <1>1
    <3>2. PICK chunks \in Seq(Chunk) : chunks = state.chunks
      BY <1>1, <2>1, ActiveIs
    <3>3. /\ ClosedAs("InterimResultSilenceReached", at, chunks) \in Closed
          /\ ClosedAs("InterimResultSilenceReached", at, chunks).id = state.id
          /\ ClosedAs("InterimResultSilenceReached", at, chunks).at = at
          /\ ClosedAs("InterimResultSilenceReached", at, chunks).reason
               = "InterimResultSilenceReached"
      BY <1>1, <2>1, ClosedAsTyped
    <3> QED BY <2>c, <3>1, <3>2, <3>3
  <2>3. /\ (Goes(closed, frames))' /\ HeardIn(input', closed, frames') = state.silence
        /\ ContinuesIn(input', flushes', config'.turnCheck, closed, frames)
    BY <2>1, <2>2, ClosedGoesOn
  <2>4. CASE /\ state'.kind = "Active" /\ state'.previous = state.id
             /\ starts' = Append(starts, frames)
    <3>1. Len(starts') = k + 2 /\ starts'[k + 2] = frames
      BY <1>1, <2>1, <2>4, AppendIs
    <3>2. Len(closes') + 1 = k + 2
      BY <1>1, <2>1, <2>2, <1>k, AppendIs
    <3>3. (Goes(closed, starts[Len(closes) + 1]))'
      BY <2>3, <3>1, <3>2 DEF Goes
    <3>4. state'.previous = (ParentOr(closed, starts[Len(closes) + 1]))'
      BY <2>2, <2>4, <3>3 DEF ParentOr
    <3>5. (Heritage(closed))'
      BY <2>4, <3>4 DEF Heritage
    <3> QED BY <1>8, <2>1, <2>2, <3>5
  <2>5. CASE /\ state'.kind = "AfterInterimSilence" /\ state'.previous = state.id
             /\ state'.silence = Len(TrailingSilence(state.chunks))
    <3>1. Len(TrailingSilence(state.chunks)) = state.silence
      BY <2>1, <2>2, TrailingSilenceLength DEF SilentEnd
    <3>2. (Heritage(closed))'
      BY <2>2, <2>3, <2>5, <3>1 DEF Heritage
    <3> QED BY <1>8, <2>1, <2>2, <3>2
  <2> QED BY <2>1, <2>4, <2>5
<1>10. ASSUME NEW reason \in {"SegmentMaxChunksReached", "EndSilenceReached"},
              state.kind = "Active", state'.kind = "Idle",
              closes' = Append(closes, ClosedAs(reason, frames + 1, Append(state.chunks, Now(speech)))),
              pendingPrevious' = IF reason = "SegmentMaxChunksReached" THEN state.id ELSE NoSegment
       PROVE  Descent'
  <2>c. PICK closed : closed = ClosedAs(reason, frames + 1, Append(state.chunks, Now(speech)))
    OBVIOUS
  <2>1. /\ closed \in Closed /\ closed.id = state.id /\ closed.at = frames + 1
        /\ closed.reason = reason
    <3>1. PICK at \in Nat : at = frames + 1
      BY <1>1
    <3>a. PICK held \in Seq(Chunk) : held = state.chunks
      BY <1>1, <1>10, ActiveIs
    <3>b. PICK now \in Chunk : now = Now(speech)
      OBVIOUS
    <3>2. PICK chunks \in Seq(Chunk) : chunks = Append(state.chunks, Now(speech))
      <4>1. Append(held, now) \in Seq(Chunk)
        BY AppendIs
      <4> QED BY <3>a, <3>b, <4>1
    <3>3. /\ ClosedAs(reason, at, chunks) \in Closed
          /\ ClosedAs(reason, at, chunks).id = state.id
          /\ ClosedAs(reason, at, chunks).at = at
          /\ ClosedAs(reason, at, chunks).reason = reason
      BY <1>1, <1>10, ClosedAsTyped
    <3> QED BY <2>c, <3>1, <3>2, <3>3
  <2>2. closes' = Append(closes, closed)
    BY <1>10, <2>c
  <2>3. /\ reason = "SegmentMaxChunksReached" => (Goes(closed, frames))'
        /\ reason = "EndSilenceReached" => ~(Goes(closed, frames))'
    BY <2>1, ClosedGoesOn
  <2>4. (Heritage(closed))'
    BY <1>10, <2>1, <2>3 DEF Heritage, ParentOr
  <2> QED BY <1>8, <2>1, <2>2, <2>4
<1>11. CASE Limits(speech)
  BY <1>10, <1>11 DEF Limits
<1>12. CASE Ends(speech)
  BY <1>10, <1>12 DEF Ends
<1> QED BY <1>4, <1>5, <1>6, <1>7, <1>9, <1>11, <1>12 DEF PushKind

LEMMA DescentByFlush ==
  ASSUME HistoryTyped, Counted, SilentEnd, Descent, updates' = 0, Flushes
  PROVE  Descent'
<1>k. PICK k \in Nat : k = Len(closes)
  BY HistoryIs
<1>1. /\ k \in Nat /\ closes \in Seq(Closed) /\ frames \in Nat
      /\ \A n \in 1..k : closes[n] \in Closed /\ closes[n].at <= frames
      /\ (closes = << >> <=> k = 0) /\ BuilderOK
      /\ frames' = frames /\ input' = input /\ flushes' = flushes \union {frames}
      /\ config' = config
  BY <1>k, HistoryIs DEF Flushes, HistoryTyped
<1>2. CASE state.kind = "Active"
  <2>c. PICK closed : closed = ClosedAs("EndSilenceReached", frames, state.chunks)
    OBVIOUS
  <2>1. /\ state'.kind = "Idle" /\ pendingPrevious' = NoSegment
        /\ closes' = Append(closes, closed)
    BY <1>2, <2>c DEF Flushes
  <2>2. closed \in Closed /\ closed.reason = "EndSilenceReached"
    <3>1. PICK at \in Nat : at = frames
      BY <1>1
    <3>2. PICK chunks \in Seq(Chunk) : chunks = state.chunks
      BY <1>1, <1>2, ActiveIs
    <3>3. /\ ClosedAs("EndSilenceReached", at, chunks) \in Closed
          /\ ClosedAs("EndSilenceReached", at, chunks).reason = "EndSilenceReached"
      BY <1>1, <1>2, ClosedAsTyped
    <3> QED BY <2>c, <3>1, <3>2, <3>3
  <2>3. ~(Goes(closed, frames))'
    BY <2>2 DEF Goes, ContinuesIn
  <2>4. (Heritage(closed))'
    BY <2>1, <2>2, <2>3 DEF Heritage, ParentOr
  <2>5. /\ Len(closes') = k + 1 /\ closes'[Len(closes')] = closed
        /\ closes' \in Seq(Closed)
    <3>1. PICK before \in Seq(Closed) : before = closes
      BY <1>1
    <3>2. PICK after : after = Append(before, closed)
      OBVIOUS
    <3>3. Len(after) = k + 1 /\ after[k + 1] = closed /\ after \in Seq(Closed)
      BY <1>k, <2>2, <3>1, <3>2, AppendIs
    <3> QED BY <2>1, <3>1, <3>2, <3>3
  <2> QED BY <2>4, <2>5, DescentOf
<1>3. CASE state.kind # "Active"
  <2>1. /\ closes' = closes /\ state'.kind = "Idle"
        /\ \/ state.kind = "AfterInterimSilence" /\ pendingPrevious' = NoSegment
           \/ state.kind = "Idle" /\ pendingPrevious' = pendingPrevious
    BY <1>1, <1>3 DEF Flushes
  <2> SUFFICES ASSUME closes # << >> PROVE Descent'
    BY <2>1 DEF Descent
  <2>2. PICK parent \in Closed : parent = closes[k] /\ parent.at <= frames
    BY <1>1
  <2>3. Heritage(parent)
    BY <1>k, <2>2 DEF Descent
  <2>4. /\ (Goes(parent, frames))' => Goes(parent, frames)
        /\ parent.reason # "InterimResultSilenceReached" =>
             ((Goes(parent, frames))' <=> Goes(parent, frames))
        /\ parent.reason = "InterimResultSilenceReached" => ~(Goes(parent, frames))'
    <3>1. PICK at \in Nat : at = frames
      BY <1>1
    <3>2. (Goes(parent, frames))' <=> ContinuesIn(input, flushes \union {at}, config.turnCheck, parent, at)
      BY <1>1, <3>1 DEF Goes
    <3>3. Goes(parent, frames) <=> ContinuesIn(input, flushes, config.turnCheck, parent, at)
      BY <3>1 DEF Goes
    <3>4. parent.at <= at /\ at <= at
      BY <2>2, <3>1
    <3> QED BY <3>2, <3>3, <3>4, FlushedLater
  <2>5. (Heritage(parent))'
    BY <2>1, <2>3, <2>4 DEF Heritage, ParentOr
  <2>6. closes'[Len(closes')] = parent /\ closes' \in Seq(Closed)
    BY <1>1, <1>k, <2>1, <2>2
  <2> QED BY <2>5, <2>6, DescentOf
<1> QED BY <1>2, <1>3

LEMMA DescentKept ==
  ASSUME HistoryTyped, Counted, SilentEnd, Descent, updates' = 0, HistoryKinds
  PROVE  Descent'
<1>1. ASSUME NEW next \in Configs, Updates(next) PROVE FALSE
  BY <1>1 DEF Updates, HistoryTyped
<1>2. ASSUME UNCHANGED historyVars PROVE Descent'
  BY <1>2 DEF historyVars, builderVars, Descent, Heritage, ParentOr, Goes
<1> QED BY <1>1, <1>2, DescentByPush, DescentByFlush DEF HistoryKinds

LEMMA LineageAlways == HistorySpec => [](updates = 0 => Lineage /\ Descent)
<1>1. HistoryInit => Lineage /\ Descent
  <2> SUFFICES ASSUME HistoryInit PROVE Lineage /\ Descent
    OBVIOUS
  <2>1. closes = << >> /\ Len(<< >>) = 0 /\ 1..(0 - 1) = {}
    BY DEF HistoryInit
  <2> QED BY <2>1 DEF Lineage, Descent
<1>2. /\ HistoryTyped /\ Counted /\ SilentEnd /\ (updates = 0 => Lineage /\ Descent)
      /\ [HistoryNext]_historyVars
      => (updates = 0 => Lineage /\ Descent)'
  BY HistorySteps, UpdatesStay, LineageKept, DescentKept
<1> QED BY <1>1, <1>2, HistoryTypedAlways, CountedAlways, SilentEndAlways, PTL DEF HistorySpec

(***************************************************************************)
(* While settings do not change, a segment is the child of the one before  *)
(* it exactly when the speech went on, however pushes and flushes          *)
(* alternate and for all thresholds.                                       *)
(***************************************************************************)
THEOREM ChildWhenContinued == HistorySpec => []ChildIffSpeechContinued
<1>1. ASSUME HistoryTyped, Counted, updates = 0 => Lineage
      PROVE  ChildIffSpeechContinued
  <2> SUFFICES ASSUME NEW n \in 2..Len(starts), updates = 0, n <= Len(closes)
               PROVE  closes[n].previous = IF Continues(closes[n - 1], starts[n])
                                           THEN closes[n - 1].id ELSE NoSegment
    BY DEF ChildIffSpeechContinued
  <2>1. PICK m \in 1..(Len(closes) - 1) : m = n - 1 /\ m + 1 = n
    BY <1>1, HistoryIs
  <2>2. closes[m] \in Closed
    BY <1>1, <2>1, HistoryIs
  <2>3. closes[n].previous = ParentOr(closes[m], starts[n])
    BY <1>1, <2>1 DEF Lineage
  <2>4. Continues(closes[m], starts[n]) <=> Goes(closes[m], starts[n])
    BY <2>2, ContinuesIs DEF Goes
  <2> QED BY <2>1, <2>3, <2>4 DEF ParentOr
<1> QED BY <1>1, HistoryTypedAlways, CountedAlways, LineageAlways, PTL

-----------------------------------------------------------------------------
(* TurnAudioContinuous: what is held is the most recent audio, so that what  *)
(* the pre-speech buffer drops is older than the end of the parent.          *)

\* Audio chunks come last, one for each of the positions up to n.
Dense(q, n) ==
  \A j \in SourceIn(q) :
     /\ q[j].at = n - 1 - (Len(q) - j)
     /\ \A i \in j..Len(q) : i \in SourceIn(q)

LEMMA DenseOfAppend ==
  ASSUME NEW n \in Nat, NEW q \in Seq(Chunk), Dense(q, n), NEW c \in Chunk,
         c.source = TRUE, c.at = n
  PROVE  Dense(Append(q, c), n + 1)
<1>0. PICK k \in Nat : k = Len(q)
  OBVIOUS
<1>r. PICK r : r = Append(q, c)
  OBVIOUS
<1>1. /\ DOMAIN q = 1..k /\ DOMAIN r = 1..(k + 1) /\ Len(r) = k + 1
      /\ r[k + 1] = c /\ \A i \in 1..k : r[i] = q[i]
  BY <1>0, <1>r
<1>2. \A i \in 1..k : i \in SourceIn(r) <=> i \in SourceIn(q)
  BY <1>1 DEF SourceIn
<1>3. k + 1 \in SourceIn(r)
  BY <1>1 DEF SourceIn
<1>4. ASSUME NEW j \in SourceIn(r)
      PROVE  /\ r[j].at = (n + 1) - 1 - (Len(r) - j)
             /\ \A i \in j..Len(r) : i \in SourceIn(r)
  <2>1. j \in 1..(k + 1)
    BY <1>1 DEF SourceIn
  <2>2. CASE j = k + 1
    <3>1. \A i \in j..Len(r) : i = k + 1
      BY <1>1, <2>2
    <3>2. (n + 1) - 1 - (Len(r) - j) = n
      BY <1>1, <2>2
    <3> QED BY <1>1, <1>3, <2>2, <3>1, <3>2
  <2>3. CASE j \in 1..k
    <3>1. j \in SourceIn(q) /\ r[j] = q[j]
      BY <1>1, <1>2, <2>3
    <3>2. q[j].at = n - 1 - (k - j) /\ \A i \in j..k : i \in SourceIn(q)
      BY <1>0, <3>1 DEF Dense
    <3>3. n - 1 - (k - j) = (n + 1) - 1 - (Len(r) - j)
      BY <1>1, <2>3
    <3>4. ASSUME NEW i \in j..Len(r) PROVE i \in SourceIn(r)
      <4>1. Len(r) = k + 1
        BY <1>1
      <4>2. i \in j..(k + 1)
        BY <4>1
      <4>3. i = k + 1 \/ (i \in 1..k /\ i \in j..k)
        BY <1>0, <2>3, <4>2
      <4> QED BY <1>2, <1>3, <3>2, <4>3
    <3> QED BY <3>1, <3>2, <3>3, <3>4
  <2> QED BY <2>1, <2>2, <2>3
<1> QED BY <1>4, <1>r DEF Dense

LEMMA DenseOfFrom ==
  ASSUME NEW n \in Nat, NEW q \in Seq(Chunk), Dense(q, n), NEW k \in 1..(Len(q) + 1)
  PROVE  /\ Dense(From(q, k), n)
         /\ \A a \in SourceOf(q) : a >= n - (Len(q) + 1 - k) => a \in SourceOf(From(q, k))
<1>r. PICK r : r = From(q, k)
  OBVIOUS
<1>0. PICK m \in Nat : m = Len(q)
  OBVIOUS
<1>1. /\ r \in Seq(Chunk) /\ Len(r) = m + 1 - k /\ k \in 1..(m + 1) /\ m + 1 - k \in Nat
      /\ \A i \in 1..Len(r) : r[i] = q[k + i - 1] /\ k + i - 1 \in 1..m
  <2>1. /\ From(q, k) \in Seq(Chunk) /\ Len(From(q, k)) = Len(q) + 1 - k
        /\ \A i \in 1..Len(From(q, k)) : From(q, k)[i] = q[k + i - 1] /\ k + i - 1 \in 1..Len(q)
    BY FromIs
  <2>2. k \in 1..(m + 1) /\ m + 1 - k \in Nat
    BY <1>0
  <2> QED BY <1>0, <1>r, <2>1, <2>2
<1>2. DOMAIN r = 1..(m + 1 - k) /\ DOMAIN q = 1..m
  BY <1>0, <1>1
<1>3. ASSUME NEW i \in 1..(m + 1 - k)
      PROVE  /\ i \in SourceIn(r) <=> k + i - 1 \in SourceIn(q)
             /\ r[i] = q[k + i - 1]
  BY <1>1, <1>2 DEF SourceIn
<1>4. ASSUME NEW j \in SourceIn(r)
      PROVE  /\ r[j].at = n - 1 - (Len(r) - j)
             /\ \A i \in j..Len(r) : i \in SourceIn(r)
  <2>1. j \in 1..(m + 1 - k)
    BY <1>2 DEF SourceIn
  <2>2. k + j - 1 \in SourceIn(q) /\ r[j] = q[k + j - 1]
    BY <1>3, <2>1
  <2>3. /\ q[k + j - 1].at = n - 1 - (m - (k + j - 1))
        /\ \A i \in (k + j - 1)..m : i \in SourceIn(q)
    BY <1>0, <2>2 DEF Dense
  <2>4. n - 1 - (m - (k + j - 1)) = n - 1 - (Len(r) - j)
    BY <1>1, <2>1
  <2>5. ASSUME NEW i \in j..Len(r) PROVE i \in SourceIn(r)
    <3>1. i \in 1..(m + 1 - k) /\ k + i - 1 \in (k + j - 1)..m
      BY <1>1, <2>1
    <3> QED BY <1>3, <2>3, <3>1
  <2> QED BY <2>2, <2>3, <2>4, <2>5
<1>5. ASSUME NEW a \in SourceOf(q), a >= n - (m + 1 - k)
      PROVE  a \in SourceOf(r)
  <2>1. PICK j \in SourceIn(q) : a = q[j].at
    BY DEF SourceOf
  <2>2. j \in 1..m
    BY <1>2 DEF SourceIn
  <2>3. a = n - 1 - (m - j)
    BY <1>0, <2>1 DEF Dense
  <2>4. j >= k
    BY <1>1, <1>5, <2>2, <2>3
  <2>5. PICK i \in 1..(m + 1 - k) : i = j - k + 1
    BY <1>1, <2>2, <2>4
  <2>6. k + i - 1 = j
    BY <1>1, <2>2, <2>5
  <2> QED BY <1>3, <2>1, <2>5, <2>6 DEF SourceOf
<1> QED BY <1>0, <1>4, <1>5, <1>r DEF Dense

\* What is pruned to max chunks keeps the last max positions.
LEMMA PruneKeeps ==
  ASSUME NEW n \in Nat, NEW q \in Seq(Chunk), Dense(q, n), NEW max \in Nat \ {0},
         NEW a \in SourceOf(q), a >= n - max
  PROVE  a \in SourceOf(Prune(q, max))
<1>1. PICK m \in Nat : m = Len(q)
  OBVIOUS
<1>2. CASE m > max
  <2>0. m - max + 1 \in 1..(m + 1)
    BY <1>2
  <2>1. PICK k \in 1..(Len(q) + 1) : k = m - max + 1
    BY <1>1, <2>0
  <2>2. Prune(q, max) = From(q, k)
    BY <1>1, <1>2, <2>1 DEF Prune, From
  <2>3. m + 1 - k = max
    BY <1>1, <2>1
  <2>4. a >= n - (Len(q) + 1 - k)
    BY <1>1, <2>3
  <2> QED BY <2>2, <2>4, DenseOfFrom
<1>3. CASE ~(m > max)
  <2>1. Prune(q, max) = SubSeq(q, 1, Len(q))
    BY <1>1, <1>3 DEF Prune
  <2>2. SubSeq(q, 1, Len(q)) = q
    OBVIOUS
  <2> QED BY <2>1, <2>2
<1> QED BY <1>2, <1>3

LEMMA DenseKept ==
  ASSUME HistoryTyped, Dense(HeldChunks, frames), HistoryKinds
  PROVE  Dense(HeldChunks', frames')
<1>1. frames \in Nat /\ HeldChunks \in Seq(Chunk)
  BY BuilderIs, HeldIs DEF HistoryTyped
<1>2. ASSUME NEW c \in Chunk, c.source = TRUE, c.at = frames
      PROVE  /\ Dense(Append(HeldChunks, c), frames + 1) /\ Append(HeldChunks, c) \in Seq(Chunk)
             /\ \A p \in Seq(Chunk) : SourceIn(p) = {} => Dense(Append(p, c), frames + 1)
  <2>1. \A p \in Seq(Chunk) : SourceIn(p) = {} => Dense(p, frames)
    BY DEF Dense
  <2>2. \A p \in Seq(Chunk) : Dense(p, frames) => Dense(Append(p, c), frames + 1)
    BY <1>1, <1>2, DenseOfAppend
  <2> QED BY <1>1, <1>2, <2>1, <2>2
<1>3. ASSUME NEW q \in Seq(Chunk), NEW at \in Nat, Dense(q, at), Grows(q, at)
      PROVE  Dense(HeldChunks', frames')
  <2>1. PICK k \in 1..(Len(q) + 1) : HeldChunks' = From(q, k)
    BY <1>3 DEF Grows, CutOf
  <2> QED BY <1>3, <2>1, DenseOfFrom DEF Grows
<1>4. ASSUME NEW q, NEW at, Closes(q, at), Now(TRUE) \in Chunk
      PROVE  Dense(HeldChunks', frames')
  <2>1. CASE SourceIn(HeldChunks') = {}
    BY <2>1 DEF Dense
  <2>2. CASE \E p \in Seq(Chunk) :
               /\ SourceIn(p) = {} /\ q = HeldChunks /\ at = frames + 1
               /\ HeldChunks' = Append(p, Now(TRUE))
    <3>1. PICK p \in Seq(Chunk) :
            SourceIn(p) = {} /\ at = frames + 1 /\ HeldChunks' = Append(p, Now(TRUE))
      BY <2>2
    <3>2. Now(TRUE).source = TRUE /\ Now(TRUE).at = frames
      BY DEF Now
    <3>3. frames' = frames + 1
      BY <1>4, <3>1 DEF Closes
    <3> QED BY <1>2, <1>4, <3>1, <3>2, <3>3
  <2> QED BY <1>4, <2>1, <2>2 DEF Closes
<1>0. \A speech \in BOOLEAN : /\ Now(speech) \in Chunk
                              /\ Now(speech).source = TRUE /\ Now(speech).at = frames
  BY <1>1 DEF Now, Chunk
<1>5. ASSUME NEW speech \in BOOLEAN, Pushes(speech), PushKind(speech)
      PROVE  Dense(HeldChunks', frames')
  <2>1. \/ Grows(Append(HeldChunks, Now(speech)), frames + 1)
        \/ Closes(HeldChunks, frames + 1)
        \/ Closes(Append(HeldChunks, Now(speech)), frames + 1)
    BY <1>0, <1>5, PushAudio
  <2>2. /\ Dense(Append(HeldChunks, Now(speech)), frames + 1)
        /\ Append(HeldChunks, Now(speech)) \in Seq(Chunk)
    <3>1. PICK c \in Chunk : c = Now(speech) /\ c.source = TRUE /\ c.at = frames
      BY <1>0
    <3>2. Dense(Append(HeldChunks, c), frames + 1) /\ Append(HeldChunks, c) \in Seq(Chunk)
      BY <1>2, <3>1
    <3> QED BY <3>1, <3>2
  <2>3. frames + 1 \in Nat /\ Now(TRUE) \in Chunk
    BY <1>1 DEF Now, Chunk
  <2> QED BY <1>3, <1>4, <2>1, <2>2, <2>3
<1>6. CASE Flushes
  <2>1. Grows(HeldChunks, frames) \/ Grows(<< >>, frames) \/ Closes(HeldChunks, frames)
    BY <1>6, FlushAudio
  <2>2. << >> \in Seq(Chunk) /\ Dense(<< >>, frames)
    BY SourceOfEmpty DEF Dense
  <2> QED BY <1>0, <1>1, <1>3, <1>4, <2>1, <2>2
<1>7. ASSUME NEW next \in Configs, Updates(next)
      PROVE  Dense(HeldChunks', frames')
  BY <1>1, <1>3, <1>7, UpdateAudio
<1>8. CASE UNCHANGED historyVars
  BY <1>8 DEF historyVars, builderVars, HeldChunks
<1> QED BY <1>5, <1>6, <1>7, <1>8 DEF HistoryKinds

Recent == Dense(HeldChunks, frames)

LEMMA RecentAlways == HistorySpec => []Recent
<1>1. HistoryInit => Recent
  <2> SUFFICES ASSUME HistoryInit PROVE Recent
    OBVIOUS
  <2>1. state = Idle(<< >>, << >>)
    BY DEF HistoryInit, BuilderInit
  <2>2. HeldChunks = << >>
    <3>1. << >> \o << >> = << >>
      OBVIOUS
    <3> QED BY <2>1, <3>1 DEF HeldChunks, Idle
  <2> QED BY <2>2, SourceOfEmpty DEF Recent, Dense
<1>2. HistoryTyped /\ Recent /\ [HistoryNext]_historyVars => Recent'
  BY HistorySteps, DenseKept DEF Recent
<1> QED BY <1>1, <1>2, HistoryTypedAlways, PTL DEF HistorySpec

\* Where a closed segment ends: an interim close leaves the last chunk to what follows.
EndOf(closed) ==
  IF closed.reason = "InterimResultSilenceReached" THEN closed.at - 1 ELSE closed.at

\* What closes is the audio that is held, and it ends where the segment ends.
Closing(closed) ==
  /\ closed \in Closed /\ closes' = Append(closes, closed)
  /\ state.kind = "Active" /\ closed.previous = state.previous
  /\ Stream(closed.chunks, EndOf(closed))
  /\ SourceOf(HeldChunks) \subseteq SourceOf(closed.chunks)
  /\ EndOf(closed) = frames \/ (EndOf(closed) = frames + 1 /\ frames \in SourceOf(closed.chunks))

LEMMA ClosingIs ==
  ASSUME HistoryTyped, AudioInOrder, state.kind = "Active",
         NEW at \in {frames, frames + 1},
         NEW chunks \in {HeldChunks} \union {Append(HeldChunks, Now(speech)) : speech \in BOOLEAN},
         NEW reason \in {"InterimResultSilenceReached", "SegmentMaxChunksReached",
                         "EndSilenceReached"},
         reason = "InterimResultSilenceReached" => chunks = HeldChunks /\ at = frames + 1,
         reason # "InterimResultSilenceReached" =>
           at = (IF chunks = HeldChunks THEN frames ELSE frames + 1),
         closes' = Append(closes, ClosedAs(reason, at, chunks))
  PROVE  \E closed : Closing(closed) /\ closed.reason = reason /\ closed.at = at
<1>1. /\ frames \in Nat /\ HeldChunks \in Seq(Chunk) /\ BuilderOK /\ Stream(HeldChunks, frames)
      /\ \A speech \in BOOLEAN : Now(speech) \in Chunk
  BY BuilderIs, HeldIs DEF HistoryTyped, AudioInOrder, Now, Chunk
<1>2. /\ Stream(chunks, IF chunks = HeldChunks THEN frames ELSE frames + 1)
      /\ chunks \in Seq(Chunk) /\ SourceOf(HeldChunks) \subseteq SourceOf(chunks)
      /\ chunks # HeldChunks => frames \in SourceOf(chunks)
  <2>1. CASE chunks = HeldChunks
    BY <1>1, <2>1
  <2>2. ASSUME NEW speech \in BOOLEAN, chunks = Append(HeldChunks, Now(speech)),
               chunks # HeldChunks
        PROVE  /\ Stream(chunks, frames + 1) /\ chunks \in Seq(Chunk)
               /\ SourceOf(chunks) = SourceOf(HeldChunks) \union {frames}
    <3>1. PICK c \in Chunk : c = Now(speech) /\ c.source = TRUE /\ c.at = frames
      <4>1. Now(speech) \in Chunk
        BY <1>1
      <4>2. Now(speech).source = TRUE /\ Now(speech).at = frames
        BY DEF Now
      <4> QED BY <4>1, <4>2
    <3>2. /\ Stream(Append(HeldChunks, c), frames + 1) /\ Append(HeldChunks, c) \in Seq(Chunk)
      <4>1. PICK held \in Seq(Chunk) : held = HeldChunks
        BY <1>1
      <4>2. PICK n \in Nat : n = frames
        BY <1>1
      <4>3. Stream(held, n)
        BY <1>1, <4>1, <4>2
      <4>4. Stream(Append(held, c), n + 1)
        BY <3>1, <4>2, <4>3, StreamOfAppend
      <4> QED BY <4>1, <4>2, <4>4, AppendIs
    <3>3. SourceOf(Append(HeldChunks, c)) = SourceOf(HeldChunks) \union {frames}
      BY <1>1, <3>1, SourceOfAppend
    <3> QED BY <2>2, <3>1, <3>2, <3>3
  <2> QED BY <2>1, <2>2
<1>3. PICK end \in Nat : end = at
  BY <1>1
<1>4. PICK closed \in Closed :
        /\ closed = ClosedAs(reason, at, chunks)
        /\ closed.chunks = chunks /\ closed.previous = state.previous
        /\ closed.reason = reason /\ closed.at = at
  <2>1. /\ ClosedAs(reason, end, chunks) \in Closed
        /\ ClosedAs(reason, end, chunks).chunks = chunks
        /\ ClosedAs(reason, end, chunks).previous = state.previous
        /\ ClosedAs(reason, end, chunks).reason = reason
        /\ ClosedAs(reason, end, chunks).at = end
    BY <1>1, <1>2, ClosedAsTyped
  <2> QED BY <1>3, <2>1
<1>5. EndOf(closed) = IF chunks = HeldChunks THEN frames ELSE frames + 1
  <2>1. CASE reason = "InterimResultSilenceReached"
    BY <1>1, <1>4, <2>1 DEF EndOf
  <2>2. CASE reason # "InterimResultSilenceReached"
    BY <1>4, <2>2 DEF EndOf
  <2> QED BY <2>1, <2>2
<1>6. Closing(closed)
  <2>1. CASE chunks = HeldChunks
    BY <1>2, <1>4, <1>5, <2>1 DEF Closing
  <2>2. CASE chunks # HeldChunks
    BY <1>2, <1>4, <1>5, <2>2 DEF Closing
  <2> QED BY <2>1, <2>2
<1> QED BY <1>4, <1>6

\* What a step does to the segments.
LEMMA ClosingKinds ==
  ASSUME HistoryTyped, AudioInOrder, HistoryKinds
  PROVE  \/ closes' = closes
         \/ \E closed : Closing(closed)
<1>1. /\ frames \in Nat /\ HeldChunks \in Seq(Chunk) /\ BuilderOK
      /\ state.kind = "Active" => HeldChunks = state.chunks
      /\ frames \in {frames, frames + 1} /\ frames + 1 \in {frames, frames + 1}
  BY BuilderIs, HeldIs DEF HistoryTyped
<1>2. ASSUME NEW speech \in BOOLEAN
      PROVE  Append(HeldChunks, Now(speech)) # HeldChunks
  <2>1. Now(speech) \in Chunk
    BY <1>1 DEF Now, Chunk
  <2>2. Len(Append(HeldChunks, Now(speech))) = Len(HeldChunks) + 1 /\ Len(HeldChunks) \in Nat
    BY <1>1, <2>1, AppendIs
  <2> QED BY <2>2
<1>3. ASSUME NEW speech \in BOOLEAN, Splits(speech)
      PROVE  \E closed : Closing(closed)
  <2>1. /\ state.kind = "Active"
        /\ closes' = Append(closes, ClosedAs("InterimResultSilenceReached", frames + 1, HeldChunks))
    BY <1>1, <1>3 DEF Splits
  <2> QED BY <1>1, <2>1, ClosingIs
<1>4. ASSUME NEW speech \in BOOLEAN, Limits(speech)
      PROVE  \E closed : Closing(closed)
  <2>1. /\ state.kind = "Active"
        /\ closes' = Append(closes, ClosedAs("SegmentMaxChunksReached", frames + 1,
                                             Append(HeldChunks, Now(speech))))
    BY <1>1, <1>4 DEF Limits
  <2>2. Append(HeldChunks, Now(speech)) \in
          {HeldChunks} \union {Append(HeldChunks, Now(other)) : other \in BOOLEAN}
    OBVIOUS
  <2> QED BY <1>1, <1>2, <2>1, <2>2, ClosingIs
<1>5. ASSUME NEW speech \in BOOLEAN, Ends(speech)
      PROVE  \E closed : Closing(closed)
  <2>1. /\ state.kind = "Active"
        /\ closes' = Append(closes, ClosedAs("EndSilenceReached", frames + 1,
                                             Append(HeldChunks, Now(speech))))
    BY <1>1, <1>5 DEF Ends
  <2>2. Append(HeldChunks, Now(speech)) \in
          {HeldChunks} \union {Append(HeldChunks, Now(other)) : other \in BOOLEAN}
    OBVIOUS
  <2> QED BY <1>1, <1>2, <2>1, <2>2, ClosingIs
<1>6. CASE Flushes
  <2>1. CASE closes' = closes
    BY <2>1
  <2>2. CASE closes' # closes
    <3>1. /\ state.kind = "Active"
          /\ closes' = Append(closes, ClosedAs("EndSilenceReached", frames, HeldChunks))
      BY <1>1, <1>6, <2>2 DEF Flushes
    <3> QED BY <1>1, <3>1, ClosingIs
  <2> QED BY <2>1, <2>2
<1>7. ASSUME NEW speech \in BOOLEAN, PushKind(speech)
      PROVE  closes' = closes \/ \E closed : Closing(closed)
  BY <1>3, <1>4, <1>5, <1>7 DEF PushKind, Holds, Begins, Quietens, Lengthens
<1>8. ASSUME NEW next \in Configs, Updates(next) PROVE closes' = closes
  BY <1>8 DEF Updates
<1> QED BY <1>6, <1>7, <1>8 DEF HistoryKinds, historyVars

\* A segment has no gap before its end.
Ended == \A n \in 1..Len(closes) : Stream(closes[n].chunks, EndOf(closes[n]))

LEMMA EndedAlways == HistorySpec => []Ended
<1>1. HistoryInit => Ended
  <2> SUFFICES ASSUME HistoryInit PROVE Ended
    OBVIOUS
  <2>1. closes = << >> /\ Len(<< >>) = 0 /\ 1..0 = {}
    BY DEF HistoryInit
  <2> QED BY <2>1 DEF Ended
<1>2. HistoryTyped /\ AudioInOrder /\ Ended /\ [HistoryNext]_historyVars => Ended'
  <2> SUFFICES ASSUME HistoryTyped, AudioInOrder, Ended, HistoryKinds PROVE Ended'
    BY HistorySteps
  <2>1. CASE closes' = closes
    BY <2>1 DEF Ended, EndOf
  <2>2. ASSUME NEW closed, Closing(closed) PROVE Ended'
    <3>1. PICK k \in Nat : k = Len(closes)
      BY DEF HistoryTyped
    <3>2. /\ closes \in Seq(Closed) /\ closed \in Closed /\ closes' = Append(closes, closed)
          /\ Stream(closed.chunks, EndOf(closed))
      BY <2>2 DEF HistoryTyped, Closing
    <3>3. /\ Len(closes') = k + 1 /\ closes'[k + 1] = closed
          /\ \A n \in 1..k : closes'[n] = closes[n]
      BY <3>1, <3>2, AppendIs
    <3>4. ASSUME NEW n \in 1..(k + 1)
          PROVE  Stream(closes'[n].chunks, EndOf(closes'[n]))
      <4>1. CASE n = k + 1
        BY <3>2, <3>3, <4>1
      <4>2. CASE n \in 1..k
        BY <3>1, <3>3, <4>2 DEF Ended
      <4> QED BY <3>1, <4>1, <4>2
    <3> QED BY <3>3, <3>4 DEF Ended, EndOf
  <2> QED BY <2>1, <2>2, ClosingKinds
<1> QED BY <1>1, <1>2, HistoryTypedAlways, AudioInOrderAlways, PTL DEF HistorySpec

\* A segment that goes on has the audio from the end of its parent.  While speech
\* fragments come and go after an interim close, each silent chunk costs less than
\* start chunks of the pre-speech buffer.
Bridge(parent) ==
  /\ \/ state.kind = "Active" /\ state.previous # NoSegment
     \/ state.kind = "Idle" /\ pendingPrevious # NoSegment
     \/ state.kind = "AfterInterimSilence"
     => EndOf(parent)..(frames - 1) \subseteq SourceOf(HeldChunks)
  /\ state.kind = "AfterInterimSilence" =>
       /\ config.interim # 0 /\ state.silence >= config.interim
       /\ Len(state.pending) < config.start
       /\ frames - EndOf(parent) - Len(state.pending)
            <= config.start * (state.silence - config.interim)

Continuing == closes # << >> => Bridge(closes[Len(closes)])

Bridged ==
  \A n \in 1..(Len(closes) - 1) : closes[n + 1].previous # NoSegment =>
     EndOf(closes[n])..(EndOf(closes[n + 1]) - 1) \subseteq SourceOf(closes[n + 1].chunks)

LEMMA BridgeOf ==
  ASSUME NEW parent, Len(closes') > 0 => closes'[Len(closes')] = parent, closes' \in Seq(Closed),
         (Bridge(parent))'
  PROVE  Continuing'
<1>1. closes' # << >> => Len(closes') > 0
  OBVIOUS
<1>2. SUFFICES ASSUME closes' # << >> PROVE (Bridge(closes[Len(closes)]))'
  BY DEF Continuing
<1> QED BY <1>1, <1>2 DEF Bridge, EndOf

LEMMA EndIs ==
  ASSUME NEW closed \in Closed
  PROVE  EndOf(closed) \in Int
<1>1. closed.at \in Nat
  BY DEF Closed
<1> QED BY <1>1 DEF EndOf

\* Thresholds: one more silent chunk, and the most that the buffer has to hold.
LEMMA ProductGrows ==
  ASSUME NEW a \in Nat, NEW x \in Int
  PROVE  a * (x + 1) = a * x + a
  OBVIOUS

LEMMA ProductRises ==
  ASSUME NEW a \in Nat, NEW x \in Int, NEW y \in Int, x <= y
  PROVE  a * x <= a * y
<1>1. PICK d \in Nat : y = x + d
  <2>1. y - x \in Nat /\ y = x + (y - x)
    OBVIOUS
  <2> QED BY <2>1
<1>2. a * d >= 0
  OBVIOUS
<1>3. a * (x + d) = a * x + a * d
  OBVIOUS
<1>4. a * x \in Int /\ a * d \in Int
  OBVIOUS
<1> QED BY <1>1, <1>2, <1>3, <1>4

LEMMA BufferSuffices ==
  ASSUME NEW start \in Nat \ {0}, NEW interim \in Nat, NEW check \in Nat, NEW silence \in Nat,
         interim <= silence, silence + 1 < check, start * (check - interim - 1) <= check,
         NEW held \in Nat, held < start, NEW since \in Int,
         since - held <= start * (silence - interim)
  PROVE  /\ since + 1 <= start * (silence + 1 - interim)
         /\ since + 1 <= check
<1>1. PICK x \in Int : x = silence - interim
  OBVIOUS
<1>2. start * (x + 1) = start * x + start /\ start * x \in Int
  BY ProductGrows
<1>3. since + 1 <= start * x + start
  BY <1>1, <1>2
<1>4. silence + 1 - interim = x + 1
  BY <1>1
<1>5. PICK y \in Int : y = check - interim - 1
  OBVIOUS
<1>6. x + 1 <= y
  BY <1>1, <1>5
<1>7. start * (x + 1) <= start * y /\ start * (x + 1) \in Int /\ start * y \in Int
  BY <1>6, ProductRises
<1>8. since + 1 <= start * (x + 1)
  BY <1>2, <1>3
<1>9. start * y <= check
  BY <1>5
<1>10. since + 1 <= check
  BY <1>7, <1>8, <1>9
<1> QED BY <1>4, <1>8, <1>10

LEMMA BridgedKept ==
  ASSUME HistoryTyped, AudioInOrder, HistoryKinds, Bridged, Continuing
  PROVE  Bridged'
<1>1. CASE closes' = closes
  BY <1>1 DEF Bridged, EndOf
<1>2. ASSUME NEW closed, Closing(closed) PROVE Bridged'
  <2>1. PICK k \in Nat : k = Len(closes)
    BY DEF HistoryTyped
  <2>2. /\ closes \in Seq(Closed) /\ closed \in Closed /\ closes' = Append(closes, closed)
        /\ frames \in Nat
    BY <1>2, BuilderIs DEF HistoryTyped, Closing
  <2>3. /\ Len(closes') = k + 1 /\ closes'[k + 1] = closed
        /\ \A n \in 1..k : closes'[n] = closes[n]
    BY <2>1, <2>2, AppendIs
  <2>4. ASSUME NEW n \in 1..k, closes'[n + 1].previous # NoSegment
        PROVE  EndOf(closes'[n])..(EndOf(closes'[n + 1]) - 1) \subseteq SourceOf(closes'[n + 1].chunks)
    <3>1. CASE n + 1 \in 1..k
      <4>1. n \in 1..(Len(closes) - 1)
        BY <2>1, <3>1
      <4> QED BY <2>3, <2>4, <3>1, <4>1 DEF Bridged
    <3>2. CASE n = k
      <4>1. PICK parent \in Closed : parent = closes[k] /\ parent = closes'[k]
        BY <2>1, <2>2, <2>3, <3>2
      <4>2. PICK end \in Int : end = EndOf(parent)
        BY EndIs
      <4>3. closes # << >>
        BY <2>1, <2>2, <3>2
      <4>4. end..(frames - 1) \subseteq SourceOf(HeldChunks)
        BY <1>2, <2>1, <2>3, <2>4, <3>2, <4>1, <4>2, <4>3 DEF Continuing, Bridge, Closing
      <4>5. end..(EndOf(closed) - 1) \subseteq SourceOf(closed.chunks)
        <5>1. CASE EndOf(closed) = frames
          BY <1>2, <4>4, <5>1 DEF Closing
        <5>2. CASE EndOf(closed) = frames + 1 /\ frames \in SourceOf(closed.chunks)
          <6>1. \A a \in end..(EndOf(closed) - 1) : a = frames \/ a \in end..(frames - 1)
            BY <2>2, <5>2
          <6> QED BY <1>2, <4>4, <5>2, <6>1 DEF Closing
        <5> QED BY <1>2, <5>1, <5>2 DEF Closing
      <4> QED BY <2>3, <3>2, <4>1, <4>2, <4>5
    <3> QED BY <2>1, <3>1, <3>2
  <2>5. Len(closes') - 1 = k
    BY <2>1, <2>3
  <2> QED BY <2>4, <2>5 DEF Bridged, EndOf
<1> QED BY <1>1, <1>2, ClosingKinds

\* The chunks of the input that is held, with one more.
LEMMA HeldGrows ==
  ASSUME HistoryTyped, NEW speech \in BOOLEAN, NEW end \in Int,
         end..(frames - 1) \subseteq SourceOf(HeldChunks)
  PROVE  end..frames \subseteq SourceOf(Append(HeldChunks, Now(speech)))
<1>1. frames \in Nat /\ HeldChunks \in Seq(Chunk)
  BY BuilderIs, HeldIs DEF HistoryTyped
<1>2. PICK c \in Chunk : c = Now(speech) /\ c.source = TRUE /\ c.at = frames
  <2>1. Now(speech) \in Chunk
    BY <1>1 DEF Now, Chunk
  <2>2. Now(speech).source = TRUE /\ Now(speech).at = frames
    BY DEF Now
  <2> QED BY <2>1, <2>2
<1>3. SourceOf(Append(HeldChunks, c)) = SourceOf(HeldChunks) \union {frames}
  BY <1>1, <1>2, SourceOfAppend
<1>4. \A a \in end..frames : a = frames \/ a \in end..(frames - 1)
  BY <1>1
<1> QED BY <1>2, <1>3, <1>4

\* A step that adds a chunk to what is held, or to the segment it begins.
LEMMA BridgeGrows ==
  ASSUME HistoryTyped, NEW speech \in BOOLEAN, Pushes(speech),
         Holds(speech) \/ Begins(speech) \/ Lengthens(speech),
         NEW parent \in Closed, Bridge(parent)
  PROVE  (Bridge(parent))'
<1>1. /\ frames \in Nat /\ frames' = frames + 1 /\ frames' - 1 = frames /\ BuilderOK
      /\ config' = config /\ EndOf(parent) \in Int /\ Now(speech) \in Chunk
  BY BuilderIs, EndIs DEF HistoryTyped, Pushes, Now, Chunk
<1>2. PICK end \in Int : end = EndOf(parent)
  BY <1>1
<1>3. HeldChunks' = Append(HeldChunks, Now(speech))
  <2>1. ASSUME Waiting
        PROVE  state.pre \o Append(state.pending, Now(speech)) = Append(HeldChunks, Now(speech))
    <3>1. /\ HeldChunks = state.pre \o state.pending
          /\ state.pre \in Seq(Chunk) /\ state.pending \in Seq(Chunk)
      BY <1>1, <2>1, HeldIs
    <3> QED BY <1>1, <3>1, JoinAppend
  <2>2. CASE Holds(speech)
    BY <2>1, <2>2 DEF Holds, HeldChunks, Waiting
  <2>3. CASE Begins(speech)
    BY <2>1, <2>3 DEF Begins, HeldChunks
  <2>4. CASE Lengthens(speech)
    BY <1>1, <2>4, HeldIs DEF Lengthens, HeldChunks
  <2> QED BY <2>2, <2>3, <2>4
<1>4. ASSUME end..(frames - 1) \subseteq SourceOf(HeldChunks)
      PROVE  end..(frames' - 1) \subseteq SourceOf(HeldChunks')
  <2>1. end..frames \subseteq SourceOf(Append(HeldChunks, Now(speech)))
    BY <1>4, HeldGrows
  <2> QED BY <1>1, <1>3, <2>1
<1>5. CASE Holds(speech)
  <2>1. /\ Waiting /\ state'.kind = state.kind /\ pendingPrevious' = pendingPrevious
        /\ state'.pending = Append(state.pending, Now(speech))
        /\ Len(state.pending) + 1 < config.start
        /\ state.kind = "AfterInterimSilence" => state'.silence = state.silence
    BY <1>5 DEF Holds
  <2>2. Len(state'.pending) = Len(state.pending) + 1 /\ Len(state.pending) \in Nat
    <3>1. state.pending \in Seq(Chunk)
      BY <1>1, <2>1, HeldIs
    <3> QED BY <1>1, <2>1, <3>1, AppendIs
  <2>3. state.kind # "Active"
    BY <1>1, <2>1, HeldIs
  <2>4. CASE state.kind = "Idle"
    <3>1. pendingPrevious # NoSegment => end..(frames - 1) \subseteq SourceOf(HeldChunks)
      BY <1>2, <2>4 DEF Bridge
    <3> QED BY <1>2, <1>4, <2>1, <2>4, <3>1 DEF Bridge
  <2>5. CASE state.kind = "AfterInterimSilence"
    <3>1. /\ end..(frames - 1) \subseteq SourceOf(HeldChunks)
          /\ config.interim # 0 /\ state.silence >= config.interim
          /\ frames - end - Len(state.pending)
               <= config.start * (state.silence - config.interim)
      BY <1>2, <2>5 DEF Bridge
    <3>2. frames' - end - Len(state'.pending) = frames - end - Len(state.pending)
      BY <1>1, <2>2
    <3>3. state'.silence = state.silence /\ Len(state'.pending) < config.start
      BY <2>1, <2>2, <2>5
    <3> QED BY <1>1, <1>2, <1>4, <2>1, <2>5, <3>1, <3>2, <3>3 DEF Bridge
  <2> QED BY <1>1, <2>3, <2>4, <2>5, BuilderIs
<1>6. CASE Begins(speech)
  <2>1. /\ Waiting /\ state'.kind = "Active"
        /\ state'.previous = IF state.kind = "Idle" THEN pendingPrevious ELSE state.previous
    BY <1>6 DEF Begins
  <2>2. state'.previous # NoSegment => end..(frames - 1) \subseteq SourceOf(HeldChunks)
    BY <1>2, <2>1 DEF Bridge, Waiting
  <2> QED BY <1>2, <1>4, <2>1, <2>2 DEF Bridge
<1>7. CASE Lengthens(speech)
  <2>1. state.kind = "Active" /\ state'.kind = "Active" /\ state'.previous = state.previous
    BY <1>7 DEF Lengthens
  <2>2. state'.previous # NoSegment => end..(frames - 1) \subseteq SourceOf(HeldChunks)
    BY <1>2, <2>1 DEF Bridge
  <2> QED BY <1>2, <1>4, <2>1, <2>2 DEF Bridge
<1> QED BY <1>5, <1>6, <1>7

\* A silent chunk after an interim close: what is pruned is older than the parent's end.
LEMMA BridgeQuietens ==
  ASSUME HistoryTyped, Recent, AmplePreSpeech, Pushes(FALSE), Quietens(FALSE),
         NEW parent \in Closed, Bridge(parent)
  PROVE  (Bridge(parent))'
<1>1. /\ frames \in Nat /\ frames' = frames + 1 /\ frames' - 1 = frames /\ BuilderOK
      /\ config' = config /\ EndOf(parent) \in Int /\ Now(FALSE) \in Chunk
      /\ HeldChunks \in Seq(Chunk)
  BY BuilderIs, HeldIs, EndIs DEF HistoryTyped, Pushes, Now, Chunk
<1>2. PICK end \in Int : end = EndOf(parent)
  BY <1>1
<1>3. /\ config.start \in Nat \ {0} /\ config.interim \in Nat /\ config.turnCheck \in Nat \ {0}
  BY <1>1, ConfigsAssumption DEF BuilderOK, SegmentBuilderConfig
<1>4. /\ Waiting /\ pendingPrevious' = NoSegment /\ state'.pending = << >>
      /\ state'.pre = PreWithSilence(Now(FALSE))
      /\ \/ state'.kind = "Idle"
         \/ /\ state.kind = "AfterInterimSilence" /\ state'.kind = "AfterInterimSilence"
            /\ state.silence + 1 < config.turnCheck
            /\ state'.silence = state.silence + 1
  BY DEF Quietens
<1>5. CASE state'.kind = "Idle"
  BY <1>4, <1>5 DEF Bridge
<1>6. CASE /\ state.kind = "AfterInterimSilence" /\ state'.kind = "AfterInterimSilence"
           /\ state.silence + 1 < config.turnCheck
           /\ state'.silence = state.silence + 1
  <2>1. /\ end..(frames - 1) \subseteq SourceOf(HeldChunks)
        /\ config.interim # 0 /\ state.silence >= config.interim
        /\ Len(state.pending) < config.start
        /\ frames - end - Len(state.pending)
             <= config.start * (state.silence - config.interim)
    BY <1>2, <1>6 DEF Bridge
  <2>2. /\ state.silence \in Nat /\ state.pending \in Seq(Chunk) /\ Len(state.pending) \in Nat
        /\ HeldChunks = state.pre \o state.pending /\ state.pre \in Seq(Chunk)
    BY <1>1, <1>4, <1>6, HeldIs, BuilderIs DEF WaitingStates
  <2>3. config.start * (config.turnCheck - config.interim - 1) <= config.turnCheck
    BY <2>1 DEF AmplePreSpeech
  <2>4. PICK since \in Int : since = frames - end
    BY <1>1
  <2>5. PICK held \in Nat : held = Len(state.pending)
    BY <2>2
  <2>6. /\ since + 1 <= config.start * (state.silence + 1 - config.interim)
        /\ since + 1 <= config.turnCheck
    <3>1. PICK start \in Nat \ {0} : start = config.start
      BY <1>3
    <3>2. PICK interim \in Nat : interim = config.interim
      BY <1>3
    <3>3. PICK check \in Nat : check = config.turnCheck
      BY <1>3
    <3>4. PICK silence \in Nat : silence = state.silence
      BY <2>2
    <3>5. /\ interim <= silence /\ silence + 1 < check
          /\ start * (check - interim - 1) <= check /\ held < start
          /\ since - held <= start * (silence - interim)
      BY <1>6, <2>1, <2>2, <2>3, <2>4, <2>5, <3>1, <3>2, <3>3, <3>4
    <3>6. /\ since + 1 <= start * (silence + 1 - interim)
          /\ since + 1 <= check
      BY <3>5, BufferSuffices
    <3> QED BY <3>1, <3>2, <3>3, <3>4, <3>6
  <2>7. PICK audio \in Seq(Chunk) : audio = Append(HeldChunks, Now(FALSE))
    BY <1>1, AppendIs
  <2>8. end..frames \subseteq SourceOf(audio) /\ Dense(audio, frames + 1)
    <3>1. end..frames \subseteq SourceOf(audio)
      BY <2>1, <2>7, HeldGrows
    <3>2. Now(FALSE).source = TRUE /\ Now(FALSE).at = frames
      BY DEF Now
    <3>3. PICK c \in Chunk : c = Now(FALSE) /\ c.source = TRUE /\ c.at = frames
      BY <1>1, <3>2
    <3>4. PICK q \in Seq(Chunk) : q = HeldChunks /\ Dense(q, frames)
      BY <1>1 DEF Recent
    <3>5. Dense(Append(q, c), frames + 1)
      BY <1>1, <3>3, <3>4, DenseOfAppend
    <3> QED BY <2>7, <3>1, <3>3, <3>4, <3>5
  <2>9. end..frames \subseteq SourceOf(Prune(audio, config.turnCheck))
    <3>1. ASSUME NEW a \in end..frames PROVE a \in SourceOf(Prune(audio, config.turnCheck))
      <4>1. PICK check \in Nat \ {0} : check = config.turnCheck
        BY <1>3
      <4>2. PICK n \in Nat : n = frames + 1
        BY <1>1
      <4>3. a \in SourceOf(audio) /\ a >= n - check
        BY <1>1, <2>4, <2>6, <2>8, <4>1, <4>2
      <4>4. Dense(audio, n)
        BY <2>8, <4>2
      <4>5. a \in SourceOf(Prune(audio, check))
        BY <4>3, <4>4, PruneKeeps
      <4> QED BY <4>1, <4>5
    <3> QED BY <3>1
  <2>10. HeldChunks' = Prune(audio, config.turnCheck)
    <3>1. state.pre \o Append(state.pending, Now(FALSE)) = audio
      <4>1. PICK pre \in Seq(Chunk), pending \in Seq(Chunk) :
               pre = state.pre /\ pending = state.pending
        BY <2>2
      <4>2. PICK c \in Chunk : c = Now(FALSE)
        BY <1>1
      <4>3. pre \o Append(pending, c) = Append(pre \o pending, c)
        BY JoinAppend
      <4> QED BY <2>2, <2>7, <4>1, <4>2, <4>3
    <3>2. state'.pre = Prune(audio, config.turnCheck)
      BY <1>4, <3>1 DEF PreWithSilence
    <3>3. Prune(audio, config.turnCheck) \in Seq(Chunk)
      BY <1>3, PruneCuts
    <3>4. Prune(audio, config.turnCheck) \o << >> = Prune(audio, config.turnCheck)
      BY <3>3
    <3> QED BY <1>4, <1>6, <3>2, <3>4 DEF HeldChunks
  <2>11. end..(frames' - 1) \subseteq SourceOf(HeldChunks')
    BY <1>1, <2>9, <2>10
  <2>12. Len(state'.pending) = 0
    BY <1>4
  <2>13. /\ state'.silence >= config.interim /\ Len(state'.pending) < config.start
         /\ frames' - end - Len(state'.pending)
              <= config.start * (state'.silence - config.interim)
    <3>1. frames' - end - Len(state'.pending) = since + 1
      BY <1>1, <2>4, <2>12
    <3>2. state'.silence = state.silence + 1
      BY <1>6
    <3>3. state'.silence - config.interim = state.silence + 1 - config.interim
      <4>1. PICK silence \in Nat : silence = state.silence
        BY <2>2
      <4>2. PICK interim \in Nat : interim = config.interim
        BY <1>3
      <4>3. PICK next : next = state'.silence
        OBVIOUS
      <4>4. next = silence + 1
        BY <3>2, <4>1, <4>3
      <4>5. next - interim = silence + 1 - interim
        BY <4>4
      <4> QED BY <4>1, <4>2, <4>3, <4>5
    <3>4. config.start * (state'.silence - config.interim)
            = config.start * (state.silence + 1 - config.interim)
      BY <3>3
    <3>5. state'.silence >= config.interim
      BY <1>3, <2>1, <2>2, <3>2
    <3>6. Len(state'.pending) < config.start
      BY <1>3, <2>12
    <3>7. since + 1 <= config.start * (state'.silence - config.interim)
      BY <2>6, <3>4
    <3> QED BY <3>1, <3>5, <3>6, <3>7
  <2> QED BY <1>1, <1>2, <1>6, <2>1, <2>11, <2>13 DEF Bridge
<1> QED BY <1>4, <1>5, <1>6

LEMMA BridgeSplits ==
  ASSUME HistoryTyped, SilentEnd, NEW speech \in BOOLEAN, Pushes(speech), Splits(speech),
         NEW closed \in Closed, EndOf(closed) = frames
  PROVE  (Bridge(closed))'
<1>1. /\ frames \in Nat /\ frames' = frames + 1 /\ frames' - 1 = frames /\ BuilderOK
      /\ config' = config /\ Now(speech) \in Chunk /\ HeldChunks \in Seq(Chunk)
      /\ speech = TRUE /\ state.kind = "Active" /\ config.interim # 0
      /\ state.silence >= config.interim
  BY BuilderIs, HeldIs DEF HistoryTyped, Pushes, Now, Chunk, Splits
<1>2. /\ config.start \in Nat \ {0} /\ config.interim \in Nat /\ config.turnCheck \in Nat \ {0}
  BY <1>1, ConfigsAssumption DEF BuilderOK, SegmentBuilderConfig
<1>3. state.silence \in Nat /\ state.chunks \in Seq(Chunk)
  BY <1>1, ActiveIs DEF ActiveStates
<1>4. KeptSilence \in Seq(Chunk)
  <2>1. PICK silent \in Seq(Chunk) : silent = TrailingSilence(state.chunks)
    BY <1>3, TrailingSilenceIs
  <2> QED BY <1>2, <2>1, PaddingHasNoSource DEF KeptSilence
<1>5. PICK kept \in Seq(Chunk) : kept = KeptSilence
  BY <1>4
<1>6. PICK c \in Chunk : c = Now(speech) /\ c.source = TRUE /\ c.at = frames
  <2>1. Now(speech).source = TRUE /\ Now(speech).at = frames
    BY DEF Now
  <2> QED BY <1>1, <2>1
<1>7. /\ SourceOf(Append(kept, c)) = SourceOf(kept) \union {frames}
      /\ kept \o <<c>> = Append(kept, c) /\ Len(<<c>>) = 1
  BY <1>6, SourceOfAppend, JoinAppend
<1>8. frames..(frames' - 1) \subseteq SourceOf(Append(kept, c))
  <2>1. \A a \in frames..(frames' - 1) : a = frames
    BY <1>1
  <2> QED BY <1>7, <2>1
<1>9. CASE state'.kind = "Active" /\ state'.chunks = Append(KeptSilence, Now(speech))
  <2>1. HeldChunks' = Append(kept, c)
    BY <1>5, <1>6, <1>9 DEF HeldChunks
  <2>2. frames..(frames' - 1) \subseteq SourceOf(HeldChunks')
    BY <1>8, <2>1
  <2> QED BY <1>9, <2>2 DEF Bridge, EndOf
<1>10. CASE /\ config.start > 1 /\ state'.kind = "AfterInterimSilence"
            /\ state'.pre = KeptSilence /\ state'.pending = <<Now(speech)>>
            /\ state'.silence = Len(TrailingSilence(state.chunks))
  <2>1. HeldChunks' = Append(kept, c) /\ Len(state'.pending) = 1
    BY <1>5, <1>6, <1>7, <1>10 DEF HeldChunks
  <2>2. state'.silence = state.silence
    BY <1>1, <1>3, <1>10, TrailingSilenceLength DEF SilentEnd
  <2>3. frames' - frames - Len(state'.pending) = 0
    BY <1>1, <2>1
  <2>4. 0 <= config.start * (state.silence - config.interim)
    <3>1. PICK x \in Nat : x = state.silence - config.interim
      BY <1>1, <1>2, <1>3
    <3>2. PICK start \in Nat : start = config.start
      BY <1>2
    <3>3. start * x \in Nat
      OBVIOUS
    <3> QED BY <3>1, <3>2, <3>3
  <2>5. frames..(frames' - 1) \subseteq SourceOf(HeldChunks')
    BY <1>8, <2>1
  <2>6. /\ config.interim # 0 /\ state'.silence >= config.interim
        /\ Len(state'.pending) < config.start
        /\ frames' - frames - Len(state'.pending)
             <= config.start * (state'.silence - config.interim)
    BY <1>1, <1>2, <1>10, <2>1, <2>2, <2>3, <2>4
  <2> QED BY <1>1, <1>10, <2>5, <2>6 DEF Bridge, EndOf
<1> QED BY <1>9, <1>10 DEF Splits

LEMMA ContinuingKept ==
  ASSUME HistoryTyped, AudioInOrder, SilentEnd, Recent, HistoryKinds, AmplePreSpeech,
         Continuing, HistoryTyped', updates' = 0
  PROVE  Continuing'
<1>1. /\ closes \in Seq(Closed) /\ closes' \in Seq(Closed) /\ frames \in Nat /\ BuilderOK
  BY BuilderIs DEF HistoryTyped
<1>k. PICK k \in Nat : k = Len(closes)
  BY <1>1
<1>2. ASSUME closes' = closes,
             \A parent \in Closed : Bridge(parent) => (Bridge(parent))'
      PROVE  Continuing'
  <2> SUFFICES ASSUME closes # << >> PROVE Continuing'
    BY <1>2 DEF Continuing
  <2>1. k \in 1..k
    BY <1>1, <1>k
  <2>2. PICK parent \in Closed : parent = closes[k]
    BY <1>1, <1>k, <2>1
  <2>3. Bridge(parent)
    BY <1>k, <2>2 DEF Continuing
  <2>4. (Bridge(parent))'
    BY <1>2, <2>3
  <2>5. closes'[Len(closes')] = parent
    BY <1>2, <1>k, <2>2
  <2> QED BY <1>1, <2>4, <2>5, BridgeOf
<1>3. ASSUME NEW closed \in Closed, closes' = Append(closes, closed), (Bridge(closed))'
      PROVE  Continuing'
  <2>1. Len(closes') = k + 1 /\ closes'[k + 1] = closed
    BY <1>1, <1>3, <1>k, AppendIs
  <2> QED BY <1>1, <1>3, <2>1, BridgeOf
<1>4. ASSUME NEW speech \in BOOLEAN, Pushes(speech), PushKind(speech)
      PROVE  Continuing'
  <2>1. CASE Holds(speech) \/ Begins(speech) \/ Lengthens(speech)
    <3>1. closes' = closes
      BY <2>1 DEF Holds, Begins, Lengthens
    <3> QED BY <1>2, <1>4, <2>1, <3>1, BridgeGrows
  <2>2. CASE Quietens(speech)
    <3>1. closes' = closes /\ speech = FALSE
      BY <2>2 DEF Quietens
    <3>2. Pushes(FALSE) /\ Quietens(FALSE)
      BY <1>4, <2>2, <3>1
    <3> QED BY <1>2, <3>1, <3>2, BridgeQuietens
  <2>3. CASE Splits(speech)
    <3>1. PICK at \in Nat : at = frames + 1
      BY <1>1
    <3>2. PICK chunks \in Seq(Chunk) : chunks = state.chunks
      BY <1>1, <2>3, ActiveIs DEF Splits
    <3>3. PICK closed : closed = ClosedAs("InterimResultSilenceReached", at, chunks)
      OBVIOUS
    <3>4. /\ closed \in Closed /\ closed.at = at
          /\ closed.reason = "InterimResultSilenceReached"
      <4>1. /\ ClosedAs("InterimResultSilenceReached", at, chunks) \in Closed
            /\ ClosedAs("InterimResultSilenceReached", at, chunks).at = at
            /\ ClosedAs("InterimResultSilenceReached", at, chunks).reason
                 = "InterimResultSilenceReached"
        BY <1>1, <2>3, ClosedAsTyped DEF Splits
      <4> QED BY <3>3, <4>1
    <3>5. EndOf(closed) = frames
      BY <1>1, <3>1, <3>4 DEF EndOf
    <3>6. closes' = Append(closes, closed)
      BY <2>3, <3>1, <3>2, <3>3 DEF Splits
    <3>7. (Bridge(closed))'
      BY <1>4, <2>3, <3>4, <3>5, BridgeSplits
    <3> QED BY <1>3, <3>4, <3>6, <3>7
  <2>4. CASE Limits(speech)
    <3>1. PICK at \in Nat : at = frames + 1
      BY <1>1
    <3>a. Now(speech) \in Chunk
      BY <1>1 DEF Now, Chunk
    <3>b. PICK held \in Seq(Chunk) : held = state.chunks
      BY <1>1, <2>4, ActiveIs DEF Limits
    <3>2. PICK chunks \in Seq(Chunk) : chunks = Append(state.chunks, Now(speech))
      BY <3>a, <3>b, AppendIs
    <3>3. PICK closed : closed = ClosedAs("SegmentMaxChunksReached", at, chunks)
      OBVIOUS
    <3>4. /\ closed \in Closed /\ closed.at = at
          /\ closed.reason = "SegmentMaxChunksReached"
      <4>1. /\ ClosedAs("SegmentMaxChunksReached", at, chunks) \in Closed
            /\ ClosedAs("SegmentMaxChunksReached", at, chunks).at = at
            /\ ClosedAs("SegmentMaxChunksReached", at, chunks).reason
                 = "SegmentMaxChunksReached"
        BY <1>1, <2>4, ClosedAsTyped DEF Limits
      <4> QED BY <3>3, <4>1
    <3>5. EndOf(closed) = frames' /\ frames'..(frames' - 1) = {} /\ state'.kind = "Idle"
      BY <1>1, <1>4, <2>4, <3>1, <3>4 DEF EndOf, Pushes, Limits
    <3>6. closes' = Append(closes, closed)
      BY <2>4, <3>1, <3>2, <3>3 DEF Limits
    <3>7. EndOf(closed)..(frames' - 1) \subseteq SourceOf(HeldChunks')
      BY <3>5
    <3>8. (Bridge(closed))'
      BY <3>5, <3>7 DEF Bridge, EndOf
    <3> QED BY <1>3, <3>4, <3>6, <3>8
  <2>5. CASE Ends(speech)
    <3>1. state'.kind = "Idle" /\ pendingPrevious' = NoSegment /\ state.kind = "Active"
      BY <2>5 DEF Ends
    <3>2. \A parent : (Bridge(parent))'
      BY <3>1 DEF Bridge
    <3>3. closes' = closes \/ \E closed : closed \in Closed /\ closes' = Append(closes, closed)
      BY ClosingKinds DEF Closing
    <3> QED BY <1>2, <1>3, <3>2, <3>3
  <2> QED BY <1>4, <2>1, <2>2, <2>3, <2>4, <2>5 DEF PushKind
<1>5. CASE Flushes
  <2>1. CASE state.kind = "Idle"
    <3>1. closes' = closes /\ state' = state /\ pendingPrevious' = pendingPrevious
          /\ frames' = frames /\ config' = config
      BY <1>5, <2>1 DEF Flushes
    <3>2. ASSUME NEW parent \in Closed, Bridge(parent) PROVE (Bridge(parent))'
      BY <3>1, <3>2 DEF Bridge, EndOf, HeldChunks
    <3> QED BY <1>2, <3>1, <3>2
  <2>2. CASE state.kind # "Idle"
    <3>1. state'.kind = "Idle" /\ pendingPrevious' = NoSegment
      BY <1>5, <2>2 DEF Flushes
    <3>2. \A parent : (Bridge(parent))'
      BY <3>1 DEF Bridge
    <3>3. closes' = closes \/ \E closed : closed \in Closed /\ closes' = Append(closes, closed)
      BY ClosingKinds DEF Closing
    <3> QED BY <1>2, <1>3, <3>2, <3>3
  <2> QED BY <2>1, <2>2
<1>6. ASSUME NEW next \in Configs, Updates(next) PROVE FALSE
  BY <1>6 DEF Updates, HistoryTyped
<1>7. CASE UNCHANGED historyVars
  BY <1>7 DEF historyVars, builderVars, Continuing, Bridge, EndOf, HeldChunks
<1> QED BY <1>4, <1>5, <1>6, <1>7 DEF HistoryKinds

LEMMA BridgedAlways ==
  HistorySpec => [](updates = 0 /\ AmplePreSpeech => Bridged /\ Continuing)
<1>1. HistoryInit => Bridged /\ Continuing
  <2> SUFFICES ASSUME HistoryInit PROVE Bridged /\ Continuing
    OBVIOUS
  <2>1. closes = << >> /\ Len(<< >>) = 0 /\ 1..(0 - 1) = {}
    BY DEF HistoryInit
  <2> QED BY <2>1 DEF Bridged, Continuing
<1>2. /\ HistoryTyped /\ AudioInOrder /\ SilentEnd /\ Recent
      /\ (updates = 0 /\ AmplePreSpeech => Bridged /\ Continuing)
      /\ [HistoryNext]_historyVars
      => (updates = 0 /\ AmplePreSpeech => Bridged /\ Continuing)'
  <2> SUFFICES ASSUME HistoryTyped, AudioInOrder, SilentEnd, Recent, HistoryKinds, HistoryTyped',
                      updates = 0 /\ AmplePreSpeech => Bridged /\ Continuing,
                      updates' = 0, AmplePreSpeech'
               PROVE  Bridged' /\ Continuing'
    BY HistorySteps
  <2>1. updates = 0
    BY UpdatesStay
  <2>2. config' = config
    BY <2>1 DEF HistoryKinds, Pushes, Flushes, Updates, historyVars, builderVars
  <2>3. AmplePreSpeech
    BY <2>2 DEF AmplePreSpeech
  <2> QED BY <2>1, <2>3, BridgedKept, ContinuingKept
<1> QED BY <1>1, <1>2, HistoryTypedAlways, AudioInOrderAlways, SilentEndAlways, RecentAlways,
           PTL DEF HistorySpec

LEMMA StreamIsGapless ==
  ASSUME NEW chunks, NEW n \in Int, Stream(chunks, n)
  PROVE  Gapless(SourceOf(chunks))
<1>1. PICK source : source = SourceOf(chunks)
  OBVIOUS
<1>2. source \subseteq 0..(n - 1) /\ \A a \in source : a..(n - 1) \subseteq source
  BY <1>1 DEF Stream
<1>3. ASSUME NEW a \in source, NEW b \in source, NEW x \in a..b PROVE x \in source
  <2>1. a \in 0..(n - 1) /\ b \in 0..(n - 1)
    BY <1>2
  <2>2. x \in a..(n - 1)
    BY <1>3, <2>1
  <2> QED BY <1>2, <2>2
<1> QED BY <1>1, <1>3 DEF Gapless

\* A stream up to i, and the next one, which has everything between i and its own end.
LEMMA JoinedIsGapless ==
  ASSUME NEW before, NEW after, NEW i \in Int, NEW j \in Int,
         Stream(before, i), Stream(after, j),
         AllBefore(SourceOf(before), SourceOf(after)),
         i..(j - 1) \subseteq SourceOf(after)
  PROVE  Gapless(SourceOf(before) \union SourceOf(after))
<1>1. PICK S, T : S = SourceOf(before) /\ T = SourceOf(after)
  OBVIOUS
<1>2. /\ S \subseteq 0..(i - 1) /\ \A a \in S : a..(i - 1) \subseteq S
      /\ T \subseteq 0..(j - 1) /\ \A a \in T : a..(j - 1) \subseteq T
      /\ \A a \in S, b \in T : a < b
      /\ i..(j - 1) \subseteq T
  BY <1>1 DEF Stream, AllBefore
<1>3. ASSUME NEW a \in S \union T, NEW b \in S \union T, NEW x \in a..b
      PROVE  x \in S \union T
  <2>1. a \in Int /\ b \in Int /\ x \in Int /\ a <= x /\ x <= b
    <3>1. a \in 0..(i - 1) \/ a \in 0..(j - 1)
      BY <1>2
    <3>2. b \in 0..(i - 1) \/ b \in 0..(j - 1)
      BY <1>2
    <3> QED BY <1>3, <3>1, <3>2
  <2>2. CASE a \in S /\ x < i
    <3>1. x \in a..(i - 1)
      BY <2>1, <2>2
    <3> QED BY <1>2, <2>2, <3>1
  <2>3. CASE b \in T /\ x >= i
    <3>1. b \in 0..(j - 1)
      BY <1>2, <2>3
    <3>2. x \in i..(j - 1)
      BY <2>1, <2>3, <3>1
    <3> QED BY <1>2, <3>2
  <2>4. CASE b \in S /\ x >= i
    <3>1. b \in 0..(i - 1)
      BY <1>2, <2>4
    <3> QED BY <2>1, <2>4, <3>1
  <2>5. CASE a \in T /\ b \in T
    <3>1. b \in 0..(j - 1)
      BY <1>2, <2>5
    <3>2. x \in a..(j - 1)
      BY <2>1, <3>1
    <3> QED BY <1>2, <2>5, <3>2
  <2>6. CASE a \in T /\ b \in S
    <3>1. b < a
      BY <1>2, <2>6
    <3> QED BY <2>1, <3>1
  <2>7. x < i \/ x >= i
    BY <2>1
  <2> QED BY <2>2, <2>3, <2>4, <2>5, <2>6, <2>7
<1> QED BY <1>1, <1>3 DEF Gapless

(***************************************************************************)
(* What recognition is sent has no gap: no segment has one, and while      *)
(* settings do not change and the pre-speech is ample, neither has the     *)
(* passage from a segment to its child.                                    *)
(***************************************************************************)
THEOREM AudioContinuous == HistorySpec => []TurnAudioContinuous
<1>1. ASSUME HistoryTyped, AudioInOrder, Ended,
             updates = 0 /\ AmplePreSpeech => Bridged /\ Continuing
      PROVE  TurnAudioContinuous
  <2>1. PICK k \in Nat : k = Len(closes)
    BY <1>1 DEF HistoryTyped
  <2>2. \A n \in 1..k : n \in DOMAIN closes /\ closes[n] \in Closed
    BY <1>1, <2>1 DEF HistoryTyped
  <2>3. PICK audio : audio = Audio
    OBVIOUS
  <2>4. /\ DOMAIN audio = 1..(k + 1) /\ audio[k + 1] = HeldChunks
        /\ \A n \in 1..k : n \in DOMAIN closes /\ audio[n] = closes[n].chunks
    BY <1>1, <2>1, <2>3, AudioIs
  <2>5. ASSUME NEW n \in DOMAIN audio PROVE Gapless(SourceOf(audio[n]))
    <3>1. frames \in Nat
      BY <1>1, BuilderIs DEF HistoryTyped
    <3>2. CASE n = k + 1
      <4>1. Stream(HeldChunks, frames) /\ frames \in Int
        BY <1>1, <3>1 DEF AudioInOrder
      <4> QED BY <2>4, <3>2, <4>1, StreamIsGapless
    <3>3. CASE n \in 1..k
      <4>1. PICK i \in Int : Stream(closes[n].chunks, i)
        BY <1>1, <2>1, <2>2, <3>3, EndIs DEF Ended
      <4> QED BY <2>4, <3>3, <4>1, StreamIsGapless
    <3> QED BY <2>1, <2>4, <3>2, <3>3
  <2>6. ASSUME NEW n \in 2..k, updates = 0, AmplePreSpeech, closes[n].previous = closes[n - 1].id
        PROVE  Gapless(SourceOf(closes[n - 1].chunks) \union SourceOf(closes[n].chunks))
    <3>1. PICK m \in 1..(k - 1) : m = n - 1 /\ m + 1 = n /\ m \in 1..k /\ n \in 1..k /\ m < n
      BY <2>1, <2>6
    <3>2. PICK parent \in Closed, child \in Closed : parent = closes[m] /\ child = closes[n]
      BY <2>2, <3>1
    <3>3. PICK i \in Int, j \in Int : i = EndOf(parent) /\ j = EndOf(child)
      BY EndIs
    <3>4. Stream(parent.chunks, i) /\ Stream(child.chunks, j)
      BY <1>1, <2>1, <3>1, <3>2, <3>3 DEF Ended
    <3>5. AllBefore(SourceOf(parent.chunks), SourceOf(child.chunks))
      BY <1>1, <2>2, <3>1, <3>2 DEF AudioInOrder
    <3>6. child.previous # NoSegment
      <4>1. parent.id \in Turn
        BY <3>2 DEF Closed
      <4> QED BY <2>6, <3>1, <3>2, <4>1 DEF Turn, NoSegment
    <3>7. i..(j - 1) \subseteq SourceOf(child.chunks)
      BY <1>1, <2>1, <2>6, <3>1, <3>2, <3>3, <3>6 DEF Bridged
    <3>8. Gapless(SourceOf(parent.chunks) \union SourceOf(child.chunks))
      BY <3>4, <3>5, <3>7, JoinedIsGapless
    <3> QED BY <3>1, <3>2, <3>8
  <2> QED BY <2>1, <2>3, <2>5, <2>6 DEF TurnAudioContinuous
<1> QED BY <1>1, HistoryTypedAlways, AudioInOrderAlways, EndedAlways, BridgedAlways, PTL
=============================================================================
