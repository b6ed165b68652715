------------------------- MODULE RecognitionRuntime -------------------------
(***************************************************************************)
(* The turn and transcription core of crates/parapper-stt-engine, as       *)
(* operators on one record: the runtime state of a RecognitionSession.     *)
(* RecognitionEngine applies them to its variable.                         *)
(*                                                                         *)
(* Scope: one source, one recognition route, a non-streaming interim       *)
(* model.  Positions are counted in VAD chunks.  The text of a turn is     *)
(* abstracted to how it compares with the interim text emitted last, its   *)
(* audio to the sequence of the segments it is made of.                    *)
(***************************************************************************)
EXTENDS Integers, Sequences, FiniteSetsExt

\* detector, which a session keeps, and rerecognize_full_on_complete, which may
\* change while it runs.
SttTurnConfig == [detector : {"Simple", "Morph", "Namo"}, rerecognizeFull : BOOLEAN]

NoTurn == 0         \* turn ids and segment ids start at 1
New == 0            \* AsrTurnTarget::New
NoTick == -1
NoCheck == [previous |-> 0, epoch |-> -1]
NoRequest == [kind |-> "None"]

-----------------------------------------------------------------------------
\* idle, waiting in the worker's queue, executed, forgotten, or answered with
\* text or without.
RunnerStates == {"idle", "queued", "running", "lost", "usable", "unusable"}

\* A fresh session.
Runtime0(turn) ==
  [turn |-> turn,               \* config.turn
   segments |-> << >>,          \* pending.asr_segments
   turnCheck |-> NoCheck,       \* pending.turn_check
   finalization |-> NoTurn,     \* pending.finalization
   inFlight |-> NoRequest,      \* requests.in_flight_request
   runner |-> "idle",           \* what the runner does with it: RunnerStates
   up |-> TRUE,                 \* the runner still accepts requests
   turns |-> << >>,             \* turn_store.turns, with audio_ranges
   finalized |-> {},            \* turn_store.finalized_turns
   confirmed |-> 0,             \* turn_store.confirmed_until_sample
   openTurn |-> NoTurn, acceptsRoot |-> FALSE,
   newTurns |-> << >>,          \* turn_store.pending_new_turns
   nextTurn |-> 1, nextSeq |-> 1,
   epoch |-> 0, openEpoch |-> 0, openSince |-> NoTick,
   out |-> {},                  \* what the output sink received
   unheard |-> {}]              \* segments whose recognition gave no text

InFlight(r) == r.inFlight # NoRequest
ResultReady(r) == r.runner \in {"usable", "unusable"}

HasPendingWork(r) ==
  \/ InFlight(r)
  \/ r.turnCheck # NoCheck
  \/ r.finalization # NoTurn
  \/ r.segments # << >>

\* revisions: created as 0 with the first draft, incremented by the final.
Revision(r, t) == IF t \in r.finalized THEN 1 ELSE 0

Put(f, k, v) == [x \in DOMAIN f \union {k} |-> IF x = k THEN v ELSE f[x]]
Without(f, S) == [x \in DOMAIN f \ S |-> f[x]]

-----------------------------------------------------------------------------
(* Output of turns: turn/flow.rs. *)

Output(seq, t, final, draft) ==
  [seq |-> seq, turn |-> t, final |-> final, revision |-> draft.revision,
   audio |-> draft.audio]

\* emit_turn_output(t, false): only when the text differs from the last one.
EmitInterim(r, t) ==
  IF t \notin DOMAIN r.turns \/ r.turns[t].emitted = "current" THEN r
  ELSE [r EXCEPT !.out = @ \union {Output(r.nextSeq, t, FALSE, r.turns[t])},
                 !.nextSeq = @ + 1,
                 !.turns[t].emitted = "current"]

\* Mutant: older turns are not finalized with it.
FinalizeOnly(r, t) ==
  IF t \notin DOMAIN r.turns THEN r
  ELSE [r EXCEPT !.out = @ \union {Output(r.nextSeq, t, TRUE, r.turns[t])},
                 !.nextSeq = @ + 1,
                 !.finalized = @ \union {t},
                 !.confirmed = Max({@, r.turns[t].to}),
                 !.turns = Without(@, {t})]

\* Mutant: the drafts of final turns stay.
FinalizeKeepsDrafts(r, t) ==
  LET due == {u \in DOMAIN r.turns : u <= t}
      SeqOf(u) == r.nextSeq + Cardinality({v \in due : v < u})
  IN  [r EXCEPT !.out = @ \union {Output(SeqOf(u), u, TRUE, r.turns[u]) : u \in due},
                !.nextSeq = @ + Cardinality(due),
                !.finalized = @ \union due,
                !.confirmed = Max({@} \union {r.turns[u].to : u \in due})]

\* emit_stale_turn_finals(t), then emit_turn_output(t, true): every turn up to t,
\* in the order of the ids.
FinalizeUpTo(r, t) ==
  LET due == {u \in DOMAIN r.turns : u <= t}
      SeqOf(u) == r.nextSeq + Cardinality({v \in due : v < u})
  IN  [r EXCEPT !.out = @ \union {Output(SeqOf(u), u, TRUE, r.turns[u]) : u \in due},
                !.nextSeq = @ + Cardinality(due),
                !.finalized = @ \union due,
                !.confirmed = Max({@} \union {r.turns[u].to : u \in due}),
                !.turns = Without(@, due)]

ClearOpenTurn(r) ==
  [r EXCEPT !.openTurn = NoTurn, !.acceptsRoot = FALSE, !.openSince = NoTick]

\* Mutant: the open turn stays open.
FinalizeKeepsOpen(r, t) == FinalizeUpTo(r, t)

\* finalize_turn_now, and complete_whole_turn_after_grammar_boundary
FinalizeTurnNow(r, t) == ClearOpenTurn(FinalizeUpTo(r, t))

SegmentTurn(s) == IF s.previous = 0 THEN s.id ELSE s.previous    \* PendingAsrSegment::turn_id

FinalizationIsBlocked(r, t) ==
  \/ InFlight(r) /\ r.inFlight.turn <= t
  \/ \E i \in DOMAIN r.segments : SegmentTurn(r.segments[i]) <= t

\* complete_turn_without_grammar and finalize_timeout_turn_after_rerecognition:
\* a blocked finalization waits, and the newest turn is the one remembered.
CompleteTurn(r, t) ==
  IF FinalizationIsBlocked(r, t)
  THEN [r EXCEPT !.finalization = IF @ # NoTurn /\ @ >= t THEN @ ELSE t]
  ELSE FinalizeTurnNow(r, t)

ResetTimeoutOrigin(r, tick) == [r EXCEPT !.openEpoch = r.epoch, !.openSince = tick]

KeepTurnOpen(r, t, tick, interim) ==
  LET open == ResetTimeoutOrigin([r EXCEPT !.openTurn = t, !.acceptsRoot = TRUE], tick)
  IN  IF interim THEN EmitInterim(open, t) ELSE open

-----------------------------------------------------------------------------
(* Requests: transcription/planner.rs and the dispatch part of flow.rs. *)

CanConnectInterim(r) == r.turn.detector \in {"Morph", "Namo"}

Kind(s) ==
  IF s.reason \in {"InterimResultSilenceReached", "InterimChunkReached"}
  THEN "InterimDisplay" ELSE "CompletionCheck"

\* Mutant: the audio ranges are not compared.
CoversTurn(s, front) == SegmentTurn(s) = SegmentTurn(front)

Covers(s, front) ==
  SegmentTurn(s) = SegmentTurn(front) /\ s.from <= front.from /\ front.to <= s.to

\* drop_front_interim_segments_covered_by_completion.  The loop ends after one
\* round: the completion it brings to the front stops it.
DropCoveredInterims(q) ==
  LET covering == {i \in 2..Len(q) : Kind(q[i]) = "CompletionCheck" /\ Covers(q[i], q[1])}
  IN  IF q = << >> \/ Kind(q[1]) # "InterimDisplay" \/ covering = {} THEN q
      ELSE LET k    == Min(covering)
               rest == SubSeq(q, 1, k - 1) \o SubSeq(q, k + 1, Len(q))
               Dropped(i) == Kind(rest[i]) = "InterimDisplay" /\ Covers(q[k], rest[i])
               kept == Min({i \in DOMAIN rest : ~Dropped(i)} \union {Len(rest) + 1})
           IN  <<q[k]>> \o SubSeq(rest, kept, Len(rest))

Contiguous(s, next) ==
  s.to = next.from /\ next.previous = s.id /\ s.id <= next.id

\* take_next_request_segment_plan: how many segments the plan at i takes.
PlanLength(r, q, i) ==
  LET merges == Kind(q[i]) = "InterimDisplay" \/ CanConnectInterim(r)
      Joins(j) == Kind(q[j]) = "InterimDisplay" /\ Contiguous(q[j - 1], q[j])
      stop == {j \in (i + 1)..Len(q) : ~Joins(j)} \union {Len(q) + 1}
  IN  IF merges THEN Min(stop) - i ELSE 1

\* target_turn_id: the turn id a plan is recorded under before it has a turn.
ProjectedTurn(r, first) ==
  IF first.previous = 0 /\ ~(CanConnectInterim(r) /\ r.acceptsRoot) THEN first.id
  ELSE IF r.openTurn # NoTurn THEN r.openTurn
  ELSE SegmentTurn(first)

\* Mutant: a root segment joins the open turn.
TargetOpenTurn(r, first) == r.openTurn

\* target_for_request, then the lookup of the projection among the drafts.
TargetTurn(r, first) ==
  LET open == IF first.previous = 0 /\ ~(CanConnectInterim(r) /\ r.acceptsRoot)
              THEN New ELSE r.openTurn
  IN  IF open = New /\ ProjectedTurn(r, first) \in DOMAIN r.turns
      THEN ProjectedTurn(r, first) ELSE open

\* build_next_asr_request skips plans that are confirmed or belong to a final turn.
PlanIsDropped(r, first, last) ==
  last.to <= r.confirmed \/ ProjectedTurn(r, first) \in r.finalized

\* The first plan that is kept, counted from i; Len + 1 when there is none.
NextPlan(r, q) ==
  LET next[i \in 1..(Len(q) + 1)] ==
        IF i > Len(q) THEN i
        ELSE LET end == i + PlanLength(r, q, i)
             IN  IF PlanIsDropped(r, q[i], q[end - 1]) THEN next[end] ELSE i
  IN  next[1]

SegmentRequest(r, plan) ==
  LET first == plan[1]  last == plan[Len(plan)]
  IN  [kind |-> Kind(first), turn |-> ProjectedTurn(r, first),
       target |-> TargetTurn(r, first),
       revision |-> Revision(r, TargetTurn(r, first)),
       from |-> Min({first.from, last.from}), to |-> Max({first.to, last.to}),
       first |-> SegmentTurn(first), last |-> last.id,
       segments |-> [i \in DOMAIN plan |-> plan[i].id], purpose |-> "None"]

\* Mutant: the request is not remembered as in flight.
SubmitForgets(r, request) == IF r.up THEN [r EXCEPT !.runner = "queued"] ELSE r

\* submit: a runner that is gone refuses the request.
Submit(r, request) ==
  IF r.up THEN [r EXCEPT !.inFlight = request, !.runner = "queued"] ELSE r

\* reset_streaming_sessions, which every end silence close calls: the desktop
\* worker forgets a request it has not started, and no result is sent for it.
ResetStreamingSessions(r) ==
  IF r.runner = "queued" THEN [r EXCEPT !.runner = "lost"] ELSE r

\* Mutant: what a plan took stays in the queue.
DispatchKeepsPlan(r) ==
  IF InFlight(r) THEN r
  ELSE LET q == DropCoveredInterims(r.segments)
           i == NextPlan(r, q)
       IN  IF i > Len(q) THEN [r EXCEPT !.segments = << >>]
           ELSE LET end == i + PlanLength(r, q, i)
                IN  Submit([r EXCEPT !.segments = SubSeq(q, i, Len(q))],
                           SegmentRequest(r, SubSeq(q, i, end - 1)))

\* dispatch_next_asr_request_if_idle.  What a plan took from the queue is gone
\* even when submit fails.
Dispatch(r) ==
  IF InFlight(r) THEN r
  ELSE LET q == DropCoveredInterims(r.segments)
           i == NextPlan(r, q)
       IN  IF i > Len(q) THEN [r EXCEPT !.segments = << >>]
           ELSE LET end == i + PlanLength(r, q, i)
                IN  Submit([r EXCEPT !.segments = SubSeq(q, end, Len(q))],
                           SegmentRequest(r, SubSeq(q, i, end - 1)))

\* dispatch_rerecognition_for_turn_if_idle
CanRerecognize(r, t) == ~InFlight(r) /\ t \in DOMAIN r.turns /\ r.up

Rerecognize(r, t, purpose) ==
  Submit(r, [kind |-> "Rerecognition", turn |-> t, target |-> t,
             revision |-> Revision(r, t),
             from |-> r.turns[t].from, to |-> r.turns[t].to,
             first |-> r.turns[t].first, last |-> r.turns[t].latest,
             segments |-> r.turns[t].audio, purpose |-> purpose])

-----------------------------------------------------------------------------
(* Results: transcription/reducer.rs, flow.rs and turn/transcript.rs. *)

\* The turn of a request that was sent as New and resolved by an earlier result.
Resolved(r, q) == q.target = New /\ q.first \in DOMAIN r.newTurns

UnresolvedNew(r, q) == q.target = New /\ ~Resolved(r, q)

EffectiveTurn(r, q) ==
  IF Resolved(r, q) THEN r.newTurns[q.first] ELSE q.turn

IsStale(r, q) ==
  \/ (IF UnresolvedNew(r, q) THEN 0 ELSE Revision(r, EffectiveTurn(r, q))) # q.revision
  \/ ~UnresolvedNew(r, q) /\ EffectiveTurn(r, q) \in r.finalized
  \/ q.to <= r.confirmed

\* The id a new turn gets: next_turn_id, skipping ids in use.
FreshTurn(r) ==
  LET used == DOMAIN r.turns \union r.finalized
  IN  Min({t \in r.nextTurn..(r.nextTurn + Cardinality(used)) : t \notin used})

TurnOf(r, q) ==
  IF q.target # New THEN q.target
  ELSE IF Resolved(r, q) THEN r.newTurns[q.first] ELSE FreshTurn(r)

Draft(r, t, q) ==
  IF t \in DOMAIN r.turns THEN r.turns[t]
  ELSE [audio |-> << >>, first |-> q.last, latest |-> 0, emitted |-> "never",
        revision |-> Revision(r, t), from |-> q.from, to |-> q.to]

\* apply_segment_transcript
ApplyTranscript(r, q) ==
  LET t     == TurnOf(r, q)
      draft == Draft(r, t, q)
      heard == [draft EXCEPT !.audio = @ \o q.segments,
                             !.latest = q.last,
                             !.emitted = IF @ = "never" THEN @ ELSE "stale",
                             !.from = Min({@, q.from}),
                             !.to = Max({@, q.to})]
  IN  [r EXCEPT !.turns = Put(@, t, heard),
                !.nextTurn = IF UnresolvedNew(r, q) \/ q.target # New
                             THEN Max({@, t + 1}) ELSE @,
                !.newTurns = IF UnresolvedNew(r, q) THEN Put(@, q.first, t) ELSE @]

\* ApplyInterimTranscript
ApplyInterim(r, q) ==
  LET t == TurnOf(r, q)
      s == EmitInterim(ApplyTranscript(r, q), t)
  IN  IF r.openTurn > t THEN s
      ELSE [s EXCEPT !.openTurn = t,
                     !.acceptsRoot = @ /\ r.openTurn = t]

\* rerecognition_purpose_after_completion
CompletionPurpose(r) ==
  IF r.turn.detector \in {"Morph", "Namo"} THEN "GrammarAfterCompletion"
  ELSE IF r.turn.rerecognizeFull THEN "SimpleTurnCheckFinal" ELSE "None"

\* ApplyCompletionTranscript
ApplyCompletion(r, q) ==
  LET t == TurnOf(r, q)
      s == ApplyTranscript(r, q)
  IN  IF CompletionPurpose(r) # "None" /\ CanRerecognize(s, t)
      THEN Rerecognize(s, t, CompletionPurpose(r))
      ELSE CompleteTurn(s, t)

(***************************************************************************)
(* What the turn detector may decide about the text of a turn: a grammar   *)
(* boundary ends it, Namo ends it, or the turn stays open.  Text is        *)
(* abstracted, so each outcome the detector has is possible.               *)
(***************************************************************************)
Decisions(r) ==
  CASE r.turn.detector = "Namo"  -> {"grammar", "namo", "continue"}
    [] r.turn.detector = "Morph" -> {"grammar", "continue"}
    [] OTHER -> {"none"}

\* apply_rerecognition_follow_up
FollowUp(r, t, purpose, decision, tick, interim) ==
  IF purpose # "GrammarAfterCompletion" THEN CompleteTurn(r, t)
  ELSE IF t \notin DOMAIN r.turns THEN r
  ELSE CASE decision = "grammar" -> FinalizeTurnNow(r, t)
         [] decision = "namo" -> CompleteTurn(r, t)
         [] OTHER -> KeepTurnOpen(r, t, tick, interim)

\* apply_rerecognition_transcript: the new text may or may not be the one that
\* was emitted last.
ReplaceText(r, t, emitted) ==
  IF t \in DOMAIN r.turns /\ r.turns[t].emitted # "never"
  THEN [r EXCEPT !.turns[t].emitted = emitted] ELSE r

\* unusable_result_action for a completion of a turn that has text.
FallbackCompletion(r, t, decision, tick, interim) ==
  IF r.turn.detector = "Simple" \/ decision = "namo" THEN CompleteTurn(r, t)
  ELSE KeepTurnOpen(r, t, tick, interim)

Unusable(r, q, decision, tick, interim) ==
  LET s == [r EXCEPT !.unheard = @ \union {q.segments[i] : i \in DOMAIN q.segments}]
      t == EffectiveTurn(r, q)
  IN  CASE q.kind = "Rerecognition" -> FollowUp(r, t, q.purpose, decision, tick, interim)
        [] q.kind = "CompletionCheck" /\ ~UnresolvedNew(r, q) /\ t \in DOMAIN r.turns ->
             FallbackCompletion(s, t, decision, tick, interim)
        [] OTHER -> s

\* apply_completed_asr_result_if_ready
ApplyResult(r, decision, emitted, tick, interim) ==
  LET q == r.inFlight
      s == [r EXCEPT !.inFlight = NoRequest, !.runner = "idle"]
  IN  CASE IsStale(s, q) -> s
        [] ~IsStale(s, q) /\ r.runner = "unusable" -> Unusable(s, q, decision, tick, interim)
        [] OTHER ->
             CASE q.kind = "InterimDisplay"  -> ApplyInterim(s, q)
               [] q.kind = "CompletionCheck" -> ApplyCompletion(s, q)
               [] OTHER -> FollowUp(ReplaceText(s, q.turn, emitted), q.turn,
                                    q.purpose, decision, tick, interim)

-----------------------------------------------------------------------------
(* The turn check silence and the timeout of an open turn. *)

\* promotable_pending_interim_index; 0 when there is none.
PromotableInterim(r, previous) ==
  LET at == {i \in DOMAIN r.segments :
               Kind(r.segments[i]) = "InterimDisplay" /\ r.segments[i].id = previous}
      k == Min(at)
  IN  IF at # {} /\ \A i \in 1..(k - 1) : Kind(r.segments[i]) = "InterimDisplay"
                                           /\ Covers(r.segments[k], r.segments[i])
      THEN k ELSE 0

Promote(r, k) ==
  Dispatch([r EXCEPT !.segments =
    <<[r.segments[k] EXCEPT !.reason = "EndSilenceReached"]>>
      \o SubSeq(r.segments, k + 1, Len(r.segments))])

\* Mutant: a handled turn check stays.
StillChecked(r) == r

Checked(r) == [r EXCEPT !.turnCheck = NoCheck]

\* handle_turn_check_silence_reached for an open turn that ends with the segment
\* the silence followed.
CheckOpenTurn(r, t) ==
  IF CompletionPurpose(r) = "None" THEN Checked(CompleteTurn(r, t))
  ELSE IF CanRerecognize(r, t) THEN Checked(Rerecognize(r, t, CompletionPurpose(r)))
  ELSE IF r.turn.detector = "Simple" THEN Checked(CompleteTurn(r, t))
  ELSE r

HandleTurnCheck(r) ==
  LET previous == r.turnCheck.previous
      t == r.openTurn
  IN  IF t = NoTurn
      THEN IF InFlight(r) THEN r
           ELSE LET k == PromotableInterim(r, previous)
                IN  IF k = 0 THEN Checked(r)
                    ELSE LET s == Promote(r, k)
                         IN  IF InFlight(s) THEN Checked(s) ELSE s
      ELSE IF t \notin DOMAIN r.turns THEN Checked(r)
      ELSE IF r.turns[t].latest # previous THEN Checked(r)
      ELSE IF InFlight(r) THEN r
      ELSE CheckOpenTurn(r, t)

\* Mutant: speech since the origin is ignored.
TimedOutSinceOpened(r, tick, limit) ==
  r.openTurn # NoTurn /\ r.openSince # NoTick /\ tick - r.openSince >= limit

\* timeout::action
OpenTurnTimedOut(r, tick, limit) ==
  /\ r.openTurn # NoTurn
  /\ r.openEpoch = r.epoch
  /\ r.openSince # NoTick
  /\ tick - r.openSince >= limit

\* handle_open_turn_timeout when it times out
TimeoutOpenTurn(r) ==
  LET t == r.openTurn
  IN  IF r.turn.detector # "Simple" /\ CanRerecognize(r, t)
      THEN Rerecognize(r, t, "TimeoutFinal")
      ELSE CompleteTurn(r, t)

\* otherwise: speech since then moves the origin of the timeout.
RefreshTimeout(r, tick) ==
  IF r.openTurn # NoTurn /\ r.openEpoch # r.epoch THEN ResetTimeoutOrigin(r, tick) ELSE r
=============================================================================
