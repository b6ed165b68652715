-------------------------- MODULE StreamingInterim --------------------------
(***************************************************************************)
(* A recognition session whose interim model is a streaming one            *)
(* (Nemotron): every chunk of an active segment is pushed at once to a     *)
(* decoder session that keeps its state, its text replaces the interim     *)
(* text of the segment, and the completion of the segment, an offline      *)
(* recognition of its audio, replaces that.                                *)
(*                                                                         *)
(* The decoder sessions are those of AsrExecutionRuntime in                *)
(* crates/parapper-stt-engine/src/asr.rs.  A text is the sequence of the   *)
(* speech chunks it was recognized from.  Requests, turns and finals are   *)
(* those of RecognitionRuntime; emitted interim results are left out.      *)
(* With a streaming interim model the builder has no interim threshold     *)
(* (segmentation/config.rs:21), so there is no turn check event.           *)
(***************************************************************************)
EXTENDS SegmentBuilder, RecognitionRuntime, SequencesExt

CONSTANTS TurnConfigs       \* the SttTurnConfig values in use

ASSUME StreamingAssumption ==
  /\ TurnConfigs # {} /\ TurnConfigs \subseteq SttTurnConfig
  /\ \A c \in Configs : c.interim = 0

VARIABLES session,   \* the RecognitionSession and its AsrExecutionRuntime
          phase      \* of the host's loop

vars == <<builderVars, session, phase>>

NoInterim == [display |-> 0]
NoSegmentTaken == [id |-> 0]

(***************************************************************************)
(* active is InterimAsrState.streaming.active; every chunk it has is       *)
(* already emitted.  taken is the segment of the request in flight, text   *)
(* what its result says.  streams holds, per AsrStreamingSessionKey, the   *)
(* chunks the decoder session has been fed.  completed is history: the     *)
(* speech that applied offline results were recognized from.               *)
(***************************************************************************)
Session0(turn) ==
  Runtime0(turn) @@ [active |-> NoInterim, taken |-> NoSegmentTaken, text |-> << >>,
                     streams |-> << >>, streamRanges |-> << >>, completed |-> {}]

Positions(chunks) == [i \in DOMAIN chunks |-> chunks[i].at]
Speech(chunks) == Positions(SelectSeq(chunks, LAMBDA c : c.speech))
Source(chunks) == SelectSeq(chunks, LAMBDA c : c.source)

-----------------------------------------------------------------------------
(* The segment events of a frame. *)

\* start_streaming_segment and extend_streaming_segment: a child that follows
\* the current segment goes on under the id displayed so far.  (It starts with
\* no pre-speech, so that no audio overlaps.)
Interim(r, e, cursor) ==
  LET a == r.active
      interim == IF a # NoInterim /\ a.current \in {e.id, e.previous}
                 THEN [a EXCEPT !.current = e.id, !.chunks = @ \o e.chunks]
                 ELSE [display |-> e.id, current |-> e.id,
                       from |-> cursor - Len(e.chunks), chunks |-> e.chunks]
  IN  [r EXCEPT !.active = interim,
                !.epoch = @ + 1,
                !.segments = Append(@,
                  [id |-> interim.display, previous |-> NoSegment,
                   reason |-> "InterimChunkReached", from |-> interim.from,
                   to |-> interim.from + Len(interim.chunks),
                   chunks |-> interim.chunks, source |-> interim.chunks, delta |-> e.chunks])]

\* reset_interim_streaming_for_completion
ResetInterim(r, id) ==
  LET ends == r.active # NoInterim /\ r.active.current = id
      ids  == {id} \union IF ends THEN {r.active.display} ELSE {}
  IN  [ResetStreamingSessions(r) EXCEPT
         !.active = IF ends THEN NoInterim ELSE @,
         !.segments = SelectSeq(@, LAMBDA s : s.reason # "InterimChunkReached" \/ s.id \notin ids),
         !.streams = << >>]

Closed(r, e, cursor) ==
  LET s == IF e.reason = "EndSilenceReached" THEN ResetInterim(r, e.id) ELSE r
  IN  [s EXCEPT !.segments = Append(@,
         [id |-> e.id, previous |-> e.previous, reason |-> e.reason,
          from |-> cursor - Len(e.chunks), to |-> cursor,
          chunks |-> e.chunks, source |-> Source(e.chunks), delta |-> << >>])]

\* push_segment_event_frame
AbsorbEvents(r, evs, cursor) ==
  FoldLeft(LAMBDA s, e : IF e.type = "SegmentClosed" THEN Closed(s, e, cursor)
                         ELSE Interim(s, e, cursor), r, evs)

PushFrame(speech) ==
  /\ phase = "Running"
  /\ Push(speech)
  /\ session' = AbsorbEvents(session, events', frames')
  /\ UNCHANGED phase

-----------------------------------------------------------------------------
(* AsrExecutionRuntime: execute, and the start, push and cancel of streams. *)

StreamKey(q) == <<q.turn, q.last>>
IsDelta(r) == r.inFlight.kind = "InterimDisplay"

\* Mutant: every delta replays the audio of the segment.
FedAgain(r) ==
  LET k == StreamKey(r.inFlight)
  IN  (IF k \in DOMAIN r.streams THEN r.streams[k] ELSE << >>) \o r.taken.chunks

Fed(r) ==
  LET k == StreamKey(r.inFlight)
  IN  (IF k \in DOMAIN r.streams THEN r.streams[k] ELSE << >>) \o r.taken.delta

\* execute_streaming: the first delta starts the stream, each is pushed.
PushStream(r) ==
  [r EXCEPT !.streams = Put(@, StreamKey(r.inFlight), Fed(r)), !.text = Speech(Fed(r))]

\* Any other request cancels the streams of the source, then runs offline on
\* the audio of its segment or, for a whole turn, on the audio of the draft.
RecognizeOffline(r) ==
  LET q == r.inFlight
      parts == [i \in DOMAIN q.segments |-> q.segments[i].source]
  IN  [r EXCEPT !.streams = << >>,
                !.text = IF q.kind = "Rerecognition" THEN Speech(FlattenSeq(parts))
                         ELSE Speech(r.taken.chunks)]

\* The worker takes the request and executes it, with the text it recognizes,
\* without any, or with an error, which cancels the stream.  What happens to the
\* streams while it executes comes before or after it in the worker's channel.
Executed(r) == IF IsDelta(r) THEN PushStream(r) ELSE RecognizeOffline(r)
Failed(r) ==
  [r EXCEPT !.streams = IF IsDelta(r) THEN Without(@, {StreamKey(r.inFlight)}) ELSE << >>]

Execute ==
  /\ phase # "Done"
  /\ session.runner = "queued"
  /\ \/ session' = [Executed(session) EXCEPT !.runner = "usable"]
     \/ session' = [Executed(session) EXCEPT !.runner = "unusable", !.text = << >>]
     \/ session' = [Failed(session) EXCEPT !.runner = "unusable"]
  /\ UNCHANGED <<builderVars, phase>>

-----------------------------------------------------------------------------
(* turn/transcript.rs: how a text gets into the draft of its turn. *)

\* completion_replaces_streaming_interim
MeetsStream(r, t, q) ==
  /\ q.kind = "CompletionCheck" /\ r.taken.reason = "EndSilenceReached"
  /\ t \in DOMAIN r.streamRanges /\ q.from < r.streamRanges[t].to
  /\ t \in DOMAIN r.turns /\ r.turns[t].latest = q.first

ReplacesStream(r, t, q) == MeetsStream(r, t, q) /\ q.from <= r.streamRanges[t].from

\* streaming_interim_completion_source_overlap_offset: what the stream has heard
\* of the child segment that is completed.
HasOverlap(r, t, q) == MeetsStream(r, t, q) /\ ~ReplacesStream(r, t, q) /\ q.last # q.first
OverlapOffset(r, t, q) ==
  IF HasOverlap(r, t, q)
  THEN Min({r.streamRanges[t].to - q.from, Len(r.taken.source)}) ELSE 0

After(chunks, offset) == SubSeq(chunks, offset + 1, Len(chunks))

\* Mutant: what the stream has heard needs no completion, child or not.
IsHeardTail(r, t, q) ==
  /\ MeetsStream(r, t, q)
  /\ Speech(After(r.taken.source, r.streamRanges[t].to - q.from)) = << >>

\* completion_is_duplicate_tail
IsDuplicateTail(r, t, q) ==
  HasOverlap(r, t, q) /\ Speech(After(r.taken.source, OverlapOffset(r, t, q))) = << >>

\* Mutant: only a longer version of the same audio replaces it.
ReplacesPrefix(r, t, q, draft) ==
  /\ draft.latest = q.last
  /\ \/ r.taken.reason = "InterimChunkReached"
     \/ (draft.audio # << >> /\ IsPrefix(Last(draft.audio).source, r.taken.source))

\* latest_segment_audio_is_prefix, and the conditions of replace_latest
ReplacesLatest(r, t, q, draft) ==
  \/ /\ draft.latest = q.last
     /\ \/ r.taken.reason = "InterimChunkReached"
        \/ (draft.audio # << >> /\ IsPrefix(Last(draft.audio).source, r.taken.source))
  \/ ReplacesStream(r, t, q)

\* record_recognized_segment.  A part of the draft is a segment with its audio
\* and its text.
Recorded(r, t, q, draft) ==
  LET kept == IF ReplacesLatest(r, t, q, draft) /\ draft.audio # << >>
              THEN Front(draft.audio) ELSE draft.audio
  IN  Append(kept, [id |-> q.last, text |-> r.text,
                    source |-> After(r.taken.source, OverlapOffset(r, t, q))])

StreamRanges(r, t, q) ==
  IF r.taken.reason = "InterimChunkReached"
  THEN LET old == IF t \in DOMAIN r.streamRanges THEN r.streamRanges[t]
                  ELSE [from |-> q.from, to |-> q.to]
       IN  Put(r.streamRanges, t, [from |-> Min({old.from, q.from}), to |-> Max({old.to, q.to})])
  ELSE IF ReplacesStream(r, t, q) THEN Without(r.streamRanges, {t}) ELSE r.streamRanges

\* apply_segment_transcript
ApplyText(r, q) ==
  LET t == TurnOf(r, q)
      draft == Draft(r, t, q)
      s == ApplyTranscript(r, [q EXCEPT !.segments = << >>])
  IN  IF IsDuplicateTail(r, t, q)
      THEN [s EXCEPT !.turns[t].audio = draft.audio, !.turns[t].latest = draft.latest]
      ELSE [s EXCEPT !.turns[t].audio = Recorded(r, t, q, draft),
                     !.streamRanges = StreamRanges(r, t, q)]

ApplyInterimText(r, q) ==
  LET t == TurnOf(r, q)
      s == ApplyText(r, q)
  IN  IF r.openTurn > t THEN s
      ELSE [s EXCEPT !.openTurn = t, !.acceptsRoot = @ /\ r.openTurn = t]

\* The history variable.
Completed(r, t, text) ==
  [r EXCEPT !.completed = @ \union {[turn |-> t, at |-> at] : at \in Range(text)}]

ApplyCompletionText(r, q) ==
  LET t == TurnOf(r, q)
      s == Completed(ApplyText(r, q), t, r.text)
  IN  IF CompletionPurpose(r) # "None" /\ CanRerecognize(s, t)
      THEN Rerecognize(s, t, CompletionPurpose(r))
      ELSE CompleteTurn(s, t)

\* replace_text_preserving_sources: one text for all the segments.
WholeTurnText(r, t) ==
  IF t \notin DOMAIN r.turns THEN r
  ELSE LET n == Len(r.turns[t].audio)
       IN  [Completed(r, t, r.text) EXCEPT !.turns[t].audio =
              [i \in 1..n |-> [@[i] EXCEPT !.text = IF i = n THEN r.text ELSE << >>]]]

Forgotten(r) == [r EXCEPT !.taken = NoSegmentTaken, !.text = << >>]

\* apply_completed_asr_result_if_ready; the request is no more in flight.
Applied(r, decision) ==
  LET q == r.inFlight
      idle == [r EXCEPT !.inFlight = NoRequest, !.runner = "idle"]
      next == CASE IsStale(r, q) -> idle
                [] ~IsStale(r, q) /\ r.runner = "unusable" ->
                     IF q.kind = "InterimDisplay" THEN idle
                     ELSE Unusable(idle, q, decision, frames, FALSE)
                [] OTHER ->
                     CASE q.kind = "InterimDisplay"  -> ApplyInterimText(idle, q)
                       [] q.kind = "CompletionCheck" -> ApplyCompletionText(idle, q)
                       [] OTHER -> FollowUp(WholeTurnText(idle, q.turn), q.turn, q.purpose,
                                            decision, frames, FALSE)
  IN  Forgotten(next)
\* dispatch_next_asr_request_if_idle.  A plan is one segment here: what follows
\* it is a completion or a delta, which has no previous segment.
DispatchSegment(r) ==
  LET q == DropCoveredInterims(r.segments)
      s == Dispatch(r)
  IN  IF InFlight(r) \/ ~InFlight(s) THEN s
      ELSE [s EXCEPT !.taken = q[Len(q) - Len(s.segments)]]

-----------------------------------------------------------------------------
TimeoutTicks == config.timeout

FinalizationReady ==
  session.finalization # NoTurn /\ ~FinalizationIsBlocked(session, session.finalization)

ApplyAnswer ==
  /\ ResultReady(session)
  /\ \E decision \in Decisions(session) : session' = Applied(session, decision)

FinalizePending ==
  /\ ~ResultReady(session) /\ FinalizationReady
  /\ session' = FinalizeTurnNow([session EXCEPT !.finalization = NoTurn], session.finalization)

TimeoutOrDispatch ==
  /\ ~ResultReady(session) /\ ~FinalizationReady
  /\ session' = IF OpenTurnTimedOut(session, frames, TimeoutTicks) THEN TimeoutOpenTurn(session)
                ELSE DispatchSegment(RefreshTimeout(session, frames))

\* RecognitionDriver::step
Step ==
  /\ phase = "Running" \/ (phase = "Draining" /\ HasPendingWork(session))
  /\ ApplyAnswer \/ FinalizePending \/ TimeoutOrDispatch
  /\ UNCHANGED <<builderVars, phase>>

\* shutdown_flush_and_drain
StopGracefully ==
  /\ phase = "Running"
  /\ Flush
  /\ session' = AbsorbEvents(session, events', frames)
  /\ phase' = "Draining"

FinishDrain ==
  /\ phase = "Draining" /\ ~HasPendingWork(session)
  /\ session' = IF session.openTurn = NoTurn THEN session
                ELSE CompleteTurn(session, session.openTurn)
  /\ phase' = "Done"
  /\ UNCHANGED builderVars

Init ==
  /\ BuilderInit
  /\ session \in {Session0(turn) : turn \in TurnConfigs}
  /\ phase = "Running"

Next ==
  \/ \E speech \in BOOLEAN : PushFrame(speech)
  \/ Step
  \/ Execute
  \/ StopGracefully
  \/ FinishDrain

Spec == Init /\ [][Next]_vars

-----------------------------------------------------------------------------
Finals == {o \in session.out : o.final}
TextOf(parts) == FlattenSeq([i \in DOMAIN parts |-> parts[i].text])
CompletedIn(t) == {c.at : c \in {d \in session.completed : d.turn = t}}

(***************************************************************************)
(* The decoder is stateful: what one decoder session is fed is audio       *)
(* without a gap and without a repetition, and a source never has a second *)
(* session next to a forgotten first one, whatever deltas are dropped, lost *)
(* or fail (the lifecycle of AsrExecutionRuntime.streams).  With a length  *)
(* limit that is met a session may be left behind.                         *)
(***************************************************************************)
InterimStreamContinuous ==
  /\ Cardinality(DOMAIN session.streams) <= 1
  /\ \A k \in DOMAIN session.streams :
       LET fed == session.streams[k]
       IN  \A i \in 1..(Len(fed) - 1) : fed[i + 1].at = fed[i].at + 1

(***************************************************************************)
(* The text of a final has no speech twice and keeps its order, although   *)
(* the interim text of a segment, its completion and the recognition of    *)
(* the whole turn are all about the same audio and padding is shared by    *)
(* neighbours.  (A completion without text leaves the range of the stream  *)
(* behind, and the next completion of an open turn no longer replaces its  *)
(* interim text: sessions with such a completion are excepted.)            *)
(***************************************************************************)
FinalTextOnce ==
  session.unheard = {} => \A o \in Finals :
     LET text == TextOf(o.audio)
     IN  \A i \in 1..(Len(text) - 1) : text[i] < text[i + 1]

(***************************************************************************)
(* A final shows what offline recognition found, as the architecture       *)
(* document says: no text of a completed segment is lost to a later        *)
(* interim text, and interim text reaches a final only in place of a       *)
(* completion that found nothing.  With a length limit that is met this    *)
(* fails: the stream goes on under the id of the completed segment.        *)
(***************************************************************************)
FinalIsOffline ==
  \A o \in Finals :
     LET text == Range(TextOf(o.audio))
     IN  /\ CompletedIn(o.turn) \subseteq text
         /\ session.unheard = {} => text \subseteq CompletedIn(o.turn)

=============================================================================
