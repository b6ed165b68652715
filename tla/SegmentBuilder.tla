--------------------------- MODULE SegmentBuilder ---------------------------
(***************************************************************************)
(* The segment builder of crates/parapper-stt-engine: it turns the chunks  *)
(* that the voice activity detector (VAD) has classified into the segments *)
(* that are sent to speech recognition.  One action per arm of             *)
(* SegmentBuilder::push, plus update_config and flush.                     *)
(*                                                                         *)
(* The samples of a chunk are abstracted to its position in the input.     *)
(* Thresholds are already in chunks (SegmentBuilderConfig).                *)
(***************************************************************************)
EXTENDS Integers, Sequences, FiniteSetsExt

CONSTANTS Configs,      \* the SegmentBuilderConfig values in use
          MaxFrames     \* bound: number of chunks pushed

(***************************************************************************)
(* interim = 0 is interim_result_threshold = None.  chunks_for_millis      *)
(* never returns less than one chunk.  timeout, which the builder does not *)
(* read, is what turn/timeout.rs makes of the same turn check setting: the *)
(* ticks an open turn waits.  It doubles the setting before it rounds up,  *)
(* so that it may be one less than twice the turn check in chunks.         *)
(***************************************************************************)
SegmentBuilderConfig ==
  [start : Nat \ {0}, interim : Nat, turnCheck : Nat \ {0}, timeout : Nat \ {0},
   maxChunks : Nat \ {0}]

ASSUME ConfigsAssumption == Configs # {} /\ Configs \subseteq SegmentBuilderConfig
ASSUME TimeoutAssumption ==
  \A c \in Configs : c.timeout \in {2 * c.turnCheck - 1, 2 * c.turnCheck}
ASSUME MaxFramesAssumption == MaxFrames \in Nat

VARIABLES config,           \* SegmentBuilder.config
          state,            \* SegmentBuilder.state
          nextSegmentId,    \* SegmentBuilder.next_segment_id
          pendingPrevious,  \* SegmentBuilder.pending_previous_segment_id
          frames,           \* chunks pushed so far
          events            \* what the last call returned

builderVars == <<config, state, nextSegmentId, pendingPrevious, frames, events>>

NoSegment == 0    \* Option<u64>::None for segment ids, which start at 1

-----------------------------------------------------------------------------
\* Chunks, buffers and states.

Chunk == [at : Nat, speech : BOOLEAN, source : BOOLEAN]

\* SegmentChunk::into_asr_padding: copied audio that is not Turn audio.
Padding(chunks) == [i \in DOMAIN chunks |-> [chunks[i] EXCEPT !.source = FALSE]]

\* Mutant: pre-speech is never pruned.
KeepAll(chunks, max) == chunks

\* Mutant: the newest chunks are pruned.
KeepOldest(chunks, max) == SubSeq(chunks, 1, IF Len(chunks) > max THEN max ELSE Len(chunks))

\* PreSegmentBuffer::prune with pre_speech_max_chunks, which is the turn check
\* threshold: the newest chunks stay.
Prune(chunks, max) ==
  SubSeq(chunks, IF Len(chunks) > max THEN Len(chunks) - max + 1 ELSE 1, Len(chunks))

\* trailing_silence_chunks
TrailingSilence(chunks) ==
  LET spoken == {i \in DOMAIN chunks : chunks[i].speech}
  IN  SubSeq(chunks, (IF spoken = {} THEN 0 ELSE Max(spoken)) + 1, Len(chunks))

Idle(pre, pending) == [kind |-> "Idle", pre |-> pre, pending |-> pending]

AfterInterim(pre, pending, previous, silence) ==
  [kind |-> "AfterInterimSilence", pre |-> pre, pending |-> pending,
   previous |-> previous, silence |-> silence]

\* SegmentInProgress as it is right after its SegmentStarted event.
Started(id, previous, chunks) ==
  [kind |-> "Active", id |-> id, previous |-> previous, chunks |-> chunks,
   audioChunks |-> config.start, silence |-> 0]

SegmentStarted(id, previous, chunks) ==
  [type |-> "SegmentStarted", id |-> id, previous |-> previous, chunks |-> chunks]
SegmentExtended(active, chunk) ==
  [type |-> "SegmentExtended", id |-> active.id, previous |-> active.previous,
   chunks |-> <<chunk>>]
SegmentClosed(active, reason) ==
  [type |-> "SegmentClosed", id |-> active.id, previous |-> active.previous,
   chunks |-> active.chunks, reason |-> reason]
TurnCheckSilenceReached(previous) ==
  [type |-> "TurnCheckSilenceReached", previous |-> previous]

-----------------------------------------------------------------------------
BuilderInit ==
  /\ config \in Configs
  /\ state = Idle(<< >>, << >>)
  /\ nextSegmentId = 1
  /\ pendingPrevious = NoSegment
  /\ frames = 0
  /\ events = << >>

Waiting == state.kind \in {"Idle", "AfterInterimSilence"}

\* Fewer speech chunks than segment_start_threshold: hold them back.
HoldSpeech(chunk) ==
  /\ Waiting /\ chunk.speech
  /\ Len(state.pending) + 1 < config.start
  /\ state' = [state EXCEPT !.pending = Append(@, chunk)]
  /\ events' = << >>
  /\ UNCHANGED <<nextSegmentId, pendingPrevious>>

\* Enough speech in Idle.  A pending previous segment makes this its child.
StartFromIdle(chunk) ==
  /\ state.kind = "Idle" /\ chunk.speech
  /\ Len(state.pending) + 1 >= config.start
  /\ LET chunks == state.pre \o Append(state.pending, chunk)
     IN  /\ state' = Started(nextSegmentId, pendingPrevious, chunks)
         /\ events' = <<SegmentStarted(nextSegmentId, pendingPrevious, chunks)>>
  /\ nextSegmentId' = nextSegmentId + 1
  /\ pendingPrevious' = NoSegment

\* Mutant: the speech held back is forgotten.
StartWithoutPending(chunk) ==
  /\ state.kind = "AfterInterimSilence" /\ chunk.speech
  /\ Len(state.pending) + 1 >= config.start
  /\ LET chunks == Append(state.pre, chunk)
     IN  /\ state' = Started(nextSegmentId, state.previous, chunks)
         /\ events' = <<SegmentStarted(nextSegmentId, state.previous, chunks)>>
  /\ nextSegmentId' = nextSegmentId + 1
  /\ UNCHANGED pendingPrevious

\* Enough speech after an interim close: always the child of that segment.
StartAfterInterim(chunk) ==
  /\ state.kind = "AfterInterimSilence" /\ chunk.speech
  /\ Len(state.pending) + 1 >= config.start
  /\ LET chunks == state.pre \o Append(state.pending, chunk)
     IN  /\ state' = Started(nextSegmentId, state.previous, chunks)
         /\ events' = <<SegmentStarted(nextSegmentId, state.previous, chunks)>>
  /\ nextSegmentId' = nextSegmentId + 1
  /\ UNCHANGED pendingPrevious

\* Mutant: pending speech is not moved.
PreWithoutPending(chunk) == Prune(Append(state.pre, chunk), config.turnCheck)

\* move_pending_speech_to_pre_speech, then the silent chunk.
PreWithSilence(chunk) == Prune(state.pre \o Append(state.pending, chunk), config.turnCheck)

\* Mutant: silence does not end the chain of the length limit.
IdleSilenceKeepsPrevious(chunk) ==
  /\ state.kind = "Idle" /\ ~chunk.speech
  /\ state' = Idle(PreWithSilence(chunk), << >>)
  /\ events' = << >>
  /\ UNCHANGED <<nextSegmentId, pendingPrevious>>

IdleSilence(chunk) ==
  /\ state.kind = "Idle" /\ ~chunk.speech
  /\ state' = Idle(PreWithSilence(chunk), << >>)
  /\ pendingPrevious' = NoSegment
  /\ events' = << >>
  /\ UNCHANGED nextSegmentId

AfterInterimSilence(chunk) ==
  /\ state.kind = "AfterInterimSilence" /\ ~chunk.speech
  /\ state.silence + 1 < config.turnCheck
  /\ state' = AfterInterim(PreWithSilence(chunk), << >>, state.previous, state.silence + 1)
  /\ events' = << >>
  /\ UNCHANGED <<nextSegmentId, pendingPrevious>>

AfterInterimTurnCheck(chunk) ==
  /\ state.kind = "AfterInterimSilence" /\ ~chunk.speech
  /\ state.silence + 1 >= config.turnCheck
  /\ state' = Idle(PreWithSilence(chunk), << >>)
  /\ events' = <<TurnCheckSilenceReached(state.previous)>>
  /\ UNCHANGED <<nextSegmentId, pendingPrevious>>

-----------------------------------------------------------------------------
\* Speech that returns after a short silence closes the segment for an interim
\* result; the chunk belongs to what comes next.
InterimDue(chunk) ==
  /\ chunk.speech
  /\ config.interim # 0
  /\ state.silence >= config.interim
  /\ state.silence < config.turnCheck

InterimClose(chunk) ==
  /\ state.kind = "Active"
  /\ InterimDue(chunk)
  /\ LET closed == SegmentClosed(state, "InterimResultSilenceReached")
         silent == TrailingSilence(state.chunks)
         pre    == Prune(Padding(silent), config.turnCheck)
         chunks == Append(pre, chunk)
     IN  IF config.start <= 1
         THEN /\ state' = Started(nextSegmentId, state.id, chunks)
              /\ events' = <<closed, SegmentStarted(nextSegmentId, state.id, chunks)>>
              /\ nextSegmentId' = nextSegmentId + 1
         ELSE /\ state' = AfterInterim(pre, <<chunk>>, state.id, Len(silent))
              /\ events' = <<closed>>
              /\ UNCHANGED nextSegmentId
  /\ UNCHANGED pendingPrevious

\* The active segment with one more chunk.
Extended(chunk) ==
  [state EXCEPT !.chunks = Append(@, chunk),
                !.audioChunks = @ + 1,
                !.silence = IF chunk.speech THEN 0 ELSE @ + 1]

ActiveExtend(chunk) ==
  /\ state.kind = "Active"
  /\ ~InterimDue(chunk)
  /\ LET active == Extended(chunk)
     IN  /\ active.audioChunks < config.maxChunks
         /\ active.silence < config.turnCheck
         /\ state' = active
         /\ events' = <<SegmentExtended(state, chunk)>>
  /\ UNCHANGED <<nextSegmentId, pendingPrevious>>

\* The length limit is tested before the end silence.
MaxChunksClose(chunk) ==
  /\ state.kind = "Active"
  /\ ~InterimDue(chunk)
  /\ LET active == Extended(chunk)
     IN  /\ active.audioChunks >= config.maxChunks
         /\ events' = <<SegmentExtended(state, chunk),
                        SegmentClosed(active, "SegmentMaxChunksReached")>>
  /\ state' = Idle(<< >>, << >>)
  /\ pendingPrevious' = state.id
  /\ UNCHANGED nextSegmentId

\* Mutant: the closing silence is kept as audio.
IdleWithAudio(active) ==
  Idle(Prune(TrailingSilence(active.chunks), config.turnCheck), << >>)

\* state_after_close for EndSilenceReached: the closing silence is kept as padding.
IdleAfterEnd(active) ==
  Idle(Prune(Padding(TrailingSilence(active.chunks)), config.turnCheck), << >>)

EndSilenceClose(chunk) ==
  /\ state.kind = "Active"
  /\ ~InterimDue(chunk)
  /\ LET active == Extended(chunk)
     IN  /\ active.audioChunks < config.maxChunks
         /\ active.silence >= config.turnCheck
         /\ state' = IdleAfterEnd(active)
         /\ events' = <<SegmentExtended(state, chunk),
                        SegmentClosed(active, "EndSilenceReached")>>
  /\ pendingPrevious' = NoSegment
  /\ UNCHANGED nextSegmentId

PushChunk(chunk) ==
  \/ HoldSpeech(chunk)
  \/ StartFromIdle(chunk)
  \/ StartAfterInterim(chunk)
  \/ IdleSilence(chunk)
  \/ AfterInterimSilence(chunk)
  \/ AfterInterimTurnCheck(chunk)
  \/ InterimClose(chunk)
  \/ ActiveExtend(chunk)
  \/ MaxChunksClose(chunk)
  \/ EndSilenceClose(chunk)

\* SegmentBuilder::push of the next chunk of the input.
Push(speech) ==
  /\ frames < MaxFrames
  /\ PushChunk([at |-> frames, speech |-> speech, source |-> TRUE])
  /\ frames' = frames + 1
  /\ UNCHANGED config

-----------------------------------------------------------------------------
\* SegmentBuilder::update_config: an active segment keeps all of its chunks.
UpdateConfig(next) ==
  /\ config' = next
  /\ state' = IF state.kind = "Active" THEN state
              ELSE [state EXCEPT !.pre = Prune(@, next.turnCheck)]
  /\ events' = << >>
  /\ UNCHANGED <<nextSegmentId, pendingPrevious, frames>>

\* SegmentBuilder::flush
FlushActive ==
  /\ state.kind = "Active"
  /\ state' = IdleAfterEnd(state)
  /\ pendingPrevious' = NoSegment
  /\ events' = <<SegmentClosed(state, "EndSilenceReached")>>

FlushAfterInterim ==
  /\ state.kind = "AfterInterimSilence"
  /\ state' = Idle(<< >>, << >>)
  /\ pendingPrevious' = NoSegment
  /\ events' = <<TurnCheckSilenceReached(state.previous)>>

FlushIdle ==
  /\ state.kind = "Idle"
  /\ events' = << >>
  /\ UNCHANGED <<state, pendingPrevious>>

Flush ==
  /\ FlushActive \/ FlushAfterInterim \/ FlushIdle
  /\ UNCHANGED <<config, nextSegmentId, frames>>

BuilderNext ==
  \/ \E speech \in BOOLEAN : Push(speech)
  \/ \E next \in Configs : UpdateConfig(next)
  \/ Flush

BuilderSpec == BuilderInit /\ [][BuilderNext]_builderVars
=============================================================================
