# Verification of Parapper ASR

TLA+ models of Parapper: of its recognition core, of the threads and sessions
around it, of the delivery of its text and of the download of its models. What is
modelled, what TLC checks on small instances, what TLAPS proves for every value of
the constants, and what is left. Paths are those of the repository.

## 1. The system

Parapper captures audio from one or more sources, cuts it into speech
*segments*, recognizes segments, joins them into *turns* and delivers partial
and final texts of turns to a GUI, to HTTP endpoints, to translation and speech
synthesis, and over a WebSocket protocol.

| Component | State | Operations | Talks to |
|---|---|---|---|
| Segmentation (`crates/parapper-stt-engine/src/segmentation`) | idle / after interim / active segment, pre-speech buffer, speech held back, next segment id | `push`, `update_config`, `flush` | returns events to the driver |
| Engine driver and session (`driver.rs`, `session.rs`, `runtime.rs`, `ports.rs`) | pending segments, pending turn check, deferred finalization, the one request in flight, open turn, drafts, activity epoch and tick | `push_vad_frame`, `step`, `flush_input`, `finalize_open_turn_after_drain`, `update_runtime_parameters` | segmentation (calls), request runner (`submit`, `try_recv_result`), output sink (calls) |
| Transcription (`transcription/`) | queue of segments, `pending_new_turns` | dispatch, plans, targets, reducer of results | turn core |
| Turn core (`turn/`) | drafts, final turns, confirmed sample, open turn and its timeout origin | turn check, timeout, finalization, grammar decision | output sink |
| ASR execution runtime (`asr.rs`, `offline.rs`) | streaming recognizer sessions per source and model | `execute`, resets | models |
| Desktop ASR worker (`src-tauri/src/recognition/asr_worker.rs`) | command channel, per model and per source queues and rotation lists, lanes | `submit`, `reset_streaming_sessions`, `try_recv_result`, `shutdown`, the worker's loop | lanes of several engines |
| Desktop driver (`recognition/driver.rs`) | the engine driver | loop step, graceful shutdown with a time limit, cancel | engine |
| Source scheduler (`recognition/input.rs`, `input_source.rs`, `audio/input.rs`) | bounded input queues, pending chunks and frames, ready list, stop mode, capture streams and demux threads | one chunk per turn of a source, end, drain and stop of each source | drivers, capture threads |
| WebSocket server (`crates/parapper-stt-server`) | per connection the protocol state, the session it holds and the thread that finishes it; a stop flag | start, audio, stop, cancel, ping, disconnect, shutdown | a backend session |
| Application state (`src-tauri/src/state.rs`) | the one session slot and its owner, the streaming server | start and stop of desktop and network recognition, start and stop of the server | workers, server |
| Delivery (`src-tauri/src/delivery`) | bounded queue per HTTP profile, sources in flight, ready list, `reserved`, worker threads | enqueue, take, send, finish | HTTP |
| Translation (`translation/`), synthesis (`synthesis/`), playback | queues per source, rotation, one worker thread each | enqueue with replacement of stale jobs, take, run | models, HTTP, audio output |
| Model manager (`src-tauri/src/model`) | files and archives on disk, temporary files, `.extracting` directories, markers | `download_models`, `download_local_translation_model`, installation status | network, disk |
| Models, audio devices, settings, frontend, tools | — | inference, I/O, conversions | — |

What makes it hard:

* The host pushes any number of VAD frames between two steps, and the runner
  answers at any time: every decision of `step` uses state (open turn, queue,
  epoch, in-flight request) that has moved on since the event it is about.
* Segments are closed early for interim results, so an utterance reaches
  recognition in pieces that have to be joined again, while the turn they belong
  to may be checked, timed out, deferred or finalized.
* Ids exist twice: segment ids, and turn ids that are only given out with the
  first usable text. Several decisions compare one with the other.
* Requests are lost (source resets, a worker that is gone), recognized without
  text, or answered late; a graceful stop must still end.
* One worker serves several lanes and models and has to be fair and source-local;
  so do one scheduler thread and one thread each for translation and speech.
* A recognition is owned by the desktop or by a connection. Its stop is begun by
  one thread, waited for by another and raced by a disconnect, a cancel, a server
  stop, the end of its input and the time limit of its drain; any thread that is
  needed for it may fail to start.
* Several threads serve one HTTP profile, but the events of a source must arrive
  in order; queued translations and speech are replaced by newer ones.
* Downloads are async commands that nothing keeps apart, over files that survive
  the application: each may fail or be cut off between any two file operations.

What makes each component correct: segmentation neither repeats nor loses
accepted audio and marks children exactly when speech continued; the engine's
outputs are numbered without gaps, no output follows a final, finals come in
turn order, every segment ends in one final, in spoken order, and nothing is left
waiting; the ASR worker answers or accounts for every request and lets neither a
source nor a model monopolize it; the scheduler gives every source its turn and a
graceful stop loses no captured chunk; a session's `session.done` comes after
everything it promises, nobody stops another's recognition and none runs
unreachable; accepted text events are sent in order, and the final text of a turn
is the last one that is translated and spoken; what counts as installed is whole.
The properties below say this precisely; the code keeps most of them, and
section 6 lists where it disagrees with its docs.

## 2. Modules

| Module | Models |
|---|---|
| `SegmentBuilder` | `segmentation/{builder,buffer,config}.rs`: one action per arm of `push`, `update_config`, `flush` |
| `SegmentHistory` | the same with history variables (what was pushed, what closed segments carried) and the segmentation properties |
| `TurnOutput` | abstract: what the output sink is promised |
| `RecognitionRuntime` | the session's record of state, and every handler of `transcription/` and `turn/` as an operator on it |
| `RecognitionEngine` | `SegmentBuilder` composed with the session, its host (frames, steps, graceful stop, cancel), and the request runner; implements `TurnOutput` |
| `RecognitionEngine_proofs` | proofs that the engine keeps that promise, and of its types, the place of every segment and its timeout; that the segments its builder closes have the right audio, length and parent |
| `RecognitionTurns_proofs` | proofs about the turns of the engine: that a completed drain leaves no draft, and that finals in turn order are in spoken order |
| `StreamingInterim` | the session and the decoder sessions of `asr.rs` with a streaming interim model: `SegmentBuilder` and the handlers of `RecognitionRuntime`, with the texts that `turn/transcript.rs` puts together |
| `AsrWorker` | `asr_worker.rs`: lanes, channel, `PendingAsrRequests`, the worker's thread |
| `AsrWorker_proofs` | proofs that requests are accounted for, resets keep their order and nobody monopolizes the worker |
| `SourceScheduler` | `recognition/input.rs` and `audio/input.rs`: capture, demux and bounded queues of several sources, the scheduler thread, source ends and stops |
| `SourceScheduler_proofs` | proofs that every source has its turn, a graceful stop loses nothing and a dropped request is waited for in vain |
| `RecognitionOwner` | `state.rs` and `recognition/commands.rs`: session slot, streaming server and desktop commands, and a recognition worker as its owner sees it |
| `StreamSession` | `parapper-stt-server`: `RecognitionOwner` composed with the connections of the server and its backend (`streaming.rs`) |
| `StreamSession_proofs` | proofs of the ownership of recognitions and of what `session.done` means |
| `TextDelivery` | `delivery`, `translation` and `synthesis`, fed by `TurnOutput`: it EXTENDS the contract the engine is shown to implement |
| `TextDelivery_proofs` | proofs of order and accounting of the HTTP router |
| `ModelDownload` | `model/manager.rs`: the download commands over a disk that survives a crash |
| `ModelDownload_proofs` | proofs of its three properties |
| `SequenceFilter` | `Only(q, S)`, the elements of a sequence that are in a set: what `retain` and `VecDeque` filters of the worker and the scheduler do |
| `Ordering_proofs` | what several proofs share: what `Only` returns, lists without repetition, induction over the natural numbers as a fact about sets, ranks, and the numbering of outputs |
| `MC*` | constants for TLC |

Definitions named after a bug (`FinalizeOnly`, `UsableAsItIs`, ...), each marked
`Mutant:`, stand before the definition they are a variant of and are used by
nothing: replacing the definition by its variant makes a property fail.

### How state and actions correspond to the code

The engine:

* A chunk is its position, whether the VAD called it speech, and whether it is
  source audio or padding. Sample ranges are counted in chunks.
* `rt` is the `RecognitionSession`; each field is commented with the Rust field
  it stands for. Its field `turn` has the detector, fixed when a session begins, and the choice to
  rerecognize whole turns, which may change while it runs (`TurnConfigs` are the values in
  use, `UpdateParameters` is `update_runtime_parameters`). `turns`
  is `turn_store.turns` together with `audio_ranges` (without streaming both have
  the same keys).
* A `step` of the driver is the action `Step`: one of four arms, in the order of
  `driver.rs:47-71`. Each arm is a whole handler, from the result or check to
  the outputs it emits.
* A request is `queued` until the worker's thread takes it (`StartRequest`),
  then `running`, then answered with text or without; a queued request is `lost`
  when an end silence close resets the source's streaming sessions before the
  thread takes it. A failed submit (`up = FALSE`) drops the plan, as the code does.
* The text of a turn is abstracted to how it compares with the partial emitted
  last (`emitted`); its audio is the sequence of its segments. What the grammar
  and Namo say of a text is a choice among the outcomes they have (`Decisions`).
* `frames` is also the runtime tick; the timeout is counted in it. It is a field of
  the thresholds, `timeout`: `turn/timeout.rs` doubles the milliseconds of the turn check
  silence and then rounds up to ticks, so that it is 2 · turn check or one less, whichever
  the milliseconds give (`SegmentBuilderConfig`).
* `StopGracefully`, `Stepping`, `FinishDrain` and `DrainTimesOut` are
  `shutdown_flush_and_drain` (`recognition/driver.rs:135-151`).

Scope of the engine model: one source, one recognition route, a non-streaming
interim model. Within it `is_stale_asr_request` only fires for a confirmed range,
and `cleanup_final_turn_state` is never reached.

With a streaming interim model (`StreamingInterim`):

* Every chunk of an active segment becomes a request at once (a *delta*), under the
  id displayed so far. `session` is the same record with the active interim segment,
  the decoder sessions (`streams`, the chunks each has been fed), the ranges heard
  by the stream and, for the request in flight, its segment and its text.
* A text is the sequence of the speech chunks it was recognized from, so that text
  that is lost, repeated or out of order shows. A part of a draft is one segment
  with its audio and its text; the text of a whole turn replaces all of them.
* Taking a request and executing it are one action: `execute` runs in the worker's
  thread, and what the session does to the streams reaches it by the same channel.
  A request ends with text, without, or with an error, which cancels the stream.
* Outputs of interims, settings that change (rerecognition among them), a runner that
  stops and a drain that times out are left to `RecognitionEngine`. Without an interim threshold
  (`segmentation/config.rs:21`) there is no turn check.

The threads around it:

* In `AsrWorker` an absent key of a queue or list is an empty one; the thread's
  inner loop is cut where other threads can act: a command is applied, the
  channel is found empty, a request is taken, a result is sent.
* In `SourceScheduler` the engine of a source is what the scheduler asks of it:
  work that is pending and a turn that is open. A chunk, or the flush of an open turn, may give
  it work, and may close a segment at the end silence, which resets the source on the ASR
  worker: a request that waits there is then never answered (`forgotten`). The demux
  thread offers one captured chunk to all lanes of its endpoint at once; the
  scheduler's round is cut where another thread can change what it reads.
* In `RecognitionOwner` a recognition is a record of its stop mode, its input
  channel (queued chunks, open or closed), the outputs it has sent and the result
  its shutdown will find. Every lock of `AppState` is held over one action, and a
  stop is cut where the code releases it: taking the recognition out of the slot
  and joining its worker are two actions.
* In `StreamSession` `run_session` is one action per branch of its loop, with the
  protocol state in `proto`; a read that times out and a ping are `NoMessage`. One
  handle holds a recognition at a time (the connection, or the thread that drains
  or cancels it); the action of a thread that cannot be started is a branch of
  the action that starts it. Status and settings are left out.
* In `TextDelivery` an event is its source session and number. The router's ready
  set is the range of its ready list. `dispatch` hands an output to HTTP and to
  translation in one action, and so does the translator with its result: the two
  queues share nothing, and each has its own lock, so the order of the two does
  not show. A thread that cannot be started leaves what the code leaves.
* In `ModelDownload` the content of a file is its chunks, each named after the
  asset it belongs to, so that a torn or mixed file can be told from a whole one.
  An open handle follows its file when that is renamed and writes nowhere when it
  is removed. The old directory of an archive is removed entry by entry. The
  application may end between any two actions; a file that was written stays
  written (loss of power is not modelled).
* `contended` in `ModelDownload` records assets that two commands were to
  download at once; they are exempt from its properties (section 6).

## 3. Runs

Passing runs:

| Run | Instance | Shows |
|---|---|---|
| `segments` | six configurations (start 1 to 3, interim off, 1 or 2, a length limit that meets the end silence), 12 chunks, one change of settings and one flush anywhere | `SourceFramesOnce`, `AcceptedAudioKept`, `ChildIffSpeechContinued`, `TurnAudioContinuous`, `RecentAudioKept`, `SegmentLengthBounded` |
| `engine` | start 2 or 3 and a change between them, a timeout of three ticks, Simple (with and without whole-turn rerecognition and a change of it), Morph and Namo, a drain that may time out, 11 frames | `OneUtterancePerTurn`, `SpokenOrder`, `OnlyLateChildrenAreLost`, `NoTurnLeftBehind`, `TimeoutOnlyInSilence`, types |
| `engine_faults` | the same detectors, a length limit that is met, a turn check silence (and with it the timeout, 3 or 5 ticks) and a rerecognition that change, a runner that may stop, a drain without a time limit, 9 frames, fairness | `ImplementsTurnOutput`, `SegmentsOnce`, `OpenTurnHasDraft`, `DrainEnds`, `OnlyKnownStalls` |
| `streaming_interim` | start thresholds 1 and 2, each detector, the length limit out of reach, 7 frames, deltas and completions that fail or are lost, a graceful stop anywhere | `InterimStreamContinuous`, `FinalTextOnce`, `FinalIsOffline` |
| `asr_worker` | two lanes, two models, two requests per lane, two out at once, one reset per lane, fairness | `NoMonopoly`, `EachRequestAccounted`, `ResetIsInOrder`, `LaneIsAnswered` |
| `source_scheduler` | three sources, two of them channels of one endpoint that captures three chunks, queues of two, a device that fails, requests that are dropped, stop or cancel anywhere | `SourceIsServed`, `StopLosesNothing`, `StopEnds` |
| `streaming` | two connections with the same session id, one desktop command, two recognitions, one audio frame, threads that fail to start | `DoneMeansComplete`, `StopsOwnSession`, `NoOrphan`, `BackendReleased`, `StopIsAnswered`, `StopReturns` |
| `text_delivery` | two sessions of one source, two HTTP threads, a queue of two, two turns, three outputs, one speech mapping | `PostedInOrder`, `AcceptedIsPosted`, `FinalGetsThrough` |
| `model_download` | two commands called three times over a plain file, a pinned file, an archive and two verified files that share a temporary path, three faults | `InstalledIsWhole`, `CommandOutcome`, `ArchiveIsKept` |

The three violation runs are in section 6.

Bounds. The configurations keep start ≤ interim + 1 ≤ turn check < length limit
in the order of the defaults and are as small as that allows, so that an
utterance with an interim close is 4 chunks, a turn check 2 and the open turn
timeout 3: 11 frames hold two utterances with an interim close or one with two
children, a timeout and a late answer. With a start of 3 the timeout of 3 is the least
that `PauseEndsFirst` allows. A drain only needs its limit taken away where it is the
question whether it ends (`engine_faults`, `engine_starved`). Everything in the engine that grows (ids, sequence numbers,
epochs, queue) grows with frames, so `MaxFrames` is its only bound. With a streaming
interim model the end of an utterance is its turn check, so that 7 frames hold two
of them; without the length limit a segment has no child, so the cut of a child's
audio to what the stream has not heard (`HasOverlap`) is only met in
`interim_overwrites`. Two
lanes, two models and two requests are enough to see a rotation go wrong. Three
sources are the least for which the order of a round matters; one endpoint captures
more than a queue takes, so that overruns happen. Two connections and a desktop
command are every pair of owners; a second recognition is needed to stop the wrong
one. Two HTTP threads and an earlier session of the source are what can disturb an
order, and a queue of two is filled by three outputs. Three calls of a download
command let one resume what another left while a third runs, with up to three
failures, wrong responses or ends of the application. In each run every mutant of
the modelled code is caught within these bounds.

`CHECK_DEADLOCK FALSE` is set where the system really ends: the bound of frames
is reached, a stop is done, every lane is closed, every client is gone, all events
are sent, every command is called.

Fairness.

* Engine. The host's loop runs until it is stopped and steps in every round, also
  without input (`input.rs:1402-1422`, `step_driver_only`), and a drain steps and
  polls (`driver.rs:138-148`): weak fairness of `Step`. A step often has nothing to
  do but wait; `StepMoves` is its enabling condition for a change, written out.
* The runner executes what is queued unless it is gone: weak fairness of
  `RunnerProgress`. Nothing is assumed of a request that is lost.
* A drain that has nothing pending is finished by its loop; with a time limit it
  ends by it: weak fairness of `FinishDrain \/ DrainTimesOut`. Liveness is only checked where
  `DrainMayTimeOut` is FALSE, so that no drain ends by its limit. `DrainEnds` then says that a
  drain ends unless the engine is for ever `Stalled`, `OnlyKnownStalls` that turn checks and
  deferred finalizations of a running engine are served unless it stalls for ever or again
  and again. `Stalled` is one of three: a request is lost (`RequestIsLost`), the runner
  is gone and refuses the rerecognition of a turn check (`CheckIsRefused`), the timeout
  of the open turn is due while a segment of it is queued
  (`TimeoutStarvesDispatch`, section 6).
* No fairness for frames, settings, stops, `StopRunner` or resets.
* `AsrWorker`: its thread runs, and every lane polls for results.
* `SourceScheduler`: the scheduler, the demux threads and, once a stop was
  requested, the closing thread run; the ASR worker answers what it has not dropped.
  Of a dropped request nothing is assumed: `StopEnds` promises the end of a cancel
  always, that of a graceful stop only if no request was dropped (section 6).
* `StreamSession`: workers, accepted connections and finishing threads run, and a
  desktop command that has begun goes on. Clients owe nothing: `StopIsAnswered`
  says what happens to one that stays.
* `TextDelivery`: its threads run; a request to a server ends, by the client's
  time limit if nothing else. Outputs need never come.

## 4. Proofs

`RecognitionEngine_proofs` proves of the whole engine, for all thresholds,
detectors, numbers of frames, a runner that may stop and a drain that may time out
(from `ConfigsAssumption`, `MaxFramesAssumption`, `TurnConfigsAssumption` and
`HostAssumption`):

* `OpenTurnHasDraftAlways`: the open turn has a draft.
* `EngineImplementsTurnOutput`: every step of the engine is a step of `TurnOutput`.
* `EngineOutputsOrdered`: therefore finals are final, in turn order, and sequence
  numbers gapless: `FinalIsLast`, `SequenceGapless` and `FinalsInTurnOrder` under the
  refinement mapping. Of the contract alone they hold by its actions; what says something about the
  code is that its outputs come in such steps. They follow from `Promised` (of
  `Ordering_proofs`), which adds that a final closes its turn and that turns are
  numbered up to `newest`; `RankOrder` and `RankOnto` are the facts about numbering a set
  of finals by rank that a batch of finals needs.
* `TypeCorrect`: the type invariant of the session.
* `SegmentsCountOnce`: no segment is in two finals, and a final has its segments in
  the order they were spoken.
* `TimeoutsInSilence`: no open turn is due while a segment is active.

The first three need `Consistent(rt)`: the ids given out are below
`nextTurn`, every draft is newer than every final, `newTurns` and the request in
flight only name ids that were given out, and the open turn has a draft. The part
that is easy to miss is the request: only because a target is either new or was
given out, and a stale result is dropped, can a late result not revive a final
turn. The argument follows the code's handlers. Each is `Quiet` (no output, no turn
comes or goes), `Moves` (one partial, or the finals of all drafts up to a turn) or
`Heard` (text for a turn, which may begin it). A chain of at most one `Heard`, one
`Moves` and any `Quiet` steps is one step of `TurnOutput`; the lemmas of the arms
of `step` put together such chains. What the planner chooses from the queue and
what the segmentation reports is irrelevant to this, so nothing is assumed of it.

The next three need it: `IInv` adds `BuilderOK` (a child is the segment right after
its parent, and its parent is remembered in one place only) and `Sound(rt, Position)`,
where `Position` is what the session may know of the builder. `Sound` has three parts:
`Typed`; `OriginOK` (the timeout of a turn that was opened in the present activity
begins with the present tick or not yet, while a segment is active); and `Spoken`,
which says where segments are. They rise through drafts and finals, the request in
flight, the queue and the builder, so that a segment that is recognized is newer than
everything that has text, and the drafts and finals have no segment in common.
`SegmentsOnce` alone is not inductive: what keeps a request from counting a segment
twice is that the queue only loses a prefix, that `DropCoveredInterims` drops only the
interim of the parent at the front of the queue (`DropIs`, which uses that a
completion covers only its own parent), and that a whole-turn request adds no segment.
Each handler has a lemma that it keeps `Sound` given `Consistent`; the builder has one
per arm of `push`, which gives the events their ids (`EventsOK`) and through
`AbsorbSound` the session its new position.

`RecognitionTurns_proofs` continues with `NothingLeftBehind` (`NoTurnLeftBehind`): a drain
that completes has finalized every draft, if the detector is Simple or pauses end before
the timeout (`PauseEndsFirst`). Its invariant is `IInv /\ Settled`. A draft is finalized with the
open turn, by a deferred finalization or by a whole-turn request, each of which takes
the older drafts along; `CoveredAbove` says that every draft is at or below one of
them. It is not inductive: text could reach a turn above what is deferred or asked for,
a whole-turn request could turn out stale, and a deferred turn could be gone when its
time comes, so that another turn is closed instead. `Ledger` rules this out. Turns and segments are
numbered in step (`Numbered`), ranges in the queue, drafts and what is confirmed
are ordered (`Lined`, `DraftsBefore`, `ConfirmedBefore`, `Ordered`), a request is for
the open turn and not above what is deferred (`Aimed`), a deferred turn has its
draft or nothing continues it (`Deferred`), and nothing continues the segment
of a turn check (`CheckEnds`). With Morph and Namo the timeout must
not fire inside a chain of segments: `Rested` compares its origin with the pause of the
builder (`Place`), whose length `PauseOK` and `SilenceCounted` bound by the thresholds;
there `PauseEndsFirst` is needed.

Its second theorem is `SpeechInOrder` (`SpokenOrder`): read in turn order, the finals have
the segments in the order they were spoken. It has the same condition (`Guarded`) and a second
one, `[]NoLimitMet`: no segment so far was closed at the length limit. Both are
needed (section 6), and neither is vacuous: the second is true while speech is shorter than
the limit. The invariant adds `Told` to `IInv /\ Settled`. `SpokenOrder` speaks of
finals only; `TextOrdered` is the same for drafts, which become finals. It is
kept because the text of a turn grows only while no newer turn has any (`Newest`): every
draft is the open turn or older unless a whole-turn request is about a newer one (`Reached`), and
nothing continues the turn of such a request (`Whole`), nor a segment that asks for a
completion (`NoHeirs`). The last is false at the length limit, where a segment
asks for a completion and has a child: the child may then reach the open turn
after a newer one was begun. `ApplyInterimTold`, `ApplyCompletionTold` and `DispatchTold`
carry that argument, `NextInOrder` puts the actions together.

`RecognitionEngine_proofs` also proves of the segmentation (`HistorySpec`), for all thresholds, and
with any number of chunks, flushes and changes of settings:

* `AudioOnce` (`SourceFramesOnce`): `AudioInOrder` says that each closed segment and the
  audio that is held is a stream of chunks without a gap, each after what closed before
  it; what is held when a segment closes at the end silence is padding only.
* `AcceptedIsKept` (`AcceptedAudioKept`): while the builder waits everything owed is in
  closed segments, and the present run of speech is in `pending` as a whole, which is
  why a run that reaches the threshold starts a segment (`AudioKept`).
* `LengthIsBounded` (`SegmentLengthBounded`), from `LongEnough`: a length limit of one
  chunk is excluded. `settings.rs` fixes the VAD interval at 32 ms and the length limit
  follows from 25 s (`MAX_PHRASE_MILLIS`), so that the limit is 782 chunks. A changed
  threshold applies to what is held only at the next push, which is what
  `LengthBound` keeps track of.
* `ChildWhenContinued` (`ChildIffSpeechContinued`): `SilentEnd` ties the builder's
  silence counter to the input, `Counted` the ids to the order of starts and closes;
  `Descent` says what parent the next segment would have if it started now, and that the
  counter of `AfterInterimSilence` is the silence since the parent last heard speech.
* `AudioContinuous` (`TurnAudioContinuous`): what is held is always the most recent
  audio (`Recent`), and a closed segment has no gap before its end (`Ended`). `Bridge`
  says that a segment that goes on holds everything since its parent ended. After an
  interim close that hangs on the pre-speech, from which pushing back fragments of
  speech takes audio: each silent chunk costs it less than `start` chunks, and with
  start · (turn check − interim − 1) ≤ turn check (`AmplePreSpeech`) the turn is closed
  before the pre-speech overflows (`BufferSuffices`).

Every step is one of seven kinds of push (`PushKind`: it holds speech back, begins,
lengthens, splits, ends or limits a segment, or is silent), a flush or an
update, and each invariant is shown to survive each kind.

`TextDelivery_proofs` proves `PostedInOrderAlways`, for any number of sessions,
threads and mappings, any limit and any number of outputs: the router sends the
events of a session in order and one at a time, and `reserved` counts exactly what
is queued or being sent. The invariant has five parts: the shapes (`HttpTypeOK`), a
source in flight belongs to exactly one working thread (`Claimed`), what is sent,
being sent and queued of a session is numbered one after the other (`Numbered`),
`reserved` is the sum of the queues and the working threads (`Counted`), and what
the translator may still hand to the router (`TranslatorOK`). The heart is that a
thread takes an event of a session only if no other one works on that session, and
gives the session back under the same lock in which it finishes.

`ModelDownload_proofs` proves all three properties of the downloads
(`InstalledIsWholeAlways`, `CommandOutcomeAlways`, `ArchiveIsKeptAlways`) for any
number of commands, assets, chunks, entries, calls and faults, from
`DownloadAssumption` (among others: targets have distinct ranks, and an archive
shares its temporary path with no other asset). The invariant says what is on disk
at each place a command can be at: `Progress` for the temporary file and the
`.extracting` directory of its present target, `Whole` for what is at output paths,
`Wanting` that a target is not in place before its command is done with it and is
from then on. What makes `Progress` inductive in the presence of other commands are
`Apart` (only contended assets share a temporary path between commands) and
`Handles` (a command whose file was moved or removed by another has a contended
target). A crash only resets the commands, so the parts about files carry over.

`StreamSession_proofs` proves, for any number of connections, recognitions and
desktop commands and whatever session ids the clients choose, from `OwnersAssumption`
(the desktop is no session id): `TypeCorrect`, `OwnSessionOnly` (`StopsOwnSession`),
`NoneOrphaned` (`NoOrphan`) and `DoneIsComplete` (`DoneMeansComplete`). The invariant
says what a connection knows of its recognition: `Held` (its recognition is in the slot
exactly while its handle lives, is owned by its session id, and what was reported of it
is so), `Apart` (no two connections have one recognition), `RecsOK` (a recognition that
completed has nothing queued and owes no final), `ConnectionsOK` (protocol state, holder
of the handle and program counter fit together) and `CommandsOK`. An id that two clients
share is harmless because the slot holds one recognition: a live handle's is it
(`Held`), so that the one that is taken by an owner's id is its own.

`AsrWorker_proofs` proves, for any lanes, models and numbers of requests and resets:
`TypeCorrect`, `RequestsAccounted` (`EachRequestAccounted`), `ResetsInOrder`
(`ResetIsInOrder`) and `NobodyMonopolizes` (`NoMonopoly`). For the first two, `IInv` says that a request is in one place
(`Apart`, `Numbered`: what is yet to be sent is in none), that every request a lane
waits for is in some (`AwaitedSomewhere`), and that the rotation lists are exact: each
queue that holds something is listed once under its model, each model with such a queue
once (`Rotation`). `ResetIsInOrder` hangs on the channel: `ResetsCover` says that a reset in
it comes with nothing before it, of its own lane, that was sent after it. `NoMonopoly` talks of what passed a request since it was queued;
`FairInv` strengthens it by the present order of the lists: a lane ahead of the
request's own has not yet had its extra turn, and since the turn of a model ahead of
its own, its own model has been served.

`SourceScheduler_proofs` proves, for any sources, endpoints, queue limits and numbers of
chunks: `TypeCorrect`, `EverySourceServed` (`SourceIsServed`),
`GracefulStopLosesNothing` (`StopLosesNothing`) and `ForgottenIsNeverDrained`: the hang of
section 6, a source whose request was dropped never stops and the scheduler never
completes. Its invariant has a bound that falls
with the place in the list (`TurnsOK`: turns passed + place <= number of sources), an
equation for the chunks (`ChunksOK`: heard, then pending, then in the channel is what
the source was offered so far less what was recorded as dropped, in order), and what is true of
ended sources, captures and stops (`EndedOK`, `CapturesOK`, `StopsOK`).

Both are about lists that are rotated and filtered. A recursive operator cannot be
reasoned about here, so the filter is `Only` of `SequenceFilter`, a recursive function;
`Ordering_proofs` shows that there is such a function and only one, and from it
what `Only` keeps, in which order, and how it goes with `Append` and `Tail`. The
inductions are over sets: a set of numbers that has 0 and with each n also n + 1 is
`Nat` (`SetInduction`), and one that is not empty has a least element (`LeastNatural`),
which is also how the engine's proof knows what `Min`, `Max` and the planner return.

Only model-checked: liveness (`DrainEnds`, `OnlyKnownStalls`, `LaneIsAnswered`,
`StopEnds`, `BackendReleased`, `StopIsAnswered`, `StopReturns`,
`AcceptedIsPosted`, `FinalGetsThrough`), which is out of the prover's reach; the
properties of `StreamingInterim`, which are stated with recursive
operators of the community modules (`FlattenSeq`, `SelectSeq`); of the segmentation
`RecentAudioKept`; of the engine `OneUtterancePerTurn` and `OnlyLateChildrenAreLost`. Besides the conditions of
`SpeechInOrder`, a proof of the former would need a start threshold of two chunks, so that
no interim that begins an utterance is dropped as covered (section 6), and an invariant
about which segments were recognized without text.

## 5. Not modelled, and the plan

Left out for good: numeric inference and decoders, audio I/O and signal
processing, settings, their conversions and migrations, the GUI and the tools.
They appear as choices (speech or silence, text or no text) or not at all. They are
also the largest part of the source: most of its lines are model backends,
decoders, configuration, tests of the former, and user interface, and hold no state
that two actors share. The models cover the part that has.

Left out so far, in the order in which it would be added:

1. The runtime configuration of running sources (`input.rs`): gain, mute and
   thresholds that change while a source runs, and what a start that fails leaves.
2. `set_config` and the status of the application (`commands`, `state.rs`), which
   change outside the locks of the session slot.
3. The second queue before the local speech engine, playback and its cancel; speech
   of recognized text.
4. Several routes (spoken language identification) and several engines over one
   `AsrWorker`.
5. The HTTP upgrade and authentication before a session, and the close handshake.

Theorems worth proving next: `RecentAudioKept` of the segmentation;
`OneUtterancePerTurn` of the engine; `FinalTextOnce` of the streaming interims.

## 6. Disagreements between the code and its documentation

Each is the counterexample of one violation run; TLC's trace is short enough to be
read as a test.

| Run | What happens |
|---|---|
| `engine_starved` | The timeout of the open turn comes before the dispatch in `step`. When it is due while a segment of the turn is queued, the finalization waits for that segment and the segment for the timeout: the drain only ends by its limit. |
| `stop_race` | `session.stop` drops the sender of the input channel before the drain thread asks for a graceful stop. A worker that finds the channel closed first is still in mode Running and cancels itself, as the policy of network input says: no final of the open turn, and `recognition_failed` for `session.done`. |
| `interim_overwrites` | A segment is closed at the length limit and completed offline, which cancels the decoder session; its child goes on with the same interim stream under the same id. The next delta starts a decoder session that hears only what follows, and its text replaces the completed one (`turn/transcript.rs:127`): the final, deferred while the delta was queued, has the interim text of the tail only, and the child's completion comes after it. |

Observations without a run of their own:

* A stop takes the recognition out of the slot and then drains it; the next owner
  finds the slot empty and starts its own worker and models while the first still
  recognizes (`state.rs:443`; `streaming-recognition-protocol-v1.md:114` says that one
  session recognizes at a time).
* The requests of all speech mappings that match a text are pushed one by one, and
  each removes the queued one of its sibling as stale (`synthesis/queue.rs:56`): with
  two mappings only the last speaks, unless the worker was quick. The rule meets no
  other requests: a text is spoken once per kind and language. `text_delivery` has one
  mapping.
* With a length limit that is met `FinalTextOnce` fails too, and so does
  `FinalIsOffline` with detectors that recognize whole turns again; a delta of the next
  utterance may start a second decoder session beside the one that was left behind,
  until the next completion cancels both.
* A completion without text leaves the range of the stream of its turn behind
  (`transcript.rs:78`). In a turn that stays open (Morph, Namo) the next utterance's
  completion then starts behind the start of that range and, when its segment starts with padding,
  is appended to its own interim text: the final has it twice. `FinalTextOnce` excepts
  sessions with such a completion.
* A queued delta that an end silence close takes out of the worker's queue
  (`asr_worker.rs:160`) is the lost request of `OnlyKnownStalls`.
* With a length limit that is met, the turn of a segment may be finalized before
  its child is dispatched: the plan of the child is dropped "for finalized turn"
  (`transcription/flow.rs:216`), and a graceful stop ends without its text.
* A third segment of an utterance is queued under the id of the second; it does not
  block the finalization of its turn (`turn/flow.rs:480`) and becomes a turn of its
  own (`japanese_separate_rule.md:33` speaks of one utterance).
* After a first segment without text, turn ids are smaller than segment ids; a
  queued child then compares as newer than its own turn, with the same effect: the
  turn is finalized and the child dropped.
* An end silence close resets the source's streaming sessions; the worker then
  removes the source's queued request too (`asr_worker.rs:160`), and no result is
  ever sent (`03-recognition-internals.md:76`, `:88`). `OnlyKnownStalls` allows for it.
* With a start threshold of one chunk the range of an interim segment, recorded
  one chunk late, lies within that of the completion after it
  (`planner.rs:221`); the interim is dropped as covered although its audio is
  nowhere else. The runs of the engine start with two chunks.
* All partials of a turn have revision 0 and its final has the revision the draft
  was created with (`transcript.rs:94`); the protocol document
  (`streaming-recognition-protocol-v1.md:75`) says that revisions increase.
* With a length limit that is met, `SpokenOrder` and `OneUtterancePerTurn` do not
  hold: `target_for_request` (`planner.rs:103-122`) sends a child to whatever
  turn is open, also to one that is older than its parent's deferred turn. The
  runs that check them keep the limit out of reach.
* `TurnAudioContinuous` needs start · (turn check − interim − 1) ≤ turn check;
  otherwise speech fragments pushed back into the pre-speech buffer push out
  chunks between a parent and its child. The defaults do not satisfy it: they are 3, 3
  and 10 chunks (`settings.rs:941`, `:951`, `:952`), and 3 · 6 > 10. After an interim
  close, six fragments of two speech chunks and a silent one are enough for the child
  to lack eight chunks, speech among them. The engine's test
  `speech_after_interim_keeps_sub_threshold_speech_when_vad_briefly_drops_to_silence`
  (`builder_regression_tests.rs:465`) asks that the first speech of the continuing turn
  is kept; it covers one drop.
* A deferred finalization may name a turn that has its final already, and then closes
  whatever turn is open (`turn/flow.rs:194`, `:450`). With Morph and Namo that can be a
  newer turn, whose draft no drain finalizes: the timeout of the open turn becomes due
  in the pause after an interim close, before the turn check silence; its whole-turn
  request is in flight when the timeout is due again and defers the turn; the answer
  finalizes it; a child of it and the next utterance are queued before the next
  step; the child holds the deferred finalization back until it is dropped, the next
  utterance opens its turn by an interim result, and the finalization closes that. It takes a turn check
  threshold that is lowered in the pause, or fragments of speech that make the pause
  longer than the timeout: start · (turn check − interim) > timeout, which the
  defaults meet by a hair (21 > 20). `NoTurnLeftBehind` therefore has the condition
  `PauseEndsFirst`; Simple never times out with a request and needs none.
* A speech tail shorter than the start threshold is not owed to any segment: it is
  lost by a flush or after a close at the length limit.
* Lowering the start threshold while speech is held makes `audio_chunks` count
  less than the segment has; `SegmentLengthBounded` allows for it.
* With Morph and Namo a turn check whose rerecognition cannot be submitted stays
  until the drain times out (the runner is gone: one of the known stalls).
* A disconnect while a session drains lets the drain go on and finalize
  (`server.rs`); `streaming-recognition-protocol-v1.md:108` says that what is not
  processed is thrown away.
* `normalize_state` of the ASR worker is set when the command is submitted, not in
  the order of its channel (`asr_worker.rs:351`).
* The drain of a source on the scheduler has no time limit (`input.rs:1471`), and a request
  that a reset takes out of the ASR worker's queue is never answered
  (`asr_worker.rs:160`): the source is never drained, and the graceful stop of all sources
  hangs until it is cancelled (`ForgottenIsNeverDrained`). The drain of a single source has a limit.
* When all devices are lost the worker ends as cancelled, but session slot and status
  stay as they are until the user stops.
* `SourceRoundRobinQueue` puts a new session behind the first older session only: from
  [3, 2, 1] it serves 2 before 1, against its comment.
* A translation or speech thread that cannot be started leaves its request queued
  until the next submit (`translation/pipeline.rs:93`).
* A full HTTP queue drops what comes, a final as well as a partial
  (`delivery/router.rs:423`).
* Two download commands at once (the button for the translation model stays enabled
  while models are downloaded, `use-app-state.ts:407-449`) write to one temporary path: one
  renames it into place while the other goes on writing, and the torn file is called
  installed. `InstalledIsWhole` excepts `contended` assets for it.
* The archive is removed inside its extraction (`manager.rs:1481`), before the marker is
  written (`manager.rs:1286`): a crash between the two leaves a directory that does not
  count as installed and no archive, and the next command downloads it again. `ArchiveIsKept` keeps
  the archive until its files are in place and does not cover the marker.
* A download has no time limit: a server that stops sending keeps the command.
