------------------------- MODULE RecognitionEngine -------------------------
(***************************************************************************)
(* The speech recognition engine as its host drives it: VAD frames come    *)
(* in, RecognitionDriver::step advances the runtime, an asynchronous       *)
(* runner answers the one request in flight, and a graceful stop flushes,  *)
(* drains and finalizes.  Frames, steps and answers interleave freely:     *)
(* the host's loop pushes any number of frames between two steps and       *)
(* steps any number of times between two frames.                           *)
(***************************************************************************)
EXTENDS SegmentBuilder, RecognitionRuntime

CONSTANTS TurnConfigs,      \* the SttTurnConfig values in use
          RunnerMayStop,    \* the runner may go away (its worker panics or exits)
          DrainMayTimeOut   \* SHUTDOWN_DRAIN_TIMEOUT may pass before the drain ends

ASSUME TurnConfigsAssumption == TurnConfigs # {} /\ TurnConfigs \subseteq SttTurnConfig
ASSUME HostAssumption == RunnerMayStop \in BOOLEAN /\ DrainMayTimeOut \in BOOLEAN

VARIABLES rt,       \* the RecognitionSession
          phase,    \* of the host's loop: Phases
          utterance \* history: the segment that began the utterance of each segment

vars == <<builderVars, rt, phase, utterance>>

Phases == {"Running", "Draining", "Done", "TimedOut", "Cancelled"}

InterimEnabled == config.interim # 0    \* SttTurnConfig.interim_result_enabled
TimeoutTicks == config.timeout          \* timeout::ticks
Tick == frames                          \* next_runtime_tick, one per VAD frame

-----------------------------------------------------------------------------
\* push_segment_event_frame.  A turn check event always comes alone, and a close
\* is recorded at the cursor that already counts the frame just pushed.
Absorb(r, evs, cursor) ==
  LET active == {i \in DOMAIN evs : evs[i].type \in {"SegmentStarted", "SegmentExtended"}}
      closed == {i \in DOMAIN evs : evs[i].type = "SegmentClosed"}
      check  == {i \in DOMAIN evs : evs[i].type = "TurnCheckSilenceReached"}
      Pending(e) == [id |-> e.id, previous |-> e.previous, reason |-> e.reason,
                     from |-> cursor - Len(e.chunks), to |-> cursor]
      reset == IF \E i \in closed : evs[i].reason = "EndSilenceReached"
               THEN ResetStreamingSessions(r) ELSE r
  IN  [reset EXCEPT
         !.epoch = @ + Cardinality(active),
         !.segments = IF closed = {} THEN @ ELSE Append(@, Pending(evs[Min(closed)])),
         !.turnCheck = IF check = {} THEN @
                       ELSE [previous |-> evs[Min(check)].previous, epoch |-> r.epoch]]

\* The history variable: a child belongs to the utterance of its parent.
RecordUtterance ==
  LET started == SelectSeq(events', LAMBDA e : e.type = "SegmentStarted")
      Origin(e) == IF e.previous = NoSegment THEN e.id ELSE utterance[e.previous]
  IN  utterance' = utterance \o [i \in DOMAIN started |-> Origin(started[i])]

PushFrame(speech) ==
  /\ phase = "Running"
  /\ Push(speech)
  /\ rt' = Absorb(rt, events', frames')
  /\ RecordUtterance
  /\ UNCHANGED phase

\* update_runtime_parameters: thresholds and rerecognize_full_on_complete change,
\* the detector and whether interim results are enabled do not.
UpdateParameters(next, turn) ==
  /\ phase = "Running"
  /\ next # config \/ turn # rt.turn
  /\ next.maxChunks = config.maxChunks
  /\ (next.interim = 0) = (config.interim = 0)
  /\ turn.detector = rt.turn.detector
  /\ UpdateConfig(next)
  /\ rt' = [rt EXCEPT !.turn = turn]
  /\ UNCHANGED <<phase, utterance>>

-----------------------------------------------------------------------------
\* The arms of step, in the order of the code.
Stepping == phase = "Running" \/ (phase = "Draining" /\ HasPendingWork(rt))

ApplyAnswer ==
  /\ ResultReady(rt)
  /\ \E decision \in Decisions(rt), emitted \in {"stale", "current"} :
        rt' = ApplyResult(rt, decision, emitted, Tick, InterimEnabled)

FinalizationReady ==
  rt.finalization # NoTurn /\ ~FinalizationIsBlocked(rt, rt.finalization)

FinalizePending ==
  /\ ~ResultReady(rt)
  /\ FinalizationReady
  /\ rt' = FinalizeTurnNow([rt EXCEPT !.finalization = NoTurn], rt.finalization)

TurnChecked ==
  IF rt.turnCheck.epoch # rt.epoch THEN Checked(rt) ELSE HandleTurnCheck(rt)

CheckTurn ==
  /\ ~ResultReady(rt) /\ ~FinalizationReady
  /\ rt.turnCheck # NoCheck
  /\ rt' = TurnChecked

TimedOutOrDispatched ==
  IF OpenTurnTimedOut(rt, Tick, TimeoutTicks) THEN TimeoutOpenTurn(rt)
  ELSE Dispatch(RefreshTimeout(rt, Tick))

TimeoutOrDispatch ==
  /\ ~ResultReady(rt) /\ ~FinalizationReady
  /\ rt.turnCheck = NoCheck
  /\ rt' = TimedOutOrDispatched

Step ==
  /\ Stepping
  /\ ApplyAnswer \/ FinalizePending \/ CheckTurn \/ TimeoutOrDispatch
  /\ UNCHANGED <<builderVars, phase, utterance>>

-----------------------------------------------------------------------------
\* The runner's thread takes the request from its queue, and later sends the
\* result: with text or without.
RunnerSteps ==
  /\ phase \in {"Running", "Draining"}
  /\ UNCHANGED <<builderVars, phase, utterance>>

StartRequest ==
  /\ rt.runner = "queued"
  /\ rt' = [rt EXCEPT !.runner = "running"]
  /\ RunnerSteps

Answer(result) ==
  /\ rt.runner = "running"
  /\ rt' = [rt EXCEPT !.runner = result]
  /\ RunnerSteps

RunnerProgress == StartRequest \/ \E result \in {"usable", "unusable"} : Answer(result)

\* The thread ends.  A result that was sent can still be received.
StopRunner ==
  /\ RunnerMayStop
  /\ rt.up
  /\ rt' = [rt EXCEPT !.up = FALSE,
                      !.runner = IF @ \in {"queued", "running"} THEN "lost" ELSE @]
  /\ RunnerSteps

-----------------------------------------------------------------------------
\* shutdown_flush_and_drain: flush, step while there is work, then finalize.
StopGracefully ==
  /\ phase = "Running"
  /\ Flush
  /\ rt' = Absorb(rt, events', frames)
  /\ phase' = "Draining"
  /\ UNCHANGED utterance

\* Mutant: the drain waits for somebody to finalize the open turn.
FinishWithoutOpenTurn ==
  /\ phase = "Draining"
  /\ ~HasPendingWork(rt)
  /\ rt.openTurn = NoTurn
  /\ phase' = "Done"
  /\ UNCHANGED <<builderVars, rt, utterance>>

FinishDrain ==
  /\ phase = "Draining"
  /\ ~HasPendingWork(rt)
  /\ rt' = IF rt.openTurn = NoTurn THEN rt ELSE CompleteTurn(rt, rt.openTurn)
  /\ phase' = "Done"
  /\ UNCHANGED <<builderVars, utterance>>

\* SHUTDOWN_DRAIN_TIMEOUT
DrainTimesOut ==
  /\ DrainMayTimeOut
  /\ phase = "Draining"
  /\ HasPendingWork(rt)
  /\ phase' = "TimedOut"
  /\ UNCHANGED <<builderVars, rt, utterance>>

\* cancel: nothing is flushed or finalized.
Cancel ==
  /\ phase \in {"Running", "Draining"}
  /\ phase' = "Cancelled"
  /\ UNCHANGED <<builderVars, rt, utterance>>

Init ==
  /\ BuilderInit
  /\ rt \in {Runtime0(turn) : turn \in TurnConfigs}
  /\ phase = "Running"
  /\ utterance = << >>

Next ==
  \/ \E speech \in BOOLEAN : PushFrame(speech)
  \/ \E next \in Configs, turn \in TurnConfigs : UpdateParameters(next, turn)
  \/ Step
  \/ RunnerProgress
  \/ StopRunner
  \/ StopGracefully
  \/ FinishDrain
  \/ DrainTimesOut
  \/ Cancel

Spec == Init /\ [][Next]_vars

\* ENABLED <<Step>>_vars: some steps only look at what they wait for.
StepMoves ==
  /\ Stepping
  /\ \/ ResultReady(rt) \/ FinalizationReady
     \/ rt.turnCheck # NoCheck /\ TurnChecked # rt
     \/ rt.turnCheck = NoCheck /\ TimedOutOrDispatched # rt

(***************************************************************************)
(* The host's loop keeps stepping, a drain is stepped and polled until it  *)
(* ends or times out, and the worker's thread keeps executing what is in   *)
(* its queue.  Nothing makes frames arrive or a host stop.  The first      *)
(* conjunct is WF_vars(Step) with the enabling condition written out (TLC  *)
(* takes a hundred times longer to evaluate ENABLED of the nested          *)
(* operators).                                                             *)
(***************************************************************************)
Fairness ==
  /\ []<>~StepMoves \/ []<><<Step>>_vars
  /\ WF_vars(RunnerProgress)
  /\ WF_vars(FinishDrain \/ DrainTimesOut)

FairSpec == Spec /\ Fairness

-----------------------------------------------------------------------------
Turn == Nat \ {0}

Request ==
  [kind : {"InterimDisplay", "CompletionCheck", "Rerecognition"},
   turn : Turn, target : Nat, revision : {0, 1}, from : Int, to : Int,
   first : Turn, last : Turn, segments : Seq(Turn),
   purpose : {"None", "GrammarAfterCompletion", "SimpleTurnCheckFinal", "TimeoutFinal"}]

Segment ==
  [id : Turn, previous : Nat, from : Int, to : Int,
   reason : {"InterimResultSilenceReached", "SegmentMaxChunksReached", "EndSilenceReached"}]

TurnDraft ==
  [audio : Seq(Turn), first : Turn, latest : Turn, revision : {0, 1},
   emitted : {"never", "stale", "current"}, from : Int, to : Int]

(***************************************************************************)
(* Type invariant of the session.                                          *)
(***************************************************************************)
TypeOK ==
  /\ phase \in Phases
  /\ rt.turn \in TurnConfigs
  /\ rt.segments \in Seq(Segment)
  /\ rt.turnCheck \in [previous : Nat, epoch : Nat \union {-1}]
  /\ rt.finalization \in Nat
  /\ rt.inFlight \in Request \union {NoRequest}
  /\ rt.runner \in RunnerStates /\ (rt.runner = "idle" <=> rt.inFlight = NoRequest)
  /\ rt.up \in BOOLEAN
  /\ DOMAIN rt.turns \subseteq Turn /\ \A t \in DOMAIN rt.turns : rt.turns[t] \in TurnDraft
  /\ rt.finalized \subseteq Turn
  /\ rt.confirmed \in Int
  /\ rt.openTurn \in Nat /\ rt.acceptsRoot \in BOOLEAN
  /\ DOMAIN rt.newTurns \subseteq Turn /\ \A s \in DOMAIN rt.newTurns : rt.newTurns[s] \in Turn
  /\ rt.nextTurn \in Turn /\ rt.nextSeq \in Turn
  /\ rt.epoch \in Nat /\ rt.openEpoch \in Nat /\ rt.openSince \in Nat \union {NoTick}

-----------------------------------------------------------------------------
(***************************************************************************)
(* The engine implements TurnOutput: turns are numbered one by one, no     *)
(* output about a turn follows its final, finals come in turn order, and   *)
(* no sequence number is skipped or used twice, however stale results,     *)
(* deferred finalizations, turn checks and timeouts interleave.            *)
(***************************************************************************)
Out == INSTANCE TurnOutput
         WITH newest <- rt.nextTurn - 1, closed <- rt.finalized, nextSeq <- rt.nextSeq,
              log <- {[seq |-> o.seq, turn |-> o.turn, final |-> o.final] : o \in rt.out}

ImplementsTurnOutput == Out!TurnOutputSpec

Finals == {o \in rt.out : o.final}
AudioIn(o) == {o.audio[i] : i \in DOMAIN o.audio}
UtterancesIn(o) == {utterance[s] : s \in AudioIn(o)}

(***************************************************************************)
(* Segments reach the text of at most one final, in the order they were    *)
(* spoken: interim, completion and whole-turn requests about the same      *)
(* audio never make a segment count twice.                                 *)
(***************************************************************************)
SegmentsOnce ==
  /\ \A o \in Finals : \A i, j \in DOMAIN o.audio : i < j => o.audio[i] < o.audio[j]
  /\ \A o, p \in Finals : o # p => AudioIn(o) \intersect AudioIn(p) = {}

(***************************************************************************)
(* The finals, read in turn order, have the segments in the order they     *)
(* were spoken, each at most once.                                         *)
(***************************************************************************)
SpokenOrder ==
  /\ \A o \in Finals : \A i, j \in DOMAIN o.audio : i < j => o.audio[i] < o.audio[j]
  /\ \A o, p \in Finals : o.turn < p.turn =>
       \A a \in AudioIn(o), b \in AudioIn(p) : a < b

(***************************************************************************)
(* With the Simple detector a turn is one utterance, although a child      *)
(* segment joins whatever turn is open when it is dispatched: a final      *)
(* mixes segments that a full turn check silence separates only when       *)
(* recognition found no text in the segment that began the later utterance *)
(* (then nothing ended the turn that a late step had left open).           *)
(***************************************************************************)
OneUtterancePerTurn ==
  rt.turn.detector = "Simple" =>
    \A o \in Finals : Cardinality(UtterancesIn(o) \ rt.unheard) <= 1

\* Segments with text that no final has.
LostSegments ==
  (1..(nextSegmentId - 1)) \ (rt.unheard \union UNION {AudioIn(o) : o \in Finals})

(***************************************************************************)
(* A completed drain may lose only a child whose parent is in a final (the *)
(* turn was finalized before the child reached it): never the segment that *)
(* begins an utterance, and never a child of what is lost itself.          *)
(***************************************************************************)
OnlyLateChildrenAreLost ==
  phase = "Done" =>
    \A s \in LostSegments :
       utterance[s] # s /\ \E o \in Finals : s - 1 \in AudioIn(o)

(***************************************************************************)
(* The pause after an interim close ends, by the turn check silence, no    *)
(* later than the timeout of the open turn, however settings change and    *)
(* whatever fragments of speech lengthen it.                               *)
(***************************************************************************)
PauseEndsFirst ==
  \A c, d, e, f \in Configs :
    /\ c.start <= f.timeout
    /\ e.interim # 0 => c.start * (d.turnCheck - e.interim) <= f.timeout

(***************************************************************************)
(* A completed drain leaves no draft behind: older turns than the open one *)
(* are finalized with it, and a deferred finalization is not forgotten.    *)
(* Without the condition a timeout's whole-turn request may be in flight   *)
(* when a second timeout defers the same turn, and a child that comes      *)
(* after both makes the deferred finalization close a newer turn instead.  *)
(***************************************************************************)
NoTurnLeftBehind ==
  phase = "Done" /\ (rt.turn.detector = "Simple" \/ PauseEndsFirst)
    => rt.turns = << >>

(***************************************************************************)
(* The open turn always has a draft: what clears, times out or checks the  *)
(* open turn never finds it already finalized.                             *)
(***************************************************************************)
OpenTurnHasDraft == rt.openTurn # NoTurn => rt.openTurn \in DOMAIN rt.turns

(***************************************************************************)
(* The timeout of an open turn is never due while speech is active, also   *)
(* when steps are rare, thresholds change or the turn was opened before.   *)
(***************************************************************************)
TimeoutOnlyInSilence == OpenTurnTimedOut(rt, Tick, TimeoutTicks) => Waiting

(***************************************************************************)
(* A drain completes, with no help of its timeout, when every request is   *)
(* answered: deferred finalizations wait for the late results they need,   *)
(* not for ever.                                                           *)
(***************************************************************************)
DrainCompletes ==
  phase = "Draining" ~> phase \in {"Done", "Cancelled"} \/ rt.runner = "lost"

(***************************************************************************)
(* What may keep the engine waiting: a request the worker has lost, a turn *)
(* check that a worker which is gone cannot recognize its turn for, or an  *)
(* overdue open turn whose own segment is still queued (its timeout comes  *)
(* before the dispatch in every step).                                     *)
(***************************************************************************)
RequestIsLost == rt.runner = "lost"

CheckIsRefused ==
  ~rt.up /\ rt.turnCheck # NoCheck /\ rt.turn.detector # "Simple"

TimeoutStarvesDispatch ==
  /\ OpenTurnTimedOut(rt, Tick, TimeoutTicks)
  /\ \E i \in DOMAIN rt.segments : SegmentTurn(rt.segments[i]) <= rt.openTurn

Stalled == RequestIsLost \/ CheckIsRefused \/ TimeoutStarvesDispatch

(***************************************************************************)
(* A graceful stop ends without its time limit, unless the engine is       *)
(* stalled for ever by one of these: the arms of step do not wait for each *)
(* other, and whatever a drain waits for comes.                            *)
(***************************************************************************)
DrainEnds == []<>(phase # "Draining") \/ <>[]Stalled

(***************************************************************************)
(* While the host runs, a turn check and a deferred finalization are       *)
(* served as well, unless the engine is stalled, for ever or (a timeout    *)
(* that settings make due and not due) again and again.                    *)
(***************************************************************************)
OnlyKnownStalls ==
  \/ []<>Stalled
  \/ /\ []<>(phase # "Running" \/ rt.turnCheck = NoCheck)
     /\ []<>(phase # "Running" \/ rt.finalization = NoTurn)

=============================================================================
