--------------------------- MODULE SegmentHistory ---------------------------
(***************************************************************************)
(* SegmentBuilder with history variables that record what was pushed and   *)
(* what the closed segments carried, and the properties that relate the    *)
(* two.  The history variables are only written, never read, by a step.    *)
(***************************************************************************)
EXTENDS SegmentBuilder

CONSTANTS MaxFlushes,    \* bound: positions at which flush is called
          MaxUpdates     \* bound: changes of the settings

ASSUME HistoryBounds == MaxFlushes \in Nat /\ MaxUpdates \in Nat

VARIABLES input,    \* the VAD decision of every chunk pushed
          starts,   \* position of the chunk that started each segment
          closes,   \* the closed segments, in order
          runFrom,  \* where the current run of speech is counted from
          flushes,  \* positions at which flush was called
          owed,     \* chunks that must reach some segment
          updates   \* changes of the settings so far

historyVars == <<builderVars, input, starts, closes, runFrom, flushes, owed, updates>>

-----------------------------------------------------------------------------
SourceIn(chunks) == {i \in DOMAIN chunks : chunks[i].source}

\* The positions of the chunks that are Turn audio, not padding.
SourceOf(chunks) == {chunks[i].at : i \in SourceIn(chunks)}

\* The audio that the builder still holds.
HeldChunks == IF state.kind = "Active" THEN state.chunks ELSE state.pre \o state.pending

\* The chunks of the closed segments, then those that are held.
Audio == Append([n \in DOMAIN closes |-> closes[n].chunks], HeldChunks)

ClosedSource == UNION {SourceOf(closes[n].chunks) : n \in DOMAIN closes}

\* What the builder has just returned.
Returned(type) == {events'[i] : i \in {j \in DOMAIN events' : events'[j].type = type}}

Close(closed) ==
  [id |-> closed.id, previous |-> closed.previous, reason |-> closed.reason,
   at |-> frames', chunks |-> closed.chunks]

(***************************************************************************)
(* A chunk is owed when it belongs to a run of speech that has reached the *)
(* start threshold, or when an event announced it as part of a segment.    *)
(* A run is counted from the last silent chunk, the last close at the      *)
(* length limit or the last flush.                                         *)
(***************************************************************************)
Announced ==
  UNION {SourceOf(e.chunks) : e \in Returned("SegmentStarted") \union Returned("SegmentExtended")}

OwedNow ==
  IF frames' > frames /\ input'[frames'] /\ frames' - runFrom >= config.start
  THEN Announced \union runFrom..(frames' - 1) ELSE Announced

HistoryInit ==
  /\ BuilderInit
  /\ input = << >> /\ starts = << >> /\ closes = << >>
  /\ runFrom = 0 /\ flushes = {} /\ owed = {} /\ updates = 0

Record ==
  /\ starts' = IF Returned("SegmentStarted") = {} THEN starts ELSE Append(starts, frames)
  /\ IF Returned("SegmentClosed") = {} THEN UNCHANGED closes
     ELSE \E closed \in Returned("SegmentClosed") : closes' = Append(closes, Close(closed))
  /\ owed' = owed \union OwedNow

ClosedAtLimit == \E e \in Returned("SegmentClosed") : e.reason = "SegmentMaxChunksReached"

PushRecorded(speech) ==
  /\ Push(speech)
  /\ input' = Append(input, speech)
  /\ Record
  /\ runFrom' = IF ~speech \/ ClosedAtLimit THEN frames' ELSE runFrom
  /\ UNCHANGED <<flushes, updates>>

FlushRecorded ==
  /\ Cardinality(flushes) < MaxFlushes
  /\ Flush
  /\ Record
  /\ runFrom' = frames
  /\ flushes' = flushes \union {frames}
  /\ UNCHANGED <<input, updates>>

\* update_runtime_parameters: the length limit and what is enabled stay.
UpdateRecorded(next) ==
  /\ updates < MaxUpdates
  /\ next # config
  /\ next.maxChunks = config.maxChunks
  /\ (next.interim = 0) = (config.interim = 0)
  /\ UpdateConfig(next)
  /\ updates' = updates + 1
  /\ UNCHANGED <<input, starts, closes, runFrom, flushes, owed>>

HistoryNext ==
  \/ \E speech \in BOOLEAN : PushRecorded(speech)
  \/ FlushRecorded
  \/ \E next \in Configs : UpdateRecorded(next)

HistorySpec == HistoryInit /\ [][HistoryNext]_historyVars

-----------------------------------------------------------------------------
(***************************************************************************)
(* Turn audio never repeats or reorders input: the source chunks of the    *)
(* closed segments followed by those still held are strictly increasing.   *)
(* The silence kept as padding across a close (SegmentChunk::              *)
(* into_asr_padding) is what could be counted twice.                       *)
(***************************************************************************)
SourceFramesOnce ==
  LET audio == Audio
  IN  \A n, m \in DOMAIN audio : n <= m =>
        \A i \in SourceIn(audio[n]), j \in SourceIn(audio[m]) :
           n < m \/ i < j => audio[n][i].at < audio[m][j].at

(***************************************************************************)
(* Nothing that was accepted into a segment, and no speech that reached    *)
(* the start threshold, is lost: it is in a closed segment or still held,  *)
(* whatever closes, flushes and settings changes came in between.          *)
(***************************************************************************)
AcceptedAudioKept == owed \subseteq ClosedSource \union SourceOf(HeldChunks)

(***************************************************************************)
(* Unless settings changed, a segment is the child of the one before it     *)
(* exactly when the speech really continued.  After the length limit:      *)
(* no silent chunk before it starts again.  After an interim close: fewer  *)
(* silent chunks than the turn check silence since the parent last heard   *)
(* speech, short speech fragments in between not counting, and no flush.   *)
(* After the end silence: never.                                           *)
(***************************************************************************)
SilentChunks(from, to) == Cardinality({i \in from..to : ~input[i]})

LastSpeechBefore(n) == Max({i \in 1..n : input[i]} \union {0})

Continues(parent, start) ==
  CASE parent.reason = "SegmentMaxChunksReached" ->
         SilentChunks(parent.at + 1, start) = 0
    [] parent.reason = "InterimResultSilenceReached" ->
         /\ SilentChunks(LastSpeechBefore(parent.at - 1) + 1, start) < config.turnCheck
         /\ flushes \intersect (parent.at..start) = {}
    [] OTHER -> FALSE

ChildIffSpeechContinued ==
  \A n \in 2..Len(starts) :
     updates = 0 /\ n <= Len(closes) =>
       LET parent == closes[n - 1]
           child  == closes[n]
       IN  child.previous = IF Continues(parent, starts[n]) THEN parent.id ELSE NoSegment

(***************************************************************************)
(* The audio of a Turn is continuous: inside a segment, and from a parent  *)
(* to its child, no input chunk is missing.  The pre-speech buffer only    *)
(* guarantees it while its padding outweighs the speech fragments that are *)
(* pushed back into it: start * (turnCheck - interim - 1) <= turnCheck.    *)
(* The default settings (3, 10 and 3 chunks) are beyond that: a pause with *)
(* several fragments of speech can push out audio of the continued turn.   *)
(***************************************************************************)
AmplePreSpeech ==
  config.interim = 0
    \/ config.start * (config.turnCheck - config.interim - 1) <= config.turnCheck

Gapless(source) == \A a, b \in source : a..b \subseteq source

TurnAudioContinuous ==
  /\ \A n \in DOMAIN Audio : Gapless(SourceOf(Audio[n]))
  /\ \A n \in 2..Len(closes) :
       /\ updates = 0 /\ AmplePreSpeech
       /\ closes[n].previous = closes[n - 1].id
       => Gapless(SourceOf(closes[n - 1].chunks) \union SourceOf(closes[n].chunks))

\* The settings a session may come to.
Reachable == {c \in Configs : c.maxChunks = config.maxChunks}

(***************************************************************************)
(* A segment starts with the audio right before the speech that started    *)
(* it, without a gap, however pauses, short fragments of speech, closes    *)
(* and settings changes filled and pruned the pre-speech: with all that    *)
(* was heard since the last speech of the segment before, or with a turn   *)
(* check silence and the start threshold of it.  Unlike the continuity of  *)
(* a whole turn it holds for every setting, the default ones too.          *)
(***************************************************************************)
SpokenIn(chunks) == {chunks[i].at : i \in {j \in DOMAIN chunks : chunks[j].speech}}

\* What was heard from here on has not been in a segment, but as its pause.
HeardFrom ==
  LET last == closes[Len(closes)]
      closed == IF closes = << >> THEN 0
                ELSE IF last.reason = "SegmentMaxChunksReached" THEN last.at
                ELSE Max(SpokenIn(last.chunks)) + 1
  IN  Max({closed} \union flushes)

RecentAudioKept ==
  \A e \in {events[i] : i \in {j \in DOMAIN events : events[j].type = "SegmentStarted"}} :
     LET heard == {e.chunks[i].at : i \in DOMAIN e.chunks}
     IN  /\ Gapless(heard) /\ frames - 1 \in heard
         /\ \/ Min(heard) <= HeardFrom
            \/ \E c \in IF updates = 0 THEN {config} ELSE Reachable :
                 Cardinality(heard) >= c.turnCheck + config.start

(***************************************************************************)
(* What is sent to recognition at once stays bounded although settings     *)
(* may change during a segment: the length limit, plus the pre-speech and  *)
(* the speech held back under a larger start threshold.                    *)
(***************************************************************************)
SegmentLengthBounded ==
  \A n \in DOMAIN closes : \E c, d \in Reachable :
     Len(closes[n].chunks) <= config.maxChunks + c.turnCheck + d.start - 1
=============================================================================
