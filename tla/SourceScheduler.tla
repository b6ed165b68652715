--------------------------- MODULE SourceScheduler ---------------------------
(***************************************************************************)
(* Several recognition sources on one scheduler thread (independent        *)
(* profiles or explicit capture): the capture stream and demux thread of   *)
(* each endpoint, a bounded input queue per source, the ready list that    *)
(* gives every source one chunk in turn, and the drain and end of each     *)
(* source when its input closes or the desktop stops.  A source's engine   *)
(* is what the scheduler asks of it: pending work and an open turn.        *)
(***************************************************************************)
EXTENDS Integers, Sequences, FiniteSets, SequenceFilter

CONSTANTS N,          \* number of sources; they are indexed in their order
          Endpoints,  \* capture endpoints
          EndpointOf, \* the endpoint of each source
          Budget,     \* chunks the queue of a source takes
          MaxChunks   \* bound: chunks each endpoint captures

Sources == 1..N

ASSUME SchedulerAssumption ==
  /\ N \in Nat \ {0} /\ Budget \in Nat \ {0} /\ MaxChunks \in [Endpoints -> Nat]
  /\ EndpointOf \in [Sources -> Endpoints]

VARIABLES
  streaming, \* endpoints whose capture stream runs
  demuxing,  \* endpoints whose demux thread runs: their lanes have a sender
  lost,      \* endpoints whose demux ended with an error
  captured,  \* chunks captured by each endpoint
  demuxed,   \* chunks of each endpoint that its lanes were offered
  lane,      \* input channel of each source
  dropped,   \* chunks a source lost to its queue limit
  pending,   \* chunks a source has taken from its channel
  heard,     \* chunks a source has processed
  ready,     \* sources waiting for their turn
  passed,    \* history: turns of others since a source began to wait
  closed,    \* sources whose input has ended
  stopped,   \* sources that are shut down
  working,   \* sources whose engine has work pending
  forgotten, \* sources whose engine waits for a request that the ASR worker dropped
  openTurn,  \* sources whose engine has a segment or a turn open
  mode,      \* RecognitionStopControl
  pc,        \* the scheduler thread: in between its steps, or ending one
  result     \* RecognitionShutdownResult of the thread, once it has ended

captureVars == <<streaming, demuxing, lost, captured, demuxed>>
queueVars   == <<lane, dropped, pending, heard, ready, passed>>
engineVars  == <<closed, stopped, working, forgotten, openTurn>>
vars == <<captureVars, queueVars, engineVars, mode, pc, result>>

Init ==
  /\ streaming = Endpoints /\ demuxing = Endpoints /\ lost = {}
  /\ captured = [e \in Endpoints |-> 0] /\ demuxed = [e \in Endpoints |-> 0]
  /\ lane = [s \in Sources |-> <<>>] /\ dropped = [s \in Sources |-> {}]
  /\ pending = [s \in Sources |-> <<>>] /\ heard = [s \in Sources |-> <<>>]
  /\ ready = <<>> /\ passed = [s \in Sources |-> 0]
  /\ closed = {} /\ stopped = {} /\ working = {} /\ forgotten = {} /\ openTurn = {}
  /\ mode = "Running" /\ pc = "collect" /\ result = "none"

Running == result = "none"

-----------------------------------------------------------------------------
(* Capture and demux *)

Capture(e) ==
  /\ e \in streaming
  /\ captured[e] < MaxChunks[e]
  /\ captured' = [captured EXCEPT ![e] = @ + 1]
  /\ UNCHANGED <<streaming, demuxing, lost, demuxed, queueVars, engineVars, mode, pc, result>>

\* A chunk is in the budget until it has been processed.
Fits(s) == Len(lane[s]) + Len(pending[s]) < Budget

\* The next chunk of the endpoint goes to each of its sources with room for it.
Demux(e) ==
  /\ e \in demuxing
  /\ demuxed[e] < captured[e]
  /\ demuxed' = [demuxed EXCEPT ![e] = @ + 1]
  /\ lane' = [s \in Sources |->
                IF EndpointOf[s] = e /\ Fits(s)
                THEN Append(lane[s], demuxed[e] + 1) ELSE lane[s]]
  /\ dropped' = [s \in Sources |->
                   IF EndpointOf[s] = e /\ ~Fits(s)
                   THEN dropped[s] \union {demuxed[e] + 1} ELSE dropped[s]]
  /\ UNCHANGED <<streaming, demuxing, lost, captured, pending, heard, ready,
                 passed, engineVars, mode, pc, result>>

\* The stream is gone and all it captured is demuxed, or the stop is a cancel.
DemuxEnds(e) ==
  /\ e \in demuxing \ streaming
  /\ demuxed[e] = captured[e] \/ mode = "Cancel"
  /\ demuxing' = demuxing \ {e}
  /\ UNCHANGED <<streaming, lost, captured, demuxed, queueVars, engineVars, mode, pc, result>>

\* A chunk that does not fit the layout ends the demux of its endpoint.
DemuxFails(e) ==
  /\ e \in demuxing
  /\ demuxed[e] < captured[e]
  /\ demuxing' = demuxing \ {e}
  /\ lost' = lost \union {e}
  /\ UNCHANGED <<streaming, captured, demuxed, queueVars, engineVars, mode, pc, result>>

-----------------------------------------------------------------------------
(* The stop of the desktop *)

RequestStop(m) ==
  /\ mode = "Running"
  /\ mode' = m
  /\ UNCHANGED <<captureVars, queueVars, engineVars, pc, result>>

\* Mutant: the captures are closed before the mode is requested.
CloseAnyCapture(e) ==
  /\ e \in streaming
  /\ streaming' = streaming \ {e}
  /\ UNCHANGED <<demuxing, lost, captured, demuxed, queueVars, engineVars, mode, pc, result>>

\* The streams are dropped one after the other, after the request.
CloseCapture(e) ==
  /\ mode # "Running"
  /\ e \in streaming
  /\ streaming' = streaming \ {e}
  /\ UNCHANGED <<demuxing, lost, captured, demuxed, queueVars, engineVars, mode, pc, result>>

-----------------------------------------------------------------------------
(* One step of the scheduler *)

Collected(s) == IF s \in closed THEN pending[s] ELSE pending[s] \o lane[s]

\* The channel has no sender and nothing is left of it.
Disconnected(s) == EndpointOf[s] \notin demuxing /\ Collected(s) = <<>>

Listed(s) == \E i \in DOMAIN ready : ready[i] = s

\* Sources are listed in their order, and once.
NewlyReady ==
  Only([s \in Sources |-> s],
       {s \in Sources \ closed : Collected(s) # <<>> /\ ~Disconnected(s) /\ ~Listed(s)})

\* Mutant: a source that still has chunks goes to the front.
RequeuedFirst(list, s, still) == IF still THEN <<s>> \o list ELSE list

\* A source that still has chunks goes to the end.
Requeued(list, s, still) == IF still THEN Append(list, s) ELSE list

\* The engines of some sources get work.  When a segment is closed the engine
\* resets its source, and the worker drops the request it had queued of it.
Work(sources) ==
  \E works \in SUBSET sources, resets \in SUBSET (sources \intersect working) :
    /\ resets \subseteq works
    /\ working' = working \union works
    /\ forgotten' = forgotten \union resets

\* The input of every source is collected, then one source has its turn.  Its
\* engine may get work or an open turn; so it may when closed input is flushed.
Step ==
  /\ Running
  /\ pc = "collect"
  /\ mode # "Cancel"
  /\ LET ended == {s \in Sources \ closed : Disconnected(s)}
         waiting == ready \o NewlyReady
         collected == [s \in Sources |-> Collected(s)]
     IN  /\ closed' = closed \union ended
         /\ lane' = [s \in Sources |-> IF s \in closed THEN lane[s] ELSE <<>>]
         /\ IF waiting = <<>>
            THEN /\ pending' = collected
                 /\ ready' = waiting
                 /\ UNCHANGED <<heard, passed>>
                 /\ Work(ended \intersect openTurn)
                 /\ UNCHANGED openTurn
            ELSE LET s == Head(waiting)
                     rest == Requeued(Tail(waiting), s,
                               Len(collected[s]) > 1 /\ s \notin closed')
                 IN  /\ pending' = [collected EXCEPT ![s] = Tail(@)]
                     /\ heard' = [heard EXCEPT ![s] = Append(@, Head(collected[s]))]
                     /\ ready' = rest
                     /\ passed' = [t \in Sources |->
                                     IF t # s /\ (Listed(t) \/ Collected(t) # <<>>) THEN passed[t] + 1
                                     ELSE 0]
                     /\ Work((ended \intersect openTurn) \union {s})
                     /\ \E turn \in SUBSET {s} : openTurn' = openTurn \union turn
  /\ pc' = "finish"
  /\ UNCHANGED <<captureVars, dropped, stopped, mode, result>>

\* The ASR worker has answered, and the engine has taken its result.  A request
\* that was dropped is never answered, and the engine has one out at a time.
Recognized(s) ==
  /\ Running
  /\ s \in working \ (stopped \union forgotten)
  /\ working' = working \ {s}
  /\ UNCHANGED <<captureVars, queueVars, closed, stopped, forgotten, openTurn, mode, pc, result>>

\* Mutant: an open turn is left to the engine's own checks.
DrainedWithoutFinal(s) == s \notin working /\ s \notin openTurn

\* Nothing is pending; the final of the open turn may bring work once more.
Drained(s) == s \notin working

\* Sources that are closed and drained are shut down.  When that was the last
\* one the loop ends: an end that nobody has asked for is a cancel.
FinishStep ==
  /\ Running
  /\ pc = "finish"
  /\ LET drained == {s \in closed \ stopped : Drained(s)}
     IN  \E more \in SUBSET (drained \intersect openTurn) :
           /\ openTurn' = openTurn \ drained
           /\ working' = working \union more
           /\ stopped' = stopped \union (drained \ more)
  /\ UNCHANGED forgotten
  /\ result' = IF stopped' # Sources THEN "none"
               ELSE IF mode = "Running" THEN "Cancelled" ELSE "Completed"
  /\ pc' = "collect"
  /\ UNCHANGED <<captureVars, queueVars, closed, mode>>

CancelStep ==
  /\ Running
  /\ pc = "collect"
  /\ mode = "Cancel"
  /\ result' = "Cancelled"
  /\ UNCHANGED <<captureVars, queueVars, engineVars, mode, pc>>

Scheduler == Step \/ FinishStep \/ CancelStep

-----------------------------------------------------------------------------
Next ==
  \/ \E e \in Endpoints :
       Capture(e) \/ Demux(e) \/ DemuxEnds(e) \/ DemuxFails(e) \/ CloseCapture(e)
  \/ \E m \in {"Graceful", "Cancel"} : RequestStop(m)
  \/ \E s \in Sources : Recognized(s)
  \/ Scheduler

Spec == Init /\ [][Next]_vars

(***************************************************************************)
(* The threads run: scheduler, demux and, once a stop was requested, the   *)
(* stopping thread; one endpoint or source at a time is enough.  The ASR   *)
(* worker's thread executes what is in its queue: what it has not dropped  *)
(* is answered.                                                            *)
(***************************************************************************)
Fairness ==
  /\ WF_vars(Scheduler)
  /\ WF_vars(\E e \in Endpoints : Demux(e) \/ DemuxEnds(e))
  /\ WF_vars(\E e \in Endpoints : CloseCapture(e))
  /\ WF_vars(\E s \in Sources : Recognized(s))

FairSpec == Spec /\ Fairness

-----------------------------------------------------------------------------
(***************************************************************************)
(* A source with chunks has its turn after at most one turn of each other  *)
(* source, however much the others have.                                   *)
(***************************************************************************)
SourceIsServed == \A s \in Sources : passed[s] < N

(***************************************************************************)
(* A graceful stop completes, if no device was lost, and loses nothing:    *)
(* every captured chunk was heard, in order, or its overrun was recorded,  *)
(* and no source is left with work or an open turn.                        *)
(***************************************************************************)
Offered(s) == [n \in 1..captured[EndpointOf[s]] |-> n]

StopLosesNothing ==
  (~Running /\ mode = "Graceful" /\ lost = {}) =>
    /\ result = "Completed"
    /\ working = {} /\ openTurn = {}
    /\ \A s \in Sources :
         heard[s] = Only(Offered(s), Nat \ dropped[s])

(***************************************************************************)
(* A cancel ends whatever the sources and the worker are doing.  A         *)
(* graceful stop ends as well, unless a reset has made the worker drop a   *)
(* request: then that source is never drained, and a drain has no time     *)
(* limit here.                                                             *)
(***************************************************************************)
StopEnds ==
  /\ mode = "Cancel" ~> ~Running
  /\ mode = "Graceful" ~> ~Running \/ forgotten # {}
=============================================================================
