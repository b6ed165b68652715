------------------------------ MODULE AsrWorker ------------------------------
(***************************************************************************)
(* The shared ASR worker of src-tauri/src/recognition/asr_worker.rs.       *)
(* Source lanes send commands into one channel; the worker's thread drains *)
(* the channel into PendingAsrRequests, which dispatches fairly over       *)
(* models and sources, executes one request at a time, and sends its       *)
(* result to the lane it came from.                                        *)
(***************************************************************************)
EXTENDS Integers, Sequences, SequencesExt, SequenceFilter

CONSTANTS Sources,         \* SourceSessionKey of each lane
          Models,          \* AsrModel of a route
          MaxOutstanding,  \* requests a lane has out at once; the engine keeps it at 1
          MaxRequests,     \* bound: requests per lane
          MaxResets        \* bound: resets per lane

ASSUME LanesAssumption == Sources # {} /\ Models # {}
ASSUME BoundsAssumption ==
  MaxOutstanding \in Nat \ {0} /\ MaxRequests \in Nat /\ MaxResets \in Nat

VARIABLES channel,       \* the command channel
          queues,        \* PendingAsrRequests.queues; an absent key is empty
          readyModels,   \* PendingAsrRequests.ready_models
          readySources,  \* PendingAsrRequests.ready_sources
          worker,        \* where the worker's thread is, and what it executes
          results,       \* the result channel of each lane
          open,          \* lanes whose runner is still alive
          awaited,       \* history: requests each open lane still waits for
          sent,          \* history: requests each lane has submitted
          resets,        \* history: resets each lane has asked for
          covered,       \* history: requests it had submitted before the last of them
          passed,        \* history: what was popped while a request waited
          dropped        \* history: requests forgotten by a reset

pendingVars == <<queues, readyModels, readySources>>
laneVars == <<results, open, awaited, sent, resets, covered>>
vars == <<channel, pendingVars, worker, laneVars, passed, dropped>>

Keys == Models \X Sources
Request(source, model, n) == [source |-> source, model |-> model, n |-> n]
KeyOf(request) == <<request.model, request.source>>
Idle == [at |-> "draining"]

Init ==
  /\ channel = << >>
  /\ queues = [k \in Keys |-> << >>]
  /\ readyModels = << >>
  /\ readySources = [m \in Models |-> << >>]
  /\ worker = Idle
  /\ results = [s \in Sources |-> << >>]
  /\ open = Sources
  /\ awaited = [s \in Sources |-> {}]
  /\ sent = [s \in Sources |-> 0]
  /\ resets = [s \in Sources |-> 0]
  /\ covered = [s \in Sources |-> 0]
  /\ passed = << >>
  /\ dropped = {}

-----------------------------------------------------------------------------
(* The lanes. *)

\* EngineAsrRequestRunner::submit
Submit(s, m) ==
  /\ s \in open
  /\ sent[s] < MaxRequests
  /\ Cardinality(awaited[s]) < MaxOutstanding
  /\ LET request == Request(s, m, sent[s] + 1)
     IN  /\ channel' = Append(channel, [type |-> "RequestFor", request |-> request])
         /\ awaited' = [awaited EXCEPT ![s] = @ \union {request}]
  /\ sent' = [sent EXCEPT ![s] = @ + 1]
  /\ UNCHANGED <<pendingVars, worker, results, open, resets, covered, passed, dropped>>

\* reset_streaming_sessions_for_source
Reset(s) ==
  /\ s \in open
  /\ resets[s] < MaxResets
  /\ channel' = Append(channel, [type |-> "ResetStreamingSessionsForSource", source |-> s])
  /\ resets' = [resets EXCEPT ![s] = @ + 1]
  /\ covered' = [covered EXCEPT ![s] = sent[s]]
  /\ UNCHANGED <<pendingVars, worker, results, open, awaited, sent, passed, dropped>>

\* try_recv_result
Receive(s) ==
  /\ s \in open
  /\ results[s] # << >>
  /\ awaited' = [awaited EXCEPT ![s] = @ \ {Head(results[s])}]
  /\ results' = [results EXCEPT ![s] = Tail(@)]
  /\ UNCHANGED <<channel, pendingVars, worker, open, sent, resets, covered, passed, dropped>>

\* shutdown of a pooled lane: the pool and its queues do not notice.
CloseLane(s) ==
  /\ s \in open
  /\ open' = open \ {s}
  /\ awaited' = [awaited EXCEPT ![s] = {}]
  /\ results' = [results EXCEPT ![s] = << >>]
  /\ UNCHANGED <<channel, pendingVars, worker, sent, resets, covered, passed, dropped>>

-----------------------------------------------------------------------------
(* PendingAsrRequests. *)

Push(request) ==
  LET m == request.model
      s == request.source
      wasEmpty == queues[KeyOf(request)] = << >>
  IN  /\ queues' = [queues EXCEPT ![KeyOf(request)] = Append(@, request)]
      /\ readyModels' = IF wasEmpty /\ readySources[m] = << >>
                        THEN Append(readyModels, m) ELSE readyModels
      /\ readySources' = IF wasEmpty THEN [readySources EXCEPT ![m] = Append(@, s)]
                         ELSE readySources

\* Mutant: a source keeps its turn while it has requests.
PopKeepsSource(request) ==
  LET m == Head(readyModels)
      s == Head(readySources[m])
      hasMore == Tail(queues[<<m, s>>]) # << >>
      sources == (IF hasMore THEN <<s>> ELSE << >>) \o Tail(readySources[m])
  IN  /\ readyModels # << >>
      /\ request = Head(queues[<<m, s>>])
      /\ queues' = [queues EXCEPT ![<<m, s>>] = Tail(@)]
      /\ readySources' = [readySources EXCEPT ![m] = sources]
      /\ readyModels' = Tail(readyModels) \o (IF sources # << >> THEN <<m>> ELSE << >>)

Pop(request) ==
  LET m == Head(readyModels)
      s == Head(readySources[m])
      hasMore == Tail(queues[<<m, s>>]) # << >>
      sources == Tail(readySources[m]) \o (IF hasMore THEN <<s>> ELSE << >>)
  IN  /\ readyModels # << >>
      /\ request = Head(queues[<<m, s>>])
      /\ queues' = [queues EXCEPT ![<<m, s>>] = Tail(@)]
      /\ readySources' = [readySources EXCEPT ![m] = sources]
      /\ readyModels' = Tail(readyModels) \o (IF sources # << >> THEN <<m>> ELSE << >>)

\* Mutant: the reset of a source clears every queue.
ClearQueues(s) ==
  /\ queues' = [k \in Keys |-> << >>]
  /\ readySources' = [m \in Models |-> << >>]
  /\ readyModels' = << >>

\* Mutant: a model the source had requests of leaves the rotation.
RemoveModels(s) ==
  /\ queues' = [k \in Keys |-> IF k[2] = s THEN << >> ELSE queues[k]]
  /\ readySources' = [m \in Models |-> Only(readySources[m], Sources \ {s})]
  /\ readyModels' = Only(readyModels, {m \in Models : queues[<<m, s>>] = << >>})

RemoveSource(s) ==
  LET sources == [m \in Models |->
        IF queues[<<m, s>>] = << >> THEN readySources[m]
        ELSE Only(readySources[m], Sources \ {s})]
  IN  /\ queues' = [k \in Keys |-> IF k[2] = s THEN << >> ELSE queues[k]]
      /\ readySources' = sources
      /\ readyModels' = Only(readyModels, {m \in Models : sources[m] # << >>})

QueuedRequests == UNION {Range(queues[k]) : k \in Keys}

-----------------------------------------------------------------------------
(* The worker's thread. *)

\* apply_asr_worker_command
Apply(command) ==
  \/ /\ command.type = "RequestFor"
     /\ Push(command.request)
     /\ passed' = [r \in DOMAIN passed \union {command.request} |->
                     IF r \in DOMAIN passed THEN passed[r] ELSE << >>]
     /\ UNCHANGED dropped
  \/ /\ command.type = "ResetStreamingSessionsForSource"
     /\ RemoveSource(command.source)
     /\ dropped' = dropped \union {r \in QueuedRequests : r.source = command.source}
     /\ passed' = [r \in {x \in DOMAIN passed : x.source # command.source} |-> passed[r]]

\* Mutant: requests are taken before the resets in front of them.
ApplyRequestsFirst ==
  /\ worker.at = "draining"
  /\ LET requests == {i \in DOMAIN channel : channel[i].type = "RequestFor"}
         next == IF requests = {} THEN 1 ELSE CHOOSE i \in requests : \A j \in requests : i <= j
     IN  /\ channel # << >>
         /\ Apply(channel[next])
         /\ channel' = RemoveAt(channel, next)
  /\ UNCHANGED <<worker, laneVars>>

\* The oldest command of the channel.
ApplyCommand ==
  /\ worker.at = "draining"
  /\ channel # << >>
  /\ Apply(Head(channel))
  /\ channel' = Tail(channel)
  /\ UNCHANGED <<worker, laneVars>>

\* try_recv found nothing: a request is selected, whatever arrives meanwhile.
Drained ==
  /\ worker.at = "draining"
  /\ channel = << >>
  /\ readyModels # << >>
  /\ worker' = [at |-> "selecting"]
  /\ UNCHANGED <<channel, pendingVars, laneVars, passed, dropped>>

Select ==
  /\ worker.at = "selecting"
  /\ \E request \in QueuedRequests :
       /\ Pop(request)
       /\ worker' = [at |-> "executing", request |-> request]
       /\ passed' = [r \in DOMAIN passed \ {request} |-> Append(passed[r], KeyOf(request))]
  /\ UNCHANGED <<channel, laneVars, dropped>>

\* The result goes to the lane's own channel; a closed lane is ignored.
Finish ==
  /\ worker.at = "executing"
  /\ LET s == worker.request.source
     IN  results' = IF s \in open
                    THEN [results EXCEPT ![s] = Append(@, worker.request)] ELSE results
  /\ worker' = Idle
  /\ UNCHANGED <<channel, pendingVars, open, awaited, sent, resets, covered, passed, dropped>>

WorkerStep == ApplyCommand \/ Drained \/ Select \/ Finish

Next ==
  \/ \E s \in Sources, m \in Models : Submit(s, m)
  \/ \E s \in Sources : Reset(s) \/ Receive(s) \/ CloseLane(s)
  \/ WorkerStep

Spec == Init /\ [][Next]_vars

\* The worker's thread runs on, and every lane is stepped by its driver.
Fairness == WF_vars(WorkerStep) /\ \A s \in Sources : WF_vars(Receive(s))

FairSpec == Spec /\ Fairness

-----------------------------------------------------------------------------
Requests == [source : Sources, model : Models, n : Nat]
Command ==
  [type : {"RequestFor"}, request : Requests]
    \union [type : {"ResetStreamingSessionsForSource"}, source : Sources]

(***************************************************************************)
(* Type invariant of the worker.                                           *)
(***************************************************************************)
TypeOK ==
  /\ channel \in Seq(Command)
  /\ queues \in [Keys -> Seq(Requests)]
  /\ readyModels \in Seq(Models)
  /\ readySources \in [Models -> Seq(Sources)]
  /\ worker \in [at : {"draining", "selecting"}] \union [at : {"executing"}, request : Requests]
  /\ results \in [Sources -> Seq(Requests)]
  /\ open \subseteq Sources
  /\ awaited \in [Sources -> SUBSET Requests]
  /\ sent \in [Sources -> Nat] /\ resets \in [Sources -> Nat]
  /\ dropped \subseteq Requests

(***************************************************************************)
(* Neither a source nor a model monopolizes the worker, whatever pushes,   *)
(* pops and removals do to the rotation lists: a request with n requests   *)
(* of its own lane ahead of it is overtaken at most n + 1 times by each    *)
(* other lane of its model, and between two pops of another model its own  *)
(* model is served.                                                        *)
(***************************************************************************)
TimesPassed(r, key) == Cardinality({i \in DOMAIN passed[r] : passed[r][i] = key})

NoMonopoly ==
  \A r \in DOMAIN passed :
    /\ \A s \in Sources \ {r.source} :
         TimesPassed(r, <<r.model, s>>) <= TimesPassed(r, KeyOf(r)) + 1
    /\ \A i, j \in DOMAIN passed[r] :
         i < j /\ passed[r][i][1] = passed[r][j][1] /\ passed[r][i][1] # r.model
           => \E k \in i..j : passed[r][k][1] = r.model

(***************************************************************************)
(* Every request that an open lane waits for is in exactly one place on    *)
(* its way, or was forgotten by a reset of that lane itself, and then is   *)
(* neither queued again nor executed nor answered.                         *)
(***************************************************************************)
Started == {worker.request : x \in {y \in {1} : worker.at = "executing"}}
InChannel == {c.request : c \in {x \in Range(channel) : x.type = "RequestFor"}}

EachRequestAccounted ==
  \A s \in open : \A r \in awaited[s] :
     Cardinality({p \in 1..5 :
       r \in CASE p = 1 -> InChannel
               [] p = 2 -> QueuedRequests
               [] p = 3 -> Started
               [] p = 4 -> Range(results[s])
               [] p = 5 -> {d \in dropped : resets[d.source] > 0}}) = 1

(***************************************************************************)
(* A reset takes away what its lane submitted before it, and nothing that  *)
(* came after: the two travel through one channel, and stay in that order  *)
(* although requests go on to queues and resets do not.                    *)
(***************************************************************************)
ResetIsInOrder == \A d \in dropped : d.n <= covered[d.source]

(***************************************************************************)
(* Whatever the other lanes submit, reset or close, a lane gets its        *)
(* results, unless it reset the request itself or closed.                  *)
(***************************************************************************)
Waits(s, n) == \E r \in awaited[s] : r.n = n /\ r \notin dropped

LaneIsAnswered ==
  \A s \in Sources, n \in 1..MaxRequests : Waits(s, n) ~> ~Waits(s, n)
=============================================================================
