----------------------------- MODULE TextDelivery -----------------------------
(***************************************************************************)
(* What happens to the text of a source session after the recognition      *)
(* engine: delivery/dispatch.rs hands each output to the HTTP router       *)
(* (delivery/router.rs, several threads for one profile) and to            *)
(* translation (translation/queue.rs and pipeline.rs, one thread), whose   *)
(* results go to the HTTP router again and to speech synthesis             *)
(* (synthesis/queue.rs and dispatch.rs, one thread).                       *)
(*                                                                         *)
(* The outputs of the session Main are those of TurnOutput.  The Earlier   *)
(* sessions of its source ended before Main began, but their text may      *)
(* still be queued.  One HTTP profile takes every text event, interims are *)
(* translated too, into one language, and the speech mappings match        *)
(* translations.                                                           *)
(***************************************************************************)
EXTENDS TurnOutput, Sequences, SequencesExt

CONSTANTS Main,         \* the session whose outputs are TurnOutput's
          Earlier,      \* earlier sessions of the same source
          Capacity,     \* capacity_per_profile
          Threads,      \* threads of the HTTP profile
          Mappings,     \* speech mappings that match, in their order
          MaxTurns,     \* bound: turns of Main
          MaxOutputs,   \* bound: outputs of Main
          MaxEarlier    \* bound: outputs of each earlier session

Sources == {Main} \union Earlier

ASSUME SessionsAssumption ==
  /\ \A s \in Sources : s.session \in Nat
  /\ \A s \in Earlier : s.session < Main.session
ASSUME DeliveryAssumption ==
  /\ Capacity \in Nat \ {0}
  /\ {MaxTurns, MaxOutputs, MaxEarlier} \subseteq Nat

VARIABLES delivered,     \* outputs of each session handed to the sinks
          queues,        \* HttpQueueState.by_source; an absent key is empty
          readySources,  \* HttpQueueState.ready_sources; ready_set is its range
          inFlight,      \* HttpQueueState.in_flight
          reserved,      \* HttpQueueState.reserved
          threads,       \* where each thread of the profile is
          accepted,      \* history: number of events of each session accepted
          posted,        \* history: the number of the last one sent or given up
          translations,  \* TranslationQueueState
          translator,    \* where the translation thread is
          stands,        \* history: turns whose last translation was of the final
          speeches,      \* TtsQueueState.queue
          speaker,       \* where the speech thread is
          unspoken       \* history: speech requests built and not yet processed

httpVars == <<queues, readySources, inFlight, reserved, threads, accepted, posted>>
translationVars == <<translations, translator, stands>>
speechVars == <<speeches, speaker, unspoken>>
vars == <<outputVars, delivered, httpVars, translationVars, speechVars>>

\* A thread has not been started, is about to look at its queue, waits for a
\* notification, or works on an item.
Unstarted == [at |-> "unstarted"]
Looking == [at |-> "looking"]
Waiting == [at |-> "waiting"]
Working(item) == [at |-> "working", item |-> item]
Translating(s, item) == [at |-> "working", source |-> s, item |-> item]

Woken(thread) == IF thread.at = "working" THEN thread ELSE Looking

\* A text event is its session and its number among the accepted ones.
TextEvent(s, n) == [source |-> s, n |-> n]
Queues == [by_source |-> [s \in Sources |-> << >>], ready |-> << >>]

Init ==
  /\ TurnOutputInit
  /\ delivered = [s \in Sources |-> 0]
  /\ queues = [s \in Sources |-> << >>]
  /\ readySources = << >>
  /\ inFlight = {}
  /\ reserved = 0
  /\ threads = [t \in Threads |-> Unstarted]
  /\ accepted = [s \in Sources |-> 0]
  /\ posted = [s \in Sources |-> 0]
  /\ translations = Queues
  /\ translator = Unstarted
  /\ stands = [s \in Sources |-> {}]
  /\ speeches = Queues
  /\ speaker = Unstarted
  /\ unspoken = {}

-----------------------------------------------------------------------------
(* The HTTP router. *)

\* notify_one wakes one of the waiting threads, if there is one.
Notified(ts) ==
  LET waiting == {t \in Threads : ts[t] = Waiting}
  IN  IF waiting = {} THEN {ts} ELSE {[ts EXCEPT ![t] = Looking] : t \in waiting}

Started == [t \in Threads |-> IF threads[t] = Unstarted THEN Looking ELSE threads[t]]

\* The first event starts the threads of the profile: the event is dropped
\* when a thread does not start, and when the queue is full.
Enqueue(s) ==
  LET newlyReady == s \notin inFlight /\ s \notin Range(readySources)
  IN  \/ /\ reserved < Capacity
         /\ queues' = [queues EXCEPT ![s] = Append(@, TextEvent(s, accepted[s] + 1))]
         /\ reserved' = reserved + 1
         /\ accepted' = [accepted EXCEPT ![s] = @ + 1]
         /\ IF newlyReady
            THEN readySources' = Append(readySources, s) /\ threads' \in Notified(Started)
            ELSE threads' = Started /\ UNCHANGED readySources
         /\ UNCHANGED <<inFlight, posted>>
      \/ /\ reserved >= Capacity \/ \E t \in Threads : threads[t] = Unstarted
         /\ UNCHANGED httpVars

Available(s) == s \notin inFlight /\ queues[s] # << >>

\* Mutant: the session is not marked as being sent.
TakeUnclaimed(t) ==
  /\ threads[t] = Looking
  /\ \/ \E n \in DOMAIN readySources : LET s == readySources[n] IN
          /\ Available(s)
          /\ \A i \in 1..(n - 1) : ~Available(readySources[i])
          /\ readySources' = SubSeq(readySources, n + 1, Len(readySources))
          /\ queues' = [queues EXCEPT ![s] = Tail(@)]
          /\ threads' = [threads EXCEPT ![t] = Working(Head(queues[s]))]
     \/ /\ \A n \in DOMAIN readySources : ~Available(readySources[n])
        /\ readySources' = << >>
        /\ threads' = [threads EXCEPT ![t] = Waiting]
        /\ UNCHANGED queues
  /\ UNCHANGED <<outputVars, delivered, inFlight, reserved, accepted, posted, translationVars, speechVars>>

\* take_next: the entries before the first available source are used up.
TakeNext(t) ==
  /\ threads[t] = Looking
  /\ \/ \E n \in DOMAIN readySources : LET s == readySources[n] IN
          /\ Available(s)
          /\ \A i \in 1..(n - 1) : ~Available(readySources[i])
          /\ readySources' = SubSeq(readySources, n + 1, Len(readySources))
          /\ queues' = [queues EXCEPT ![s] = Tail(@)]
          /\ inFlight' = inFlight \union {s}
          /\ threads' = [threads EXCEPT ![t] = Working(Head(queues[s]))]
     \/ /\ \A n \in DOMAIN readySources : ~Available(readySources[n])
        /\ readySources' = << >>
        /\ threads' = [threads EXCEPT ![t] = Waiting]
        /\ UNCHANGED <<queues, inFlight>>
  /\ UNCHANGED <<outputVars, delivered, reserved, accepted, posted, translationVars, speechVars>>

\* Mutant: what was queued during the request is not made ready.
PostedNotRequeued(t) ==
  /\ threads[t].at = "working"
  /\ LET s == threads[t].item.source
     IN  /\ inFlight' = inFlight \ {s}
         /\ posted' = [posted EXCEPT ![s] = threads[t].item.n]
  /\ reserved' = reserved - 1
  /\ threads' = [threads EXCEPT ![t] = Looking]
  /\ UNCHANGED <<outputVars, delivered, queues, readySources, accepted, translationVars, speechVars>>

\* The request has been answered, or has failed: the event is done with.
Post(t) ==
  /\ threads[t].at = "working"
  /\ LET s == threads[t].item.source
         requeued == queues[s] # << >> /\ s \notin Range(readySources)
         others == [threads EXCEPT ![t] = Looking]
     IN  /\ inFlight' = inFlight \ {s}
         /\ posted' = [posted EXCEPT ![s] = threads[t].item.n]
         /\ IF requeued
            THEN readySources' = Append(readySources, s) /\ threads' \in Notified(others)
            ELSE threads' = others /\ UNCHANGED readySources
  /\ reserved' = reserved - 1
  /\ UNCHANGED <<outputVars, delivered, queues, accepted, translationVars, speechVars>>

\* A condition variable may wake a thread that nobody notified.
WakeSpuriously(t) ==
  /\ threads[t] = Waiting
  /\ threads' = [threads EXCEPT ![t] = Looking]
  /\ UNCHANGED <<outputVars, delivered, queues, readySources, inFlight, reserved, accepted, posted,
                 translationVars, speechVars>>

-----------------------------------------------------------------------------
(* Translation. *)

\* Mutant: a newer request also replaces those of other turns.
StaleOfAnyTurn(queued, next) == next.final \/ ~queued.final

\* translation_job_is_stale
Stale(queued, next) == queued.turn = next.turn /\ (next.final \/ ~queued.final)

PushTranslation(s, request) ==
  LET kept == SelectSeq(translations.by_source[s], LAMBDA queued : ~Stale(queued, request))
      ready == translations.ready
  IN  translations' = [by_source |-> [translations.by_source EXCEPT ![s] = Append(kept, request)],
                       ready |-> IF s \in Range(ready) THEN ready ELSE Append(ready, s)]

\* submit: the thread is started, or notified; when it does not start, the
\* request stays queued and the next submit tries again.
SubmitTranslation(s, request) ==
  /\ PushTranslation(s, request)
  /\ \/ translator' = Woken(translator)
     \/ translator = Unstarted /\ UNCHANGED translator
  /\ UNCHANGED stands

\* pop_next, while the queue is not empty.
TakeTranslation ==
  /\ translator = Looking
  /\ LET ready == translations.ready
         s == Head(ready)
         rest == Tail(translations.by_source[s])
     IN  \/ /\ ready # << >>
            /\ translator' = Translating(s, Head(translations.by_source[s]))
            /\ translations' = [by_source |-> [translations.by_source EXCEPT ![s] = rest],
                                ready |-> IF rest = << >> THEN Tail(ready) ELSE Append(Tail(ready), s)]
         \/ /\ \A source \in Sources : translations.by_source[source] = << >>
            /\ translator' = Waiting
            /\ UNCHANGED translations
  /\ UNCHANGED <<outputVars, delivered, httpVars, stands, speechVars>>

-----------------------------------------------------------------------------
(* Speech synthesis. *)

Speech(s, request, mapping) == [source |-> s, turn |-> request.turn, mapping |-> mapping]

\* tts_job_is_stale: the kind and the language are the same for all.
StaleSpeech(queued, next) ==
  queued.source = next.source /\ queued.turn = next.turn /\ queued # next

\* push_tts_requests, for one request.
PushSpeech(q, speech) ==
  LET s == speech.source
      kept == [source \in Sources |->
                 SelectSeq(q.by_source[source], LAMBDA queued : ~StaleSpeech(queued, speech))]
      ready == SelectSeq(q.ready, LAMBDA source : kept[source] # << >>)
  IN  [by_source |-> [kept EXCEPT ![s] = Append(@, speech)],
       ready |-> IF kept[s] = << >> THEN Append(ready, s) ELSE ready]

\* submit_many, for the requests of every matching mapping.
SubmitSpeech(s, request) ==
  /\ speeches' = FoldLeft(LAMBDA q, mapping : PushSpeech(q, Speech(s, request, mapping)),
                          speeches, Mappings)
  /\ unspoken' = unspoken \union {Speech(s, request, mapping) : mapping \in Range(Mappings)}
  /\ \/ speaker' = Woken(speaker)
     \/ speaker = Unstarted /\ UNCHANGED speaker

\* next_ready_source: the first earlier session of the selected source goes before it.
NextReady(ready) ==
  LET n == SelectInSeq(ready, LAMBDA s : s.id = Head(ready).id /\ s.session < Head(ready).session)
  IN  IF n = 0 THEN 1 ELSE n

TakeSpeech ==
  /\ speaker = Looking
  /\ LET ready == speeches.ready
         s == ready[NextReady(ready)]
         others == RemoveAt(ready, NextReady(ready))
         rest == Tail(speeches.by_source[s])
     IN  \/ /\ ready # << >>
            /\ speaker' = Working(Head(speeches.by_source[s]))
            /\ speeches' = [by_source |-> [speeches.by_source EXCEPT ![s] = rest],
                            ready |-> IF rest = << >> THEN others ELSE Append(others, s)]
         \/ /\ ready = << >>
            /\ speaker' = Waiting
            /\ UNCHANGED speeches
  /\ UNCHANGED <<outputVars, delivered, httpVars, translationVars, unspoken>>

\* process_speech_request, whether it succeeds or fails.
Speak ==
  /\ speaker.at = "working"
  /\ unspoken' = unspoken \ {speaker.item}
  /\ speaker' = Looking
  /\ UNCHANGED <<outputVars, delivered, httpVars, translationVars, speeches>>

\* run_translation_request: a failure is delivered too, but not spoken.
Translate ==
  /\ translator.at = "working"
  /\ LET s == translator.source
         request == translator.item
         turn == {request.turn}
     IN  /\ stands' = [stands EXCEPT ![s] = IF request.final THEN @ \union turn ELSE @ \ turn]
         /\ Enqueue(s)
         /\ (request.final /\ SubmitSpeech(s, request)) \/ UNCHANGED speechVars
  /\ translator' = Looking
  /\ UNCHANGED <<outputVars, delivered, translations>>

-----------------------------------------------------------------------------
(* The outputs and their dispatch. *)

\* The engine's thread hands over every output before it goes on.
Produce ==
  /\ delivered[Main] = nextSeq - 1
  /\ TurnOutputNext
  /\ newest' <= MaxTurns /\ nextSeq' <= MaxOutputs + 1
  /\ UNCHANGED <<delivered, httpVars, translationVars, speechVars>>

\* dispatch_recognized_text: first the HTTP router, then translation.
Dispatch(s, output) ==
  /\ delivered' = [delivered EXCEPT ![s] = @ + 1]
  /\ Enqueue(s)
  /\ SubmitTranslation(s, output)
  /\ UNCHANGED <<outputVars, speechVars>>

Output(turn, final) == [turn |-> turn, final |-> final]

DispatchMain ==
  \E o \in log : o.seq = delivered[Main] + 1 /\ Dispatch(Main, Output(o.turn, o.final))

\* An earlier session ended before Main began: here it has only finals.
DispatchEarlier(s) ==
  /\ newest = 0
  /\ delivered[s] < MaxEarlier
  /\ Dispatch(s, Output(delivered[s] + 1, TRUE))

ThreadStep(t) == TakeNext(t) \/ Post(t)
TranslatorStep == TakeTranslation \/ Translate
SpeakerStep == TakeSpeech \/ Speak

Next ==
  \/ Produce
  \/ DispatchMain
  \/ \E s \in Earlier : DispatchEarlier(s)
  \/ \E t \in Threads : ThreadStep(t) \/ WakeSpuriously(t)
  \/ TranslatorStep
  \/ SpeakerStep

Spec == Init /\ [][Next]_vars

\* Threads run; a request to a server ends, if only by its time limit.
Fairness ==
  /\ \A t \in Threads : WF_vars(ThreadStep(t))
  /\ WF_vars(TranslatorStep)
  /\ WF_vars(SpeakerStep)

FairSpec == Spec /\ Fairness

-----------------------------------------------------------------------------
(***************************************************************************)
(* The profile sends the events of a session in their order and one at a   *)
(* time, although its threads share the queue: after the last one sent     *)
(* come the one being sent and the queued ones, and nothing else was       *)
(* accepted.  `reserved' counts what is under way, so that the limit is    *)
(* neither exceeded nor leaks.                                             *)
(***************************************************************************)
Sending(s) == {t \in Threads : threads[t].at = "working" /\ threads[t].item.source = s}

UnderWay ==
  UNION {{TextEvent(s, n) : n \in (posted[s] + 1)..accepted[s]} : s \in Sources}

PostedInOrder ==
  /\ \A s \in Sources :
       LET underWay == IF s \in inFlight THEN 1 ELSE 0
       IN  /\ Cardinality(Sending(s)) = underWay
           /\ \A t \in Sending(s) : threads[t].item.n = posted[s] + 1
           /\ \A i \in DOMAIN queues[s] : queues[s][i].n = posted[s] + underWay + i
           /\ accepted[s] = posted[s] + underWay + Len(queues[s])
  /\ reserved <= Capacity
  /\ reserved = Cardinality(UnderWay)

(***************************************************************************)
(* Every accepted event is sent in the end, whatever thread is notified,   *)
(* wakes up by itself or is busy: again and again nothing is left.         *)
(***************************************************************************)
AcceptedIsPosted == []<>(reserved = 0)

(***************************************************************************)
(* The final text of a turn gets through, although newer requests replace  *)
(* queued ones and interims are under way: in the end the last translation *)
(* of a turn is that of its final, and what is to be spoken of it, by one  *)
(* mapping, was spoken, unless the thread for it could not be started.     *)
(***************************************************************************)
Finalized(s) ==
  IF s = Main THEN {o.turn : o \in {p \in log : p.final /\ p.seq <= delivered[Main]}}
  ELSE 1..delivered[s]

FinalGetsThrough ==
  <>[](/\ translator # Unstarted => \A s \in Sources : Finalized(s) \subseteq stands[s]
       /\ speaker # Unstarted => unspoken = {})
=============================================================================
