---------------------------- MODULE StreamSession ----------------------------
(***************************************************************************)
(* The streaming recognition server: the loop that serves one WebSocket    *)
(* connection (run_session), its protocol state, the threads that stop or  *)
(* cancel a recognition for it, and the backend of the app, which goes     *)
(* through the session slot of RecognitionOwner.  A recognition is held by *)
(* one handle; the thread that holds it finishes it, once.                 *)
(***************************************************************************)
EXTENDS RecognitionOwner

CONSTANTS Connections,
          MaxAudio,     \* bound: audio frames of a client
          Capacity,     \* chunks the bounded input queue takes
          SpawnMayFail  \* thread creation may fail

ASSUME QueueAssumption == MaxAudio \in Nat /\ Capacity \in Nat \ {0}

VARIABLE conn  \* each connection

streamVars == <<slot, recs, server, command, stopping, conn>>

Connection ==
  [pc : {"free", "events", "turn", "finishing", "draining", "ended"},
   id : SessionIds,
   proto : {"AwaitingStart", "Active", "Draining"},  \* the others end the loop
   rec : Nat,       \* its recognition, or NoRecognition
   holder : {"nobody", "connection", "drain", "cancel"},
   phase : {"live", "asked", "finished"},
   taken : Nat,     \* what finish() took from the slot
   reply : Results \union {"none", "pending"},
   sent : Nat,      \* outputs forwarded to the client
   audio : Nat,     \* frames received
   answer : {"none", "done", "cancelled", "error", "lost"}]

TypeOK == OwnerTypeOK /\ conn \in [Connections -> Connection]

NewConnection(id) ==
  [pc |-> "free", id |-> id, proto |-> "AwaitingStart", rec |-> NoRecognition,
   holder |-> "nobody", phase |-> "live", taken |-> NoRecognition,
   reply |-> "none", sent |-> 0, audio |-> 0, answer |-> "none"]

StreamInit ==
  /\ OwnerInit
  /\ \E ids \in [Connections -> SessionIds] :
       conn = [c \in Connections |-> NewConnection(ids[c])]

Become(c, state) == conn' = [conn EXCEPT ![c] = state]

HasSession(c) == conn[c].rec # NoRecognition

\* The connection's sender of the input channel is dropped.
CloseInput(c) ==
  IF HasSession(c) THEN [recs EXCEPT ![conn[c].rec].open = FALSE] ELSE recs

-----------------------------------------------------------------------------
(* Ends of a connection *)

\* The loop returns: what it read from the drain thread goes with it.
Returned(state, answer) ==
  [state EXCEPT !.pc = "ended", !.answer = answer, !.reply = "none", !.audio = 0]

\* Mutant: a handle whose cancel thread cannot start is forgotten.
LeaveAndForget(c, state, answer) ==
  IF state.holder # "connection"
  THEN Become(c, Returned(state, answer))
  ELSE \E spawned \in {TRUE} \union {~SpawnMayFail} :
         Become(c, Returned([state EXCEPT
                     !.holder = IF spawned THEN "cancel" ELSE "nobody"], answer))

\* cancel_active: a recognition this thread still holds is cancelled by a new
\* thread, or, if that cannot start, by dropping the handle here.
Leave(c, state, answer) ==
  CASE state.holder # "connection" -> Become(c, Returned(state, answer))
    [] OTHER ->
         \/ Become(c, Returned([state EXCEPT !.holder = "cancel"], answer))
         \/ /\ SpawnMayFail
            /\ Become(c, [state EXCEPT !.pc = "finishing", !.answer = answer])

-----------------------------------------------------------------------------
(* The loop of a connection *)

Accept(c) ==
  /\ conn[c].pc = "free"
  /\ server = "up"
  /\ Become(c, [conn[c] EXCEPT !.pc = "turn"])
  /\ UNCHANGED ownerVars

\* The outputs that came in are sent, unless the client is gone.
SendEvents(c) ==
  /\ conn[c].pc = "events"
  /\ \/ /\ Become(c, [conn[c] EXCEPT !.pc = "turn",
                                     !.sent = recs[conn[c].rec].out])
        /\ UNCHANGED ownerVars
     \/ /\ Leave(c, conn[c], "lost")
        /\ recs' = CloseInput(c)
        /\ UNCHANGED <<slot, server, command, stopping>>

\* Mutant: the outputs that came before the result are not sent.
AnswerDrainAtOnce(c) ==
  /\ conn[c].pc = "turn"
  /\ conn[c].reply \in Results
  /\ Become(c, Returned(conn[c], IF conn[c].reply = "Completed" THEN "done" ELSE "error"))
  /\ UNCHANGED ownerVars

\* The drain has its result: the outputs before it are sent, then the answer,
\* unless the client is gone.
AnswerDrain(c) ==
  /\ conn[c].pc = "turn"
  /\ conn[c].reply \in Results
  /\ \/ Become(c, Returned(conn[c], "lost"))
     \/ Become(c, Returned([conn[c] EXCEPT !.sent = recs[conn[c].rec].out],
                           IF conn[c].reply = "Completed" THEN "done" ELSE "error"))
  /\ UNCHANGED ownerVars

NothingDrained(c) == conn[c].pc = "turn" /\ conn[c].reply \notin Results

\* The server is stopping: a recognition this thread holds is cancelled here,
\* a drain that has begun is waited for.
Shutdown(c) ==
  /\ NothingDrained(c)
  /\ server = "stopping"
  /\ recs' = CloseInput(c)
  /\ Become(c, CASE conn[c].holder = "connection" -> [conn[c] EXCEPT !.pc = "finishing"]
                 [] HasSession(c) /\ conn[c].holder # "connection"
                      -> [conn[c] EXCEPT !.pc = "draining"]
                 [] ~HasSession(c) -> Returned(conn[c], "lost"))
  /\ UNCHANGED <<slot, server, command, stopping>>

\* The drain thread has ended.
JoinDrain(c) ==
  /\ conn[c].pc = "draining"
  /\ conn[c].phase = "finished"
  /\ Become(c, Returned([conn[c] EXCEPT !.sent = recs[conn[c].rec].out], "error"))
  /\ UNCHANGED ownerVars

\* The handle was finished in this thread: because the drain thread could not
\* start, because a cancel thread could not, or for the shutdown.
JoinFinish(c) ==
  /\ conn[c].pc = "finishing"
  /\ conn[c].phase = "finished"
  /\ LET released == [conn[c] EXCEPT !.holder = "nobody"]
     IN  Become(c,
           CASE conn[c].reply = "pending"
                  -> [released EXCEPT !.pc = "events", !.reply = "Cancelled"]
             [] conn[c].reply # "pending" /\ conn[c].answer # "none"
                  -> Returned(released, conn[c].answer)
             [] conn[c].reply # "pending" /\ conn[c].answer = "none"
                  -> Returned([released EXCEPT !.sent = recs[conn[c].rec].out], "error"))
  /\ UNCHANGED ownerVars

\* No message within the read timeout, or a ping that was answered.
NoMessage(c) ==
  /\ Become(c, [conn[c] EXCEPT !.pc = IF HasSession(c) THEN "events" ELSE "turn"])
  /\ UNCHANGED ownerVars

\* session.start: the backend inserts its recognition into the slot; without
\* a client to tell, it is cancelled again.
Start(c) ==
  /\ conn[c].proto = "AwaitingStart"
  /\ LET started == [conn[c] EXCEPT !.proto = "Active", !.rec = Len(recs) + 1,
                                    !.holder = "connection"]
     IN  \/ /\ Insert(conn[c].id, TRUE)
            /\ Become(c, [started EXCEPT !.pc = "events"])
         \/ /\ Insert(conn[c].id, FALSE)
            /\ Leave(c, started, "lost")
  /\ UNCHANGED <<server, command, stopping>>

\* The slot is taken, or the models cannot be loaded.
StartFails(c) ==
  /\ conn[c].proto = "AwaitingStart"
  /\ Become(c, Returned(conn[c], "error"))
  /\ UNCHANGED ownerVars

\* A frame enters the queue, unless it is full or its worker has ended.
Audio(c) ==
  /\ conn[c].proto = "Active"
  /\ conn[c].audio < MaxAudio
  /\ LET i == conn[c].rec
         heard == [conn[c] EXCEPT !.audio = @ + 1, !.pc = "events"]
     IN  IF Runs(i) /\ recs[i].queued < Capacity
         THEN /\ recs' = [recs EXCEPT ![i].queued = @ + 1]
              /\ Become(c, heard)
         ELSE /\ recs' = CloseInput(c)
              /\ Leave(c, heard, "error")
  /\ UNCHANGED <<slot, server, command, stopping>>

\* Mutant: the input channel stays open while the drain waits for its end.
GracefulStopKeepsInput(c) ==
  /\ conn[c].proto = "Active"
  /\ Become(c, [conn[c] EXCEPT !.proto = "Draining", !.reply = "pending",
                               !.pc = "events", !.holder = "drain"])
  /\ UNCHANGED ownerVars

\* session.stop: the input channel is closed, then a thread drains; without a
\* thread the handle is dropped, which cancels, in this one.
GracefulStop(c) ==
  /\ conn[c].proto = "Active"
  /\ recs' = CloseInput(c)
  /\ LET draining == [conn[c] EXCEPT !.proto = "Draining", !.reply = "pending"]
     IN  \/ Become(c, [draining EXCEPT !.pc = "events", !.holder = "drain"])
         \/ SpawnMayFail /\ Become(c, [draining EXCEPT !.pc = "finishing"])
  /\ UNCHANGED <<slot, server, command, stopping>>

\* session.cancel.
Cancel(c) ==
  /\ conn[c].proto = "Active"
  /\ recs' = CloseInput(c)
  /\ Leave(c, conn[c], "cancelled")
  /\ UNCHANGED <<slot, server, command, stopping>>

\* A message that the state does not allow is answered by an error; a close, a
\* broken connection, or a ping whose answer cannot be sent, by nothing.
Abandon(c) ==
  /\ recs' = CloseInput(c)
  /\ \E answer \in {"error", "lost"} : Leave(c, conn[c], answer)
  /\ UNCHANGED <<slot, server, command, stopping>>

Read(c) ==
  /\ NothingDrained(c)
  /\ server # "stopping"
  /\ \/ Start(c) \/ StartFails(c) \/ Audio(c) \/ GracefulStop(c) \/ Cancel(c)
     \/ Abandon(c) \/ NoMessage(c)

-----------------------------------------------------------------------------
(* finish(), in the thread that holds the handle of connection c *)

Finishing(c) ==
  \/ conn[c].holder \in {"drain", "cancel"}
  \/ conn[c].pc = "finishing"

\* The slot is emptied if the owner is this session, then the worker is asked.
FinishTake(c) ==
  /\ Finishing(c)
  /\ conn[c].phase = "live"
  /\ IF SlotOwner = conn[c].id
     THEN /\ slot' = NoRecognition
          /\ Ask(slot, IF conn[c].holder = "drain" THEN "Graceful" ELSE "Cancel", FALSE)
          /\ Become(c, [conn[c] EXCEPT !.phase = "asked", !.taken = slot])
     ELSE /\ Become(c, [conn[c] EXCEPT !.phase = "finished"])
          /\ UNCHANGED <<slot, recs>>
  /\ UNCHANGED <<server, command, stopping>>

\* Mutant: the flag that finish() ran is not set, so Drop runs it again.
FinishAndDrop(c) ==
  /\ conn[c].phase = "asked"
  /\ ~Runs(conn[c].taken)
  /\ Become(c, [conn[c] EXCEPT
                  !.phase = IF conn[c].holder = "drain" THEN "live" ELSE "finished",
                  !.holder = IF @ = "drain" THEN "cancel" ELSE @,
                  !.reply = IF @ = "pending" /\ conn[c].holder = "drain"
                            THEN recs[conn[c].taken].result ELSE @])
  /\ UNCHANGED ownerVars

\* The worker has ended; a drain thread passes its result on.
FinishJoin(c) ==
  /\ conn[c].phase = "asked"
  /\ ~Runs(conn[c].taken)
  /\ Become(c, [conn[c] EXCEPT
                  !.phase = "finished",
                  !.reply = IF @ = "pending" /\ conn[c].holder = "drain"
                            THEN recs[conn[c].taken].result ELSE @])
  /\ UNCHANGED ownerVars

Finish(c) == FinishTake(c) \/ FinishJoin(c)

-----------------------------------------------------------------------------
Serve(c) ==
  \/ SendEvents(c) \/ AnswerDrain(c)
  \/ Shutdown(c) \/ JoinDrain(c) \/ JoinFinish(c) \/ Read(c)

ServerStopped == \A c \in Connections : conn[c].pc \in {"free", "ended"}

Next ==
  \/ OwnerNext /\ UNCHANGED conn
  \/ \E p \in Commands : ServerStopped /\ JoinServer(p) /\ UNCHANGED conn
  \/ \E c \in Connections : Accept(c) \/ Serve(c) \/ Finish(c)

Spec == StreamInit /\ [][Next]_streamVars

(***************************************************************************)
(* Threads run: every worker, every connection that was accepted, every    *)
(* thread that finishes a handle, and a desktop command that has begun.    *)
(* Clients send what and when they like, and no command need ever begin.   *)
(***************************************************************************)
Fairness ==
  /\ \A i \in 1..MaxStarts :
       WF_streamVars(i \in DOMAIN recs /\ Worker(i) /\ UNCHANGED conn)
  /\ \A c \in Connections : WF_streamVars(Serve(c)) /\ WF_streamVars(Finish(c))
  /\ \A p \in Commands :
       /\ WF_streamVars(JoinDesktop(p) /\ UNCHANGED conn)
       /\ WF_streamVars(ServerStopped /\ JoinServer(p) /\ UNCHANGED conn)

FairSpec == Spec /\ Fairness
-----------------------------------------------------------------------------
(***************************************************************************)
(* session.done means complete: everything accepted was processed, what    *)
(* was heard has its final, and every output reached the client before it. *)
(***************************************************************************)
DoneMeansComplete ==
  \A c \in Connections :
    conn[c].answer = "done" =>
      LET r == recs[conn[c].rec]
      IN  r.queued = 0 /\ ~r.owed /\ conn[c].sent = r.out

(***************************************************************************)
(* Session ids are chosen by clients and may be equal: a handle still only *)
(* takes the recognition that it started out of the slot.                  *)
(***************************************************************************)
StopsOwnSession ==
  \A c \in Connections : conn[c].taken \in {NoRecognition, conn[c].rec}

(***************************************************************************)
(* A recognition that runs can be stopped: it is in the slot, or a command *)
(* or a handle has taken it in order to stop it.                           *)
(***************************************************************************)
NoOrphan ==
  \A i \in DOMAIN recs :
    Runs(i) => \/ slot = i
               \/ \E p \in Commands : stopping[p] = i
               \/ \E c \in Connections : conn[c].taken = i

Released(c) == HasSession(c) => ~Runs(conn[c].rec) /\ slot # conn[c].rec

(***************************************************************************)
(* However a connection ends, its recognition ends and leaves the slot.    *)
(***************************************************************************)
BackendReleased ==
  \A c \in Connections : conn[c].pc = "ended" ~> Released(c)

(***************************************************************************)
(* session.stop is answered, or the client is gone.                        *)
(***************************************************************************)
StopIsAnswered ==
  \A c \in Connections :
    conn[c].proto = "Draining" ~> conn[c].answer # "none"

(***************************************************************************)
(* Stopping the server returns, whatever its connections are doing.        *)
(***************************************************************************)
StopReturns ==
  \A p \in Commands : command[p] # "idle" ~> command[p] = "idle"

(***************************************************************************)
(* session.stop drains: the recognition is not cancelled.                  *)
(***************************************************************************)
StopIsGraceful ==
  \A c \in Connections : conn[c].reply # "Cancelled"
=============================================================================
