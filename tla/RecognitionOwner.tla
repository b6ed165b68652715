-------------------------- MODULE RecognitionOwner --------------------------
(***************************************************************************)
(* Who runs a recognition: AppState's session slot and streaming server,   *)
(* the desktop commands that start and stop them, and the recognition      *)
(* workers themselves, as their owners see them (stop mode, input channel, *)
(* outputs sent, shutdown result).  StreamSession adds the connections of  *)
(* the streaming server.  Every lock of AppState is held over one action;  *)
(* the status shown to the user and the settings are left out.             *)
(***************************************************************************)
EXTENDS Integers, Sequences

CONSTANTS Commands,     \* desktop commands that may run at a time
          SessionIds,   \* session ids that clients choose
          MaxPartials,  \* bound: outputs of a worker that close nothing
          MaxStarts     \* bound: recognitions started

ASSUME BoundsAssumption == MaxPartials \in Nat /\ MaxStarts \in Nat

\* The owner of a session is an enum: no id of a client is the desktop.
ASSUME OwnersAssumption == "desktop" \notin SessionIds

VARIABLES slot,     \* recognition in the session slot, or NoRecognition
          recs,     \* recognitions started, in order
          server,   \* the streaming server: "none", "up" or "stopping"
          command,  \* what each desktop command is doing
          stopping  \* recognition a desktop command has taken to stop it

ownerVars == <<slot, recs, server, command, stopping>>

NoRecognition == 0

Owners == {"desktop"} \union SessionIds

Results == {"Completed", "TimedOut", "Cancelled"}

Recognition ==
  [owner : Owners,
   mode : {"Running", "Graceful", "Cancel"},
   open : BOOLEAN,    \* its input channel has a sender
   queued : Nat,      \* chunks accepted and not processed
   owed : BOOLEAN,    \* speech was heard that has no final yet
   out : Nat,         \* outputs sent to the sink
   result : Results \union {"none"}]

OwnerTypeOK ==
  /\ recs \in Seq(Recognition)
  /\ slot \in 0..Len(recs)
  /\ server \in {"none", "up", "stopping"}
  /\ command \in [Commands -> {"idle", "closing", "joining"}]
  /\ stopping \in [Commands -> 0..Len(recs)]

OwnerInit ==
  /\ slot = NoRecognition
  /\ recs = <<>>
  /\ server = "none"
  /\ command = [p \in Commands |-> "idle"]
  /\ stopping = [p \in Commands |-> NoRecognition]

Runs(i) == recs[i].result = "none"

-----------------------------------------------------------------------------
(* The slot *)

\* Mutant: a recognition starts although another one has the slot.
InsertAnyway(owner, open) ==
  /\ Len(recs) < MaxStarts
  /\ recs' = Append(recs, [owner |-> owner, mode |-> "Running", open |-> open,
                           queued |-> 0, owed |-> FALSE, out |-> 0,
                           result |-> "none"])
  /\ slot' = Len(recs) + 1

\* A recognition is started and inserted, under the lock of the slot.
Insert(owner, open) ==
  /\ slot = NoRecognition
  /\ Len(recs) < MaxStarts
  /\ recs' = Append(recs, [owner |-> owner, mode |-> "Running", open |-> open,
                           queued |-> 0, owed |-> FALSE, out |-> 0,
                           result |-> "none"])
  /\ slot' = Len(recs) + 1

SlotOwner == IF slot = NoRecognition THEN "nobody" ELSE recs[slot].owner

-----------------------------------------------------------------------------
(* The worker of recognition i *)

\* One chunk is processed: silence or speech.
Hear(i) ==
  /\ recs[i].queued > 0
  /\ \E speech \in BOOLEAN :
       recs' = [recs EXCEPT ![i].queued = @ - 1, ![i].owed = @ \/ speech]

\* The text so far, or the final of what was heard.
Emit(i) ==
  /\ recs[i].owed
  /\ \E final \in BOOLEAN :
       /\ final \/ recs[i].out < MaxPartials
       /\ recs' = [recs EXCEPT ![i].out = @ + 1, ![i].owed = ~final]

\* Mutant: the drain does not wait for what was heard.
InputEndsAtOnce(i) ==
  /\ ~recs[i].open /\ recs[i].queued = 0
  /\ recs' = [recs EXCEPT ![i].result =
                IF recs[i].mode = "Graceful" THEN "Completed" ELSE "Cancelled"]

\* The loop sees its input disconnected: the mode at that moment decides
\* whether the open work is drained, which may end by the time limit, or, for
\* a network input, thrown away.
InputEnds(i) ==
  /\ ~recs[i].open /\ recs[i].queued = 0
  /\ \/ /\ recs[i].mode = "Graceful"
        /\ recs' = [recs EXCEPT ![i].result =
                      IF recs[i].owed THEN "TimedOut" ELSE "Completed"]
     \/ /\ recs[i].mode = "Running"
        /\ recs' = [recs EXCEPT ![i].result = "Cancelled"]

\* The mode is read before every step of the loop.
Cancelled(i) ==
  /\ recs[i].mode = "Cancel"
  /\ recs' = [recs EXCEPT ![i].result = "Cancelled"]

Worker(i) ==
  /\ Runs(i)
  /\ Hear(i) \/ Emit(i) \/ InputEnds(i) \/ Cancelled(i)
  /\ UNCHANGED <<slot, server, command, stopping>>

\* RecognitionStopControl keeps the strongest request.
Ask(i, mode, closes) ==
  recs' = [recs EXCEPT
             ![i].mode = IF @ = "Cancel" THEN @ ELSE mode,
             ![i].open = @ /\ ~closes]

-----------------------------------------------------------------------------
(* Desktop commands *)

StartDesktop(p) ==
  /\ command[p] = "idle"
  /\ server # "up"
  /\ Insert("desktop", TRUE)
  /\ UNCHANGED <<server, command, stopping>>

\* While the last server still has the port, the new one cannot bind it.
StartServer(p) ==
  /\ command[p] = "idle"
  /\ server = "none"
  /\ slot = NoRecognition
  /\ server' = "up"
  /\ UNCHANGED <<slot, recs, command, stopping>>

StopServer(p) ==
  /\ command[p] = "idle"
  /\ server = "up"
  /\ server' = "stopping"
  /\ command' = [command EXCEPT ![p] = "closing"]
  /\ UNCHANGED <<slot, recs, stopping>>

\* Mutant: the capture goes on while its worker is joined.
TakeCapturing(p) ==
  /\ command[p] = "idle"
  /\ server # "up"
  /\ SlotOwner = "desktop"
  /\ stopping' = [stopping EXCEPT ![p] = slot]
  /\ slot' = NoRecognition
  /\ Ask(slot, "Graceful", FALSE)
  /\ command' = [command EXCEPT ![p] = "joining"]
  /\ UNCHANGED server

\* A stop takes the session out of the slot first; it is drained afterwards.
TakeDesktop(p) ==
  /\ command[p] = "idle"
  /\ server # "up"
  /\ SlotOwner = "desktop"
  /\ stopping' = [stopping EXCEPT ![p] = slot]
  /\ slot' = NoRecognition
  /\ Ask(slot, "Graceful", TRUE)
  /\ command' = [command EXCEPT ![p] = "joining"]
  /\ UNCHANGED server

JoinDesktop(p) ==
  /\ command[p] = "joining"
  /\ ~Runs(stopping[p])
  /\ stopping' = [stopping EXCEPT ![p] = NoRecognition]
  /\ command' = [command EXCEPT ![p] = "idle"]
  /\ UNCHANGED <<slot, recs, server>>

\* The accept loop has joined its connections.
JoinServer(p) ==
  /\ command[p] = "closing"
  /\ server' = "none"
  /\ command' = [command EXCEPT ![p] = "idle"]
  /\ UNCHANGED <<slot, recs, stopping>>

OwnerNext ==
  \/ \E i \in DOMAIN recs : Worker(i)
  \/ \E p \in Commands :
       \/ StartDesktop(p) \/ StartServer(p)
       \/ StopServer(p)
       \/ TakeDesktop(p) \/ JoinDesktop(p)
=============================================================================
