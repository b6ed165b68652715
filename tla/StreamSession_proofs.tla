------------------------ MODULE StreamSession_proofs ------------------------
(***************************************************************************)
(* Proofs that sessions of the streaming server hold their own recognition *)
(* only, that a running recognition can be stopped, and that session.done  *)
(* means complete, for any number of connections, commands and clients'    *)
(* choices of session ids.                                                 *)
(***************************************************************************)
EXTENDS StreamSession, TLAPS

\* A handle exists once the session has started, and takes its own recognition.
HandleOK(s) ==
  /\ s \in Connection
  /\ s.rec = NoRecognition <=> s.proto = "AwaitingStart"
  /\ s.rec = NoRecognition => s.holder = "nobody" /\ s.phase = "live"
  /\ s.taken = IF s.phase = "live" THEN NoRecognition ELSE s.rec

\* What the fields of one connection say of one another.
LocalOK(s) ==
  /\ HandleOK(s)
  /\ s.rec = NoRecognition => s.pc \in {"free", "turn", "ended"}
  /\ s.pc = "free" => s.rec = NoRecognition
  /\ s.proto = "Active" /\ s.pc \in {"events", "turn"} => s.holder = "connection"
  /\ s.holder = "connection" => \/ s.pc = "finishing"
                                \/ /\ s.pc \in {"events", "turn"}
                                   /\ s.phase = "live" /\ s.proto = "Active"
  /\ s.pc = "finishing" => s.holder = "connection"
  /\ s.reply # "none" => s.proto = "Draining" /\ s.pc # "ended"
  /\ s.reply = "Completed" => s.holder = "drain" /\ s.phase = "finished"
  /\ s.answer = "done" => s.pc = "ended" /\ s.rec # NoRecognition

ConnectionsOK == conn \in [Connections -> Connection] /\ \A c \in Connections : LocalOK(conn[c])

\* A recognition that ended by a drain has nothing left to do.
Settled(r) == r.result = "Completed" => r.queued = 0 /\ ~r.owed

RecsOK == OwnerTypeOK /\ \A i \in DOMAIN recs : Settled(recs[i])

\* What a connection knows of its recognition: it is in the slot until the
\* handle is finished, and what was reported of it is so.
HeldIn(s, rs, sl) ==
  s.rec # NoRecognition =>
    /\ s.rec \in DOMAIN rs
    /\ rs[s.rec].owner = s.id
    /\ s.phase = "live" <=> sl = s.rec
    /\ s.reply = "Completed" => rs[s.rec].result = "Completed"
    /\ s.answer = "done" => rs[s.rec].result = "Completed" /\ s.sent = rs[s.rec].out

HeldBy(s) == HeldIn(s, recs, slot)

Held == \A c \in Connections : HeldBy(conn[c])

\* No two connections have one recognition.
Apart ==
  \A c, d \in Connections :
    c # d /\ conn[c].rec # NoRecognition => conn[c].rec # conn[d].rec

\* A command joins what it took.
CommandsOK ==
  \A p \in Commands : stopping[p] # NoRecognition <=> command[p] = "joining"

IInv == RecsOK /\ ConnectionsOK /\ Held /\ Apart /\ CommandsOK /\ NoOrphan

\* A recognition moves on: its owner stays, and what ended stays as it is.
Onward(r, q) ==
  /\ q \in Recognition
  /\ q.owner = r.owner
  /\ Settled(r) => Settled(q)
  /\ r.result # "none" => q.result = r.result /\ q.out = r.out

RecsOnward ==
  /\ recs' \in Seq(Recognition)
  /\ Len(recs') = Len(recs)
  /\ \A i \in 1..Len(recs) : Onward(recs[i], recs'[i])

\* A step of connection c that leaves the slot and its handle alone.
Quiet(c, s) ==
  /\ LocalOK(s)
  /\ s.id = conn[c].id /\ s.rec = conn[c].rec /\ s.phase = conn[c].phase
  /\ s.reply = "Completed" => conn[c].reply = "Completed"
  /\ s.answer = "done" => conn[c].reply = "Completed" /\ s.sent = recs[s.rec].out

-----------------------------------------------------------------------------
(* Recognitions *)

LEMMA Stays == ASSUME NEW r \in Recognition PROVE Onward(r, r)
BY DEF Onward

LEMMA NoneChanges == ASSUME RecsOK, recs' = recs PROVE RecsOnward
BY Stays DEF RecsOK, OwnerTypeOK, RecsOnward

LEMMA OneChanges ==
  ASSUME RecsOK, NEW i \in DOMAIN recs, NEW q, Onward(recs[i], q),
         recs' = [recs EXCEPT ![i] = q]
  PROVE  RecsOnward
<1>1. recs \in Seq(Recognition) /\ DOMAIN recs = 1..Len(recs) /\ Len(recs) \in Nat
  BY DEF RecsOK, OwnerTypeOK
<1>2. q \in Recognition
  BY DEF Onward
<1>3. recs' \in Seq(Recognition) /\ Len(recs') = Len(recs)
  BY <1>1, <1>2
<1>4. \A j \in 1..Len(recs) : recs[j] \in Recognition /\ recs'[j] = IF j = i THEN q ELSE recs[j]
  BY <1>1
<1>5. ASSUME NEW j \in 1..Len(recs) PROVE Onward(recs[j], recs'[j])
  BY <1>4, Stays
<1> QED
  BY <1>3, <1>5 DEF RecsOnward

LEMMA Asked ==
  ASSUME RecsOK, NEW i \in DOMAIN recs, NEW mode \in {"Graceful", "Cancel"},
         NEW closes \in BOOLEAN, Ask(i, mode, closes)
  PROVE  RecsOnward
<1> DEFINE q == [recs[i] EXCEPT !.mode = IF @ = "Cancel" THEN @ ELSE mode, !.open = @ /\ ~closes]
<1>1. recs[i] \in Recognition
  BY DEF RecsOK, OwnerTypeOK
<1>2. recs' = [recs EXCEPT ![i] = q]
  BY DEF Ask
<1>3. Onward(recs[i], q)
  BY <1>1 DEF Onward, Recognition, Settled
<1> QED
  BY <1>2, <1>3, OneChanges

LEMMA Closed ==
  ASSUME RecsOK, NEW c \in Connections, HeldBy(conn[c]), recs' = CloseInput(c)
  PROVE  RecsOnward
<1>1. CASE ~HasSession(c)
  BY <1>1, NoneChanges DEF CloseInput
<1>2. CASE HasSession(c)
  <2> DEFINE i == conn[c].rec
             q == [recs[i] EXCEPT !.open = FALSE]
  <2>1. i \in DOMAIN recs /\ recs[i] \in Recognition
    BY <1>2 DEF HasSession, HeldBy, HeldIn, RecsOK, OwnerTypeOK
  <2>2. recs' = [recs EXCEPT ![i] = q]
    BY <1>2 DEF CloseInput
  <2>3. Onward(recs[i], q)
    BY <2>1 DEF Onward, Recognition, Settled
  <2> QED
    BY <2>1, <2>2, <2>3, OneChanges
<1> QED
  BY <1>1, <1>2

LEMMA Queued ==
  ASSUME RecsOK, NEW i \in DOMAIN recs, Runs(i), recs' = [recs EXCEPT ![i].queued = @ + 1]
  PROVE  RecsOnward
<1> DEFINE q == [recs[i] EXCEPT !.queued = @ + 1]
<1>1. recs[i] \in Recognition
  BY DEF RecsOK, OwnerTypeOK
<1>2. recs' = [recs EXCEPT ![i] = q]
  OBVIOUS
<1>3. Onward(recs[i], q)
  BY <1>1 DEF Onward, Recognition, Settled, Runs
<1> QED
  BY <1>2, <1>3, OneChanges

LEMMA Heard ==
  ASSUME NEW r \in Recognition, NEW n \in Nat, NEW b \in BOOLEAN
  PROVE  /\ r.result = "none" => Onward(r, [r EXCEPT !.queued = n, !.owed = b])
         /\ r.result = "none" => Onward(r, [r EXCEPT !.out = n, !.owed = b])
<1>1. /\ [r EXCEPT !.queued = n] \in Recognition
      /\ [r EXCEPT !.queued = n].result = r.result /\ [r EXCEPT !.queued = n].owner = r.owner
      /\ [r EXCEPT !.out = n] \in Recognition
      /\ [r EXCEPT !.out = n].result = r.result /\ [r EXCEPT !.out = n].owner = r.owner
  BY DEF Recognition
<1>2. ASSUME NEW q \in Recognition
      PROVE  /\ [q EXCEPT !.owed = b] \in Recognition
             /\ [q EXCEPT !.owed = b].result = q.result /\ [q EXCEPT !.owed = b].owner = q.owner
  BY DEF Recognition
<1> QED
  BY <1>1, <1>2 DEF Onward, Settled

LEMMA Worked ==
  ASSUME RecsOK, NEW i \in DOMAIN recs, Worker(i)
  PROVE  RecsOnward
<1>1. recs[i] \in Recognition /\ recs[i].result = "none"
  BY DEF RecsOK, OwnerTypeOK, Worker, Runs
<1>2. CASE Hear(i)
  <2>1. PICK owed \in BOOLEAN : recs' = [recs EXCEPT ![i].queued = @ - 1, ![i].owed = owed]
    BY <1>1, <1>2 DEF Hear, Recognition
  <2> DEFINE q == [recs[i] EXCEPT !.queued = @ - 1, !.owed = owed]
  <2>2. recs' = [recs EXCEPT ![i] = q]
    BY <2>1
  <2>3. recs[i].queued - 1 \in Nat
    BY <1>1, <1>2 DEF Hear, Recognition
  <2>4. Onward(recs[i], q)
    BY <1>1, <2>3, Heard
  <2> QED
    BY <2>2, <2>4, OneChanges
<1>3. CASE Emit(i)
  <2>1. PICK owed \in BOOLEAN : recs' = [recs EXCEPT ![i].out = @ + 1, ![i].owed = owed]
    BY <1>3 DEF Emit
  <2> DEFINE q == [recs[i] EXCEPT !.out = @ + 1, !.owed = owed]
  <2>2. recs' = [recs EXCEPT ![i] = q]
    BY <2>1
  <2>3. recs[i].out + 1 \in Nat
    BY <1>1 DEF Recognition
  <2>4. Onward(recs[i], q)
    BY <1>1, <2>3, Heard
  <2> QED
    BY <2>2, <2>4, OneChanges
<1>4. CASE InputEnds(i) \/ Cancelled(i)
  <2>1. PICK result \in Results :
          /\ recs' = [recs EXCEPT ![i].result = result]
          /\ result = "Completed" => recs[i].queued = 0 /\ ~recs[i].owed
    BY <1>4 DEF InputEnds, Cancelled, Results
  <2> DEFINE q == [recs[i] EXCEPT !.result = result]
  <2>2. recs' = [recs EXCEPT ![i] = q]
    BY <2>1
  <2>3. Onward(recs[i], q)
    BY <1>1, <2>1 DEF Onward, Recognition, Settled
  <2> QED
    BY <2>2, <2>3, OneChanges
<1> QED
  BY <1>2, <1>3, <1>4 DEF Worker

-----------------------------------------------------------------------------
(* Steps that leave the slot and every handle alone *)

LEMMA RecsKept ==
  ASSUME RecsOK, RecsOnward, slot' \in 0..Len(recs), stopping' \in [Commands -> 0..Len(recs)],
         server' \in {"none", "up", "stopping"},
         command' \in [Commands -> {"idle", "closing", "joining"}]
  PROVE  RecsOK'
<1>1. /\ recs \in Seq(Recognition) /\ recs' \in Seq(Recognition) /\ Len(recs') = Len(recs)
      /\ DOMAIN recs = 1..Len(recs) /\ DOMAIN recs' = 1..Len(recs)
  BY DEF RecsOK, OwnerTypeOK, RecsOnward
<1>2. OwnerTypeOK'
  BY <1>1 DEF RecsOK, OwnerTypeOK
<1>3. ASSUME NEW i \in DOMAIN recs' PROVE Settled(recs'[i])
  BY <1>1 DEF RecsOK, RecsOnward, Onward
<1> QED
  BY <1>2, <1>3 DEF RecsOK

LEMMA HeldKept ==
  ASSUME RecsOK, RecsOnward, NEW s, HeldBy(s), slot' = s.rec <=> slot = s.rec
  PROVE  HeldIn(s, recs', slot')
<1>1. DOMAIN recs = 1..Len(recs) /\ DOMAIN recs' = 1..Len(recs)
  BY DEF RecsOK, OwnerTypeOK, RecsOnward
<1>2. \A i \in DOMAIN recs : Onward(recs[i], recs'[i])
  BY <1>1 DEF RecsOnward
<1> QED
  BY <1>1, <1>2 DEF HeldBy, HeldIn, Onward

LEMMA OneMoves ==
  ASSUME ConnectionsOK, NEW c \in Connections, NEW s, LocalOK(s),
         conn' = [conn EXCEPT ![c] = s]
  PROVE  /\ ConnectionsOK'
         /\ \A d \in Connections : conn'[d] = IF d = c THEN s ELSE conn[d]
<1>1. conn \in [Connections -> Connection] /\ s \in Connection
  BY DEF ConnectionsOK, LocalOK, HandleOK
<1>2. conn' \in [Connections -> Connection]
  BY <1>1
<1>3. \A d \in Connections : conn'[d] = IF d = c THEN s ELSE conn[d]
  BY <1>1
<1>4. \A d \in Connections : LocalOK(conn'[d])
  BY <1>3 DEF ConnectionsOK
<1> QED
  BY <1>2, <1>3, <1>4 DEF ConnectionsOK

\* A recognition that runs ran before, and is still in the slot or taken.
LEMMA StillStoppable ==
  ASSUME RecsOK, RecsOnward, NoOrphan, slot' = slot, stopping' = stopping,
         \A c \in Connections : conn'[c].taken = conn[c].taken
  PROVE  NoOrphan'
<1>1. DOMAIN recs = 1..Len(recs) /\ DOMAIN recs' = 1..Len(recs)
  BY DEF RecsOK, OwnerTypeOK, RecsOnward
<1>2. \A i \in DOMAIN recs : recs'[i].result = "none" => recs[i].result = "none"
  BY <1>1 DEF RecsOnward, Onward
<1> QED
  BY <1>1, <1>2 DEF NoOrphan, Runs

LEMMA QuietStep ==
  ASSUME IInv, RecsOnward, NEW c \in Connections, NEW s, Quiet(c, s),
         conn' = [conn EXCEPT ![c] = s], UNCHANGED <<slot, server, command, stopping>>
  PROVE  IInv'
<1> USE DEF IInv
<1>1. RecsOK'
  BY RecsKept DEF RecsOK, OwnerTypeOK
<1>2. /\ ConnectionsOK'
      /\ \A d \in Connections : conn'[d] = IF d = c THEN s ELSE conn[d]
  BY OneMoves DEF Quiet
<1>3. /\ s.id = conn[c].id /\ s.rec = conn[c].rec /\ s.phase = conn[c].phase
      /\ s.taken = conn[c].taken
  BY DEF Quiet, LocalOK, HandleOK, ConnectionsOK
<1>4. HeldBy(s)
  <2>1. s.reply = "Completed" => conn[c].reply = "Completed"
    BY DEF Quiet
  <2>2. s.answer = "done" => conn[c].reply = "Completed" /\ s.sent = recs[s.rec].out
    BY DEF Quiet
  <2>3. HeldBy(conn[c])
    BY DEF Held
  <2> QED
    BY <1>3, <2>1, <2>2, <2>3 DEF HeldBy, HeldIn
<1>5. Held'
  <2>1. \A d \in Connections : HeldBy(conn'[d])
    BY <1>2, <1>4 DEF Held
  <2> QED
    BY <2>1, HeldKept DEF Held, HeldBy, HeldIn
<1>6. Apart'
  BY <1>2, <1>3 DEF Apart
<1>7. CommandsOK'
  BY DEF CommandsOK
<1>8. NoOrphan'
  BY <1>2, <1>3, StillStoppable
<1> QED
  BY <1>1, <1>2, <1>5, <1>6, <1>7, <1>8

-----------------------------------------------------------------------------
(* The loop of a connection *)

LEMMA ReturnedOK ==
  ASSUME NEW s, HandleOK(s), s.holder # "connection",
         NEW answer \in {"done", "cancelled", "error", "lost"},
         answer = "done" => s.rec # NoRecognition,
         NEW t, t = Returned(s, answer)
  PROVE  /\ LocalOK(t)
         /\ t.id = s.id /\ t.rec = s.rec /\ t.phase = s.phase
         /\ t.reply = "none" /\ t.answer = answer /\ t.sent = s.sent
<1>1. s \in Connection
  BY DEF HandleOK
<1>2. /\ t.pc = "ended" /\ t.reply = "none" /\ t.answer = answer
      /\ t.id = s.id /\ t.rec = s.rec /\ t.phase = s.phase /\ t.sent = s.sent
      /\ t.proto = s.proto /\ t.holder = s.holder /\ t.taken = s.taken
  BY <1>1 DEF Returned, Connection
<1>3. t \in Connection
  BY <1>1 DEF Returned, Connection
<1>4. HandleOK(t)
  BY <1>2, <1>3 DEF HandleOK
<1>5. LocalOK(t)
  BY <1>2, <1>4 DEF LocalOK
<1> QED
  BY <1>2, <1>5

\* Left(s, t): the connection in state s goes on as t, and takes s.rec with it.
Left(s, t) ==
  /\ LocalOK(t)
  /\ t.id = s.id /\ t.rec = s.rec /\ t.phase = s.phase
  /\ t.reply = "Completed" => s.reply = "Completed"
  /\ t.answer # "done"

LEMMA LeaveOK ==
  ASSUME NEW c \in Connections, NEW s, LocalOK(s), s.pc \in {"events", "turn"},
         NEW answer \in {"cancelled", "error", "lost"}, Leave(c, s, answer)
  PROVE  \E t : conn' = [conn EXCEPT ![c] = t] /\ Left(s, t)
<1> DEFINE cancelling == [s EXCEPT !.holder = "cancel"]
           finishing == [s EXCEPT !.pc = "finishing", !.answer = answer]
<1>1. CASE s.holder # "connection"
  <2>1. conn' = [conn EXCEPT ![c] = Returned(s, answer)]
    BY <1>1 DEF Leave, Become
  <2>2. Left(s, Returned(s, answer))
    BY <1>1, ReturnedOK DEF Left, LocalOK
  <2> QED
    BY <2>1, <2>2
<1>2. CASE s.holder = "connection" /\ conn' = [conn EXCEPT ![c] = Returned(cancelling, answer)]
  <2>1. HandleOK(cancelling) /\ cancelling.holder # "connection"
    BY <1>2 DEF LocalOK, HandleOK, Connection
  <2>2. /\ cancelling.id = s.id /\ cancelling.rec = s.rec /\ cancelling.phase = s.phase
    BY DEF LocalOK, HandleOK, Connection
  <2> HIDE DEF cancelling
  <2>3. PICK t : t = Returned(cancelling, answer)
    OBVIOUS
  <2>4. Left(s, t)
    BY <2>1, <2>2, <2>3, ReturnedOK DEF Left
  <2> QED
    BY <1>2, <2>3, <2>4
<1>3. CASE s.holder = "connection" /\ conn' = [conn EXCEPT ![c] = finishing]
  <2>1. Left(s, finishing)
    BY <1>3 DEF Left, LocalOK, HandleOK, Connection, Results, NoRecognition
  <2> QED
    BY <1>3, <2>1
<1> QED
  BY <1>1, <1>2, <1>3 DEF Leave, Become

LEMMA LeaveQuiet ==
  ASSUME IInv, RecsOnward, NEW c \in Connections, NEW s, LocalOK(s), s.pc \in {"events", "turn"},
         s.id = conn[c].id, s.rec = conn[c].rec, s.phase = conn[c].phase,
         s.reply = conn[c].reply,
         NEW answer \in {"cancelled", "error", "lost"}, Leave(c, s, answer),
         UNCHANGED <<slot, server, command, stopping>>
  PROVE  IInv'
<1>1. PICK t : conn' = [conn EXCEPT ![c] = t] /\ Left(s, t)
  BY LeaveOK
<1>2. Quiet(c, t)
  BY <1>1 DEF Left, Quiet
<1> QED
  BY <1>1, <1>2, QuietStep

\* What the actions start from.
LEMMA Before ==
  ASSUME IInv, NEW c \in Connections
  PROVE  RecsOK /\ LocalOK(conn[c]) /\ HandleOK(conn[c]) /\ HeldBy(conn[c]) /\ conn[c] \in Connection
BY DEF IInv, ConnectionsOK, Held, LocalOK

LEMMA OutIsNat ==
  ASSUME IInv, NEW c \in Connections, conn[c].rec # NoRecognition
  PROVE  recs[conn[c].rec].out \in Nat
<1>1. recs[conn[c].rec] \in Recognition
  BY Before DEF HeldBy, HeldIn, RecsOK, OwnerTypeOK
<1> QED
  BY <1>1 DEF Recognition

LEMMA AcceptStep == ASSUME IInv, NEW c \in Connections, Accept(c) PROVE IInv'
<1> DEFINE s == [conn[c] EXCEPT !.pc = "turn"]
<1>1. Quiet(c, s)
  BY Before DEF Accept, Quiet, LocalOK, HandleOK, Connection, NoRecognition
<1>2. RecsOnward
  BY Before, NoneChanges DEF Accept, ownerVars
<1> QED
  BY <1>1, <1>2, QuietStep DEF Accept, Become, ownerVars

LEMMA SendEventsStep == ASSUME IInv, NEW c \in Connections, SendEvents(c) PROVE IInv'
<1>1. conn[c].pc = "events"
  BY DEF SendEvents
<1>2. ASSUME Leave(c, conn[c], "lost"), recs' = CloseInput(c),
             UNCHANGED <<slot, server, command, stopping>>
      PROVE  IInv'
  <2>1. RecsOnward
    BY <1>2, Before, Closed
  <2> QED
    BY <1>1, <1>2, <2>1, Before, LeaveQuiet
<1>3. ASSUME UNCHANGED ownerVars,
             Become(c, [conn[c] EXCEPT !.pc = "turn", !.sent = recs[conn[c].rec].out])
      PROVE  IInv'
  <2> DEFINE s == [conn[c] EXCEPT !.pc = "turn", !.sent = recs[conn[c].rec].out]
  <2>1. conn[c].rec # NoRecognition
    BY <1>1, Before DEF LocalOK
  <2>2. recs[conn[c].rec].out \in Nat
    BY <2>1, OutIsNat
  <2>3. Quiet(c, s)
    BY <1>1, <2>1, <2>2, Before DEF Quiet, LocalOK, HandleOK, Connection
  <2>4. RecsOnward /\ conn' = [conn EXCEPT ![c] = s]
    BY <1>3, Before, NoneChanges DEF ownerVars, Become
  <2> HIDE DEF s
  <2> QED
    BY <1>3, <2>3, <2>4, QuietStep DEF ownerVars
<1> QED
  BY <1>2, <1>3 DEF SendEvents

\* The loop returns and has no handle: the recognition stays as it is.
LEMMA ReturnStep ==
  ASSUME IInv, NEW c \in Connections, NEW s, HandleOK(s), s.holder # "connection",
         s.id = conn[c].id, s.rec = conn[c].rec, s.phase = conn[c].phase,
         NEW answer \in {"done", "cancelled", "error", "lost"},
         answer = "done" => conn[c].reply = "Completed" /\ s.sent = recs[s.rec].out,
         Become(c, Returned(s, answer)), RecsOnward,
         UNCHANGED <<slot, server, command, stopping>>
  PROVE  IInv'
<1>1. PICK t : t = Returned(s, answer)
  OBVIOUS
<1>2. answer = "done" => s.rec # NoRecognition
  BY Before DEF LocalOK, HandleOK
<1>3. Quiet(c, t)
  BY <1>1, <1>2, ReturnedOK DEF Quiet
<1> QED
  BY <1>1, <1>3, QuietStep DEF Become

LEMMA AnswerDrainStep == ASSUME IInv, NEW c \in Connections, AnswerDrain(c) PROVE IInv'
<1>1. /\ conn[c].pc = "turn" /\ conn[c].reply \in Results /\ RecsOnward
      /\ UNCHANGED <<slot, server, command, stopping>>
  BY Before, NoneChanges DEF AnswerDrain, ownerVars
<1>2. conn[c].rec # NoRecognition /\ conn[c].holder # "connection"
  BY <1>1, Before DEF LocalOK, HandleOK, Results
<1>3. CASE Become(c, Returned(conn[c], "lost"))
  BY <1>1, <1>2, <1>3, Before, ReturnStep
<1>4. ASSUME Become(c, Returned([conn[c] EXCEPT !.sent = recs[conn[c].rec].out],
                                IF conn[c].reply = "Completed" THEN "done" ELSE "error"))
      PROVE  IInv'
  <2> DEFINE s == [conn[c] EXCEPT !.sent = recs[conn[c].rec].out]
             answer == IF conn[c].reply = "Completed" THEN "done" ELSE "error"
  <2>1. recs[conn[c].rec].out \in Nat
    BY <1>2, OutIsNat
  <2>2. /\ HandleOK(s) /\ s.holder # "connection" /\ s.id = conn[c].id /\ s.rec = conn[c].rec
        /\ s.phase = conn[c].phase /\ s.sent = recs[conn[c].rec].out
    BY <1>2, <2>1, Before DEF HandleOK, Connection
  <2>3. answer \in {"done", "cancelled", "error", "lost"}
        /\ (answer = "done" => conn[c].reply = "Completed")
    OBVIOUS
  <2>4. Become(c, Returned(s, answer))
    BY <1>4
  <2> HIDE DEF s, answer
  <2> QED
    BY <1>1, <2>2, <2>3, <2>4, ReturnStep
<1> QED
  BY <1>3, <1>4 DEF AnswerDrain

LEMMA ShutdownStep == ASSUME IInv, NEW c \in Connections, Shutdown(c) PROVE IInv'
<1>1. /\ conn[c].pc = "turn" /\ conn[c].reply \notin Results /\ RecsOnward
      /\ UNCHANGED <<slot, server, command, stopping>>
  BY Before, Closed DEF Shutdown, NothingDrained
<1>2. CASE conn[c].holder = "connection"
  <2> DEFINE s == [conn[c] EXCEPT !.pc = "finishing"]
  <2>1. Quiet(c, s)
    BY <1>1, <1>2, Before DEF Quiet, LocalOK, HandleOK, Connection
  <2>2. conn' = [conn EXCEPT ![c] = s]
    BY <1>2, Before DEF Shutdown, Become, HasSession, HandleOK
  <2> QED
    BY <1>1, <2>1, <2>2, QuietStep
<1>3. CASE conn[c].holder # "connection" /\ HasSession(c)
  <2> DEFINE s == [conn[c] EXCEPT !.pc = "draining"]
  <2>1. Quiet(c, s)
    BY <1>1, <1>3, Before DEF Quiet, LocalOK, HandleOK, Connection, HasSession
  <2>2. conn' = [conn EXCEPT ![c] = s]
    BY <1>3 DEF Shutdown, Become
  <2> QED
    BY <1>1, <2>1, <2>2, QuietStep
<1>4. CASE conn[c].holder # "connection" /\ ~HasSession(c)
  <2>1. Become(c, Returned(conn[c], "lost"))
    BY <1>4 DEF Shutdown
  <2> QED
    BY <1>1, <1>4, <2>1, Before, ReturnStep
<1> QED
  BY <1>2, <1>3, <1>4

LEMMA JoinDrainStep == ASSUME IInv, NEW c \in Connections, JoinDrain(c) PROVE IInv'
<1> DEFINE s == [conn[c] EXCEPT !.sent = recs[conn[c].rec].out]
<1>1. /\ conn[c].pc = "draining" /\ RecsOnward /\ UNCHANGED <<slot, server, command, stopping>>
      /\ Become(c, Returned(s, "error"))
  BY Before, NoneChanges DEF JoinDrain, ownerVars
<1>2. conn[c].rec # NoRecognition /\ conn[c].holder # "connection"
  BY <1>1, Before DEF LocalOK
<1>3. recs[conn[c].rec].out \in Nat
  BY <1>2, OutIsNat
<1>4. /\ HandleOK(s) /\ s.holder # "connection" /\ s.id = conn[c].id /\ s.rec = conn[c].rec
      /\ s.phase = conn[c].phase
  BY <1>2, <1>3, Before DEF HandleOK, Connection
<1> HIDE DEF s
<1> QED
  BY <1>1, <1>4, ReturnStep

LEMMA JoinFinishStep == ASSUME IInv, NEW c \in Connections, JoinFinish(c) PROVE IInv'
<1> DEFINE released == [conn[c] EXCEPT !.holder = "nobody"]
           sent == [released EXCEPT !.sent = recs[conn[c].rec].out]
           resumed == [released EXCEPT !.pc = "events", !.reply = "Cancelled"]
<1>1. /\ conn[c].pc = "finishing" /\ conn[c].phase = "finished" /\ RecsOnward
      /\ UNCHANGED <<slot, server, command, stopping>>
  BY Before, NoneChanges DEF JoinFinish, ownerVars
<1>2. conn[c].rec # NoRecognition
  BY <1>1, Before DEF LocalOK
<1>3. recs[conn[c].rec].out \in Nat
  BY <1>2, OutIsNat
<1>4. /\ HandleOK(released) /\ released.holder # "connection" /\ released.id = conn[c].id
      /\ released.rec = conn[c].rec /\ released.phase = conn[c].phase
  BY <1>2, Before DEF HandleOK, Connection
<1>41. /\ HandleOK(sent) /\ sent.holder # "connection" /\ sent.id = conn[c].id
      /\ sent.rec = conn[c].rec /\ sent.phase = conn[c].phase
  <2> HIDE DEF released
  <2> QED
    BY <1>3, <1>4 DEF HandleOK, Connection
<1>5. CASE conn[c].reply = "pending"
  <2>1. Quiet(c, resumed)
    BY <1>1, <1>2, <1>5, Before DEF Quiet, LocalOK, HandleOK, Connection, Results
  <2>2. conn' = [conn EXCEPT ![c] = resumed]
    BY <1>5 DEF JoinFinish, Become
  <2> QED
    BY <1>1, <2>1, <2>2, QuietStep
<1>6. CASE conn[c].reply # "pending" /\ conn[c].answer # "none"
  <2>1. Become(c, Returned(released, conn[c].answer))
    BY <1>6 DEF JoinFinish
  <2>2. conn[c].answer \in {"cancelled", "error", "lost"}
    BY <1>1, <1>6, Before DEF LocalOK, Connection
  <2> HIDE DEF released, sent
  <2> QED
    BY <1>1, <1>4, <2>1, <2>2, ReturnStep
<1>7. CASE conn[c].reply # "pending" /\ conn[c].answer = "none"
  <2>1. Become(c, Returned(sent, "error"))
    BY <1>7 DEF JoinFinish
  <2> HIDE DEF released, sent
  <2> QED
    BY <1>1, <1>41, <2>1, ReturnStep
<1> QED
  BY <1>5, <1>6, <1>7

-----------------------------------------------------------------------------
(* A message of the client *)

LEMMA NoMessageStep ==
  ASSUME IInv, NEW c \in Connections, conn[c].pc = "turn", NoMessage(c)
  PROVE  IInv'
<1> DEFINE s == [conn[c] EXCEPT !.pc = IF HasSession(c) THEN "events" ELSE "turn"]
<1>1. Quiet(c, s)
  BY Before DEF Quiet, LocalOK, HandleOK, Connection, HasSession
<1>2. RecsOnward /\ conn' = [conn EXCEPT ![c] = s] /\ UNCHANGED <<slot, server, command, stopping>>
  BY Before, NoneChanges DEF NoMessage, Become, ownerVars
<1> HIDE DEF s
<1> QED
  BY <1>1, <1>2, QuietStep

LEMMA StartFailsStep ==
  ASSUME IInv, NEW c \in Connections, StartFails(c)
  PROVE  IInv'
<1>1. /\ conn[c].holder # "connection" /\ RecsOnward /\ Become(c, Returned(conn[c], "error"))
      /\ UNCHANGED <<slot, server, command, stopping>>
  BY Before, NoneChanges DEF StartFails, ownerVars, HandleOK
<1> QED
  BY <1>1, Before, ReturnStep

LEMMA AudioStep ==
  ASSUME IInv, NEW c \in Connections, conn[c].pc = "turn", Audio(c)
  PROVE  IInv'
<1> DEFINE i == conn[c].rec
           heard == [conn[c] EXCEPT !.audio = @ + 1, !.pc = "events"]
<1>1. conn[c].proto = "Active" /\ i # NoRecognition /\ UNCHANGED <<slot, server, command, stopping>>
  BY Before DEF Audio, HandleOK
<1>2. i \in DOMAIN recs
  BY <1>1, Before DEF HeldBy, HeldIn
<1>3. /\ LocalOK(heard) /\ heard.pc = "events" /\ heard.answer = conn[c].answer
      /\ heard.id = conn[c].id /\ heard.rec = i /\ heard.phase = conn[c].phase
      /\ heard.reply = conn[c].reply
  <2>1. PICK n \in Nat : n = conn[c].audio + 1
    BY Before DEF Connection
  <2>2. heard = [conn[c] EXCEPT !.audio = n, !.pc = "events"]
    BY <2>1
  <2> HIDE DEF heard
  <2> QED
    BY <1>1, <2>2, Before DEF LocalOK, HandleOK, Connection
<1>4. CASE Runs(i) /\ recs[i].queued < Capacity
  <2>1. recs' = [recs EXCEPT ![i].queued = @ + 1] /\ conn' = [conn EXCEPT ![c] = heard]
    BY <1>4 DEF Audio, Become
  <2>2. RecsOnward
    BY <1>2, <1>4, <2>1, Before, Queued
  <2>3. Quiet(c, heard)
    BY <1>1, <1>3, Before DEF Quiet, LocalOK
  <2> HIDE DEF heard
  <2> QED
    BY <1>1, <2>1, <2>2, <2>3, QuietStep
<1>5. CASE ~(Runs(i) /\ recs[i].queued < Capacity)
  <2>1. recs' = CloseInput(c) /\ Leave(c, heard, "error")
    BY <1>5 DEF Audio
  <2>2. RecsOnward
    BY <2>1, Before, Closed
  <2> HIDE DEF heard
  <2> QED
    BY <1>1, <1>3, <2>1, <2>2, LeaveQuiet
<1> QED
  BY <1>4, <1>5

LEMMA GracefulStopStep ==
  ASSUME IInv, NEW c \in Connections, conn[c].pc = "turn", GracefulStop(c)
  PROVE  IInv'
<1> DEFINE draining == [conn[c] EXCEPT !.proto = "Draining", !.reply = "pending"]
           spawned == [draining EXCEPT !.pc = "events", !.holder = "drain"]
           inline == [draining EXCEPT !.pc = "finishing"]
<1>1. conn[c].proto = "Active" /\ RecsOnward /\ UNCHANGED <<slot, server, command, stopping>>
  BY Before, Closed DEF GracefulStop
<1>2. Quiet(c, spawned)
  BY <1>1, Before DEF Quiet, LocalOK, HandleOK, Connection
<1>3. Quiet(c, inline)
  BY <1>1, Before DEF Quiet, LocalOK, HandleOK, Connection
<1>4. conn' = [conn EXCEPT ![c] = spawned] \/ conn' = [conn EXCEPT ![c] = inline]
  BY DEF GracefulStop, Become
<1> HIDE DEF spawned, inline
<1> QED
  BY <1>1, <1>2, <1>3, <1>4, QuietStep

LEMMA CancelOrAbandonStep ==
  ASSUME IInv, NEW c \in Connections, conn[c].pc = "turn", Cancel(c) \/ Abandon(c)
  PROVE  IInv'
<1>1. PICK answer \in {"cancelled", "error", "lost"} :
        /\ recs' = CloseInput(c) /\ Leave(c, conn[c], answer)
        /\ UNCHANGED <<slot, server, command, stopping>>
  BY DEF Cancel, Abandon
<1>2. RecsOnward
  BY <1>1, Before, Closed
<1> QED
  BY <1>1, <1>2, Before, LeaveQuiet

-----------------------------------------------------------------------------
(* A recognition is inserted *)

LEMMA Inserted ==
  ASSUME RecsOK, NEW owner \in Owners, NEW open \in BOOLEAN, Insert(owner, open)
  PROVE  /\ recs' \in Seq(Recognition) /\ Len(recs') = Len(recs) + 1
         /\ DOMAIN recs = 1..Len(recs) /\ DOMAIN recs' = 1..(Len(recs) + 1)
         /\ Len(recs) \in Nat
         /\ \A i \in 1..Len(recs) : recs'[i] = recs[i]
         /\ recs'[Len(recs) + 1].owner = owner /\ Settled(recs'[Len(recs) + 1])
         /\ slot = NoRecognition /\ slot' = Len(recs) + 1
<1> DEFINE r == [owner |-> owner, mode |-> "Running", open |-> open, queued |-> 0,
                 owed |-> FALSE, out |-> 0, result |-> "none"]
<1>1. r \in Recognition /\ r.owner = owner /\ Settled(r)
  BY DEF Recognition, Settled
<1>2. recs' = Append(recs, r) /\ slot = NoRecognition /\ slot' = Len(recs) + 1
  BY DEF Insert
<1>3. recs \in Seq(Recognition)
  BY DEF RecsOK, OwnerTypeOK
<1> HIDE DEF r
<1> QED
  BY <1>1, <1>2, <1>3

LEMMA InsertKeeps ==
  ASSUME RecsOK, NEW owner \in Owners, NEW open \in BOOLEAN, Insert(owner, open),
         UNCHANGED <<server, command, stopping>>
  PROVE  /\ RecsOK'
         /\ \A s : HeldBy(s) /\ s.rec \in Nat => HeldIn(s, recs', slot')
<1>1. RecsOK'
  <2>1. OwnerTypeOK'
    BY Inserted DEF RecsOK, OwnerTypeOK
  <2>2. ASSUME NEW i \in DOMAIN recs' PROVE Settled(recs'[i])
    BY Inserted DEF RecsOK
  <2> QED
    BY <2>1, <2>2 DEF RecsOK
<1>2. ASSUME NEW s, HeldBy(s), s.rec \in Nat PROVE HeldIn(s, recs', slot')
  BY <1>2, Inserted DEF HeldBy, HeldIn, NoRecognition
<1> QED
  BY <1>1, <1>2

\* The new recognition is in the slot; nothing else was, so no other changes.
LEMMA InsertStoppable ==
  ASSUME RecsOK, NoOrphan, NEW owner \in Owners, NEW open \in BOOLEAN, Insert(owner, open),
         stopping' = stopping, \A c \in Connections : conn'[c].taken = conn[c].taken
  PROVE  NoOrphan'
<1>1. SUFFICES ASSUME NEW i \in DOMAIN recs', recs'[i].result = "none"
               PROVE  \/ slot' = i
                      \/ \E p \in Commands : stopping'[p] = i
                      \/ \E c \in Connections : conn'[c].taken = i
  BY DEF NoOrphan, Runs
<1>2. CASE i = Len(recs) + 1
  BY <1>2, Inserted
<1>3. CASE i # Len(recs) + 1
  <2>1. i \in DOMAIN recs /\ recs[i].result = "none" /\ slot # i
    BY <1>1, <1>3, Inserted DEF NoRecognition
  <2> QED
    BY <2>1 DEF NoOrphan, Runs
<1> QED
  BY <1>2, <1>3

LEMMA StartStep ==
  ASSUME IInv, NEW c \in Connections, conn[c].pc = "turn", conn[c].reply \notin Results,
         Start(c), UNCHANGED <<server, command, stopping>>
  PROVE  IInv'
<1> DEFINE started == [conn[c] EXCEPT !.proto = "Active", !.rec = Len(recs) + 1,
                                      !.holder = "connection"]
           told == [started EXCEPT !.pc = "events"]
<1>1. /\ RecsOK /\ LocalOK(conn[c]) /\ conn[c] \in Connection
      /\ conn[c].proto = "AwaitingStart" /\ conn[c].rec = NoRecognition
      /\ conn[c].id \in Owners /\ Len(recs) + 1 \in Nat /\ Len(recs) + 1 # NoRecognition
  BY Before DEF Start, HandleOK, Connection, Owners, RecsOK, OwnerTypeOK, NoRecognition
<1>2. /\ LocalOK(started) /\ started.pc = "turn" /\ started.id = conn[c].id
      /\ started.rec = Len(recs) + 1 /\ started.phase = "live" /\ started.reply = "none"
  <2>1. PICK n \in Nat : n = Len(recs) + 1 /\ n # NoRecognition
    BY <1>1
  <2>2. started = [conn[c] EXCEPT !.proto = "Active", !.rec = n, !.holder = "connection"]
    BY <2>1
  <2> HIDE DEF started
  <2> QED
    BY <1>1, <2>1, <2>2 DEF LocalOK, HandleOK, Connection
<1>3. /\ LocalOK(told) /\ told.id = conn[c].id /\ told.rec = Len(recs) + 1
      /\ told.phase = "live" /\ told.reply = "none" /\ told.answer # "done"
  <2> HIDE DEF started
  <2> QED
    BY <1>1, <1>2 DEF LocalOK, HandleOK, Connection
<1>4. PICK open \in BOOLEAN : Insert(conn[c].id, open)
  BY DEF Start
<1>5. \E t : conn' = [conn EXCEPT ![c] = t] /\ Left(started, t)
  <2>1. CASE conn' = [conn EXCEPT ![c] = told]
    <3>1. Left(started, told)
      <4> HIDE DEF started, told
      <4> QED
        BY <1>2, <1>3 DEF Left
    <3> QED
      BY <2>1, <3>1
  <2>2. CASE Leave(c, started, "lost")
    <3> HIDE DEF started
    <3> QED
      BY <1>2, <2>2, LeaveOK
  <2> QED
    BY <2>1, <2>2 DEF Start, Become
<1> HIDE DEF started, told
<1>6. PICK t : conn' = [conn EXCEPT ![c] = t] /\ Left(started, t)
  BY <1>5
<1>7. /\ LocalOK(t) /\ t.id = conn[c].id /\ t.rec = Len(recs) + 1 /\ t.phase = "live"
      /\ t.reply # "Completed" /\ t.answer # "done" /\ t.taken = conn[c].taken
  BY <1>1, <1>2, <1>6 DEF Left, LocalOK, HandleOK
<1>8. /\ ConnectionsOK'
      /\ \A d \in Connections : conn'[d] = IF d = c THEN t ELSE conn[d]
  BY <1>6, <1>7, OneMoves DEF IInv
<1>9. Held'
  <2>1. HeldIn(t, recs', slot')
    BY <1>1, <1>4, <1>7, Inserted DEF HeldIn
  <2>2. ASSUME NEW d \in Connections, d # c PROVE HeldIn(conn[d], recs', slot')
    BY <1>1, <1>4, <2>2, Before, InsertKeeps DEF Connection
  <2> QED
    BY <1>8, <2>1, <2>2 DEF Held, HeldBy
<1>10. Apart'
  <2>1. \A d \in Connections : conn[d].rec # Len(recs) + 1
    BY <1>1, <1>4, Before, Inserted DEF HeldBy, HeldIn
  <2> QED
    BY <1>7, <1>8, <2>1 DEF IInv, Apart
<1>11. NoOrphan'
  BY <1>1, <1>4, <1>7, <1>8, InsertStoppable DEF IInv
<1> QED
  BY <1>1, <1>4, <1>8, <1>9, <1>10, <1>11, InsertKeeps DEF IInv, CommandsOK

-----------------------------------------------------------------------------
(* finish() of a handle *)

\* A handle that was not finished holds the slot: its own recognition is taken.
LEMMA FinishTakeStep == ASSUME IInv, NEW c \in Connections, FinishTake(c) PROVE IInv'
<1> DEFINE i == conn[c].rec
           s == [conn[c] EXCEPT !.phase = "asked", !.taken = i]
<1>1. /\ RecsOK /\ LocalOK(conn[c]) /\ HeldBy(conn[c]) /\ conn[c] \in Connection
      /\ conn[c].phase = "live" /\ conn[c].taken = NoRecognition
      /\ UNCHANGED <<server, command, stopping>>
  BY Before DEF FinishTake, HandleOK
<1>2. i # NoRecognition
  BY <1>1 DEF FinishTake, Finishing, LocalOK, HandleOK
<1>3. slot = i /\ i \in DOMAIN recs /\ recs[i].owner = conn[c].id
  BY <1>1, <1>2 DEF HeldBy, HeldIn
<1>4. SlotOwner = conn[c].id
  BY <1>2, <1>3 DEF SlotOwner
<1>5. /\ slot' = NoRecognition /\ conn' = [conn EXCEPT ![c] = s]
      /\ \E mode \in {"Graceful", "Cancel"} : Ask(i, mode, FALSE)
  BY <1>3, <1>4 DEF FinishTake, Become
<1>6. RecsOnward
  BY <1>1, <1>3, <1>5, Asked
<1>7. RecsOK'
  BY <1>1, <1>5, <1>6, RecsKept DEF RecsOK, OwnerTypeOK, NoRecognition
<1>8. LocalOK(s) /\ s.id = conn[c].id /\ s.rec = i /\ s.taken = i
  BY <1>1, <1>2 DEF FinishTake, Finishing, LocalOK, HandleOK, Connection
<1>9. /\ s.phase = "asked" /\ s.reply = conn[c].reply /\ s.answer = conn[c].answer
      /\ s.sent = conn[c].sent
  BY <1>1 DEF Connection
<1> HIDE DEF s
<1>10. ConnectionsOK' /\ \A d \in Connections : conn'[d] = IF d = c THEN s ELSE conn[d]
  BY <1>5, <1>8, OneMoves DEF IInv
<1>11. Held'
  <2>1. Onward(recs[i], recs'[i]) /\ i \in DOMAIN recs'
    BY <1>1, <1>3, <1>6 DEF RecsOnward, RecsOK, OwnerTypeOK
  <2>2. HeldIn(s, recs', slot')
    BY <1>1, <1>2, <1>3, <1>5, <1>8, <1>9, <2>1 DEF HeldBy, HeldIn, Onward
  <2>3. ASSUME NEW d \in Connections, d # c PROVE HeldIn(conn[d], recs', slot')
    <3>1. CASE conn[d].rec = NoRecognition
      BY <3>1 DEF HeldIn
    <3>2. CASE conn[d].rec # NoRecognition
      <4>1. conn[d].rec # i
        BY <1>2, <2>3, <3>2 DEF IInv, Apart
      <4> QED
        BY <1>1, <1>3, <1>5, <1>6, <3>2, <4>1, Before, HeldKept
    <3> QED
      BY <3>1, <3>2
  <2> QED
    BY <1>10, <2>2, <2>3 DEF Held, HeldBy
<1>12. Apart'
  BY <1>8, <1>10 DEF IInv, Apart
<1>13. NoOrphan'
  <2>1. SUFFICES ASSUME NEW j \in DOMAIN recs', recs'[j].result = "none"
                 PROVE  \/ \E p \in Commands : stopping'[p] = j
                        \/ \E d \in Connections : conn'[d].taken = j
    BY DEF NoOrphan, Runs
  <2>2. j \in DOMAIN recs /\ recs[j].result = "none" /\ j # NoRecognition
    BY <1>1, <1>6, <2>1 DEF RecsOnward, RecsOK, OwnerTypeOK, Onward, NoRecognition
  <2> QED
    BY <1>1, <1>3, <1>8, <1>10, <2>2 DEF IInv, NoOrphan, Runs
<1> QED
  BY <1>1, <1>7, <1>10, <1>11, <1>12, <1>13 DEF IInv, CommandsOK

LEMMA FinishJoinStep == ASSUME IInv, NEW c \in Connections, FinishJoin(c) PROVE IInv'
<1> DEFINE reply == IF conn[c].reply = "pending" /\ conn[c].holder = "drain"
                    THEN recs[conn[c].taken].result ELSE conn[c].reply
           s == [conn[c] EXCEPT !.phase = "finished", !.reply = reply]
<1>1. /\ RecsOK /\ LocalOK(conn[c]) /\ HeldBy(conn[c]) /\ conn[c] \in Connection
      /\ conn[c].phase = "asked" /\ RecsOnward /\ recs' = recs
      /\ UNCHANGED <<slot, server, command, stopping>>
  BY Before, NoneChanges DEF FinishJoin, ownerVars
<1>2. /\ conn[c].taken = conn[c].rec /\ conn[c].rec # NoRecognition
      /\ conn[c].rec \in DOMAIN recs /\ slot # conn[c].rec
  BY <1>1 DEF LocalOK, HandleOK, HeldBy, HeldIn
<1>3. recs[conn[c].rec] \in Recognition /\ recs[conn[c].rec].result # "none"
  BY <1>1, <1>2 DEF FinishJoin, Runs, RecsOK, OwnerTypeOK
<1>4. reply \in Results \union {"none", "pending"}
  BY <1>1, <1>2, <1>3 DEF Connection, Recognition
<1>5. conn' = [conn EXCEPT ![c] = s]
  BY DEF FinishJoin, Become
<1>6. /\ reply = "Completed" => /\ recs[conn[c].rec].result = "Completed"
                                /\ conn[c].holder = "drain"
      /\ reply # "none" => conn[c].reply # "none"
  BY <1>1, <1>2 DEF LocalOK
<1> HIDE DEF reply
<1>7. /\ LocalOK(s) /\ s.id = conn[c].id /\ s.rec = conn[c].rec /\ s.taken = conn[c].taken
      /\ s.phase = "finished" /\ s.reply = reply /\ s.answer = conn[c].answer
      /\ s.sent = conn[c].sent
  BY <1>1, <1>2, <1>4, <1>6 DEF LocalOK, HandleOK, Connection
<1> HIDE DEF s
<1>8. ConnectionsOK' /\ \A d \in Connections : conn'[d] = IF d = c THEN s ELSE conn[d]
  BY <1>5, <1>7, OneMoves DEF IInv
<1>9. Held'
  <2>1. HeldIn(s, recs, slot)
    BY <1>1, <1>2, <1>6, <1>7 DEF HeldBy, HeldIn
  <2> QED
    BY <1>1, <1>8, <2>1 DEF IInv, Held, HeldBy
<1>10. Apart' /\ NoOrphan'
  BY <1>1, <1>7, <1>8, StillStoppable DEF IInv, Apart
<1> QED
  BY <1>1, <1>8, <1>9, <1>10, RecsKept DEF IInv, CommandsOK, RecsOK, OwnerTypeOK

-----------------------------------------------------------------------------
(* Workers and desktop commands *)

\* No connection moves, and what they hold in the slot stays there.
LEMMA OwnerQuiet ==
  ASSUME IInv, RecsOK', RecsOnward, conn' = conn, CommandsOK', NoOrphan',
         \A c \in Connections : conn[c].rec # NoRecognition =>
           (slot' = conn[c].rec <=> slot = conn[c].rec)
  PROVE  IInv'
<1>1. ASSUME NEW c \in Connections PROVE HeldIn(conn[c], recs', slot')
  <2>1. CASE conn[c].rec = NoRecognition
    BY <2>1 DEF HeldIn
  <2>2. CASE conn[c].rec # NoRecognition
    BY <2>2, Before, HeldKept
  <2> QED
    BY <2>1, <2>2
<1>2. Held' /\ Apart' /\ ConnectionsOK'
  BY <1>1 DEF IInv, Held, HeldBy, Apart, ConnectionsOK
<1> QED
  BY <1>2 DEF IInv

LEMMA WorkerStep == ASSUME IInv, NEW i \in DOMAIN recs, Worker(i), conn' = conn PROVE IInv'
<1>1. RecsOnward /\ UNCHANGED <<slot, server, command, stopping>>
  BY Worked DEF IInv, Worker
<1>2. RecsOK' /\ CommandsOK'
  BY <1>1, RecsKept DEF IInv, RecsOK, OwnerTypeOK, CommandsOK
<1>3. NoOrphan'
  BY <1>1, StillStoppable DEF IInv
<1> QED
  BY <1>1, <1>2, <1>3, OwnerQuiet

LEMMA StartDesktopStep ==
  ASSUME IInv, NEW p \in Commands, StartDesktop(p), conn' = conn
  PROVE  IInv'
<1>1. /\ RecsOK /\ Insert("desktop", TRUE) /\ "desktop" \in Owners
      /\ UNCHANGED <<server, command, stopping>>
  BY DEF StartDesktop, Owners, IInv
<1>2. RecsOK' /\ CommandsOK'
  BY <1>1, InsertKeeps DEF IInv, CommandsOK
<1>3. NoOrphan'
  BY <1>1, InsertStoppable DEF IInv
<1>4. ASSUME NEW c \in Connections PROVE HeldIn(conn[c], recs', slot')
  BY <1>1, Before, InsertKeeps DEF Connection
<1>5. Held' /\ Apart' /\ ConnectionsOK'
  BY <1>4 DEF IInv, Held, HeldBy, Apart, ConnectionsOK
<1> QED
  BY <1>2, <1>3, <1>5 DEF IInv

LEMMA ServerStep ==
  ASSUME IInv, NEW p \in Commands, StartServer(p) \/ StopServer(p) \/ JoinServer(p), conn' = conn
  PROVE  IInv'
<1>1. /\ RecsOK /\ RecsOnward /\ UNCHANGED <<slot, recs, stopping>>
      /\ server' \in {"none", "up", "stopping"}
      /\ command' \in [Commands -> {"idle", "closing", "joining"}]
      /\ command \in [Commands -> {"idle", "closing", "joining"}]
  BY NoneChanges DEF IInv, RecsOK, OwnerTypeOK, StartServer, StopServer, JoinServer
<1>2. \A q \in Commands : command'[q] = "joining" <=> command[q] = "joining"
  BY <1>1 DEF StartServer, StopServer, JoinServer
<1>3. RecsOK' /\ CommandsOK'
  BY <1>1, <1>2, RecsKept DEF IInv, RecsOK, OwnerTypeOK, CommandsOK
<1>4. NoOrphan'
  BY <1>1, StillStoppable DEF IInv
<1> QED
  BY <1>1, <1>3, <1>4, OwnerQuiet

\* A stop of the desktop takes the desktop's recognition: no client has its id.
LEMMA TakeDesktopStep ==
  ASSUME IInv, NEW p \in Commands, TakeDesktop(p), conn' = conn
  PROVE  IInv'
<1>1. /\ RecsOK /\ command[p] = "idle" /\ SlotOwner = "desktop" /\ Ask(slot, "Graceful", TRUE)
      /\ slot' = NoRecognition /\ server' = server
      /\ stopping' = [stopping EXCEPT ![p] = slot]
      /\ command' = [command EXCEPT ![p] = "joining"]
      /\ stopping \in [Commands -> 0..Len(recs)] /\ server \in {"none", "up", "stopping"}
      /\ command \in [Commands -> {"idle", "closing", "joining"}]
  BY DEF TakeDesktop, IInv, RecsOK, OwnerTypeOK
<1>2. slot # NoRecognition /\ slot \in DOMAIN recs /\ recs[slot].owner = "desktop"
  BY <1>1 DEF SlotOwner, RecsOK, OwnerTypeOK, NoRecognition
<1>3. RecsOnward
  BY <1>1, <1>2, Asked
<1>4. RecsOK'
  BY <1>1, <1>2, <1>3, RecsKept DEF RecsOK, OwnerTypeOK, NoRecognition
<1>5. CommandsOK'
  BY <1>1, <1>2 DEF IInv, CommandsOK
<1>6. ASSUME NEW c \in Connections, conn[c].rec # NoRecognition
      PROVE  slot # conn[c].rec /\ slot' # conn[c].rec
  BY <1>1, <1>2, <1>6, Before, OwnersAssumption DEF HeldBy, HeldIn, Connection
<1>7. NoOrphan'
  <2>1. SUFFICES ASSUME NEW i \in DOMAIN recs', recs'[i].result = "none"
                 PROVE  \/ \E q \in Commands : stopping'[q] = i
                        \/ \E c \in Connections : conn'[c].taken = i
    BY DEF NoOrphan, Runs
  <2>2. i \in DOMAIN recs /\ recs[i].result = "none" /\ i # NoRecognition
    BY <1>1, <1>3, <2>1 DEF RecsOnward, RecsOK, OwnerTypeOK, Onward, NoRecognition
  <2>3. stopping[p] = NoRecognition
    BY <1>1 DEF IInv, CommandsOK
  <2> QED
    BY <1>1, <2>2, <2>3 DEF IInv, NoOrphan, Runs
<1> QED
  BY <1>3, <1>4, <1>5, <1>6, <1>7, OwnerQuiet

LEMMA JoinDesktopStep ==
  ASSUME IInv, NEW p \in Commands, JoinDesktop(p), conn' = conn
  PROVE  IInv'
<1>1. /\ RecsOK /\ RecsOnward /\ recs' = recs /\ slot' = slot /\ server' = server
      /\ command[p] = "joining" /\ recs[stopping[p]].result # "none"
      /\ stopping' = [stopping EXCEPT ![p] = NoRecognition]
      /\ command' = [command EXCEPT ![p] = "idle"]
      /\ stopping \in [Commands -> 0..Len(recs)] /\ Len(recs) \in Nat
      /\ server \in {"none", "up", "stopping"} /\ slot \in 0..Len(recs)
      /\ command \in [Commands -> {"idle", "closing", "joining"}]
  BY NoneChanges DEF JoinDesktop, IInv, RecsOK, OwnerTypeOK, Runs
<1>2. RecsOK'
  BY <1>1, RecsKept DEF NoRecognition
<1>3. CommandsOK'
  BY <1>1 DEF IInv, CommandsOK
<1>4. NoOrphan'
  BY <1>1 DEF IInv, NoOrphan, Runs
<1> QED
  BY <1>1, <1>2, <1>3, <1>4, OwnerQuiet

-----------------------------------------------------------------------------
(* The invariant *)

LEMMA InitInv == StreamInit => IInv
<1> SUFFICES ASSUME StreamInit PROVE IInv
  OBVIOUS
<1>1. RecsOK /\ CommandsOK /\ NoOrphan
  BY DEF StreamInit, OwnerInit, RecsOK, OwnerTypeOK, CommandsOK, NoOrphan, NoRecognition
<1>2. PICK ids \in [Connections -> SessionIds] :
        conn = [c \in Connections |-> NewConnection(ids[c])]
  BY DEF StreamInit
<1>3. ASSUME NEW id \in SessionIds
      PROVE  LocalOK(NewConnection(id)) /\ NewConnection(id).rec = NoRecognition
  BY DEF NewConnection, LocalOK, HandleOK, Connection, NoRecognition
<1>4. \A c \in Connections : LocalOK(conn[c]) /\ conn[c].rec = NoRecognition
  BY <1>2, <1>3
<1>5. ConnectionsOK
  BY <1>2, <1>4 DEF ConnectionsOK, LocalOK, HandleOK
<1>6. Held /\ Apart
  BY <1>4 DEF Held, HeldBy, HeldIn, Apart
<1> QED
  BY <1>1, <1>5, <1>6 DEF IInv

LEMMA ReadStep == ASSUME IInv, NEW c \in Connections, Read(c) PROVE IInv'
<1>1. conn[c].pc = "turn" /\ conn[c].reply \notin Results
  BY DEF Read, NothingDrained
<1>2. CASE Start(c)
  BY <1>1, <1>2, StartStep DEF Start
<1>3. CASE StartFails(c)
  BY <1>3, StartFailsStep
<1>4. CASE Audio(c)
  BY <1>1, <1>4, AudioStep
<1>5. CASE GracefulStop(c)
  BY <1>1, <1>5, GracefulStopStep
<1>6. CASE Cancel(c) \/ Abandon(c)
  BY <1>1, <1>6, CancelOrAbandonStep
<1>7. CASE NoMessage(c)
  BY <1>1, <1>7, NoMessageStep
<1> QED
  BY <1>2, <1>3, <1>4, <1>5, <1>6, <1>7 DEF Read

LEMMA ConnectionStep ==
  ASSUME IInv, NEW c \in Connections, Accept(c) \/ Serve(c) \/ Finish(c)
  PROVE  IInv'
BY AcceptStep, SendEventsStep, AnswerDrainStep, ShutdownStep, JoinDrainStep, JoinFinishStep,
   ReadStep, FinishTakeStep, FinishJoinStep DEF Serve, Finish

LEMMA OwnerStep == ASSUME IInv, OwnerNext, conn' = conn PROVE IInv'
BY WorkerStep, StartDesktopStep, ServerStep, TakeDesktopStep, JoinDesktopStep DEF OwnerNext

LEMMA NextInv == IInv /\ [Next]_streamVars => IInv'
<1>1. ASSUME IInv, Next PROVE IInv'
  <2>1. CASE OwnerNext /\ UNCHANGED conn
    BY <1>1, <2>1, OwnerStep
  <2>2. CASE \E p \in Commands : ServerStopped /\ JoinServer(p) /\ UNCHANGED conn
    BY <1>1, <2>2, ServerStep
  <2>3. CASE \E c \in Connections : Accept(c) \/ Serve(c) \/ Finish(c)
    BY <1>1, <2>3, ConnectionStep
  <2> QED
    BY <1>1, <2>1, <2>2, <2>3 DEF Next
<1>2. ASSUME IInv, UNCHANGED streamVars PROVE IInv'
  BY <1>2 DEF streamVars, IInv, RecsOK, OwnerTypeOK, ConnectionsOK, Held, HeldBy, HeldIn, Apart,
              CommandsOK, NoOrphan, Runs
<1> QED
  BY <1>1, <1>2

LEMMA Invariance == Spec => []IInv
BY InitInv, NextInv, PTL DEF Spec

-----------------------------------------------------------------------------
(***************************************************************************)
(* Slot, recognitions, commands and connections stay within their types.   *)
(***************************************************************************)
THEOREM TypeCorrect == Spec => []TypeOK
<1>1. IInv => TypeOK
  BY DEF IInv, RecsOK, ConnectionsOK, TypeOK
<1> QED
  BY <1>1, Invariance, PTL

(***************************************************************************)
(* Whatever ids the clients choose, finish() of a connection's handle      *)
(* takes no recognition out of the slot but the one its session.start put  *)
(* there.                                                                  *)
(***************************************************************************)
THEOREM OwnSessionOnly == Spec => []StopsOwnSession
<1>1. IInv => StopsOwnSession
  BY DEF IInv, ConnectionsOK, LocalOK, HandleOK, StopsOwnSession
<1> QED
  BY <1>1, Invariance, PTL

(***************************************************************************)
(* A recognition whose worker runs is in the slot, or a desktop command or *)
(* a handle has taken it and is about to join it: none is forgotten.       *)
(***************************************************************************)
THEOREM NoneOrphaned == Spec => []NoOrphan
<1>1. IInv => NoOrphan
  BY DEF IInv
<1> QED
  BY <1>1, Invariance, PTL

(***************************************************************************)
(* After session.done, the recognition of the connection has processed     *)
(* every accepted chunk, given its final, and all outputs were sent.       *)
(***************************************************************************)
THEOREM DoneIsComplete == Spec => []DoneMeansComplete
<1>1. ASSUME IInv, NEW c \in Connections, conn[c].answer = "done"
      PROVE  /\ recs[conn[c].rec].queued = 0 /\ ~recs[conn[c].rec].owed
             /\ conn[c].sent = recs[conn[c].rec].out
  <2>1. conn[c].rec # NoRecognition
    BY <1>1, Before DEF LocalOK
  <2>2. /\ conn[c].rec \in DOMAIN recs /\ recs[conn[c].rec].result = "Completed"
        /\ conn[c].sent = recs[conn[c].rec].out
    BY <1>1, <2>1, Before DEF HeldBy, HeldIn
  <2> QED
    BY <1>1, <2>2 DEF IInv, RecsOK, Settled
<1>2. IInv => DoneMeansComplete
  BY <1>1 DEF DoneMeansComplete
<1> QED
  BY <1>2, Invariance, PTL
=============================================================================
