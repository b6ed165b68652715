----------------------------- MODULE TurnOutput -----------------------------
(***************************************************************************)
(* What the recognition engine promises to the consumers of its output     *)
(* sink (delivery, translation, the WebSocket protocol): turns are         *)
(* numbered, outputs carry one gapless sequence number, a turn may be      *)
(* shown as a partial any number of times and is then closed by one final, *)
(* and turns are closed in their order.  RecognitionEngine implements it.  *)
(***************************************************************************)
EXTENDS Integers, FiniteSets

VARIABLES newest,   \* number of turns begun
          closed,   \* turns that have their final
          nextSeq,  \* output_sequence of the next output
          log       \* outputs sent

outputVars == <<newest, closed, nextSeq, log>>

Sent(seq, turn, final) == [seq |-> seq, turn |-> turn, final |-> final]

TurnOutputInit ==
  /\ newest = 0
  /\ closed = {}
  /\ nextSeq = 1
  /\ log = {}

\* A turn begins: no output yet.
Begin ==
  /\ newest' = newest + 1
  /\ UNCHANGED <<closed, nextSeq, log>>

\* The text so far of turn t, which may begin with it.
Partial(t) ==
  /\ t \notin closed
  /\ newest' = IF t > newest THEN t ELSE newest
  /\ log' = log \union {Sent(nextSeq, t, FALSE)}
  /\ nextSeq' = nextSeq + 1
  /\ UNCHANGED closed

\* Finals of some turns, all newer than those already closed, in their order.
Finals(turns) ==
  LET SeqOf(t) == nextSeq + Cardinality({u \in turns : u < t})
  IN  /\ turns # {}
      /\ \A t \in turns, u \in closed : u < t
      /\ newest' = IF newest + 1 \in turns THEN newest + 1 ELSE newest
      /\ log' = log \union {Sent(SeqOf(t), t, TRUE) : t \in turns}
      /\ nextSeq' = nextSeq + Cardinality(turns)
      /\ closed' = closed \union turns

TurnOutputNext ==
  \/ Begin
  \/ \E t \in 1..(newest + 1) : Partial(t)
  \/ \E turns \in SUBSET (1..(newest + 1)) : Finals(turns)

TurnOutputSpec == TurnOutputInit /\ [][TurnOutputNext]_outputVars

-----------------------------------------------------------------------------
(* What consumers may rely on, and what RecognitionEngine_proofs shows of  *)
(* the outputs of the engine.                                              *)

(***************************************************************************)
(* A consumer may treat a final as unchangeable: after the final of a turn *)
(* nothing more is sent about it, neither a late partial nor another final.*)
(***************************************************************************)
FinalIsLast ==
  \A o, p \in log : o.final /\ p.turn = o.turn /\ p # o => p.seq < o.seq

(***************************************************************************)
(* Consumers order outputs by their sequence number: every number up to    *)
(* the last one was used, and by one output only.                          *)
(***************************************************************************)
SequenceGapless ==
  /\ {o.seq : o \in log} = 1..(nextSeq - 1)
  /\ \A o, p \in log : o.seq = p.seq => o = p

(***************************************************************************)
(* Finals come in the order of the turns.                                  *)
(***************************************************************************)
FinalsInTurnOrder ==
  \A o, p \in log : o.final /\ p.final /\ o.turn < p.turn => o.seq < p.seq
=============================================================================
