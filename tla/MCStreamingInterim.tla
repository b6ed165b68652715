------------------------- MODULE MCStreamingInterim -------------------------
(***************************************************************************)
(* One session with a streaming interim model, with each detector.         *)
(***************************************************************************)
EXTENDS StreamingInterim

Thresholds(start, timeout, maxChunks) ==
  [start |-> start, interim |-> 0, turnCheck |-> 2, timeout |-> timeout, maxChunks |-> maxChunks]
OutOfReach == {Thresholds(1, 3, 30), Thresholds(2, 4, 30)}
LimitIsMet == {Thresholds(1, 3, 2)}

Detect(detector, full) == [detector |-> detector, rerecognizeFull |-> full]
SimpleTurns == {Detect("Simple", FALSE)}
EveryDetector ==
  {Detect("Simple", FALSE), Detect("Simple", TRUE), Detect("Morph", FALSE), Detect("Namo", FALSE)}
=============================================================================
