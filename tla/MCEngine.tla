------------------------------ MODULE MCEngine ------------------------------
(***************************************************************************)
(* Small segmentation thresholds for RecognitionEngine.  A length limit of *)
(* 30 chunks is out of reach of the frames TLC pushes, a limit of 4 is     *)
(* met after an interim close as well as inside the first segment.  With a *)
(* start of 3, a timeout of 3 is the least that PauseEndsFirst allows; the *)
(* silence of a turn check that is not a whole number of chunks gives such *)
(* an odd timeout, 2 * turnCheck - 1.                                      *)
(***************************************************************************)
EXTENDS RecognitionEngine

Thresholds(s, i, t, o, m) ==
  [start |-> s, interim |-> i, turnCheck |-> t, timeout |-> o, maxChunks |-> m]

Long == {Thresholds(2, 1, 2, 3, 30), Thresholds(3, 1, 2, 3, 30)}
Changing == {Thresholds(2, 1, 2, 3, 4), Thresholds(2, 1, 3, 5, 4)}

Detect(d, full) == [detector |-> d, rerecognizeFull |-> full]

SimpleOnly == {Detect("Simple", FALSE)}
EveryDetector ==
  SimpleOnly \union {Detect("Simple", TRUE), Detect("Morph", FALSE), Detect("Namo", FALSE)}
=============================================================================
