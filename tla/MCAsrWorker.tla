----------------------------- MODULE MCAsrWorker -----------------------------
(***************************************************************************)
(* Two lanes over two models.                                              *)
(***************************************************************************)
EXTENDS AsrWorker

CONSTANTS a, b,      \* lanes
          m1, m2     \* models

TwoLanes == {a, b}
TwoModels == {m1, m2}
=============================================================================
