-------------------------- MODULE MCSegmentHistory --------------------------
(***************************************************************************)
(* Small thresholds for TLC.  The order start < interim < turn check < max *)
(* of the default settings is kept, and the corner cases are there:        *)
(* start = 1 (an interim close starts the next segment at once), interim   *)
(* results off, and a length limit that meets the end silence.             *)
(***************************************************************************)
EXTENDS SegmentHistory

Thresholds(s, i, t, m) ==
  [start |-> s, interim |-> i, turnCheck |-> t, timeout |-> 2 * t, maxChunks |-> m]

\* Settings may change between the first three and between the next two.
SmallConfigs ==
  {Thresholds(1, 1, 3, 4), Thresholds(3, 1, 3, 4), Thresholds(2, 1, 2, 4),
   Thresholds(2, 2, 4, 6), Thresholds(3, 1, 4, 6), Thresholds(2, 0, 2, 4)}
=============================================================================
