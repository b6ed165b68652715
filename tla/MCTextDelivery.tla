---------------------------- MODULE MCTextDelivery ----------------------------
(***************************************************************************)
(* A session and the one before it, with two HTTP threads and one speech   *)
(* mapping.                                                                *)
(***************************************************************************)
EXTENDS TextDelivery, TLC

CONSTANTS t1, t2,    \* HTTP threads
          m1         \* a speech mapping

Session(n) == [id |-> "a", session |-> n]
Second == Session(2)
First == {Session(1)}
TwoThreads == {t1, t2}
OneMapping == <<m1>>
=============================================================================
