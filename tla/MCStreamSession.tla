--------------------------- MODULE MCStreamSession ---------------------------
(***************************************************************************)
(* StreamSession for TLC: two connections, whose clients may choose the    *)
(* same session id.                                                        *)
(***************************************************************************)
EXTENDS StreamSession

CONSTANTS c1, c2, s1, s2, p1, p2

TwoConnections == {c1, c2}
OneConnection  == {c1}
OneId          == {s1}
TwoIds         == {s1, s2}
OneCommand     == {p1}
TwoCommands    == {p1, p2}
=============================================================================
