-------------------------- MODULE MCSourceScheduler --------------------------
(***************************************************************************)
(* SourceScheduler for TLC: three sources, two of them channels of one     *)
(* capture endpoint that captures more than a source's queue takes.        *)
(***************************************************************************)
EXTENDS SourceScheduler, TLC

CONSTANTS mic, line

TwoEndpoints == {mic, line}
SharedMic    == <<mic, mic, line>>
FewChunks    == mic :> 3 @@ line :> 1
=============================================================================
