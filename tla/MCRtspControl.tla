---------------------------- MODULE MCRtspControl ----------------------------
(***************************************************************************)
(* Presentations and events for model checking RtspControl.                *)
(***************************************************************************)
EXTENDS RtspControl, TLC

Symmetry == Permutations(Users)

Mixed       == <<2, 1>>   \* a session of two media and one of one
TwoSessions == <<1, 1>>   \* media on demand: two sessions of one medium
OneMedium   == <<1>>

Reliable   == {}
Answering  == {"refuse", "error"}
Replaying  == {"refuse", "error", "replay"}
Replayed   == {"replay"}
Broken     == {"read_error"}
Hanging    == {"hangup"}
Cancelled  == {"uninit", "error", "read_error"}
Anything   == {"refuse", "error", "redirect", "bad_sdp", "hangup"}
=============================================================================
