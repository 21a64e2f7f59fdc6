---------------------------- MODULE MCScanContainer ----------------------------
(***************************************************************************)
(* The output of a scan for TLC: each kind of line that matters, among     *)
(* lines that do not, and one that is too long.                            *)
(***************************************************************************)
EXTENDS ScanContainer

FullScript == <<"text", "view", "post", "text", "view", "long", "post">>
=============================================================================
