--------------------------- MODULE MCRotatingLog ---------------------------
(***************************************************************************)
(* Instances of RotatingLog for TLC.  Lines of half the limit and of the   *)
(* limit, so that a file is full after one line or two; each kind of fault *)
(* alone or with another, and none.                                        *)
(***************************************************************************)
EXTENDS RotatingLog

MCSizes == {1, 2}
MCModes == {{}, {"stop"}, {"rename", "stop"}, {"open", "stop"}, {"open", "rename"}, {"write"}}
MCRename == {{"rename"}}
=============================================================================
