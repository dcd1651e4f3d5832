--------------------------- MODULE MCFileServer ----------------------------
(* Instances of FileServer for TLC.  A file of two chunks does not fit in a *)
(* send buffer of two chunks with its header, one of one chunk does.  A     *)
(* request of three pieces does not fit in a slot of two.                   *)
EXTENDS FileServer, TLC

CONSTANTS c1, c2, c3

FileDirPost     == c1 :> "file" @@ c2 :> "dir"  @@ c3 :> "post"
FileFileMissing == c1 :> "file" @@ c2 :> "file" @@ c3 :> "missing"
TwoOneThree     == c1 :> 2 @@ c2 :> 1 @@ c3 :> 3
OneOneOne       == c1 :> 1 @@ c2 :> 1 @@ c3 :> 1
OneTwoNone      == c1 :> 1 @@ c2 :> 2 @@ c3 :> 0
=============================================================================
