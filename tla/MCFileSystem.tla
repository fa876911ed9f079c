---------------------------- MODULE MCFileSystem ----------------------------
(***************************************************************************)
(* The two parts of the filesystem runtime that must get somewhere, side   *)
(* by side in one run: a behaviour runs the one that `part` names.  The    *)
(* watched tree has two directories, one of which exists at first, each    *)
(* with room for a file; one watch covers all of it, the other one file.   *)
(***************************************************************************)
EXTENDS MCFileSystemAsync, FileSystemWatch

TreePaths == << <<>>, <<"s">>, <<"s", "f">>, <<"t">>, <<"t", "f">> >>
Directories == {<<>>, <<"s">>, <<"t">>}
AtFirst == {<<>>, <<"s">>, <<"s", "f">>}
WatchTargets ==
  {<< <<>>, "recursive">>, << <<"s">>, "directory">>, << <<"s", "f">>, "file">>}

CONSTANT Parts   \* the parts a run checks
VARIABLE part

fileSystemVars == <<part, vars, wvars>>

FileSystemInit == part \in Parts /\ Init /\ WatchInit

FileSystemNext ==
  \/ part = "async" /\ Next /\ UNCHANGED <<part, wvars>>
  \/ part = "watch" /\ WatchNext /\ UNCHANGED <<part, vars>>

FileSystemSpec ==
  /\ FileSystemInit /\ [][FileSystemNext]_fileSystemVars
  /\ AsyncFairness /\ WatchFairness
=============================================================================
