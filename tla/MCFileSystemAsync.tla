-------------------------- MODULE MCFileSystemAsync --------------------------
(***************************************************************************)
(* Two threads: one blocks while the other polls, cancels or submits, or   *)
(* shuts the filesystem down.  Fewer slots than requests, so that a slot is*)
(* reclaimed; or as many, and a handle counter that wraps at once, so that *)
(* two slots have the same handle.                                         *)
(***************************************************************************)
EXTENDS FileSystemAsync, TLC

ThreadSymmetry == Permutations(Threads)
=============================================================================
