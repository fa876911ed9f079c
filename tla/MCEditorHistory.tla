--------------------------- MODULE MCEditorHistory ---------------------------
(***************************************************************************)
(* A journal of three operations that starts with room for two, so that    *)
(* four pushes evict groups, grow the table and merge across both.         *)
(* MaxGroups bounds the group numbers a behaviour can use.                 *)
(***************************************************************************)
EXTENDS EditorHistory
=============================================================================
