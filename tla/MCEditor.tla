------------------------------ MODULE MCEditor ------------------------------
(***************************************************************************)
(* The parts of the editor that keep the user's work, checked side by side *)
(* in one run: a behaviour runs the one that `part` names.                 *)
(***************************************************************************)
EXTENDS EditorHistory, SettingsFile, MapWorkspace
CONSTANT Parts   \* the parts a run checks
VARIABLE part

editorVars == <<part, vars, svars, mvars>>

EditorInit == part \in Parts /\ Init /\ SInit /\ MInit

EditorNext ==
  \/ part = "history" /\ Next /\ UNCHANGED <<part, svars, mvars>>
  \/ part = "settings" /\ SNext /\ UNCHANGED <<part, vars, mvars>>
  \/ part = "map" /\ MNext /\ UNCHANGED <<part, vars, svars>>

EditorSpec == EditorInit /\ [][EditorNext]_editorVars

\* The state of every part has its shape; HistoryIsValid, which each call on the
\* journal tests first, never fails.
EditorTypeOK == UTypeOK /\ STypeOK /\ MTypeOK
=============================================================================
