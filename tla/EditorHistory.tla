---------------------------- MODULE EditorHistory ----------------------------
(***************************************************************************)
(* The editor's document history (src/CypherEditor/Core/History): the undo *)
(* journal with the mark of the saved state, from which the editor decides *)
(* whether the document matches its file.  Listeners are left out: they    *)
(* read, and change no state of the history.  EditorHistory_StepTo is      *)
(* undos and redos in a row.                                               *)
(***************************************************************************)
EXTENDS UndoRedo

VARIABLES
  cleanToken, nEvictedAtClean, bCleanReachable,  \* editor_history_t
  saved     \* the document in the file, and how many groups had been evicted

clean == <<cleanToken, nEvictedAtClean, bCleanReachable, saved>>
vars == <<uvars, clean>>

\* UndoRedo_StateToken: the newest applied group and how much of it is applied.
StateToken ==
  IF iCursor = 0 THEN [nGroup |-> 0, nApplied |-> 0]
  ELSE [nGroup |-> ops[iCursor].nGroup,
        nApplied |-> Cardinality({i \in 1 .. iCursor :
                                    ops[i].nGroup = ops[iCursor].nGroup})]

\* A slip: evictions are ignored.
TokenDecides == bCleanReachable /\ cleanToken = StateToken

EditorHistory_IsClean ==
  /\ bCleanReachable
  /\ cleanToken = StateToken
  /\ cleanToken.nGroup # 0 \/ nEvictedGroups = nEvictedAtClean

EditorHistory_MarkClean ==
  /\ cleanToken' = StateToken
  /\ nEvictedAtClean' = nEvictedGroups
  /\ bCleanReachable' = TRUE
  /\ saved' = [document |-> document, nEvictedGroups |-> nEvictedGroups]
  /\ UNCHANGED uvars

\* Only a document that matches its file may keep its mark.
MarkSurvivesClear == EditorHistory_IsClean

EditorHistory_Clear ==
  /\ UndoRedo_Clear
  /\ cleanToken' = [nGroup |-> 0, nApplied |-> 0]
  /\ nEvictedAtClean' = nEvictedGroups
  /\ bCleanReachable' = MarkSurvivesClear
  /\ UNCHANGED saved

Init ==
  /\ UInit
  /\ cleanToken = [nGroup |-> 0, nApplied |-> 0]
  /\ nEvictedAtClean = 0 /\ bCleanReachable = TRUE
  /\ saved = [document |-> document, nEvictedGroups |-> 0]

Next ==
  \/ UStep /\ UNCHANGED clean
  \/ EditorHistory_MarkClean
  \/ EditorHistory_Clear

Spec == Init /\ [][Next]_vars

-----------------------------------------------------------------------------
(* Properties. *)

\* CypherEditor_History.h:131: "The document matches its file."
CleanMatchesFile == EditorHistory_IsClean => document = saved.document

\* As long as no callback failed, a document that the editor calls clean does
\* match its file, after any undos, redos, merges, evictions, cancelled
\* transactions and cleared histories.
CleanMeansSaved == ~callbackFailed => CleanMatchesFile

\* The way back to the saved document is recognised, however it is reached, as
\* long as no step was evicted since the save.
SavedStateRecognised ==
  document = saved.document /\ nEvictedGroups = saved.nEvictedGroups =>
    EditorHistory_IsClean

\* What the editor shows as clean and what is saved agree in both directions.
CleanTellsSaved == CleanMeansSaved /\ SavedStateRecognised
=============================================================================
