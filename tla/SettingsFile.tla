---------------------------- MODULE SettingsFile ----------------------------
(***************************************************************************)
(* The file policy of the settings family                                  *)
(* (src/CypherEditor/Core/Settings/CypherEditor_SettingsFile.cpp) as the   *)
(* editor uses it: one load when it starts, then saves.  Every call on the *)
(* file system is a step of its own: it may fail, and the editor may be    *)
(* killed before or after it.  The user may rewrite the file by hand       *)
(* between the operations of the editor, but not inside one.               *)
(*                                                                         *)
(* A file holds a text the editor accepts (Values), one it rejects         *)
(* (Damaged), the beginning of a text (Partial), or is absent.  A write    *)
(* that fails or is cut off leaves Partial, which no load accepts.         *)
(***************************************************************************)

CONSTANTS
  Values, EmptyDocument,   \* documents; a load starts from the empty one
  Damaged,                 \* texts that the editor does not accept
  Partial, NoFile,
  EditsWhileOpen           \* whether the user edits the file while the editor runs

ASSUME SettingsAssumption ==
  /\ EmptyDocument \in Values
  /\ Values \cap Damaged = {}
  /\ Partial \notin Values \cup Damaged \cup {NoFile}
  /\ NoFile \notin Values \cup Damaged
  /\ EditsWhileOpen \in BOOLEAN

VARIABLES
  disk,           \* the file, its siblings, and the staging file of each
  store,          \* settings_file_t.store
  bSaveBlocked,   \* settings_file_t.bSaveBlocked
  bOnDisk,        \* mason_t.bUserSettingsOnDisk
  fileStep,       \* what the editor does next; "idle" between operations
  saving,         \* the document of the save in progress
  rejected,       \* the text a load rejected, unless edited or accepted since
  lastSaved       \* what the last save or load left in the file, unless edited

memory == <<store, bSaveBlocked, bOnDisk>>
observed == <<rejected, lastSaved>>
svars == <<disk, memory, fileStep, saving, observed>>

Siblings == {"main", "bak", "broken"}
Tmp(f) == CASE f = "main" -> "main.tmp" [] f = "bak" -> "bak.tmp" [] f = "broken" -> "broken.tmp"
Files == Siblings \cup {Tmp(f) : f \in Siblings}

Readable(text) == text \in Values

-----------------------------------------------------------------------------
(* The file system calls the policy is built from. *)

\* FileIo_WriteAllNative: create or truncate, write all, flush; or fail after
\* any part of it.
Writes(f, text) == disk' = [disk EXCEPT ![f] = text]
WriteFails(f) == \E left \in {disk[f], Partial} : Writes(f, left)

\* FileIo_ReplaceNative: the staged file takes the place of the file.
Replaces(f) == disk' = [disk EXCEPT ![f] = disk[Tmp(f)], ![Tmp(f)] = NoFile]

\* The first half of CopyNativeFile: read the file, write the staging file.
Stages(f) == disk["main"] # NoFile /\ Writes(Tmp(f), disk["main"])

-----------------------------------------------------------------------------
(* Loading, when the editor starts: EditorSettingsFile_Init and _Load. *)

EditorStarts ==
  /\ fileStep = "down"
  /\ fileStep' = "load"
  /\ UNCHANGED <<disk, memory, saving, observed>>

\* LOADED, MISSING and IO_ERROR end the load.  After IO_ERROR the editor keeps
\* the settings in memory only.
LoadEnds ==
  /\ fileStep = "load"
  /\ \/ /\ Readable(disk["main"])
        /\ store' = disk["main"] /\ bOnDisk' = TRUE
        /\ lastSaved' = disk["main"] /\ rejected' = NoFile
     \/ /\ disk["main"] = NoFile
        /\ bOnDisk' = TRUE
        /\ UNCHANGED <<store, observed>>
     \/ /\ disk["main"] # NoFile
        /\ UNCHANGED <<store, bOnDisk, observed>>
  /\ fileStep' = "idle"
  /\ UNCHANGED <<disk, bSaveBlocked, saving>>

\* The text is not accepted.  Running out of memory while parsing an
\* acceptable text is taken for damage too.
LoadRejects ==
  /\ fileStep = "load" /\ disk["main"] # NoFile
  /\ rejected' = disk["main"]
  /\ fileStep' = "keep"
  /\ UNCHANGED <<disk, memory, saving, lastSaved>>

KeepDamaged ==
  /\ \/ fileStep = "keep" /\ Stages("broken") /\ fileStep' = "kept"
     \/ fileStep = "kept" /\ Replaces("broken") /\ fileStep' = "loadBackup"
  /\ UNCHANGED <<memory, saving, observed>>

LoadBackup ==
  /\ fileStep = "loadBackup" /\ Readable(disk["bak"])
  /\ store' = disk["bak"] /\ bOnDisk' = TRUE
  /\ fileStep' = "idle"
  /\ UNCHANGED <<disk, bSaveBlocked, saving, observed>>

\* A slip: the editor runs on inherited values and goes on saving.
NothingBlocked == bSaveBlocked' = FALSE

BlockSaving == bSaveBlocked' = TRUE

\* No copy of the damaged text, or no usable backup: run on inherited values,
\* with saving blocked, or without a file at all when memory has run out.
LoadGivesUp ==
  /\ \/ fileStep = "keep" /\ WriteFails(Tmp("broken"))
     \/ fileStep \in {"kept", "loadBackup"} /\ UNCHANGED disk
  /\ store' = EmptyDocument
  /\ \/ bOnDisk' = TRUE /\ BlockSaving
     \/ UNCHANGED <<bOnDisk, bSaveBlocked>>
  /\ fileStep' = "idle"
  /\ UNCHANGED <<saving, observed>>

-----------------------------------------------------------------------------
(* Saving: EditorSettingsFile_Save, called by SaveUserSettings and, with an  *)
(* imported document that then becomes the store, by SaveImportedSettings.   *)

ChangeSetting ==
  /\ fileStep = "idle"
  /\ \E v \in Values : store' = v
  /\ UNCHANGED <<disk, bSaveBlocked, bOnDisk, fileStep, saving, observed>>

\* Both the setting in the store and a document to import.
SaveBegins ==
  /\ fileStep = "idle" /\ bOnDisk /\ ~bSaveBlocked
  /\ \E v \in Values : saving' = v
  /\ \/ Writes(Tmp("main"), saving') /\ fileStep' = "backup"
     \/ WriteFails(Tmp("main")) /\ fileStep' = "idle"
  /\ UNCHANGED <<memory, observed>>

RefreshBackup ==
  /\ \/ fileStep = "backup" /\ Stages("bak") /\ fileStep' = "backedUp"
     \/ fileStep = "backedUp" /\ Replaces("bak") /\ fileStep' = "publish"
     \/ fileStep = "backup" /\ disk["main"] = NoFile /\ fileStep' = "publish" /\ UNCHANGED disk
  /\ UNCHANGED <<memory, saving, observed>>

\* A slip: the save goes on without its backup.
BackupOptional == fileStep' = "publish" /\ UNCHANGED disk

\* The staged save is removed, and IO_ERROR reported.
AbandonSave == fileStep' = "idle" /\ disk' = [disk EXCEPT ![Tmp("main")] = NoFile]

BackupFails ==
  /\ fileStep \in {"backup", "backedUp"} /\ disk["main"] # NoFile
  /\ AbandonSave
  /\ UNCHANGED <<memory, saving, observed>>

Publish ==
  /\ fileStep = "publish"
  /\ \/ /\ Replaces("main")
        /\ fileStep' = "idle"
        /\ store' = saving /\ lastSaved' = saving
     \/ /\ AbandonSave
        /\ UNCHANGED <<store, lastSaved>>
  /\ UNCHANGED <<bSaveBlocked, bOnDisk, saving, rejected>>

\* EditorSettingsFile_AcceptOverwrite: the text in the way is kept as .broken.
AcceptOverwrite ==
  /\ \/ /\ fileStep = "idle" /\ bSaveBlocked
        /\ \/ Stages("broken") /\ fileStep' = "accept"
           \/ WriteFails(Tmp("broken")) /\ fileStep' = "idle"
        /\ UNCHANGED bSaveBlocked
     \/ /\ fileStep = "accept" /\ fileStep' = "idle"
        /\ \/ Replaces("broken") /\ bSaveBlocked' = FALSE
           \/ UNCHANGED <<disk, bSaveBlocked>>
     \/ /\ fileStep = "idle" /\ bSaveBlocked /\ disk["main"] = NoFile
        /\ bSaveBlocked' = FALSE
        /\ UNCHANGED <<disk, fileStep>>
  /\ UNCHANGED <<store, bOnDisk, saving, observed>>

-----------------------------------------------------------------------------
(* What happens to the editor and to its file from outside. *)

\* Closed or killed: what is in memory is lost.
EditorStops ==
  /\ fileStep # "down"
  /\ fileStep' = "down"
  /\ store' = EmptyDocument /\ bSaveBlocked' = FALSE /\ bOnDisk' = FALSE
  /\ saving' = EmptyDocument
  /\ UNCHANGED <<disk, observed>>

EditByHand ==
  /\ fileStep = "down" \/ (fileStep = "idle" /\ EditsWhileOpen)
  /\ \E text \in (Values \cup Damaged \cup {NoFile}) \ {disk["main"]} :
       disk' = [disk EXCEPT !["main"] = text]
  /\ rejected' = NoFile /\ lastSaved' = NoFile
  /\ UNCHANGED <<memory, fileStep, saving>>

SInit ==
  /\ disk = [f \in Files |-> NoFile]
  /\ store = EmptyDocument /\ bSaveBlocked = FALSE /\ bOnDisk = FALSE
  /\ fileStep = "down" /\ saving = EmptyDocument
  /\ rejected = NoFile /\ lastSaved = NoFile

SNext ==
  \/ EditorStarts \/ LoadEnds \/ LoadRejects \/ KeepDamaged \/ LoadBackup \/ LoadGivesUp
  \/ ChangeSetting \/ SaveBegins \/ RefreshBackup \/ BackupFails \/ Publish
  \/ AcceptOverwrite \/ EditorStops \/ EditByHand

SSpec == SInit /\ [][SNext]_svars

-----------------------------------------------------------------------------
(* Properties. *)

\* The staging files are the only ones that can hold the beginning of a text.
STypeOK ==
  /\ disk \in [Files -> Values \cup Damaged \cup {Partial, NoFile}]
  /\ store \in Values /\ saving \in Values
  /\ bSaveBlocked \in BOOLEAN /\ bOnDisk \in BOOLEAN
  /\ fileStep \in {"down", "load", "keep", "kept", "loadBackup", "idle", "backup",
             "backedUp", "publish", "accept"}
  /\ \A f \in Siblings : disk[f] # Partial

\* "A file that cannot be parsed is never lost"
\* (docs/adr/0009-editor-and-map-file-identities.md:152): the text that a load
\* rejected stays in the file or is kept as .broken, through failed copies,
\* restored backups, saves, accepted overwrites and restarts.
RejectedTextKept == rejected # NoFile => rejected \in {disk["main"], disk["broken"]}

\* What a save reported as done, or a load read, is what the file holds, after
\* later saves that failed and wherever the editor was killed.
CompletedSaveSurvives == lastSaved # NoFile => disk["main"] = lastSaved

\* "Every step that could lose data happens after a copy of what it replaces
\* exists" (CypherEditor_SettingsFile.cpp:8).
OverwrittenTextKept ==
  [][disk'["main"] # disk["main"] /\ ~EditByHand =>
       disk["main"] \in {NoFile, disk'["bak"], disk'["broken"]}]_svars

\* CypherEditor_SettingsFile.cpp:199 says of the backup: "it only ever holds a
\* file this build wrote or successfully read."
BackupStaysGood ==
  [][Readable(disk["bak"]) => Readable(disk'["bak"])]_svars

\* Whatever fails and wherever the editor is killed, neither a text that a load
\* rejected nor one that a save completed is lost, and no step overwrites the only
\* copy of what was in the settings file.
SettingsTextKept ==
  [](RejectedTextKept /\ CompletedSaveSurvives) /\ OverwrittenTextKept
=============================================================================
