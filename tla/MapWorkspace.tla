---------------------------- MODULE MapWorkspace ----------------------------
(***************************************************************************)
(* The map that is open in the editor, its file, and its autosave copies   *)
(* (src/CypherEditor/Workspaces/Map: Core/CypherMap_Files.cpp,             *)
(* Gui/CypherMapGui_Workspace.cpp, _Edit.cpp, _Autosave.cpp).  Everything  *)
(* runs on the thread of the user interface; what comes between two steps  *)
(* of a save or of an autosave is only the end of the process.             *)
(*                                                                         *)
(* Every edit, undo and redo publishes a new document object and deletes   *)
(* the one before it, so the address of a document matters as well as its  *)
(* content.  The history is what EditorHistory shows of it when no         *)
(* callback fails: the states in a row, the current one, the saved one.    *)
(***************************************************************************)
EXTENDS Naturals, SequencesExt, Listing

CONSTANTS
  Contents, Blank,     \* what a map can hold; Blank is a new map
  Paths, NoPath,
  Missing,             \* no file, or one that is no map
  MaxAddresses,        \* documents of one session, or places for them
  AllocatorReuses,     \* whether a freed address can be handed out again
  Keep,                \* the setting editor.general.autosave_keep
  MaxStates, MaxCopies \* bounds: length of the history, number of a copy

ASSUME WorkspaceAssumption ==
  /\ Blank \in Contents /\ Missing \notin Contents
  /\ NoPath \notin Paths /\ MaxAddresses \in Nat \ {0}
  /\ AllocatorReuses \in BOOLEAN
  /\ Keep \in Nat /\ MaxStates \in Nat \ {0} /\ MaxCopies \in Nat

VARIABLES
  pDocument, path,     \* map_workspace_t
  states, now,         \* ws.history: the recorded states and the current one
  cleanAt,             \* the state that was saved, 0 when out of reach
  bTransaction,        \* a gesture holds a history transaction open
  nAddresses,          \* addresses 1 .. nAddresses have been handed out
  pLastCopied,         \* map_autosave_t
  mapStep,             \* "idle", or the save in progress, or "down"
  numbers,             \* MapAutosave_Run: the copies it has listed
  file, copies,        \* the disk: maps by path, copies by base name and number
  answer               \* what the last autosave reported, until the next edit

liveDocument == <<pDocument, nAddresses>>
journal == <<states, now, cleanAt, bTransaction>>
autosave == <<pLastCopied, numbers>>
mvars == <<liveDocument, path, journal, autosave, mapStep, file, copies, answer>>

Bases == Paths \cup {NoPath}         \* completeBaseName, or "untitled"
Content == states[now]
Numbers(base) == DOMAIN copies[base]

\* MapWorkspace_IsModified.
IsModified == cleanAt # now

\* What a failed MapFiles_Save leaves at its path.  The text is staged beside
\* it and renamed, so a failure is seen only in the staging file.
LeftByFailure(old) == {old}

\* How many copies MapAutosave_Run leaves.
OneTooFew == Max({Keep, 1}) - 1      \* a slip: the new copy counts as one too many
Kept == Max({Keep, 1})

-----------------------------------------------------------------------------
(* The live document. *)

NoAddress == 0

\* `new map_document_t` while the current document is still alive.
NewDocument ==
  /\ pDocument' \in (1 .. nAddresses + 1) \ {pDocument}
  /\ AllocatorReuses \/ pDocument' = nAddresses + 1
  /\ nAddresses' = Max({nAddresses, pDocument'}) /\ nAddresses' <= MaxAddresses

\* A slip: dropping redo steps does not drop the mark among them.
MarkKept == cleanAt

MarkAfterEdit == IF cleanAt > now THEN 0 ELSE cleanAt

\* Edit: the step is recorded, the redo steps are dropped, Publish swaps the
\* documents.
Edit ==
  /\ mapStep = "idle" /\ ~bTransaction /\ now < MaxStates
  /\ \E c \in Contents \ {Content} : states' = Append(SubSeq(states, 1, now), c)
  /\ now' = now + 1
  /\ cleanAt' = MarkAfterEdit
  /\ NewDocument
  /\ answer' = "none"
  /\ UNCHANGED <<path, bTransaction, autosave, mapStep, file, copies>>

\* MapWorkspace_Undo and _Redo: Restore clones the recorded document.
UndoOrRedo ==
  /\ mapStep = "idle" /\ ~bTransaction
  /\ now' \in {now - 1, now + 1} \cap (1 .. Len(states))
  /\ NewDocument
  /\ answer' = "none"
  /\ UNCHANGED <<path, states, cleanAt, bTransaction, autosave, mapStep, file, copies>>

\* EditorHistory_Begin and EditorHistory_Commit: a gesture holds a transaction open.
Gesture ==
  /\ mapStep = "idle" /\ bTransaction' = ~bTransaction
  /\ UNCHANGED <<liveDocument, path, states, now, cleanAt, autosave, mapStep, file, copies, answer>>

\* Adopt: another document, with a history and a clean mark of its own.
Adopt(p, c) ==
  /\ mapStep = "idle"
  /\ NewDocument
  /\ path' = p
  /\ states' = <<c>> /\ now' = 1 /\ cleanAt' = 1 /\ bTransaction' = FALSE
  /\ answer' = "none"
  /\ UNCHANGED <<autosave, mapStep, file, copies>>

New == Adopt(NoPath, Blank)
Open == \E p \in Paths : file[p] \in Contents /\ Adopt(p, file[p])

-----------------------------------------------------------------------------
(* MapWorkspace_SaveAs over MapFiles_Save: stage, replace, mark clean.       *)

\* A slip: the document is marked clean whether or not it was written.
MarkedAnyway == now

\* The mark of a save that failed stays where it was.
MarkAfterFailure == cleanAt

SaveAs ==
  /\ mapStep = "idle"
  /\ \E p \in Paths :
       \/ /\ file' = [file EXCEPT ![p] = Content]
          /\ path' = p
          /\ cleanAt' = now
       \/ /\ \E text \in LeftByFailure(file[p]) : file' = [file EXCEPT ![p] = text]
          /\ cleanAt' = MarkAfterFailure
          /\ UNCHANGED path
  /\ UNCHANGED <<liveDocument, states, now, bTransaction, autosave, mapStep, copies, answer>>

-----------------------------------------------------------------------------
(* MapAutosave_Run, from its timer. *)

NothingToCopy == ~IsModified \/ pDocument = pLastCopied

AutosaveDeclines ==
  /\ mapStep = "idle"
  /\ \/ NothingToCopy /\ answer' = "UNCHANGED"
     \/ ~NothingToCopy /\ bTransaction /\ answer' = "BUSY"
  /\ UNCHANGED <<liveDocument, path, journal, autosave, mapStep, file, copies>>

AutosaveLists ==
  /\ mapStep = "idle" /\ ~NothingToCopy /\ ~bTransaction
  /\ LET next == Max(Numbers(path) \cup {0}) + 1
     IN /\ next <= MaxCopies
        /\ numbers' = Ascending(Numbers(path)) \o <<next>>
  /\ mapStep' = "copy"
  /\ answer' = "none"
  /\ UNCHANGED <<liveDocument, path, journal, pLastCopied, file, copies>>

\* A slip: the document counts as copied before its copy is written.
RememberedEarly == pLastCopied' = pDocument

RememberedWhenWritten == UNCHANGED pLastCopied

\* The copy could not be made, or written; what there is of it is removed.
AutosaveFails ==
  /\ mapStep = "copy"
  /\ RememberedWhenWritten
  /\ numbers' = <<>>
  /\ mapStep' = "idle" /\ answer' = "FAILED"
  /\ UNCHANGED <<liveDocument, path, journal, file, copies>>

\* The copies of one map with one more among them.
WithCopy(numbered, n) ==
  [m \in DOMAIN numbered \cup {n} |-> IF m = n THEN Content ELSE numbered[m]]

AutosaveWrites ==
  /\ mapStep = "copy"
  /\ copies' = [copies EXCEPT ![path] = WithCopy(@, Last(numbers))]
  /\ pLastCopied' = pDocument
  /\ mapStep' = "prune"
  /\ UNCHANGED <<liveDocument, path, journal, numbers, file, answer>>

\* The oldest copies go one by one; one that cannot be deleted stays.
AutosavePrunes ==
  /\ mapStep = "prune"
  /\ \/ /\ Len(numbers) > Kept
        /\ \/ copies' = [copies EXCEPT ![path] =
                            Restrict(@, DOMAIN @ \ {Head(numbers)})]
           \/ UNCHANGED copies
        /\ numbers' = Tail(numbers)
        /\ UNCHANGED <<mapStep, answer>>
     \/ /\ Len(numbers) <= Kept
        /\ numbers' = <<>> /\ mapStep' = "idle" /\ answer' = "SAVED"
        /\ UNCHANGED copies
  /\ UNCHANGED <<liveDocument, path, journal, pLastCopied, file>>

-----------------------------------------------------------------------------
(* The process ends, at any point of a save or an autosave, and starts again  *)
(* with a new map.                                                            *)

SessionEnds ==
  /\ mapStep # "down" /\ mapStep' = "down"
  /\ pDocument' = NoAddress /\ nAddresses' = 0 /\ path' = NoPath
  /\ states' = <<Blank>> /\ now' = 1 /\ cleanAt' = 1 /\ bTransaction' = FALSE
  /\ pLastCopied' = NoAddress /\ numbers' = <<>> /\ answer' = "none"
  /\ UNCHANGED <<file, copies>>

SessionStarts ==
  /\ mapStep = "down" /\ mapStep' = "idle"
  /\ NewDocument
  /\ UNCHANGED <<path, journal, autosave, file, copies, answer>>

MInit ==
  /\ pDocument = NoAddress /\ nAddresses = 0 /\ path = NoPath
  /\ states = <<Blank>> /\ now = 1 /\ cleanAt = 1 /\ bTransaction = FALSE
  /\ pLastCopied = NoAddress /\ numbers = <<>>
  /\ mapStep = "down" /\ answer = "none"
  /\ file = [p \in Paths |-> Missing]
  /\ copies = [b \in Bases |-> <<>>]

MNext ==
  \/ SessionStarts \/ Edit \/ UndoOrRedo \/ Gesture \/ New \/ Open \/ SaveAs
  \/ AutosaveDeclines \/ AutosaveLists \/ AutosaveFails \/ AutosaveWrites
  \/ AutosavePrunes \/ SessionEnds

MSpec == MInit /\ [][MNext]_mvars

-----------------------------------------------------------------------------
(* Properties. *)

MTypeOK ==
  /\ nAddresses \in 0 .. MaxAddresses
  /\ pDocument \in 0 .. nAddresses /\ pLastCopied \in 0 .. nAddresses
  /\ path \in Bases
  /\ states \in Seq(Contents) /\ Len(states) <= MaxStates
  /\ now \in 1 .. Len(states) /\ cleanAt \in 0 .. Len(states)
  /\ bTransaction \in BOOLEAN
  /\ mapStep \in {"down", "idle", "copy", "prune"}
  /\ file \in [Paths -> Contents \cup {Missing}]
  /\ DOMAIN copies = Bases
  /\ answer \in {"none", "SAVED", "UNCHANGED", "BUSY", "FAILED"}

Newest(numbered) == numbered[Max(DOMAIN numbered)]

\* The content of the live document can be read back after a crash.
WorkOnDisk ==
  \/ path # NoPath /\ file[path] = Content
  \/ Numbers(path) # {} /\ Newest(copies[path]) = Content
  \/ path = NoPath /\ Content = Blank

\* An autosave that says it saved, or that there was nothing to save, leaves
\* the work in the map file or in the newest copy of its name, as long as no
\* two documents of a session had the same address.
WorkIsOnDisk == answer \in {"SAVED", "UNCHANGED"} => WorkOnDisk

\* A document that is not modified is the one in its file, after undo and redo
\* across saves, saves under another name, failed saves and reopened maps.
CleanMeansOnDisk ==
  mapStep # "down" /\ ~IsModified =>
    IF path = NoPath THEN Content = Blank ELSE file[path] = Content

\* What the editor says of the user's work is true: saved, copied, unmodified.
ReportsAreTrue == WorkIsOnDisk /\ CleanMeansOnDisk

\* "the file on disk is unchanged" (CypherMap_Files.cpp:158): a map that can be
\* read is never replaced by something that cannot, whatever fails; and however
\* autosaves fail and are cut off, the newest copy of a map goes only when there is
\* a newer one.
MapsSurvive ==
  [][/\ \A p \in Paths : file[p] \in Contents => file'[p] \in Contents
     /\ \A b \in Bases : Numbers(b) # {} =>
          \E n \in Numbers(b)' : n >= Max(Numbers(b))]_mvars

\* CypherMapGui_Autosave.h:37 says of UNCHANGED: "No unsaved work, or none
\* since the last copy."
UnchangedMeansCopied == answer = "UNCHANGED" => WorkOnDisk
=============================================================================
