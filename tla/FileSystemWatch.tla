--------------------------- MODULE FileSystemWatch ---------------------------
(***************************************************************************)
(* The file watcher (src/CypherFileSystem/CypherFileSystem_Watch.cpp) in   *)
(* its Linux build: a watch keeps a snapshot of what it covers and a queue *)
(* of native events, and FS_PollChanges reports from both.  The runtime    *)
(* mutex keeps the calls apart; other programs change the tree between any *)
(* two accesses of a call.                                                 *)
(*                                                                         *)
(* Events repeat and may be old news, so a client is modelled that takes   *)
(* them as hints: it looks again at every path an event names, whether the *)
(* poll succeeded or not.  Size and time of a file are its stamp; those of *)
(* a directory are left out, and so are inotify's attribute events.        *)
(***************************************************************************)
EXTENDS Naturals, FiniteSets, SequencesExt, Listing

CONSTANTS
  PathOrder,     \* the paths, as strcmp orders them; a path is a sequence of names
  DirPaths,      \* the paths that are directories when they exist
  FirstPaths,    \* those that exist at first
  Stamps, DirStamp, NoEntry, NoPath,
  Targets,       \* what may be watched: pairs of a path and a kind of watch
  MaxWatches,    \* CYPHER_FILESYSTEM_MAX_WATCHES
  MaxDirs,       \* LINUX_MAX_WATCH_DIRS
  QueueMax,      \* the length of the kernel's queue
  nMaxEvents,    \* the room in the client's buffer
  MaxChanges,    \* bound on changes to the tree
  MaxHandles     \* bound on the watches begun in one lifetime

Paths == ToSet(PathOrder)

ASSUME WatchAssumption ==
  /\ PathOrder \in Seq(Paths) /\ IsInjective(PathOrder)
  /\ \A p \in Paths : p = <<>> \/ Front(p) \in DirPaths
  /\ <<>> \in FirstPaths /\ FirstPaths \subseteq Paths /\ DirPaths \subseteq Paths
  /\ Targets \subseteq Paths \X {"recursive", "directory", "file"}
  /\ NoPath \notin Paths /\ DirStamp \notin Stamps /\ NoEntry \notin Stamps \cup {DirStamp}
  /\ {MaxWatches, MaxDirs, QueueMax, nMaxEvents, MaxChanges, MaxHandles} \subseteq Nat

VARIABLES
  tree,                     \* what is at each path: an inode and a stamp
  changes,                  \* how often the tree was changed
  fsInitialized, nNextWatchHandle, watches,    \* runtime_state_t
  natives,                  \* s_LinuxWatches, with the kernel's queue of each
  phase, at, batch, scratch, events,         \* the call in progress
  named, seen, ahead        \* the client, see there

filevars == <<tree, changes>>
callvars == <<phase, at, batch, scratch, events>>
clientvars == <<named, seen, ahead>>
wvars == <<filevars, fsInitialized, nNextWatchHandle, watches, natives, callvars, clientvars>>

-----------------------------------------------------------------------------
(* The tree, and what the kernel tells of its changes. *)

Nothing == [node |-> 0, stamp |-> NoEntry]
Exists(p) == p \in Paths /\ tree[p].node > 0
Below == [p \in Paths |-> {q \in Paths : IsPrefix(p, q)}]
StampsOf(p) == IF p \in DirPaths THEN {DirStamp} ELSE Stamps

\* A new inode takes the number of the change that made it; those of the
\* paths that exist at first follow.
FreshNode == Len(PathOrder) + changes + 1

Event(p, mask, name) ==
  [wd |-> tree[p].node, mask |-> mask, name |-> name, cookie |-> changes + 1,
   isDir |-> name # <<>> /\ p \o name \in DirPaths]

OfParent(p, mask) == Event(Front(p), mask, <<Last(p)>>)
Told(p, mask) == IF p = <<>> THEN <<>> ELSE <<OfParent(p, mask)>>

\* The events of the inodes a watch has added, up to the length of its queue.
Queued(native, news) ==
  LET watched == {native.dirs[i].wd : i \in DOMAIN native.dirs}
      all == native.queue \o Picked(news, {k \in DOMAIN news : news[k].wd \in watched})
  IN  SubSeq(all, 1, IF Len(all) > QueueMax THEN QueueMax ELSE Len(all))

TreeChanges(newTree, news) ==
  /\ changes < MaxChanges /\ changes' = changes + 1
  /\ tree' = newTree
  /\ natives' = [s \in DOMAIN natives |->
                   [natives[s] EXCEPT !.queue = Queued(natives[s], news)]]

Created(p) ==
  /\ ~Exists(p) /\ (p = <<>> \/ Exists(Front(p)))
  /\ \E m \in StampsOf(p) :
       TreeChanges([tree EXCEPT ![p] = [node |-> FreshNode, stamp |-> m]], Told(p, "CREATE"))

Modified(p) ==
  /\ Exists(p) /\ p \notin DirPaths
  /\ \E m \in Stamps :
       TreeChanges([tree EXCEPT ![p].stamp = m],
                   Told(p, "MODIFY") \o <<Event(p, "MODIFY", <<>>)>>)

Removed(p) ==
  /\ Exists(p) /\ \A q \in Below[p] : Exists(q) => q = p
  /\ TreeChanges([tree EXCEPT ![p] = Nothing],
                 Told(p, "DELETE") \o <<Event(p, "DELETE_SELF", <<>>)>>)

\* What is at p, with all below it, goes to q; a file that was at q is gone.
\* A bound: nothing is moved out of the paths of the model.
Renamed(p, q) ==
  LET From(x) == p \o SubSeq(x, Len(q) + 1, Len(x))
      To(x) == q \o SubSeq(x, Len(p) + 1, Len(x)) IN
  /\ p # <<>> /\ q # <<>> /\ p # q /\ Exists(p) /\ Exists(Front(q))
  /\ q \notin Below[p] /\ p \notin Below[q] /\ (p \in DirPaths <=> q \in DirPaths)
  /\ q \in DirPaths => ~Exists(q)
  /\ \A x \in Below[p] : Exists(x) => To(x) \in Paths
  /\ TreeChanges([x \in Paths |-> IF x \in Below[p] THEN Nothing
                                  ELSE IF x \notin Below[q] THEN tree[x]
                                  ELSE IF From(x) \in Paths THEN tree[From(x)] ELSE Nothing],
                 <<OfParent(p, "MOVED_FROM"), OfParent(q, "MOVED_TO"),
                   Event(q, "DELETE_SELF", <<>>), Event(p, "MOVE_SELF", <<>>)>>)

OthersChangeTheTree ==
  /\ \/ \E p \in Paths : Created(p) \/ Modified(p) \/ Removed(p)
     \/ \E p, q \in Paths : Renamed(p, q)
  /\ UNCHANGED <<fsInitialized, nNextWatchHandle, watches, callvars, clientvars>>

-----------------------------------------------------------------------------
(* The client.  `named` are the paths it was told of and has not looked at  *)
(* since, `seen` is what it found at each path when it looked last, and     *)
(* `ahead` are the paths where that was newer than the snapshot of a watch. *)

Covered(w) ==
  {p \in Below[w.path] : \/ w.kind = "recursive"
                         \/ w.kind = "directory" /\ Len(p) <= Len(w.path) + 1
                         \/ p = w.path}

PathsIn(es) == (UNION {{es[i].path, es[i].old} : i \in DOMAIN es}) \ {NoPath}

\* The client looks at all it was told of before it calls again.
ClientLooks ==
  /\ phase = "idle" /\ named # {} /\ named' = {}
  /\ seen' = [p \in Paths |-> IF p \in named THEN tree[p].stamp ELSE seen[p]]
  /\ ahead' = {a \in ahead : a[2] \notin named} \cup
       UNION {{w.handle} \X {p \in named \cap Covered(w) : w.snapshot[p] # tree[p].stamp} :
                w \in ToSet(watches)}
  /\ UNCHANGED <<filevars, fsInitialized, nNextWatchHandle, watches, natives, callvars>>

\* The client forgets what it no longer watches.
Watching(ws) == UNION {Covered(w) : w \in ToSet(ws)}
ClientKeeps(ws) ==
  /\ named' = named \cap Watching(ws)
  /\ seen' = [p \in Paths |-> IF p \in Watching(ws) THEN seen[p] ELSE NoEntry]
  /\ ahead' = {a \in ahead : \E w \in ToSet(ws) : w.handle = a[1]}

-----------------------------------------------------------------------------
(* Lifetimes and watches. *)

NoRename == [cookie |-> 0, path |-> NoPath]
Unused == [used |-> FALSE, dirs |-> <<>>, queue |-> <<>>, pending |-> NoRename]
NativeSlots == 1 .. MaxWatches

\* A path that is gone is listed, as gone, only where it is the watched one.
SnapshotOf(w) == [p \in Covered(w) |-> tree[p].stamp]

\* A slip: LinuxDestroyNativeWatch closes what it had without resetting the slot.
OnlyClosed(slot) == [natives[slot] EXCEPT !.dirs = <<>>, !.queue = <<>>]
Destroyed(slot) == Unused

WatchInit ==
  /\ tree = [p \in Paths |->
       IF p \notin FirstPaths THEN Nothing
       ELSE [node |-> CHOOSE i \in DOMAIN PathOrder : PathOrder[i] = p,
             stamp |-> CHOOSE m \in StampsOf(p) : TRUE]]
  /\ changes = 0
  /\ fsInitialized = FALSE /\ nNextWatchHandle = 1 /\ watches = <<>>
  /\ natives = [s \in NativeSlots |-> Unused]
  /\ phase = "idle" /\ at = 0 /\ batch = <<>> /\ scratch = <<>> /\ events = <<>>
  /\ named = {} /\ seen = [p \in Paths |-> NoEntry] /\ ahead = {}

WatchingBegins ==
  /\ ~fsInitialized /\ fsInitialized' = TRUE /\ nNextWatchHandle' = 1
  /\ UNCHANGED <<filevars, watches, natives, callvars, clientvars>>

\* Every watch is taken back; the asynchronous requests are modelled elsewhere.
WatchingEnds ==
  /\ fsInitialized /\ phase = "idle" /\ fsInitialized' = FALSE
  /\ watches' = <<>> /\ ClientKeeps(<<>>)
  /\ natives' = [s \in NativeSlots |-> IF \E w \in ToSet(watches) : w.native = s
                                 THEN Destroyed(s) ELSE natives[s]]
  /\ nNextWatchHandle' = 1
  /\ UNCHANGED <<filevars, callvars>>

\* FS_WatchPath takes its snapshot before it asks the kernel.
FS_WatchPath(target) ==
  LET w == [path |-> target[1], kind |-> target[2]] IN
  /\ fsInitialized /\ phase = "idle" /\ nNextWatchHandle <= MaxHandles
  /\ Len(watches) < MaxWatches /\ Exists(target[1])
  /\ \A v \in ToSet(watches) : v.path # target[1]
  /\ nNextWatchHandle' = nNextWatchHandle + 1
  /\ scratch' = [handle |-> nNextWatchHandle, path |-> w.path, kind |-> w.kind,
                 snapshot |-> SnapshotOf(w), native |-> 0]
  /\ phase' = "watch"
  /\ UNCHANGED <<filevars, fsInitialized, watches, natives, at, batch, events, clientvars>>

\* LinuxAddWatchDir for the path, and if `below` for the directories below it.
\* What was added before the table is full stays.
Added(dirs, path, below) ==
  LET Wanted(p) == /\ Exists(path) /\ Exists(p)
                   /\ p = path \/ (below /\ p \in DirPaths /\ p \in Below[path])
      found == Picked(PathOrder, {k \in DOMAIN PathOrder : Wanted(PathOrder[k])})
      fits == IF Len(found) > MaxDirs - Len(dirs) THEN MaxDirs - Len(dirs) ELSE Len(found)
  IN  [dirs |-> dirs \o [i \in 1 .. fits |-> [wd |-> tree[found[i]].node, path |-> found[i]]],
       ok |-> Exists(path) /\ fits = Len(found)]

FreeSlots == {s \in NativeSlots : ~natives[s].used}

\* LinuxCreateNativeWatch, and the end of FS_WatchPath.
NativeWatchCreated ==
  LET added == Added(<<>>, scratch.path, scratch.kind = "recursive")
      slot == CHOOSE s \in FreeSlots : \A x \in FreeSlots : s <= x
      ws == Append(watches, [scratch EXCEPT !.native = slot])
  IN  /\ phase = "watch" /\ FreeSlots # {} /\ added.ok
      /\ watches' = ws /\ named' = named \cup Covered(scratch)
      /\ natives' = [natives EXCEPT ![slot] = [Unused EXCEPT !.used = TRUE, !.dirs = added.dirs]]
      /\ phase' = "idle" /\ scratch' = <<>>
      /\ UNCHANGED <<filevars, fsInitialized, nNextWatchHandle, at, batch, events, seen, ahead>>

\* inotify refuses, or the path is gone, or a table is full: nothing is kept.
NativeWatchFails ==
  /\ phase = "watch" /\ phase' = "idle" /\ scratch' = <<>>
  /\ UNCHANGED <<filevars, fsInitialized, nNextWatchHandle, watches, natives, at, batch, events,
                 clientvars>>

FS_UnwatchPath(i) ==
  /\ fsInitialized /\ phase = "idle" /\ i \in DOMAIN watches
  /\ natives' = [natives EXCEPT ![watches[i].native] = Destroyed(watches[i].native)]
  /\ watches' = RemoveAt(watches, i) /\ ClientKeeps(RemoveAt(watches, i))
  /\ UNCHANGED <<filevars, fsInitialized, nNextWatchHandle, callvars>>

-----------------------------------------------------------------------------
(* FS_PollChanges. *)

Report(type, path) == [type |-> type, path |-> path, old |-> NoPath]

\* Where there is no room for an event the poll ends with an error.
Emitted(all) ==
  [ok |-> Len(all) <= nMaxEvents,
   events |-> IF Len(all) <= nMaxEvents THEN all ELSE SubSeq(all, 1, nMaxEvents)]

\* An event that is there already is left out.
EmitWatchEvent(e) ==
  IF Contains(events, e) THEN [ok |-> TRUE, events |-> events] ELSE Emitted(Append(events, e))

PollReturns(es) ==
  /\ phase' = "idle" /\ at' = 0 /\ batch' = <<>> /\ scratch' = <<>> /\ events' = <<>>
  /\ named' = named \cup PathsIn(es)

FS_PollChanges ==
  /\ fsInitialized /\ phase = "idle" /\ watches # <<>>
  /\ phase' = "read" /\ at' = 1
  /\ UNCHANGED <<filevars, fsInitialized, nNextWatchHandle, watches, natives, batch, scratch,
                 events, clientvars>>

Current == watches[at]
Native == natives[Current.native]

\* One read takes the whole queue; the loop ends when there is nothing to read.
NativeEventsRead ==
  /\ phase = "read"
  /\ phase' = IF Native.queue = <<>> THEN "scan" ELSE "handle"
  /\ batch' = Native.queue
  /\ natives' = [natives EXCEPT ![Current.native].queue = <<>>]
  /\ UNCHANGED <<filevars, fsInitialized, nNextWatchHandle, watches, at, scratch, events, clientvars>>

\* The first entry of the inode names the path of an event.
PathOf(e) ==
  LET d == Native.dirs[CHOOSE i \in DOMAIN Native.dirs :
                 Native.dirs[i].wd = e.wd /\ \A j \in 1 .. i - 1 : Native.dirs[j].wd # e.wd]
  IN  IF Current.kind = "file" THEN d.path ELSE d.path \o e.name

\* LinuxEmitNativeEvent adds a directory that is new below a recursive watch.
DirsAdded(e) ==
  IF Current.kind = "recursive" /\ e.isDir /\ e.mask \in {"CREATE", "MOVED_TO"}
  THEN Added(Native.dirs, PathOf(e), TRUE) ELSE [dirs |-> Native.dirs, ok |-> TRUE]

\* The rest of it: what rename is pending and what was emitted after the event.
Handled(e, added) ==
  LET path == PathOf(e)
      pair == e.mask = "MOVED_TO" /\ Native.pending.cookie = e.cookie
      news == IF pair THEN [type |-> "RENAMED", path |-> path, old |-> Native.pending.path]
              ELSE IF e.mask \in {"CREATE", "MOVED_TO"} THEN Report("CREATED", path)
              ELSE IF e.mask = "MODIFY" THEN Report("MODIFIED", path)
              ELSE Report("DELETED", path)
      out == IF e.mask = "MOVED_FROM" \/ ~added.ok THEN Emitted(events)
             ELSE EmitWatchEvent(news)
  IN  [dirs |-> added.dirs, ok |-> added.ok /\ out.ok, events |-> out.events,
       pending |-> IF e.mask = "MOVED_FROM" THEN [cookie |-> e.cookie, path |-> path]
                   ELSE IF e.mask = "MOVED_TO" /\ added.ok THEN NoRename ELSE Native.pending]

NativeEventHandled ==
  /\ phase = "handle"
  /\ \E added \in {DirsAdded(Head(batch))} : \E done \in {Handled(Head(batch), added)} :
       /\ natives' = [natives EXCEPT ![Current.native].dirs = done.dirs,
                                     ![Current.native].pending = done.pending]
       /\ \/ /\ done.ok
             /\ batch' = Tail(batch) /\ events' = done.events
             /\ phase' = IF Tail(batch) = <<>> THEN "read" ELSE "handle"
             /\ UNCHANGED <<at, scratch, named>>
          \/ ~done.ok /\ PollReturns(done.events)
  /\ UNCHANGED <<filevars, fsInitialized, nNextWatchHandle, watches, seen, ahead>>

\* A file that goes away between two questions about it ends the poll.
ScanLosesFile(p) ==
  /\ phase = "scan" /\ p \in Covered(Current) \ DirPaths /\ Removed(p)
  /\ PollReturns(events)
  /\ UNCHANGED <<fsInitialized, nNextWatchHandle, watches, seen, ahead>>

\* The watched path itself is listed even when it is gone.
Difference(p) ==
  LET old == Current.snapshot[p] IN
  Report(IF p = Current.path \/ NoEntry \notin {old, tree[p].stamp} THEN "MODIFIED"
         ELSE IF old = NoEntry THEN "CREATED" ELSE "DELETED", p)

\* Where the paths are whose difference is not among the events yet.
NewDifferences ==
  LET Differs(p) == p \in Covered(Current) /\ tree[p].stamp # Current.snapshot[p]
  IN  {k \in DOMAIN PathOrder :
         Differs(PathOrder[k]) /\ ~Contains(events, Difference(PathOrder[k]))}

\* The events with these, in the order of the snapshots.
WithDifferences(new) ==
  LET paths == Picked(PathOrder, new)
  IN  events \o [n \in 1 .. Cardinality(new) |-> Difference(paths[n])]

\* Slips: the snapshot is replaced although not all was reported, or never.
ReplacedAnyway(ok) == SnapshotOf(Current)
NeverReplaced(ok) == Current.snapshot
NewSnapshot(ok) == IF ok THEN SnapshotOf(Current) ELSE Current.snapshot

\* BuildFreshWatchSnapshot, and DiffWatchSnapshots with what it found.
SnapshotsCompared ==
  /\ phase = "scan"
  /\ \E new \in {NewDifferences} : \E all \in {WithDifferences(new)} : \E out \in {Emitted(all)} :
       /\ watches' = [watches EXCEPT ![at].snapshot = NewSnapshot(out.ok)]
       /\ \/ /\ out.ok /\ at < Len(watches)
             /\ at' = at + 1 /\ phase' = "read" /\ events' = out.events
             /\ UNCHANGED <<batch, scratch, named>>
          \/ ~(out.ok /\ at < Len(watches)) /\ PollReturns(out.events)
  /\ UNCHANGED <<filevars, fsInitialized, nNextWatchHandle, natives, seen, ahead>>

PollStep == NativeEventsRead \/ NativeEventHandled \/ SnapshotsCompared

WatchNext ==
  \/ OthersChangeTheTree \/ WatchingBegins \/ WatchingEnds
  \/ \E t \in Targets : FS_WatchPath(t)
  \/ NativeWatchCreated \/ NativeWatchFails
  \/ \E i \in DOMAIN watches : FS_UnwatchPath(i)
  \/ FS_PollChanges \/ PollStep
  \/ ClientLooks \/ \E p \in Paths : ScanLosesFile(p)

WatchSpec == WatchInit /\ [][WatchNext]_wvars

\* A client that polls does so again and again; calls come to their end.
WatchFairness ==
  /\ SF_wvars(FS_PollChanges) /\ WF_wvars(PollStep)
  /\ WF_wvars(NativeWatchCreated \/ NativeWatchFails)

-----------------------------------------------------------------------------
(* Properties. *)

\* Whatever calls fail and in whatever order watches are taken back, exactly the
\* native watches of those that are left are in use, each by one, and no two
\* have the same handle.
WatchTypeOK ==
  /\ \A s \in NativeSlots : natives[s].used <=> \E i \in DOMAIN watches : watches[i].native = s
  /\ \A s \in NativeSlots :
       Len(natives[s].dirs) <= MaxDirs /\ Len(natives[s].queue) <= QueueMax
  /\ \A i, j \in DOMAIN watches : i # j =>
       watches[i].handle # watches[j].handle /\ watches[i].native # watches[j].native
  /\ \A i \in DOMAIN watches :
       /\ watches[i].handle < nNextWatchHandle
       /\ DOMAIN watches[i].snapshot = Covered(watches[i])
  /\ Len(events) <= nMaxEvents

\* No difference between two snapshots is lost, through repeated events, other
\* watches over the same paths, buffers that are full and polls that end with an
\* error after the snapshots of some watches were replaced: at every path, the
\* snapshot of a watch is what the client saw, unless the client has been told
\* of the path, or has seen a newer state of it.
NetChangesReported ==
  \A w \in ToSet(watches) : \A p \in Covered(w) :
    \/ seen[p] = w.snapshot[p]
    \/ p \in named \cup PathsIn(events)
    \/ <<w.handle, p>> \in ahead

\* When the tree is left alone, a client that keeps polling with room for all
\* that one watch can have to report gets to the state of the tree: no queue, no
\* full table of directories and no error keeps a watch behind for ever.
PollsCatchUp == <>[](\A w \in ToSet(watches) : w.snapshot = SnapshotOf(w))
=============================================================================
