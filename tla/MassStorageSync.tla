--------------------------- MODULE MassStorageSync ---------------------------
(***************************************************************************)
(* Music syncs to a mass-storage player, one after the other: the adapter  *)
(* opens the device, the collection is compared with it and a plan is made *)
(* (podkit-cli/src/commands/sync-presenter.ts, music-presenter.ts), the    *)
(* plan is carried out (podkit-core/src/sync/music) and saved in stages    *)
(* (MassStorageAdapter.save). The process may be killed at any step; a     *)
(* write may fail; between two syncs the user edits the collection, its    *)
(* layout or the wanted codec.                                             *)
(*                                                                         *)
(* One operation of a plan is one step: the pipeline does the operations   *)
(* without a file first, one by one, and each transfer runs from addTrack  *)
(* or replaceTrackFile to the end of the copy without an await.            *)
(***************************************************************************)
EXTENDS MassStorageAdapter

CONSTANTS
  Layouts,     \* the places that a layout may give each song
  UserFiles,   \* paths at which the user has put files of his own
  UserTags,    \* the song that the tags of such a file name
  Delete,      \* the sync runs with --delete
  MaxChanges, MaxAccidents   \* bounds on what happens besides the syncs

ASSUME SyncAssumption ==
  /\ UserFiles \subseteq Paths /\ IsFiniteSet(UserFiles)
  /\ {MaxChanges, MaxAccidents} \subseteq Nat

VARIABLES
  disk,      \* audio files: path |-> [song, meta, tag, mine (podkit wrote it)]
  covers,    \* directories that hold a cover.jpg
  manifest,  \* .podkit/state.json: [files, covers]
  source,    \* the collection: song |-> [at, ext, meta]
  ad,        \* the adapter's state in memory
  phase,     \* where the process is, see Phases
  plan,      \* operations still to be done
  nextMove,  \* flushMoves: the entry of pendingMoves it is at
  final,     \* the save under way is the last one of the sync
  failed,    \* something went wrong in this sync
  quiet,     \* history: syncs in a row, up to 3, that found a tidy device and had
             \* no change, accident or failed save before them, see Tidy
  strays,    \* history: files of podkit that no manifest lists any more
  changes,   \* edits of the collection so far, up to MaxChanges
  accidents  \* failures, interrupts and crashes so far, up to MaxAccidents

device == <<disk, covers, manifest>>
process == <<ad, phase, plan, nextMove, final, failed>>
counters == <<changes, accidents>>
vars == <<device, process, source, quiet, strays, counters>>

Saving == {"moves", "tags", "sidecars", "drops", "manifest"}
Idle == {"closed", "settled", "refused"}
Phases == Idle \cup {"open", "executing"} \cup Saving

Wanted == DOMAIN source
Home(song, ext) == HomePath(source[song].at, ext)

Copy(song, meta) == [song |-> song, meta |-> meta, tag |-> "none", mine |-> TRUE]

Collections ==
  UNION {[W -> [at : Places, ext : Exts, meta : Versions]] : W \in SUBSET Songs}

\* A collection in which every song is at one of its own places.
Laid(c) == \A s \in DOMAIN c : c[s].at \in Layouts[s]

Init ==
  /\ disk = [p \in UserFiles |-> [song |-> UserTags, meta |-> CHOOSE v \in Versions : TRUE,
                                 tag |-> "none", mine |-> FALSE]]
  /\ covers = {}
  /\ manifest = [files |-> {}, covers |-> {}]
  /\ source \in {c \in Collections : Laid(c) /\ DOMAIN c # {}}
  /\ ad = ClosedAdapter
  /\ phase = "closed"
  /\ plan = {}
  /\ nextMove = 1
  /\ final = FALSE
  /\ failed = FALSE
  /\ quiet = 0
  /\ strays = {}
  /\ changes = 0 /\ accidents = 0

-----------------------------------------------------------------------------
(* Planning.                                                               *)

\* Device items of the diff: the tracks that the manifest lists.
DeviceItems == {p \in DOMAIN ad.tracks : ad.tracks[p].managed}
ItemsOf(song) == {p \in DeviceItems : ad.tracks[p].song = song}
Matched == {s \in Wanted : ItemsOf(s) # {}}

\* The item that the differ keeps for each song: the first one it meets.
Matchings == {f \in [Matched -> DeviceItems] : \A s \in Matched : f[s] \in ItemsOf(s)}

\* artwork-added: the file's tag does not record the cover.
LacksCover(song, path) == Sidecar /\ ad.tracks[path].tag = "none"

\* codec-changed is for files with a sync tag.
OtherCodec(song, path) == ad.tracks[path].tag # "none" /\ path.ext # source[song].ext

\* reconcilePaths: the layout's path with the extension the file has.
Misplaced(song, path) == path # Home(song, path.ext)

\* Faulty Outdated: a file with a sync tag is taken to be up to date.
OutdatedIfUntagged(song, path) ==
  ad.tracks[path].tag = "none" /\ ad.tracks[path].meta # source[song].meta

Outdated(song, path) == ad.tracks[path].meta # source[song].meta

\* A pair in which detectUpdates finds something is not looked at for its codec, so that a
\* new codec waits for the sync after the one that brings the metadata up to date.
NeedsFile(song, path) ==
  LacksCover(song, path) \/ (OtherCodec(song, path) /\ ~Outdated(song, path))

\* planUpdate: replacing the file comes before moving it.
OperationFor(song, path) ==
  CASE NeedsFile(song, path) -> {"upgrade"}
    [] ~NeedsFile(song, path) /\ Misplaced(song, path) -> {"relocate"}
    [] ~NeedsFile(song, path) /\ ~Misplaced(song, path)
         /\ Outdated(song, path) -> {"update"}
    [] OTHER -> {}

Additions ==
  {[kind |-> "add", song |-> s, path |-> Home(s, source[s].ext)] : s \in Wanted \ Matched}

ChangesOf(song, path) ==
  {[kind |-> k, song |-> song, path |-> path] : k \in OperationFor(song, path)}

\* With --delete: the items that no song is matched with.
Removals(kept) ==
  {[kind |-> "remove", song |-> ad.tracks[p].song, path |-> p] :
     p \in {q \in DeviceItems : Delete /\ \A s \in Matched : q # kept[s]}}

Operations(kept) ==
  UNION {Additions, UNION {ChangesOf(s, kept[s]) : s \in Matched}, Removals(kept)}

\* checkAddCollisions: files that no manifest lists are where adds would go.
Collisions(operations) ==
  {op.path : op \in {o \in operations : o.kind = "add"}}
    \cap (ad.allocatedPaths \ ad.managedFiles)

\* Faulty MayStart: nobody looks for collisions before the run.
StartsBlindly(operations) == operations # {}

MayStart(operations) == operations # {} /\ Collisions(operations) = {}

\* orderOperations: smaller first.
Priority(op) ==
  CASE op.kind = "remove" -> 0
    [] op.kind \in {"relocate", "update"} -> 1
    [] op.kind \in {"add", "upgrade"} -> 2

Ready == {op \in plan : \A o \in plan : Priority(op) <= Priority(o)}

\* No two songs, and no song and an unlisted file, are to have one path.
NoClash ==
  /\ \A s, t \in Wanted : s # t => source[s].at # source[t].at
  /\ \A s \in Wanted, p \in DOMAIN disk \ manifest.files : p.at # source[s].at

\* And no other file has the tags of a file that the manifest lists.
Tidy ==
  /\ NoClash
  /\ \A p \in DOMAIN disk \cap manifest.files, q \in DOMAIN disk :
       disk[p].song = disk[q].song => p = q

Open ==
  /\ phase \in Idle
  /\ phase' = "open"
  /\ ad' = OpenedAdapter(disk, manifest)
  /\ strays' = {p \in DOMAIN disk : disk[p].mine} \ manifest.files
  /\ failed' = FALSE
  /\ quiet' = IF ~Tidy THEN 0 ELSE IF quiet = 3 THEN 3 ELSE quiet + 1
  /\ UNCHANGED <<device, plan, nextMove, final, source, counters>>

Settle ==
  /\ phase = "open"
  /\ \E kept \in Matchings : Operations(kept) = {}
  /\ phase' = "settled"
  /\ ad' = ClosedAdapter
  /\ UNCHANGED <<device, plan, nextMove, final, failed, source, quiet, strays, counters>>

Refuse ==
  /\ phase = "open"
  /\ \E kept \in Matchings : Collisions(Operations(kept)) # {}
  /\ phase' = "refused"
  /\ UNCHANGED <<device, ad, plan, nextMove, final, failed, source, quiet, strays, counters>>

\* The run begins. Rows of the manifest that have no file stay: the sweep before
\* a sync is called without the manifest, and so never finds one to prune.
Start ==
  /\ phase = "open"
  /\ \E kept \in Matchings :
       /\ MayStart(Operations(kept))
       /\ plan' = Operations(kept)
  /\ phase' = "executing"
  /\ UNCHANGED <<device, ad, nextMove, final, failed, source, quiet, strays, counters>>

-----------------------------------------------------------------------------
(* Carrying the plan out.                                                  *)

\* Checkpoints are counted in completed operations, and operations without
\* a file are reported as completed only when the transfers are over.
Doing(op, kind) ==
  /\ phase = "executing"
  /\ op \in Ready
  /\ op.kind = kind
  /\ plan' = plan \ {op}
  /\ \/ phase' = "executing"
     \/ kind \in {"add", "upgrade"} /\ phase' = "moves"
  /\ UNCHANGED <<nextMove, final, source, quiet>>

\* executeRemove: the first track with these tags loses its file, whoever
\* put it there; the adapter's books are left as they are.
Remove(op) ==
  /\ Doing(op, "remove")
  /\ \E p \in DOMAIN ad.tracks :
       /\ ad.tracks[p].song = op.song
       /\ disk' = Without(disk, p)
  /\ UNCHANGED <<covers, manifest, ad, failed, strays, counters>>

\* What an operation with `path` as its target brings up to date.
Refreshed(op, fields, path, state) ==
  UpdateTrack(state, path, [meta |-> source[op.song].meta, tag |-> fields])

Update(op) ==
  /\ Doing(op, "update")
  /\ ad' = Refreshed(op, Keep, op.path, ad)
  /\ UNCHANGED <<device, failed, strays, counters>>

Relocate(op) ==
  /\ Doing(op, "relocate")
  /\ LET home == Home(op.song, op.path.ext)
     IN ad' = Refreshed(op, Keep, Deduplicate(home, ad.allocatedPaths),
                        RelocateTrack(ad, op.path, home))
  /\ UNCHANGED <<device, failed, strays, counters>>

\* transferToIpod: addTrack, copyTrackFile, artwork.
Add(op) ==
  /\ Doing(op, "add")
  /\ LET path == Deduplicate(op.path, ad.allocatedPaths)
         meta == source[op.song].meta
     IN /\ disk' = Put(disk, path, Copy(op.song, meta))
        /\ ad' = WriteSidecar(AddTrack(ad, path, op.song, meta), AlbumDir(path))
  /\ UNCHANGED <<covers, manifest, failed, strays, counters>>

Accident ==
  accidents < MaxAccidents /\ accidents' = accidents + 1 /\ UNCHANGED changes

\* The copy fails; the operation is retried or given up.
AddFails(op) ==
  /\ phase = "executing"
  /\ op \in Ready
  /\ op.kind = "add"
  /\ plan' \in {plan, plan \ {op}}
  /\ LET path == Deduplicate(op.path, ad.allocatedPaths)
     IN ad' = RollBack(AddTrack(ad, path, op.song, source[op.song].meta), path)
  /\ failed' = TRUE
  /\ Accident
  /\ UNCHANGED <<device, phase, nextMove, final, source, quiet, strays>>

\* Where an upgrade puts the new file.
UpgradeTarget(op) ==
  ReplacementPath(op.path, source[op.song].ext, ad.allocatedPaths \cup DOMAIN disk)

\* transferUpgradeToIpod: replaceTrackFile, updateTrack, artwork, sync tag.
Upgraded(op) ==
  LET new == UpgradeTarget(op)
  IN WriteSidecar(Refreshed(op, "synced", new, ReplaceTrackFile(ad, op.path, new)),
                  AlbumDir(new))

Replaced(op, files) == Put(files, UpgradeTarget(op), Copy(op.song, source[op.song].meta))

Upgrade(op) ==
  /\ Doing(op, "upgrade")
  /\ disk' = Replaced(op, IF UpgradeTarget(op) = op.path THEN disk
                          ELSE Without(disk, op.path))
  /\ ad' = Upgraded(op)
  /\ UNCHANGED <<covers, manifest, failed, strays, counters>>

\* The old file cannot be unlinked: a warning, and the file stays.
UpgradeLeavesOld(op) ==
  /\ Doing(op, "upgrade")
  /\ UpgradeTarget(op) # op.path
  /\ op.path \in DOMAIN disk
  /\ disk' = Replaced(op, disk)
  /\ ad' = Upgraded(op)
  /\ strays' = strays \cup {op.path}
  /\ failed' = TRUE
  /\ Accident
  /\ UNCHANGED <<covers, manifest>>

Execute(op) ==
  Remove(op) \/ Update(op) \/ Relocate(op) \/ Add(op) \/ Upgrade(op)

FinalSave ==
  /\ phase = "executing"
  /\ plan = {}
  /\ phase' = "moves"
  /\ final' = TRUE
  /\ UNCHANGED <<device, ad, plan, nextMove, failed, source, quiet, strays, counters>>

-----------------------------------------------------------------------------
(* MassStorageAdapter.save, one stage after the other.                     *)

\* The save throws. At a checkpoint the rest of the plan is dropped and the
\* final save is tried; a final save that throws ends the sync.
SaveThrows ==
  /\ failed' = TRUE
  /\ quiet' = 0
  /\ plan' = {}
  /\ nextMove' = 1
  /\ final' = ~final
  /\ phase' = IF final THEN "closed" ELSE "moves"

Stage(at, next) ==
  /\ phase = at
  /\ phase' = next
  /\ UNCHANGED <<plan, final, failed>>

\* A rename takes what is at its target; a missing source is skipped.
Renamed(files, move) ==
  IF move.from \in DOMAIN files THEN Rekey(files, move.from, move.to) ELSE files

FlushMove ==
  /\ phase = "moves"
  /\ nextMove <= Len(ad.pendingMoves)
  /\ disk' = Renamed(disk, ad.pendingMoves[nextMove])
  /\ nextMove' = nextMove + 1
  /\ UNCHANGED <<covers, manifest, ad, phase, plan, final, failed, source, quiet,
                 strays, counters>>

\* Entries that are done stay in the map.
FlushMoveFails ==
  /\ phase = "moves"
  /\ nextMove <= Len(ad.pendingMoves)
  /\ ad.pendingMoves[nextMove].from \in DOMAIN disk
  /\ SaveThrows
  /\ ad' = IF final THEN ClosedAdapter ELSE ad
  /\ Accident
  /\ UNCHANGED <<device, source, strays>>

\* Faulty FlushMovesEnd: the next flush goes on where this one ended.
FlushMovesStays ==
  /\ nextMove > Len(ad.pendingMoves)
  /\ Stage("moves", "tags")
  /\ ad' = [ad EXCEPT !.pendingMoves = <<>>]
  /\ UNCHANGED <<device, nextMove, source, quiet, strays, counters>>

FlushMovesEnd ==
  /\ nextMove > Len(ad.pendingMoves)
  /\ Stage("moves", "tags")
  /\ nextMove' = 1
  /\ ad' = [ad EXCEPT !.pendingMoves = <<>>]
  /\ UNCHANGED <<device, source, quiet, strays, counters>>

\* The files of `written` get their pending tags.
Tagged(written) ==
  [p \in DOMAIN disk |->
     IF p \notin written THEN disk[p]
     ELSE LET fields == ad.pendingTagWrites[p]
          IN [disk[p] EXCEPT
                !.meta = IF fields.meta = Keep THEN @ ELSE fields.meta,
                !.tag = IF fields.tag = Keep THEN @ ELSE fields.tag]]

Untaggable == DOMAIN ad.pendingTagWrites \ DOMAIN disk

\* Every write is tried, then the map is cleared. A file that is not there
\* cannot be written to.
FlushTags ==
  /\ phase = "tags"
  /\ disk' = Tagged(DOMAIN ad.pendingTagWrites \cap DOMAIN disk)
  /\ LET cleared == [ad EXCEPT !.pendingTagWrites = NoEntries]
     IN IF Untaggable = {}
        THEN /\ Stage("tags", "sidecars")
             /\ ad' = cleared
             /\ UNCHANGED <<nextMove, quiet>>
        ELSE /\ SaveThrows
             /\ ad' = IF final THEN ClosedAdapter ELSE cleared
  /\ UNCHANGED <<covers, manifest, source, strays, counters>>

FlushTagsFails ==
  /\ phase = "tags"
  /\ \E broken \in SUBSET (DOMAIN ad.pendingTagWrites \cap DOMAIN disk) :
       /\ broken # {}
       /\ disk' = Tagged((DOMAIN ad.pendingTagWrites \cap DOMAIN disk) \ broken)
  /\ SaveThrows
  /\ ad' = IF final THEN ClosedAdapter
           ELSE [ad EXCEPT !.pendingTagWrites = NoEntries]
  /\ Accident
  /\ UNCHANGED <<covers, manifest, source, strays>>

FlushSidecarWrites ==
  /\ Stage("sidecars", "drops")
  /\ covers' = covers \cup ad.pendingSidecarWrites
  /\ ad' = [ad EXCEPT !.pendingSidecarWrites = {}]
  /\ UNCHANGED <<disk, manifest, nextMove, source, quiet, strays, counters>>

FlushSidecarWritesFails ==
  /\ phase = "sidecars"
  /\ \E written \in SUBSET ad.pendingSidecarWrites :
       /\ written # ad.pendingSidecarWrites
       /\ covers' = covers \cup written
  /\ SaveThrows
  /\ ad' = IF final THEN ClosedAdapter ELSE [ad EXCEPT !.pendingSidecarWrites = {}]
  /\ Accident
  /\ UNCHANGED <<disk, manifest, source, strays>>

\* The directories that have lost their last track, as of now.
Abandoned == {d \in ad.pendingSidecarDeletes : ~AlbumDirStillOccupied(ad, d)}

FlushSidecarDeletes ==
  /\ Stage("drops", "manifest")
  /\ covers' = covers \ Abandoned
  /\ ad' = [ad EXCEPT !.pendingSidecarDeletes = {}, !.managedCovers = @ \ Abandoned]
  /\ UNCHANGED <<disk, manifest, nextMove, source, quiet, strays, counters>>

\* A cover that cannot be deleted stays, and stays podkit's.
FlushSidecarDeletesFails ==
  /\ phase = "drops"
  /\ \E kept \in SUBSET (Abandoned \cap covers) :
       /\ kept # {}
       /\ covers' = covers \ (Abandoned \ kept)
       /\ ad' = IF final THEN ClosedAdapter
                ELSE [ad EXCEPT !.pendingSidecarDeletes = {},
                                !.managedCovers = @ \ (Abandoned \ kept)]
  /\ SaveThrows
  /\ Accident
  /\ UNCHANGED <<disk, manifest, source, strays>>

WriteManifest ==
  /\ phase = "manifest"
  /\ manifest' = [files |-> ad.managedFiles, covers |-> ad.managedCovers]
  /\ phase' = IF final THEN "closed" ELSE "executing"
  /\ ad' = IF final THEN ClosedAdapter ELSE ad
  /\ quiet' = IF final /\ failed THEN 0 ELSE quiet
  /\ final' = FALSE
  /\ UNCHANGED <<disk, covers, plan, nextMove, failed, source, strays, counters>>

WriteManifestFails ==
  /\ phase = "manifest"
  /\ SaveThrows
  /\ ad' = IF final THEN ClosedAdapter ELSE ad
  /\ Accident
  /\ UNCHANGED <<device, source, strays>>

Save ==
  \/ FlushMove \/ FlushMovesEnd \/ FlushTags
  \/ FlushSidecarWrites \/ FlushSidecarDeletes \/ WriteManifest

SaveFails ==
  \/ FlushMoveFails \/ FlushTagsFails \/ FlushSidecarWritesFails
  \/ FlushSidecarDeletesFails \/ WriteManifestFails

-----------------------------------------------------------------------------
(* The world around a sync.                                                *)

\* Ctrl-C while the plan is carried out: the rest of it is dropped. What is
\* done is saved if an operation was reported as completed.
Interrupt ==
  /\ phase = "executing"
  /\ Accident
  /\ plan' = {}
  /\ failed' = TRUE
  /\ quiet' = 0
  /\ \/ phase' = "moves" /\ final' = TRUE /\ ad' = ad
     \/ phase' = "closed" /\ final' = FALSE /\ ad' = ClosedAdapter
  /\ UNCHANGED <<device, nextMove, source, strays>>

\* Faulty TornFiles: an upgrade unlinks the old file before it copies.
TornFilesUnlinked ==
  {Without(disk, op.path) : op \in {o \in plan : phase = "executing"
                                      /\ o \in Ready /\ o.kind = "upgrade"}}

\* What is on the disk when the process is killed, besides `disk` itself:
\* part of the tag writes, or a new file whose old one is still there.
TornFiles ==
  {disk}
  \cup {Tagged(done) : done \in IF phase = "tags"
                        THEN SUBSET (DOMAIN ad.pendingTagWrites \cap DOMAIN disk) ELSE {}}
  \cup {Replaced(op, disk) : op \in {o \in plan : phase = "executing"
                                       /\ o \in Ready /\ o.kind = "upgrade"}}

TornCovers ==
  {covers}
  \cup {covers \cup done : done \in IF phase = "sidecars"
                                 THEN SUBSET ad.pendingSidecarWrites ELSE {}}
  \cup {covers \ done : done \in IF phase = "drops" THEN SUBSET Abandoned ELSE {}}

Crash ==
  /\ phase \in {"executing"} \cup Saving
  /\ Accident
  /\ disk' \in TornFiles
  /\ covers' \in TornCovers
  /\ phase' = "closed"
  /\ ad' = ClosedAdapter
  /\ plan' = {}
  /\ nextMove' = 1
  /\ final' = FALSE
  /\ failed' = TRUE
  /\ quiet' = 0
  /\ UNCHANGED <<manifest, source, strays>>

\* The user adds, edits or removes a song, or changes layout or codec.
Change ==
  /\ phase \in Idle
  /\ changes < MaxChanges
  /\ changes' = changes + 1
  /\ source' \in {c \in Collections : Laid(c)} \ {source}
  /\ phase' = "closed"
  /\ ad' = ClosedAdapter
  /\ quiet' = 0
  /\ UNCHANGED <<device, plan, nextMove, final, failed, strays, accidents>>

Run == Open \/ Settle \/ Refuse \/ Start \/ FinalSave \/ Save
         \/ \E op \in plan : Execute(op)

Trouble == SaveFails \/ Interrupt \/ Crash \/ Change
             \/ \E op \in plan : AddFails(op) \/ UpgradeLeavesOld(op)

Next == Run \/ Trouble

\* The process runs on; the daemon or the user starts syncs again and again.
Spec == Init /\ [][Next]_vars /\ WF_vars(Run)

-----------------------------------------------------------------------------
(* Properties.                                                             *)

Files == [song : Songs \cup {UserTags}, meta : Versions, tag : {"none", "synced"},
          mine : BOOLEAN]

MassStorageTypeOK ==
  /\ DOMAIN disk \subseteq Paths /\ \A p \in DOMAIN disk : disk[p] \in Files
  /\ covers \subseteq Dirs
  /\ manifest \in [files : SUBSET Paths, covers : SUBSET Dirs]
  /\ source \in Collections
  /\ phase \in Phases
  /\ \A op \in plan : /\ op.kind \in {"add", "upgrade", "relocate", "update", "remove"}
                      /\ op.path \in Paths
  /\ nextMove \in 1..(Len(ad.pendingMoves) + 1)
  /\ final \in BOOLEAN /\ failed \in BOOLEAN
  /\ quiet \in 0..3

\* The books that the adapter keeps of its tracks agree: a path is allocated
\* exactly if a track has it, podkit's tracks are managed, and after renames and
\* rollbacks no pending write is left under a path that nothing has any more.
Bookkeeping ==
  /\ ad.allocatedPaths = DOMAIN ad.tracks
  /\ \A p \in DOMAIN ad.tracks : ad.tracks[p].managed => p \in ad.managedFiles
  /\ DOMAIN ad.pendingTagWrites \subseteq DOMAIN ad.tracks

\* checkAddCollisions catches every collision before the run: addTrack, in
\* the middle of it, never finds its path taken by an unmanaged file.
CollisionsCaughtEarly == phase = "executing" => Collisions(plan) = {}

\* A complete save leaves on the device what the adapter has in memory, if
\* nothing has gone wrong: every file has its song, metadata and sync tag.
SaveLands ==
  [][ WriteManifest /\ ~failed =>
        \A p \in DOMAIN ad.tracks \cap DOMAIN disk :
          /\ disk[p].song = ad.tracks[p].song
          /\ disk[p].meta = ad.tracks[p].meta
          /\ disk[p].tag = ad.tracks[p].tag ]_vars

\* Once a manifest is written, it lists every file that podkit has on the
\* device, but for those that an earlier accident had left unlisted.
NoForgottenFile ==
  [][ manifest' # manifest \/ WriteManifest =>
        {p \in DOMAIN disk' : disk'[p].mine} \subseteq manifest'.files \cup strays' ]_vars

HasFile(files, song) == \E p \in DOMAIN files : files[p].song = song /\ files[p].mine

\* No step of a sync takes the last file of a song that is wanted.
NothingLost ==
  [][ \A s \in Wanted \cap DOMAIN source' : HasFile(disk, s) => HasFile(disk', s) ]_vars

\* No step of a sync touches a file that the user put there.
UserFilesSafe ==
  [][ \A p \in UserFiles : p \in DOMAIN disk' /\ disk'[p] = disk[p] ]_vars

\* A cover is deleted only where no file of podkit is left.
CoverKept ==
  [][ \A d \in covers \ covers' :
        ~\E p \in DOMAIN disk' : AlbumDir(p) = d /\ disk'[p].mine ]_vars

\* When a sync finds nothing to do, every wanted song is on the device, at
\* the layout's path, in the wanted form and with its metadata.
SettledIsSynced ==
  phase = "settled" =>
    \A s \in Wanted : \E p \in DOMAIN disk :
      /\ p \in manifest.files
      /\ disk[p].song = s
      /\ p.at = source[s].at
      /\ disk[p].meta = source[s].meta
      /\ Sidecar => p.ext = source[s].ext

\* After two syncs of a tidy device without an accident the third one, if the device is
\* still tidy, has nothing to do: the first may replace a file that the second moves, or
\* bring tags and place up to date and leave the new codec to the second.
TwoSyncsSettle ==
  phase = "open" /\ quiet = 3 => \A kept \in Matchings : Operations(kept) = {}

\* Syncs come to rest, unless files keep clashing.
Converges == <>[]NoClash => <>[](phase \in Idle \cup {"open"})

=============================================================================
