------------------------- MODULE MassStorageAdapter -------------------------
(***************************************************************************)
(* packages/podkit-core/src/device/mass-storage-adapter.ts: what the       *)
(* adapter of a mass-storage player keeps in memory between two saves.     *)
(*                                                                         *)
(* Each method is an operator from the adapter's state to its next state;  *)
(* the file operations of a method belong to the module that uses it.      *)
(*                                                                         *)
(* A path is known by what the code tells apart: the place the layout      *)
(* gives a track (an album directory and a name), the extension, the       *)
(* " (n)" of deduplicatePath (1: none) and the "-k" endings that           *)
(* replaceTrackFile appends.                                               *)
(*                                                                         *)
(* A track's metadata is one version of the source's metadata; its comment *)
(* holds podkit's sync tag ("synced") or does not ("none").                *)
(***************************************************************************)
EXTENDS Naturals, Sequences, FiniteSets, FiniteSetsExt

CONSTANTS
  Songs,      \* what the tags of a file identify: title, artist and album
  Versions,   \* versions of a song's other metadata
  Places,     \* places of the layout
  DirOf,      \* the album directory of each place
  Exts,       \* file extensions
  Sidecar     \* the player reads covers from <album>/cover.jpg

Dirs == {DirOf[l] : l \in Places}
Keep == "keep"

ASSUME AdapterAssumption ==
  /\ Keep \notin Versions
  /\ Sidecar \in BOOLEAN
  /\ DirOf = [l \in Places |-> DirOf[l]]

Paths == [at : Places, ext : Exts, no : Nat, dashes : Seq(Nat)]

\* The path that the layout gives a track of this extension.
HomePath(place, ext) == [at |-> place, ext |-> ext, no |-> 1, dashes |-> <<>>]

AlbumDir(path) == DirOf[path.at]

\* Faulty Deduplicate: nobody looks whether the path is taken.
NotDeduplicated(path, taken) == path

\* deduplicatePath: the first of "X", "X (2)", "X (3)", ... that is not taken.
Deduplicate(path, taken) ==
  IF path \notin taken THEN path
  ELSE [path EXCEPT !.no = Min({n \in 2..(Cardinality(taken) + 2) :
                                 [path EXCEPT !.no = n] \notin taken})]

\* replaceTrackFile: "X", "X-1", "X-2", ... with the new extension.
ReplacementPath(path, ext, taken) ==
  LET new == [path EXCEPT !.ext = ext]
      Dashed(k) == [new EXCEPT !.dashes = Append(@, k)]
  IN IF ext = path.ext THEN path
     ELSE IF new \notin taken THEN new
     ELSE Dashed(Min({k \in 1..(Cardinality(taken) + 1) : Dashed(k) \notin taken}))

-----------------------------------------------------------------------------
(* Maps.                                                                   *)

Put(map, key, value) ==
  [k \in DOMAIN map \cup {key} |-> IF k = key THEN value ELSE map[k]]

Without(map, key) == [k \in DOMAIN map \ {key} |-> map[k]]

\* The entry of key `old`, if there is one, becomes the entry of key `new`.
Rekey(map, old, new) ==
  IF old \in DOMAIN map THEN Put(Without(map, old), new, map[old]) ELSE map

NoEntries == [k \in {} |-> Keep]

-----------------------------------------------------------------------------
(* The adapter's state. Rows of managedFiles that name a cover are kept    *)
(* apart, as the directories of the covers.                                *)

\* The adapter before open() and after the process has gone.
ClosedAdapter ==
  [tracks |-> NoEntries, allocatedPaths |-> {}, managedFiles |-> {},
   managedCovers |-> {}, pendingTagWrites |-> NoEntries, pendingMoves |-> <<>>,
   pendingSidecarWrites |-> {}, pendingSidecarDeletes |-> {}]

\* open(): the manifest says what is podkit's, the walk what is there.
OpenedAdapter(disk, manifest) ==
  [ClosedAdapter EXCEPT
     !.managedFiles = manifest.files,
     !.managedCovers = manifest.covers,
     !.allocatedPaths = DOMAIN disk,
     !.tracks = [p \in DOMAIN disk |->
                   [song |-> disk[p].song, meta |-> disk[p].meta,
                    tag |-> disk[p].tag, managed |-> p \in manifest.files]]]

\* Faulty QueueTagWrite: a later write replaces the earlier one.
QueueOnlyLast(ad, path, fields) ==
  [ad EXCEPT !.pendingTagWrites = Put(@, path, fields)]

\* A pending write of the fields that are not Keep; a later one prevails.
QueueTagWrite(ad, path, fields) ==
  LET old == IF path \in DOMAIN ad.pendingTagWrites
             THEN ad.pendingTagWrites[path] ELSE [meta |-> Keep, tag |-> Keep]
      Merged(a, b) == IF b = Keep THEN a ELSE b
  IN IF fields = [meta |-> Keep, tag |-> Keep] THEN ad
     ELSE [ad EXCEPT !.pendingTagWrites =
             Put(@, path, [meta |-> Merged(old.meta, fields.meta),
                           tag |-> Merged(old.tag, fields.tag)])]

UpdateTrack(ad, path, fields) ==
  LET track == ad.tracks[path]
      Changed(new, old) == IF new = old THEN Keep ELSE new
      Set(new, old) == IF new = Keep THEN old ELSE new
      updated == [track EXCEPT !.meta = Set(fields.meta, @),
                               !.tag = Set(fields.tag, @)]
  IN QueueTagWrite([ad EXCEPT !.tracks[path] = updated], path,
                   [meta |-> Changed(fields.meta, track.meta),
                    tag |-> Changed(fields.tag, track.tag)])

\* The track gets a path of its own and its comment is to be written.
AddTrack(ad, path, song, meta) ==
  LET added == [ad EXCEPT
        !.allocatedPaths = @ \cup {path},
        !.managedFiles = @ \cup {path},
        !.tracks = Put(@, path, [song |-> song, meta |-> meta,
                                 tag |-> "synced", managed |-> TRUE])]
  IN QueueTagWrite(added, path, [meta |-> Keep, tag |-> "synced"])

\* Faulty RollBack: the path stays allocated.
RollBackKeepsPath(ad, path) ==
  [ad EXCEPT !.managedFiles = @ \ {path}, !.tracks = Without(@, path),
             !.pendingTagWrites = Without(@, path)]

\* Faulty RollBack: the comment is still to be written.
RollBackKeepsWrite(ad, path) ==
  [ad EXCEPT !.allocatedPaths = @ \ {path}, !.managedFiles = @ \ {path},
             !.tracks = Without(@, path)]

\* copyTrackFile when the copy fails: addTrack is taken back.
RollBack(ad, path) ==
  [ad EXCEPT !.allocatedPaths = @ \ {path}, !.managedFiles = @ \ {path},
             !.pendingTagWrites = Without(@, path), !.tracks = Without(@, path)]

\* Pending writes follow the track from one path to another.
RekeyPendingWrites(ad, old, new) ==
  LET tags == [ad EXCEPT !.pendingTagWrites = Rekey(@, old, new)]
      from == AlbumDir(old)
      to == AlbumDir(new)
  IN IF old = new \/ from = to \/ from \notin ad.pendingSidecarWrites THEN tags
     ELSE [tags EXCEPT
             !.pendingSidecarWrites = (@ \ {from}) \cup {to},
             !.managedCovers = IF from \in @ THEN (@ \ {from}) \cup {to} ELSE @]

\* Faulty AlbumDirStillOccupied: only tracks on their way count.
OccupiedByMoves(ad, dir) ==
  \E i \in DOMAIN ad.pendingMoves : AlbumDir(ad.pendingMoves[i].to) = dir

\* A track of the device or one on its way.
AlbumDirStillOccupied(ad, dir) ==
  \/ \E p \in DOMAIN ad.tracks : AlbumDir(p) = dir
  \/ \E i \in DOMAIN ad.pendingMoves : AlbumDir(ad.pendingMoves[i].to) = dir

MaybeQueueSidecarDelete(ad, dir) ==
  IF ~Sidecar \/ AlbumDirStillOccupied(ad, dir) THEN ad
  ELSE [ad EXCEPT !.pendingSidecarDeletes = @ \cup {dir}]

WriteSidecar(ad, dir) ==
  IF ~Sidecar THEN ad
  ELSE [ad EXCEPT !.pendingSidecarWrites = @ \cup {dir},
                  !.pendingSidecarDeletes = @ \ {dir},
                  !.managedCovers = @ \cup {dir}]

\* Faulty TrackMoves: managedFiles does not follow.
TrackMovesUnmanaged(ad, old, new) ==
  [ad EXCEPT !.allocatedPaths = (@ \ {old}) \cup {new},
             !.tracks = Put(Without(@, old), new, @[old])]

\* The books of a track that goes to another path. allocatedPaths,
\* managedFiles and the track list change together.
TrackMoves(ad, old, new) ==
  [ad EXCEPT
     !.allocatedPaths = (@ \ {old}) \cup {new},
     !.managedFiles = IF old \in @ THEN (@ \ {old}) \cup {new} ELSE @,
     !.tracks = Put(Without(@, old), new, @[old])]

\* Faulty RelocateTrack: the move is not queued.
RelocateOnPaper(ad, old, home) ==
  LET new == Deduplicate(home, ad.allocatedPaths)
  IN RekeyPendingWrites(TrackMoves(ad, old, new), old, new)

\* The file itself moves at the next save.
RelocateTrack(ad, old, home) ==
  LET new == Deduplicate(home, ad.allocatedPaths)
      moved == [RekeyPendingWrites(TrackMoves(ad, old, new), old, new) EXCEPT
                  !.pendingMoves = Append(@, [from |-> old, to |-> new])]
  IN IF AlbumDir(old) = AlbumDir(new) THEN moved
     ELSE MaybeQueueSidecarDelete(moved, AlbumDir(old))

\* Faulty ReplaceTrackFile: the old comment is forgotten.
ReplaceWithoutComment(ad, old, new) ==
  IF old = new THEN ad ELSE RekeyPendingWrites(TrackMoves(ad, old, new), old, new)

\* The new file's comment is empty: the old comment is to be written again.
ReplaceTrackFile(ad, old, new) ==
  LET comment == ad.tracks[old].tag
      moved == IF old = new THEN ad
               ELSE RekeyPendingWrites([TrackMoves(ad, old, new) EXCEPT
                                          !.managedFiles = @ \cup {new}], old, new)
  IN QueueTagWrite(moved, new,
       [meta |-> Keep, tag |-> IF comment = "none" THEN Keep ELSE comment])

=============================================================================
